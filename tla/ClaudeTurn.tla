----------------------------- MODULE ClaudeTurn -----------------------------
(***************************************************************************)
(* The continuous claude runner: one process that lives across turns and   *)
(* reads one line of its stdin per message.  A message is written only     *)
(* when no turn is open; the others wait in claudeWriteQueue, and in       *)
(* pendingMessages while there is no process to write to.                  *)
(*                                                                         *)
(* The process dies and is replaced for five reasons: a hard recover, a    *)
(* line it never read (the accept watch), a clear, a compact, and a        *)
(* session that no longer exists.  The first four kill it and await its    *)
(* exit; what each does after the await is a member of `kills`, run when   *)
(* the process goes, in the order in which they asked.  terminateAndWait   *)
(* also gives up after 3 s, when SIGKILL is 1.5 s old: then the chunks of  *)
(* the old process are ignored as those of a gone one are.                 *)
(*                                                                         *)
(* Messages are numbers in the order of their arrival.  The CLI is         *)
(* external: it reads its lines one by one (`init`) and answers each at    *)
(* most once (`result`).  Left out: sessions, usage, tools and notices,    *)
(* the stream events but for their effect on the state shown, and the pin  *)
(* of the mode, which nothing can move while a switch is under way.        *)
(***************************************************************************)
EXTENDS Naturals, Sequences, FiniteSets
LOCAL INSTANCE SequencesExt

CONSTANTS
    ClaudeMembers,      \* the messages that come from a member, not the owner
    ClaudeLoopStops,    \* the messages whose text is a loop-stop
    ClaudeQueue,        \* MAX_BUFFERED_MESSAGES
    ClaudeMaxMessages,  \* bound on the messages of a behaviour
    ClaudeEvents,       \* the rare events that may happen, each once
    ClaudeMaxEvents     \* bound on the rare events of a behaviour

Rare == {"recover", "silent", "nack", "clear", "compact", "release", "stop", "drain", "exit", "gone"}

ASSUME ClaudeAssumption ==
    /\ {ClaudeMaxMessages, ClaudeMaxEvents} \subseteq Nat /\ ClaudeQueue \in Nat \ {0}
    /\ ClaudeMembers \cup ClaudeLoopStops \subseteq 1..ClaudeMaxMessages
    /\ ClaudeEvents \subseteq Rare

VARIABLE c              \* the state, see ClaudeTypeOK

ClaudeVars == c

ClaudeInit ==
    c = [proc |-> "up", stdin |-> <<>>, lida |-> FALSE, sawInit |-> FALSE, mode |-> "bypass",
         restarting |-> FALSE, stopped |-> FALSE, exited |-> FALSE, invalid |-> FALSE,
         inflight |-> 0, timings |-> <<>>, writeQueue |-> <<>>, pending |-> <<>>, flush |-> <<>>,
         switching |-> 0, unaccepted |-> FALSE, restartPending |-> FALSE, replied |-> FALSE,
         kills |-> <<>>, recovering |-> FALSE, clearing |-> FALSE,
         compact |-> "none", compacting |-> FALSE, turn |-> FALSE,
         next |-> 0, anonimas |-> {}, answered |-> {}, blocked |-> {}, retained |-> {},
         left |-> ClaudeEvents]

ClaudeAlive(s) == s.proc \in {"up", "ending"}
Writable(s) == s.proc = "up"

(* Rare events, each of which may happen once. *)
May(e) == e \in c.left /\ Cardinality(ClaudeEvents \ c.left) < ClaudeMaxEvents
Spend(s, e) == [s EXCEPT !.left = @ \ {e}]

-----------------------------------------------------------------------------
(* claudePermissionModeForTurn.  A message that went through a restart has *)
(* lost its principal.                                                     *)
ModeFor(s, m) == IF m \in ClaudeMembers \ s.anonimas THEN "default" ELSE "bypass"

WriteClaudeMessage(s, m) ==
    [s EXCEPT !.timings = Append(@, m), !.inflight = m, !.unaccepted = TRUE, !.turn = TRUE,
              !.stdin = IF Writable(s) THEN Append(@, m) ELSE @]

(* sendClaudeMessage: the line itself, or first the request of its mode.   *)
SendClaudeMessage(s, m) ==
    IF ModeFor(s, m) = s.mode THEN WriteClaudeMessage(s, m)
    ELSE [s EXCEPT !.switching = m, !.turn = TRUE]

(* A turn is open: what arrives must wait. *)
TurnOpen(s) == s.inflight # 0 \/ s.switching # 0 \/ s.timings # <<>>

DrainClaudeWriteQueue(s) ==
    IF s.stopped \/ TurnOpen(s) \/ ~Writable(s) \/ s.writeQueue = <<>> THEN s
    ELSE SendClaudeMessage([s EXCEPT !.writeQueue = Tail(@)], Head(s.writeQueue))

(* takeQueuedForDrain into the host's retention. *)
TakeQueued(s) ==
    [s EXCEPT !.retained = @ \cup ToSet(s.pending) \cup ToSet(s.writeQueue),
              !.pending = <<>>, !.writeQueue = <<>>]

Refuses(s, m) == (s.restarting \/ ~Writable(s)) /\ Len(s.pending) >= ClaudeQueue

(* A push that does not look whether a turn is open. *)
MutClaudePush(s, m) ==
    LET t == IF m \in ClaudeLoopStops THEN TakeQueued(s) ELSE s
    IN  CASE t.restarting \/ ~Writable(t) ->
               IF Refuses(t, m) THEN t ELSE [t EXCEPT !.pending = Append(@, m)]
          [] t.switching # 0 -> [t EXCEPT !.writeQueue = Append(@, m)]
          [] OTHER -> SendClaudeMessage(t, m)

(* pushUserMessage, the part of the continuous claude. *)
ClaudePush(s, m) ==
    LET t == IF m \in ClaudeLoopStops THEN TakeQueued(s) ELSE s
    IN  CASE t.restarting \/ ~Writable(t) ->
               IF Refuses(t, m) THEN t ELSE [t EXCEPT !.pending = Append(@, m)]
          [] TurnOpen(t) -> [t EXCEPT !.writeQueue = Append(@, m)]
          [] OTHER -> SendClaudeMessage(t, m)

(* The CLI is idle: the only time a member's message is taken. *)
MayTakeMember(s) ==
    /\ ~s.stopped /\ ~s.exited /\ ~s.restarting /\ ClaudeAlive(s) /\ s.sawInit
    /\ s.inflight = 0 /\ s.switching = 0 /\ s.writeQueue = <<>> /\ s.pending = <<>>

(* startClaude: what waited for the process is pushed again 300 ms later,  *)
(* without its principal.                                                  *)
StartClaude(s) ==
    LET t == [s EXCEPT !.proc = "up", !.stdin = <<>>, !.lida = FALSE, !.sawInit = FALSE, !.mode = "bypass"]
    IN  IF s.pending = <<>> THEN t
        ELSE [t EXCEPT !.flush = Append(@, s.pending), !.pending = <<>>,
                       !.anonimas = @ \cup ToSet(s.pending)]

EmitExit(s) ==
    IF s.exited THEN s
    ELSE [s EXCEPT !.exited = TRUE, !.timings = <<>>, !.inflight = 0, !.unaccepted = FALSE]

(* A resend that does not ask whether the answer came during the kill. *)
MutAfterUnaccepted(s, m) ==
    LET t == [s EXCEPT !.restartPending = FALSE, !.replied = FALSE]
    IN  IF s.stopped THEN t
        ELSE StartClaude([t EXCEPT !.pending = <<m>> \o @])

(* restartClaudeUnaccepted after its await: the line is sent again only if *)
(* no result was seen meanwhile (T-760).                                   *)
AfterUnaccepted(s, m) ==
    LET t == [s EXCEPT !.restartPending = FALSE, !.replied = FALSE]
    IN  CASE s.stopped -> t
          [] s.replied -> StartClaude(t)
          [] OTHER -> StartClaude([t EXCEPT !.pending = <<m>> \o @])

(* What each kill does once the process is gone. *)
After(s, kill) ==
    CASE kill.why = "recover" ->
           IF s.stopped THEN [s EXCEPT !.recovering = FALSE]
           ELSE [StartClaude(s) EXCEPT !.recovering = FALSE, !.turn = FALSE]
      [] kill.why = "clear" -> [StartClaude(s) EXCEPT !.clearing = FALSE]
      [] kill.why = "compact" -> [s EXCEPT !.compact = "oneshot"]
      [] OTHER -> AfterUnaccepted(s, kill.item)

(* killClaudeForRestart: closes the stdin of the process and awaits its    *)
(* exit; with no process there is nothing to await.                        *)
Kill(s, why, item) ==
    LET t == [s EXCEPT !.timings = <<>>]
        k == [why |-> why, item |-> item]
    IN  IF ClaudeAlive(s) THEN [t EXCEPT !.restarting = TRUE, !.proc = "ending", !.kills = Append(@, k)]
        ELSE After(t, k)

(* The catch of sendClaudeMessage: the turn is blocked, the next one goes. *)
ModeFails(s) ==
    IF s.switching = 0 THEN s
    ELSE DrainClaudeWriteQueue([s EXCEPT !.switching = 0, !.turn = FALSE,
                                         !.blocked = @ \cup {s.switching}])

-----------------------------------------------------------------------------
ClaudePushMessage ==
    /\ c.next < ClaudeMaxMessages
    /\ LET m == c.next + 1
           s == [c EXCEPT !.next = m]
       IN  /\ ~c.stopped /\ ~c.exited
           /\ m \in ClaudeMembers => MayTakeMember(c)
           /\ c' = [ClaudePush(s, m) EXCEPT !.blocked =
                      IF Refuses(s, m) /\ m \notin ClaudeLoopStops THEN @ \cup {m} ELSE @]

(* The timer of startClaude: what the restart held is pushed. *)
FlushPending ==
    /\ c.flush # <<>>
    /\ LET Put(s, m) == ClaudePush(s, m)
       IN  c' = FoldLeft(Put, [c EXCEPT !.flush = Tail(@)], Head(c.flush))

(* The CLI reads a line: `init`.  The turn is accepted. *)
Accepted ==
    /\ ClaudeAlive(c) /\ c.stdin # <<>> /\ ~c.lida
    /\ c' = [c EXCEPT !.lida = TRUE, !.sawInit = TRUE, !.unaccepted = FALSE, !.turn = FALSE]

(* Text, thinking or a tool: the turn shows. *)
Streams == /\ ClaudeAlive(c) /\ c.lida /\ ~c.turn
           /\ c' = [c EXCEPT !.turn = TRUE]

(* A `result` closes the turn and frees the next line. *)
Result ==
    /\ ClaudeAlive(c) /\ c.lida
    /\ LET s == [c EXCEPT !.stdin = Tail(@), !.lida = FALSE, !.answered = @ \cup {Head(c.stdin)},
                          !.replied = @ \/ (c.restartPending /\ c.timings = <<>>),
                          !.inflight = 0, !.turn = FALSE,
                          !.timings = IF @ = <<>> THEN @ ELSE Tail(@)]
       IN  c' = DrainClaudeWriteQueue(s)

(* The control_response: the mode is confirmed and the line is written.    *)
(* After a stop the continuation returns: the message is nowhere.          *)
ModeAcked ==
    /\ c.switching # 0 /\ ClaudeAlive(c)
    /\ c' = IF c.stopped THEN [c EXCEPT !.switching = 0]
            ELSE WriteClaudeMessage([c EXCEPT !.switching = 0, !.mode = ModeFor(c, c.switching)], c.switching)

(* It is refused or does not come within 5 s. *)
ModeNacked ==
    /\ c.switching # 0 /\ May("nack")
    /\ c' = ModeFails(Spend(c, "nack"))

(* The exit of the process.  A lost session starts a new process at once;  *)
(* a kill leaves that to its caller; any other exit ends the runner.  Then *)
(* the pending switch fails and the callers of the kill go on.             *)
ExitOf(s) ==
    LET ido == [s EXCEPT !.proc = "none", !.stdin = <<>>, !.lida = FALSE]
        fim == CASE s.invalid /\ ~s.stopped -> StartClaude([ido EXCEPT !.invalid = FALSE])
                 [] s.restarting -> ido
                 [] OTHER -> EmitExit([ido EXCEPT !.proc = "dead"])
    IN  FoldLeft(After, [ModeFails(fim) EXCEPT !.restarting = FALSE, !.kills = <<>>], s.kills)

KilledExits == c.proc = "ending" /\ c' = ExitOf(c)

Dies == c.proc = "up" /\ May("exit") /\ c' = ExitOf(Spend(c, "exit"))

(* The session of the CLI no longer exists: it says so before it reads     *)
(* anything, and exits.                                                    *)
SessionGone ==
    /\ c.proc = "up" /\ ~c.sawInit /\ May("gone")
    /\ c' = ExitOf([Spend(c, "gone") EXCEPT !.invalid = TRUE])

(* The tick runs neither during a recover nor a compact.  It goes on after *)
(* an exit: only a stop ends the watch.                                    *)
Watched == ~c.stopped /\ ~c.recovering /\ ~c.compacting

(* tickClaudeAcceptWatch at 90 s: restartClaudeUnaccepted up to its await. *)
AcceptWatch ==
    /\ Watched /\ c.unaccepted /\ May("silent")
    /\ LET m == c.inflight
           s == [Spend(c, "silent") EXCEPT !.unaccepted = FALSE]
       IN  c' = IF m = 0 THEN s
                ELSE Kill([s EXCEPT !.inflight = 0, !.restartPending = TRUE, !.replied = FALSE],
                          "unaccepted", m)

(* recoverClaudeContinuousHang up to its await: the process is silent for  *)
(* too long, or it died in a turn.                                         *)
ClaudeHardRecover ==
    /\ Watched /\ c.turn /\ May("recover")
    /\ c' = Kill([Spend(c, "recover") EXCEPT !.recovering = TRUE], "recover", 0)

ClearContext ==
    /\ ~c.exited /\ ~c.compacting /\ ~c.clearing /\ May("clear")
    /\ c' = Kill(TakeQueued([Spend(c, "clear") EXCEPT !.clearing = TRUE]), "clear", 0)

CompactContext ==
    /\ ~c.exited /\ ~c.compacting /\ ~c.clearing /\ May("compact")
    /\ c' = Kill([Spend(c, "compact") EXCEPT !.compacting = TRUE, !.compact = "killing"], "compact", 0)

(* The summary is there, or not: then the old session goes on. *)
OneShotEnds ==
    /\ c.compact = "oneshot"
    /\ c' \in IF c.stopped THEN {[EmitExit(c) EXCEPT !.compact = "none", !.compacting = FALSE]}
              ELSE {[StartClaude(c) EXCEPT !.compact = "none", !.compacting = FALSE],
                    [StartClaude(c) EXCEPT !.compact = "summary"]}

(* 600 ms later the summary is the first message of the new session. *)
PushSummary ==
    /\ c.compact = "summary"
    /\ LET m == ClaudeMaxMessages + 1
       IN  c' = ClaudePush([c EXCEPT !.compact = "none", !.compacting = FALSE], m)

(* The watchdog gives a compact 15 minutes and then drops its flag. *)
ReleaseCompact ==
    /\ ~c.stopped /\ ~c.recovering /\ c.compacting /\ May("release")
    /\ c' = [Spend(c, "release") EXCEPT !.compacting = FALSE]

StopClaude ==
    /\ ~c.stopped /\ ~c.exited /\ May("stop")
    /\ LET s == TakeQueued([Spend(c, "stop") EXCEPT !.stopped = TRUE, !.timings = <<>>,
                                                    !.inflight = 0, !.unaccepted = FALSE])
       IN  c' = IF ClaudeAlive(s) THEN [s EXCEPT !.proc = "ending"] ELSE EmitExit(s)

(* The drain of a self-update takes what has not begun. *)
DrainTakes ==
    /\ ~c.stopped /\ ~c.exited /\ May("drain")
    /\ c' = TakeQueued(Spend(c, "drain"))

ClaudeNext ==
    \/ ClaudePushMessage \/ FlushPending \/ Accepted \/ Streams \/ Result
    \/ ModeAcked \/ ModeNacked \/ KilledExits \/ Dies \/ SessionGone
    \/ AcceptWatch \/ ClaudeHardRecover \/ ClearContext \/ CompactContext
    \/ OneShotEnds \/ PushSummary \/ ReleaseCompact \/ StopClaude \/ DrainTakes

ClaudeSpec == ClaudeInit /\ [][ClaudeNext]_ClaudeVars

-----------------------------------------------------------------------------
Texts == 1..(ClaudeMaxMessages + 1)
Lines == Seq(Texts)

ClaudeTypeOK ==
    /\ c.proc \in {"up", "ending", "dead", "none"} /\ c.mode \in {"bypass", "default"}
    /\ c.stdin \in Lines /\ c.timings \in Lines /\ c.writeQueue \in Lines /\ c.pending \in Lines
    /\ c.flush \in Seq(Lines) /\ {c.inflight, c.switching} \subseteq Texts \cup {0}
    /\ \A f \in {"lida", "sawInit", "restarting", "stopped", "exited", "invalid", "unaccepted", "turn",
                  "restartPending", "replied", "recovering", "clearing", "compacting"} : c[f] \in BOOLEAN
    /\ c.kills \in Seq([why : {"recover", "clear", "compact", "unaccepted"}, item : Texts \cup {0}])
    /\ c.compact \in {"none", "killing", "oneshot", "summary"}
    /\ c.next \in 0..ClaudeMaxMessages /\ c.left \subseteq Rare
    /\ c.anonimas \cup c.answered \cup c.blocked \cup c.retained \subseteq Texts

(* "serializa - turno em voo segura a escrita": the CLI never has two      *)
(* lines to answer, whatever restarts, refusals and late answers come      *)
(* between, because "linhas no mesmo chunk se perdem".  (A runner that was *)
(* stopped in the middle of a restart is another matter, see the README.)  *)
ClaudeOneLine == ~c.stopped => Len(c.stdin) <= 1

(* Where a message that is still to be answered can be. *)
Copies(m) ==
    LET In(q) == Cardinality({i \in DOMAIN q : q[i] = m})
    IN  In(c.stdin) + In(c.writeQueue) + In(c.pending) + In(FlattenSeq(c.flush))
          + (IF c.switching = m THEN 1 ELSE 0) + (IF m \in c.retained THEN 1 ELSE 0)

(* T-760: no text twice.  A message is in one place at a time - a queue, a *)
(* restart, the stdin, the host's retention - and in none once its result  *)
(* was seen, though a kill may race with the answer.                       *)
ClaudeOneCopy ==
    \A m \in Texts : Copies(m) <= (IF m \in c.answered THEN 0 ELSE 1)

(* A message is written alone, and once. *)
ClaudeOnce == ClaudeOneLine /\ ClaudeOneCopy

(* recoverClaudeContinuousHang "reinicia o processo e volta a aceitar      *)
(* mensagens": a process with nothing to answer, and with no kill, switch, *)
(* flush, compact or accept watch under way, leaves no message waiting.    *)
ClaudeServesQueue ==
    (/\ c.proc = "up" /\ c.stdin = <<>> /\ c.switching = 0 /\ ~c.unaccepted
     /\ c.flush = <<>> /\ c.kills = <<>> /\ c.compact = "none") => c.writeQueue = <<>>
=============================================================================
