---------------------------- MODULE Conversation ----------------------------
(***************************************************************************)
(* The conversation a per-message runner carries from turn to turn: the    *)
(* session its CLI keeps, the system prompt the first turn gives it, and   *)
(* the summary a compact leaves for the next first turn.  A turn is a new  *)
(* process that founds a session or resumes one; it takes `firstTurn` and  *)
(* the summary when it begins and must give them back when it comes to     *)
(* nothing.  Compact and reflection are one-shot processes in the same     *)
(* session.  Slots, stop and the message's own fate are RunnerTurn's; of   *)
(* a killed process nothing is left, since its close is stale.             *)
(***************************************************************************)
EXTENDS Naturals, Sequences, FiniteSets
LOCAL INSTANCE FiniteSetsExt

CONSTANTS
    CvClis,         \* cliRunner
    CvMessages,     \* messages that are sent
    CvMaxEvents,    \* failures, hangs, clears, compacts, reflections, restarts
    CvLapses        \* <<cli, what>>: what the code does not survive, README

CvAllClis == {"codex", "crush", "gemini", "qwen"}
CvLapseNames == {"dies", "hangs", "capture", "prime", "compact", "reflect", "release", "restart"}

ASSUME CvAssumption ==
    /\ CvClis \subseteq CvAllClis /\ {CvMessages, CvMaxEvents} \subseteq Nat
    /\ CvLapses \subseteq CvAllClis \X CvLapseNames

VARIABLE cv         \* the state, see CvTypeOK

CvVars == <<cv>>

(* `sessions` is what the CLI keeps on disk.  A generation of the          *)
(* conversation ends with a clear or a compact; `owed` is the summary this *)
(* one began with, named by the generation, or 0.                          *)
CvInit ==
    \E cli \in CvClis :
       cv = [cli |-> cli, queue |-> <<>>, busy |-> FALSE, first |-> TRUE, pend |-> 0, sid |-> 0, epoch |-> 1,
             turns |-> {}, shots |-> {}, compact |-> "", held |-> FALSE, primed |-> FALSE, reported |-> 0,
             sessions |-> <<>>, gen |-> 1, owed |-> 0, sent |-> 0, events |-> 0]

CvOwns(s, t) == t.epoch = s.epoch
CvMade(s, k) == k # 0 /\ s.sessions[k].made
CvLatest(s) == Max({0} \cup {k \in DOMAIN s.sessions : s.sessions[k].made})
CvLapse(s, what) == <<s.cli, what>> \in CvLapses
CvAt(at) == {t \in cv.turns : t.at = at}
CvEvent == cv.events < CvMaxEvents
CvCounted(s) == [s EXCEPT !.events = @ + 1]
CvGone(s, t) == [s EXCEPT !.turns = @ \ {t}]
CvPlace(s, t, u) == [s EXCEPT !.turns = (@ \ {t}) \cup {u}]

CvDrain(s) ==
    IF s.busy \/ s.held \/ s.queue = <<>> THEN s
    ELSE [s EXCEPT !.busy = TRUE, !.queue = Tail(@),
                   !.turns = @ \cup {[att |-> Head(s.queue), epoch |-> 0, first |-> FALSE, pend |-> 0, sess |-> 0,
                                      fresh |-> FALSE, at |-> "gate", saw |-> FALSE]}]

CvIdle(s) == CvDrain([s EXCEPT !.busy = FALSE])
CvReset(s, summary) == [s EXCEPT !.epoch = @ + 1, !.sid = 0, !.first = TRUE, !.pend = summary]
CvResetForRetry(s, summary) == [s EXCEPT !.sid = 0, !.reported = 0, !.first = TRUE, !.pend = summary]
CvPrepend(s, att) == [s EXCEPT !.queue = <<att>> \o @]

CvRestoreFirstTurn(s, t) ==
    IF ~t.first \/ s.first THEN s ELSE [s EXCEPT !.first = TRUE, !.pend = IF @ = 0 THEN t.pend ELSE @]

(* The session a process without a session id begins. *)
CvNewSession(s, made, sys, sum, gen) ==
    [s EXCEPT !.sessions = Append(@, [made |-> made, sys |-> sys, sum |-> sum, gen |-> gen])]

CvResumes(s, t) == IF s.cli # "gemini" THEN s.sid ELSE IF t.first THEN 0 ELSE CvLatest(s)

(* failTurnSpawn *)
CvSpawnFails(s, t) ==
    IF CvOwns(s, t) THEN CvIdle(CvRestoreFirstTurn(CvGone(s, t), t)) ELSE CvGone(s, t)

(* The arguments are made; the spawn works or throws. *)
CvSpawn(s, t, ok) ==
    LET k == CvResumes(s, t)
        fresh == k = 0 /\ (s.cli # "gemini" \/ t.first)
        sess == IF fresh THEN Len(s.sessions) + 1 ELSE k
        u == [t EXCEPT !.sess = sess, !.fresh = fresh, !.at = "run"]
        begun == IF fresh THEN CvNewSession(s, FALSE, t.first, t.pend, s.gen) ELSE s
        named == IF fresh /\ s.cli = "qwen" THEN [begun EXCEPT !.sid = sess, !.reported = sess] ELSE begun
    IN  IF ok THEN CvPlace(named, t, u) ELSE CvSpawnFails(named, t)

-----------------------------------------------------------------------------
CvPush ==
    /\ cv.sent < CvMessages
    /\ cv' = CvDrain([cv EXCEPT !.sent = @ + 1, !.queue = Append(@, 0)])

(* consumeFirstTurnIfNeeded, and crush's session show after a restart. *)
CvGateGrants(t) ==
    /\ t \in CvAt("gate")
    /\ LET u == [t EXCEPT !.epoch = cv.epoch, !.first = cv.first, !.pend = IF cv.first THEN cv.pend ELSE 0]
           s == CvPlace([cv EXCEPT !.first = FALSE, !.pend = IF cv.first THEN 0 ELSE @], t, u)
       IN  IF cv.cli = "crush" /\ cv.sid # 0 /\ ~cv.primed THEN cv' = CvPlace(s, u, [u EXCEPT !.at = "prime"])
           ELSE \E ok \in BOOLEAN :
                   /\ ok \/ CvEvent
                   /\ cv' = CvSpawn([IF ok THEN s ELSE CvCounted(s) EXCEPT !.primed = TRUE], u, ok)

(* Who owns the session is not asked again. *)
CvPrimeEnds(t) ==
    /\ t \in CvAt("prime")
    /\ cv' = CvSpawn([cv EXCEPT !.primed = TRUE], t, TRUE)

(* The CLI writes the session it was started without; codex names it. *)
CvFounds(t) ==
    /\ t \in CvAt("run") /\ t.fresh /\ ~CvMade(cv, t.sess)
    /\ cv' = LET s == [cv EXCEPT !.sessions[t.sess].made = TRUE]
             IN  IF cv.cli = "codex" /\ CvOwns(cv, t) THEN [s EXCEPT !.sid = t.sess, !.reported = t.sess] ELSE s

(* The result, or for codex and crush an answer. *)
CvResult(t) ==
    /\ t \in CvAt("run") /\ CvMade(cv, t.sess) /\ ~t.saw
    /\ cv' = CvPlace(cv, t, [t EXCEPT !.saw = TRUE])

(* The CLI was given a session that is not there. *)
CvMissing(s, t) == ~t.fresh /\ ~CvMade(s, t.sess)

(* The conversation is lost with its session; the message is tried again. *)
CvStartOver(s, t, summary) == CvIdle(CvPrepend(CvResetForRetry(CvGone(s, t), summary), t.att))

CvCodexClose(s, t) == IF CvMissing(s, t) THEN CvStartOver(s, t, s.pend) ELSE CvIdle(CvGone(s, t))

CvGeminiClose(s, t) == CvIdle(IF t.saw THEN CvGone(s, t) ELSE CvRestoreFirstTurn(CvGone(s, t), t))

CvQwenClose(s, t) ==
    IF CvMissing(s, t) THEN CvStartOver(s, t, t.pend)
    ELSE IF t.saw THEN CvIdle(CvGone(s, t))
    ELSE LET u == IF t.fresh /\ s.sid = t.sess THEN [s EXCEPT !.sid = 0, !.reported = 0] ELSE s
         IN  CvIdle(CvRestoreFirstTurn(CvGone(u, t), t))

(* finishCrushTurn; the uuid and the usage are asked of another process. *)
CvCrushClose(s, t) ==
    IF t.saw THEN CvPlace(s, t, [t EXCEPT !.at = "capture"])
    ELSE IF CvMissing(s, t) THEN CvStartOver(s, t, t.pend)
    ELSE CvIdle(CvRestoreFirstTurn(CvGone(s, t), t))

(* A compact that waits for the turn does not look at firstTurn again.     *)
CvCompactAware(s) == s.compact # "wait" \/ ~s.first \/ CvLapse(s, "compact")

CvClose(t) ==
    /\ t \in CvAt("run")
    /\ t.saw \/ CvMissing(cv, t) \/ CvEvent
    /\ cv.cli = "codex" /\ t.first /\ ~CvMade(cv, t.sess) => CvLapse(cv, "dies")
    /\ LET s == IF t.saw THEN cv ELSE [cv EXCEPT !.events = IF CvMissing(cv, t) THEN @ ELSE @ + 1]
       IN  cv' = CASE ~CvOwns(cv, t)      -> CvGone(cv, t)
                   [] cv.cli = "codex"    -> CvCodexClose(s, t)
                   [] cv.cli = "gemini"   -> CvGeminiClose(s, t)
                   [] cv.cli = "qwen"     -> CvQwenClose(s, t)
                   [] cv.cli = "crush"    -> CvCrushClose(s, t)
    /\ CvCompactAware(cv')

(* The mutant: the uuid is captured after the turn was let go. *)
MutCvCaptureEnds(t) ==
    /\ t \in CvAt("capture")
    /\ cv' = CvIdle(CvGone(cv, t))

CvCaptureEnds(t) ==
    /\ t \in CvAt("capture")
    /\ \E ok \in BOOLEAN :
          /\ ok \/ (CvEvent /\ (cv.sid # 0 \/ CvLapse(cv, "capture")))
          /\ cv' = IF ~CvOwns(cv, t) THEN CvGone(cv, t)
                   ELSE LET s == IF ok THEN cv ELSE CvCounted(cv)
                        IN  CvIdle(CvGone(IF ok /\ cv.sid = 0
                                          THEN [s EXCEPT !.sid = CvLatest(cv), !.reported = CvLatest(cv)]
                                          ELSE s, t))

-----------------------------------------------------------------------------
(* recoverHungTurn: by the watchdog, which sits out a compact, or by       *)
(* qwen's own ceiling and loop guard.  qwen's session is neutralized, but  *)
(* for a turn that only lived too long; its message alone is tried again.  *)
CvHang(t) ==
    /\ t \in CvAt("run") \cup CvAt("capture") /\ CvOwns(cv, t) /\ CvEvent
    /\ ~cv.held \/ cv.cli = "qwen"
    /\ t.first /\ (cv.cli \in {"crush", "qwen"} \/ ~CvMade(cv, t.sess)) => CvLapse(cv, "hangs")
    /\ \E lifetime \in BOOLEAN :
          LET killed == [CvGone(CvCounted(cv), t) EXCEPT !.epoch = @ + 1, !.shots = {x \in @ : x.at # "run"}]
              drops == cv.cli = "qwen" /\ cv.sid # 0 /\ ~lifetime
              s == IF drops THEN [CvResetForRetry(killed, cv.pend) EXCEPT !.gen = @ + 1, !.owed = 0] ELSE killed
              again == cv.cli = "qwen" /\ t.att < IF lifetime THEN 2 ELSE 1
          IN  cv' = CvIdle(IF again THEN CvPrepend(s, t.att + 1) ELSE s)
    /\ CvCompactAware(cv')

(* clearContext; the queue was handed to the host.  RunnerTurn shows what  *)
(* a clear does to a turn that waits in the gate.                          *)
CvClear ==
    /\ ~cv.held /\ CvEvent /\ CvAt("gate") = {}
    /\ CvAt("prime") = {} \/ CvLapse(cv, "prime")
    /\ cv.compact = "" \/ CvLapse(cv, "release")
    /\ cv' = [CvReset(CvCounted(cv), 0) EXCEPT
                !.queue = <<>>, !.busy = FALSE, !.turns = CvAt("prime"), !.shots = {x \in @ : x.at # "run"},
                !.reported = 0, !.gen = @ + 1, !.owed = 0]

-----------------------------------------------------------------------------
CvCompactDone(s) == CvDrain([s EXCEPT !.compact = "", !.held = FALSE])

CvCompact ==
    /\ ~cv.held /\ cv.compact = "" /\ CvEvent
    /\ cv' = [CvCounted(cv) EXCEPT !.compact = "ask", !.held = TRUE]

(* fetchExistingMemories has answered; is there a session to summarize? *)
CvCompactAsks ==
    /\ cv.compact = "ask"
    /\ cv' = IF cv.first \/ (cv.cli \in {"codex", "crush"} /\ cv.sid = 0) THEN CvCompactDone(cv)
             ELSE [cv EXCEPT !.compact = "wait"]

MutCvCompactWaits ==
    /\ cv.compact = "wait"
    /\ cv' = [cv EXCEPT !.compact = "shot", !.shots = @ \cup {[by |-> "compact", at |-> "gate", sess |-> 0]}]

(* waitOcIdle: the turn has ended, or it takes more than two minutes. *)
CvCompactWaits ==
    /\ cv.compact = "wait"
    /\ \/ /\ ~cv.busy
          /\ cv' = [cv EXCEPT !.compact = "shot", !.shots = @ \cup {[by |-> "compact", at |-> "gate", sess |-> 0]}]
       \/ cv.busy /\ CvEvent /\ cv' = CvCompactDone(CvCounted(cv))

(* noteTaskDone: nothing is running now. *)
CvReflect ==
    /\ ~cv.busy /\ cv.sid # 0 /\ CvEvent /\ \A x \in cv.shots : x.by # "reflect"
    /\ cv' = [CvCounted(cv) EXCEPT !.shots = @ \cup {[by |-> "reflect", at |-> "gate", sess |-> 0]}]

(* runOneShot has its slot: the session is the runner's of now. *)
CvShotStarts(x) ==
    /\ x \in cv.shots /\ x.at = "gate"
    /\ LET k == IF cv.cli = "gemini" THEN CvLatest(cv) ELSE cv.sid
           fresh == k = 0 /\ cv.cli # "gemini"
       IN  /\ fresh /\ cv.cli = "crush" /\ x.by = "reflect" => CvLapse(cv, "reflect")
           /\ cv' = [IF fresh THEN CvNewSession(cv, TRUE, FALSE, 0, 0) ELSE cv
                       EXCEPT !.shots = (@ \ {x}) \cup
                                 {[x EXCEPT !.at = "run", !.sess = IF fresh THEN Len(cv.sessions) + 1 ELSE k]}]

(* resetWithSummary, with what the one-shot made of its session. *)
CvCompacted(s, summary) ==
    [CvReset(s, summary) EXCEPT !.reported = 0, !.gen = @ + 1, !.owed = s.gen + 1]

CvShotEnds(x) ==
    /\ x \in cv.shots /\ x.at = "run"
    /\ \E ok \in BOOLEAN :
          /\ ok => CvMade(cv, x.sess)
          /\ ok \/ CvEvent \/ ~CvMade(cv, x.sess)
          /\ LET s == [IF ok THEN cv ELSE [cv EXCEPT !.events = IF CvEvent THEN @ + 1 ELSE @]
                         EXCEPT !.shots = @ \ {x}]
             IN  cv' = CASE x.by = "reflect" -> s
                         [] x.by = "compact" /\ ok ->
                              CvCompactDone(CvCompacted(s, cv.sessions[x.sess].gen + 1))
                         [] x.by = "compact" /\ ~ok -> CvCompactDone(s)

(* The watchdog takes the hold of a compact away after 15 minutes; without *)
(* the lapse, only when no message could begin and no clear follows.       *)
CvCompactStuck ==
    /\ cv.held /\ CvEvent
    /\ CvLapse(cv, "release") \/ (~cv.busy /\ cv.queue = <<>> /\ cv.sent = CvMessages)
    /\ cv' = CvDrain([CvCounted(cv) EXCEPT !.held = FALSE])

-----------------------------------------------------------------------------
(* The session is deleted behind the daemon's back. *)
CvVanishes ==
    /\ cv.cli # "gemini" /\ CvMade(cv, cv.sid) /\ CvEvent
    /\ \A p \in cv.turns \cup cv.shots : p.sess # cv.sid
    /\ cv' = [CvCounted(cv) EXCEPT !.sessions[cv.sid].made = FALSE, !.owed = 0]

(* A new process, with the session id the server was told of.  gemini      *)
(* tells of none and begins anew.                                          *)
CvRestart ==
    /\ CvEvent
    /\ \/ /\ cv.pend = 0
          /\ \A t \in cv.turns : t.pend # 0 => CvMade(cv, t.sess) /\ cv.reported = t.sess
       \/ CvLapse(cv, "restart")
    /\ LET s == [CvCounted(cv) EXCEPT !.turns = {}, !.shots = {}, !.busy = FALSE, !.compact = "", !.held = FALSE,
                                      !.primed = FALSE, !.pend = 0, !.epoch = @ + 1]
       IN  cv' = CvDrain(IF cv.cli = "gemini"
                         THEN [s EXCEPT !.first = TRUE, !.sessions = <<>>, !.gen = @ + 1, !.owed = 0]
                         ELSE [s EXCEPT !.first = cv.reported = 0, !.sid = cv.reported])

-----------------------------------------------------------------------------
CvTurnStep ==
    \E t \in cv.turns :
       \/ CvGateGrants(t) \/ CvPrimeEnds(t) \/ CvFounds(t) \/ CvResult(t)
       \/ CvClose(t) \/ CvCaptureEnds(t) \/ CvHang(t)

CvNext ==
    \/ CvPush \/ CvTurnStep \/ CvClear
    \/ CvCompact \/ CvCompactAsks \/ CvCompactWaits \/ CvCompactStuck
    \/ CvReflect \/ \E x \in cv.shots : CvShotStarts(x) \/ CvShotEnds(x)
    \/ CvVanishes \/ CvRestart

CvSpec == CvInit /\ [][CvNext]_CvVars

-----------------------------------------------------------------------------
CvTypeOK ==
    /\ cv.cli \in CvClis /\ cv.compact \in {"", "ask", "wait", "shot"}
    /\ {cv.busy, cv.first, cv.held, cv.primed} \subseteq BOOLEAN
    /\ cv.queue \in Seq(0 .. 2)
    /\ {cv.sid, cv.reported} \subseteq 0 .. Len(cv.sessions)
    /\ \A t \in cv.turns : t.at \in {"gate", "prime", "run", "capture"} /\ t.sess \in 0 .. Len(cv.sessions)
    /\ \A x \in cv.shots : x.by \in {"compact", "reflect"} /\ x.at \in {"gate", "run"}

(* Between two turns, what the next one will say and where: a first turn   *)
(* brings the system prompt and exactly the summary this conversation      *)
(* began with; any other goes to a session that has both and is of this    *)
(* conversation, not of one that was cleared or compacted -- or it finds   *)
(* its session missing, and starts over.                                   *)
CvContextKept ==
    (\A t \in cv.turns : t.at = "gate") =>
       IF cv.first THEN cv.pend = cv.owed
       ELSE LET k == IF cv.cli = "gemini" THEN CvLatest(cv) ELSE cv.sid
            IN  /\ k # 0
                /\ CvMade(cv, k) => cv.sessions[k].sys /\ cv.sessions[k].sum = cv.owed
                                    /\ cv.sessions[k].gen = cv.gen

CvWriters == {p \in cv.turns \cup cv.shots : p.at = "run" /\ p.sess # 0}

(* A busy runner has a turn that will let it go, and neither a second turn *)
(* nor a compact ever writes in the session a turn is in.                  *)
CvSoleTurn ==
    /\ cv.busy => \E t \in cv.turns : t.at = "gate" \/ CvOwns(cv, t)
    /\ \A p, q \in CvWriters :
          p.sess = q.sess /\ p # q => \E x \in {p, q} \cap cv.shots : x.by = "reflect"

(* A reflection never writes in the session of a turn (noteTaskDone:       *)
(* "Guards: agente idle (nunca escrever na sessão em voo)").               *)
CvReflectsAlone == \A p, q \in CvWriters : p.sess = q.sess => p = q
=============================================================================
