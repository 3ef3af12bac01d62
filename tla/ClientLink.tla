----------------------------- MODULE ClientLink -----------------------------
(***************************************************************************)
(* The daemon's connection to the orchestrator, and what happens when two  *)
(* processes hold the same token (T-846).  A process that starts says      *)
(* hello and takes the token; the one that had it is closed with 4000,     *)
(* stops its local CLIs and comes back after a cooldown with a passive     *)
(* hello, which the server refuses with 4001 while the token is taken.     *)
(* Any other close leads back to the normal hello.                         *)
(*                                                                         *)
(* The server is external: only the part the daemon counts on is here, who *)
(* owns the token, and the messages of a connection, in order.  A          *)
(* connection can be lost without either side noticing: the daemon learns  *)
(* it from its heartbeat, the server from its own.                         *)
(*                                                                         *)
(* One agent of a project with an E2EE key stands for the CLIs.  Its       *)
(* agent:spawn, replayed by the server to the process it accepts, is put   *)
(* off for 8 s when the key is not there yet.  Frames are Outbox's; delays *)
(* and their doubling are left out: any timer may fire at any time.        *)
(***************************************************************************)
EXTENDS Naturals, Sequences, FiniteSets
LOCAL INSTANCE SequencesExt

CONSTANTS
    LinkProcs,          \* the processes that hold the token
    LinkMaxStarts,      \* bound on starts of a process
    LinkMaxFaults       \* bound on connections lost or refused

ASSUME LinkAssumption ==
    0 \notin LinkProcs /\ LinkMaxStarts \in Nat /\ LinkMaxFaults \in Nat

VARIABLE k              \* the state, see LinkTypeOK

LinkVars == k

All(x) == [p \in LinkProcs |-> x]

(* at: where connect() and its timer are; net: the connection underneath;  *)
(* owner: whom the server gives the token, through a connection that may   *)
(* be a ghost; ousts: live connections taken from another process; plain:  *)
(* closes that are no handoff.                                             *)
LinkInit ==
    k = [at |-> All("dead"), passivo |-> All(FALSE), net |-> All("none"), asks |-> All("none"),
         down |-> All(<<>>), cli |-> All("none"), owner |-> 0, ghost |-> FALSE,
         starts |-> 0, plain |-> 0, ousts |-> 0, faults |-> 0]

Lives(p) == k.at[p] # "dead"

(* The connection of p is gone: nothing on it arrives any more, and a      *)
(* server that had it as the owner's still does.                           *)
Gone(s, p) ==
    [s EXCEPT !.net[p] = "none", !.asks[p] = "none", !.down[p] = <<>>,
              !.ghost = @ \/ s.owner = p]

(* agendarConnect: one timer, which calls connect. *)
AgendarConnect(s, p) == [s EXCEPT !.at[p] = "wait"]

(* stopLocalClis stops the runners there are; a spawn that waits for its   *)
(* key is not one.                                                         *)
StopLocalClis(s, p) == [s EXCEPT !.cli[p] = IF @ = "waiting" THEN @ ELSE "none"]

(* A superseded process that waits and then says a normal hello. *)
MutAgendarRetomadaPassiva(s, p, occupied) ==
    AgendarConnect(IF occupied THEN s ELSE StopLocalClis(s, p), p)

(* One that takes the two codes for each other. *)
MutRetomadaSwapped(s, p, occupied) ==
    LET t == [s EXCEPT !.passivo[p] = TRUE]
    IN  AgendarConnect(IF occupied THEN StopLocalClis(t, p) ELSE t, p)

(* agendarRetomadaPassiva, on 4000 "superseded" and 4001 "occupied": what  *)
(* is left out is the delay.                                               *)
AgendarRetomadaPassiva(s, p, occupied) ==
    LET t == [s EXCEPT !.passivo[p] = TRUE]
    IN  AgendarConnect(IF occupied THEN t ELSE StopLocalClis(t, p), p)

(* A close that is no handoff: the normal hello again, with a backoff. *)
ClosePlain(s, p) ==
    AgendarConnect([Gone(s, p) EXCEPT !.passivo[p] = FALSE, !.plain = @ + 1], p)

(* A handoff close that forgets to come back when the token is occupied.   *)
MutCloseHandoff(s, p, occupied) ==
    IF occupied THEN Gone(s, p)
    ELSE AgendarRetomadaPassiva(Gone(s, p), p, occupied)

CloseHandoff(s, p, occupied) == AgendarRetomadaPassiva(Gone(s, p), p, occupied)

-----------------------------------------------------------------------------
(* A process starts, or starts again: connect at once, with a plain hello. *)
StartProc(p) ==
    /\ ~Lives(p) /\ k.starts < LinkMaxStarts
    /\ k' = [k EXCEPT !.at[p] = "dial", !.starts = @ + 1, !.passivo[p] = FALSE]

(* The process ends; its CLIs end with it. *)
ProcDies(p) ==
    /\ Lives(p) /\ k.faults < LinkMaxFaults
    /\ k' = [Gone(k, p) EXCEPT !.at[p] = "dead", !.cli[p] = "none", !.faults = @ + 1]

(* The timer of agendarConnect. *)
ConnectTimer(p) == k.at[p] = "wait" /\ k' = [k EXCEPT !.at[p] = "dial"]

(* `open`: hello, passive or not. *)
Opens(p) ==
    /\ k.at[p] = "dial"
    /\ k' = [k EXCEPT !.at[p] = "hello", !.net[p] = "ok",
                      !.asks[p] = IF k.passivo[p] THEN "passive" ELSE "active"]

DialFails(p) ==
    /\ k.at[p] = "dial" /\ k.faults < LinkMaxFaults
    /\ k' = ClosePlain([k EXCEPT !.faults = @ + 1], p)

(* The connection dies and neither side notices. *)
LinkLost(p) ==
    /\ k.net[p] = "ok" /\ k.faults < LinkMaxFaults
    /\ k' = [k EXCEPT !.net[p] = "lost", !.asks[p] = "none", !.down[p] = <<>>, !.faults = @ + 1]

(* The heartbeat, or the handshake timeout: terminate, and so `close`.     *)
Heartbeat(p) == k.net[p] = "lost" /\ k' = ClosePlain(k, p)

-----------------------------------------------------------------------------
(* The server: who owns the token. *)
OwnerReached == k.owner # 0 /\ ~k.ghost /\ k.net[k.owner] = "ok"

Accept(s, p) ==
    [s EXCEPT !.owner = p, !.ghost = FALSE, !.asks[p] = "none", !.down[p] = <<"welcome", "spawn">>]

ServerHearsHello(p) ==
    /\ k.asks[p] = "active"
    /\ k' = IF OwnerReached /\ k.owner # p
            THEN [Accept(k, p) EXCEPT !.down[k.owner] = Append(@, "4000"), !.ousts = @ + 1]
            ELSE Accept(k, p)

ServerHearsPassive(p) ==
    /\ k.asks[p] = "passive"
    /\ k' = IF k.owner \in {0, p} THEN Accept(k, p)
            ELSE [k EXCEPT !.asks[p] = "none", !.down[p] = <<"4001">>]

(* The server drops a connection that does not answer. *)
ServerTimesOut ==
    /\ k.owner # 0 /\ ~OwnerReached
    /\ k' = [k EXCEPT !.owner = 0, !.ghost = FALSE]

-----------------------------------------------------------------------------
Took(p) == [k EXCEPT !.down[p] = Tail(@)]

(* daemon:welcome: accepted, the normal reconnection is in force again. *)
Welcome(p) ==
    /\ k.down[p] # <<>> /\ Head(k.down[p]) = "welcome"
    /\ k' = [Took(p) EXCEPT !.at[p] = "up", !.passivo[p] = FALSE]

(* agent:spawn, with the project key or before it. *)
SpawnArrives(p) ==
    /\ k.down[p] # <<>> /\ Head(k.down[p]) = "spawn"
    /\ \E late \in BOOLEAN :
          k' = [Took(p) EXCEPT !.cli[p] = IF @ \in {"run", "late"} \/ ~late THEN "run" ELSE "waiting"]

(* project_key:for_daemon, or the 8 s are over: the spawn goes on, late if *)
(* the process has lost the token meanwhile.                               *)
SpawnWaitEnds(p) ==
    k.cli[p] = "waiting" /\ k' = [k EXCEPT !.cli[p] = IF k.passivo[p] THEN "late" ELSE "run"]

ClosedByServer(p) ==
    /\ k.down[p] # <<>> /\ Head(k.down[p]) \in {"4000", "4001"}
    /\ k' = CloseHandoff(k, p, Head(k.down[p]) = "4001")

LinkNext ==
    \/ ServerTimesOut
    \/ \E p \in LinkProcs :
          \/ StartProc(p) \/ ProcDies(p) \/ ConnectTimer(p) \/ Opens(p) \/ DialFails(p)
          \/ LinkLost(p) \/ Heartbeat(p) \/ ServerHearsHello(p) \/ ServerHearsPassive(p)
          \/ Welcome(p) \/ SpawnArrives(p) \/ SpawnWaitEnds(p) \/ ClosedByServer(p)

(* Timers fire, a lost connection is noticed on both sides, and what is    *)
(* sent on one that holds arrives.                                         *)
LinkFairness ==
    /\ WF_k(ServerTimesOut)
    /\ \A p \in LinkProcs :
          WF_k(\/ ConnectTimer(p) \/ Opens(p) \/ Heartbeat(p) \/ ServerHearsHello(p) \/ ServerHearsPassive(p)
               \/ Welcome(p) \/ SpawnArrives(p) \/ ClosedByServer(p))

LinkSpec == LinkInit /\ [][LinkNext]_LinkVars /\ LinkFairness

-----------------------------------------------------------------------------
LinkTypeOK ==
    /\ DOMAIN k = {"at", "passivo", "net", "asks", "down", "cli", "owner", "ghost",
                   "starts", "plain", "ousts", "faults"}
    /\ k.at \in [LinkProcs -> {"dead", "wait", "dial", "hello", "up"}]
    /\ k.passivo \in [LinkProcs -> BOOLEAN] /\ k.net \in [LinkProcs -> {"none", "ok", "lost"}]
    /\ k.asks \in [LinkProcs -> {"none", "active", "passive"}]
    /\ \A p \in LinkProcs : k.down[p] \in Seq({"welcome", "spawn", "4000", "4001"})
    /\ k.cli \in [LinkProcs -> {"none", "waiting", "run", "late"}]
    /\ k.owner \in LinkProcs \cup {0} /\ k.ghost \in BOOLEAN
    /\ {k.starts, k.plain, k.ousts, k.faults} \subseteq Nat

(* "Sem replay e sem revezamento": two processes do not take the token     *)
(* from each other in turns.  A live connection is taken from its owner at *)
(* most once per start after the first and per close that was no handoff.  *)
LinkNoRelay == k.ousts <= (k.starts + k.plain) - (IF k.starts > 0 THEN 1 ELSE 0)

(* "fica parado e tenta de novo passivo": a process that lost the token    *)
(* runs no CLI until it is welcomed again, through 4001s, losses and plain *)
(* hellos in between; but for those a deferred spawn starts meanwhile.     *)
LinkLoserStopped == \A p \in LinkProcs : k.passivo[p] => k.cli[p] # "run"

(* Of two daemons one serves: no relay, and a loser that rests. *)
LinkOneDaemon == LinkNoRelay /\ LinkLoserStopped

(* "se o vencedor morrer, o server aceita o passivo": once nothing fails   *)
(* any more, some live process is connected and stays so.                  *)
LinkRecovers ==
    <>[]((\E p \in LinkProcs : Lives(p)) => \E p \in LinkProcs : k.at[p] = "up" /\ k.owner = p)
=============================================================================
