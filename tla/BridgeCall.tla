----------------------------- MODULE BridgeCall -----------------------------
(***************************************************************************)
(* One tool call of an agent: its MCP bridge posts it to the relay in the  *)
(* daemon, which checks who is calling and forwards it to the server.      *)
(* Every try of the bridge is a request of its own, up to four of them     *)
(* with a pause between, and a try that was given up may still be under    *)
(* way in the relay or at the server.                                      *)
(*                                                                         *)
(* The server is external: a request it got is carried out or refused, and *)
(* its answer arrives or is lost.  A daemon that starts refuses everybody  *)
(* until its self-test of the peer's pid has passed; one that restarts     *)
(* drops every request.                                                    *)
(*                                                                         *)
(* Left out: sealing and opening the contents, the path's checks, and the  *)
(* bridge without a socket, which posts to the server itself.              *)
(***************************************************************************)
EXTENDS Naturals, FiniteSets

CONSTANTS
    BridgeAttempts,     \* withBridgeRetry's attempts
    BridgeSelfTests,    \* SELF_TEST_TENTATIVAS
    BridgeMaxRestarts   \* bound on restarts of the daemon

ASSUME BridgeAssumption ==
    BridgeAttempts \in Nat \ {0} /\ BridgeSelfTests \in Nat \ {0} /\ BridgeMaxRestarts \in Nat

VARIABLE b              \* the state, see BridgeTypeOK

BridgeVars == b

(* One try more than withBridgeRetry has, for a bridge that miscounts.     *)
Tries == 1..(BridgeAttempts + 1)

(* at: where the call is; try: its current try; req: where each try is in  *)
(* the relay, and gone whether its client is; server: what became of it.   *)
BridgeInit ==
    b = [at |-> "idle", try |-> 0, relay |-> "testing", tests |-> 0, restarts |-> 0,
         req |-> [t \in Tries |-> "none"], gone |-> [t \in Tries |-> FALSE],
         server |-> [t \in Tries |-> "none"]]

UnderWay(t) == b.req[t] \in {"peer", "body", "fetch"}

(* A retry that counts one try too few. *)
MutTryFails(s, transient) ==
    [s EXCEPT !.at = IF transient /\ s.try <= BridgeAttempts THEN "pause" ELSE "error"]

(* The catch of withBridgeRetry. *)
TryFails(s, transient) ==
    [s EXCEPT !.at = IF transient /\ s.try < BridgeAttempts THEN "pause" ELSE "error"]

(* The answer of a try: the bridge hears it if it still waits for it.      *)
Answer(s, t, status) ==
    LET u == [s EXCEPT !.req[t] = "over"]
    IN  CASE s.gone[t] \/ s.try # t \/ s.at # "open" -> {u}
          [] status = "2xx" -> {[u EXCEPT !.at = "done"]}
          [] status = "503" -> {TryFails(u, TRUE)}
          \* isTransientBridgeError looks for "502" or "timeout" in the text, whatever the status
          [] OTHER -> {TryFails(u, transient) : transient \in BOOLEAN}

-----------------------------------------------------------------------------
(* postJSON: the first try, and after the pause the next one.              *)
NextTry ==
    /\ b.at \in {"idle", "pause"}
    /\ b' = [b EXCEPT !.at = "open", !.try = @ + 1]

(* ECONNREFUSED, ENOENT: no daemon behind the socket. *)
ConnectFails(t) == b.at = "open" /\ b.try = t /\ b.req[t] = "none" /\ b' = TryFails([b EXCEPT !.req[t] = "over"], TRUE)

(* handleInner up to its first await; 503 while the relay is not ready.    *)
Arrives(t) ==
    /\ b.at = "open" /\ b.try = t /\ b.req[t] = "none"
    /\ IF b.relay = "enforced" THEN b' = [b EXCEPT !.req[t] = "peer"] ELSE b' \in Answer(b, t, "503")

(* resolvePeerAgentId ends: the client is gone, is another agent's, may    *)
(* not do this in the turn of another person, or goes on.                  *)
PeerResolved(t) ==
    /\ b.req[t] = "peer"
    /\ IF b.gone[t] THEN b' = [b EXCEPT !.req[t] = "over"]
       ELSE b' \in Answer(b, t, "4xx") \cup {[b EXCEPT !.req[t] = "body"]}

(* The body is there, or too large, or must be sealed and cannot be; then  *)
(* the fetch starts.                                                       *)
BodyRead(t) ==
    /\ b.req[t] = "body"
    /\ IF b.gone[t] THEN b' = [b EXCEPT !.req[t] = "over"]
       ELSE b' \in Answer(b, t, "4xx") \cup {[b EXCEPT !.req[t] = "fetch", !.server[t] = "sent"]}

(* The server carries a request out, even one nobody waits for any more.   *)
ServerApplies(t) == b.server[t] = "sent" /\ b' = [b EXCEPT !.server[t] = "applied"]
ServerRefuses(t) == b.server[t] = "sent" /\ b' = [b EXCEPT !.server[t] = "refused"]

UpstreamAnswers(t) ==
    /\ b.req[t] = "fetch" /\ b.server[t] \in {"applied", "refused"} /\ ~b.gone[t]
    /\ b' \in Answer(b, t, IF b.server[t] = "applied" THEN "2xx" ELSE "other")

(* 25 s, or the network: "relay failed", a 502. *)
UpstreamFails(t) == b.req[t] = "fetch" /\ ~b.gone[t] /\ b' \in Answer(b, t, "503")

(* A relay that lets the fetch of a client that is gone run. *)
MutClientGone(t) == b.req[t] = "fetch" /\ b.gone[t] /\ FALSE /\ b' = b

(* onClientGone: the fetch of a client that is gone is aborted.            *)
ClientGone(t) == b.req[t] = "fetch" /\ b.gone[t] /\ b' = [b EXCEPT !.req[t] = "over"]

(* 30 s without an answer: the bridge destroys the request. *)
BridgeTimeout ==
    /\ b.at = "open" /\ b.req[b.try] # "over"
    /\ b' = TryFails([b EXCEPT !.gone[b.try] = TRUE,
                               !.req[b.try] = IF @ = "none" THEN "over" ELSE @], TRUE)

-----------------------------------------------------------------------------
(* defaultPeerPidSelfTest: as many tries as there are, then fail-closed.   *)
SelfTest ==
    /\ b.relay = "testing"
    /\ \/ b' = [b EXCEPT !.relay = "enforced"]
       \/ b' = [b EXCEPT !.tests = @ + 1, !.relay = IF b.tests + 1 = BridgeSelfTests THEN "closed" ELSE @]

(* The daemon restarts: what was under way is cut (ECONNRESET).            *)
DaemonRestarts ==
    /\ b.restarts < BridgeMaxRestarts
    /\ LET s == [b EXCEPT !.relay = "testing", !.tests = 0, !.restarts = @ + 1,
                          !.req = [t \in Tries |-> IF UnderWay(t) THEN "over" ELSE @[t]]]
       IN  b' = IF b.at = "open" /\ UnderWay(b.try) THEN TryFails(s, TRUE) ELSE s

BridgeNext ==
    \/ NextTry \/ BridgeTimeout \/ SelfTest \/ DaemonRestarts
    \/ \E t \in Tries :
          \/ ConnectFails(t) \/ Arrives(t) \/ PeerResolved(t) \/ BodyRead(t) \/ ServerApplies(t)
          \/ ServerRefuses(t) \/ UpstreamAnswers(t) \/ UpstreamFails(t) \/ ClientGone(t)

(* Timers fire, reads of the operating system have a ceiling of their own, *)
(* and a closed connection is noticed.  The server owes nothing, nor does  *)
(* the relay's own ceiling: it is cleared once the headers are there.      *)
BridgeFairness ==
    /\ WF_b(BridgeTimeout) /\ WF_b(NextTry /\ b.at = "pause")
    /\ \A t \in Tries : WF_b(PeerResolved(t) \/ BodyRead(t) \/ ClientGone(t))

BridgeSpec == BridgeInit /\ [][BridgeNext]_BridgeVars /\ BridgeFairness

-----------------------------------------------------------------------------
BridgeTypeOK ==
    /\ b.at \in {"idle", "open", "pause", "done", "error"} /\ b.try \in 0..BridgeAttempts
    /\ b.relay \in {"testing", "enforced", "closed"} /\ b.tests \in 0..BridgeSelfTests
    /\ b.restarts \in 0..BridgeMaxRestarts
    /\ b.req \in [Tries -> {"none", "peer", "body", "fetch", "over"}] /\ b.gone \in [Tries -> BOOLEAN]
    /\ b.server \in [Tries -> {"none", "sent", "applied", "refused"}]

(* "Sem isso ... tool call pendurada forever" and "não deixa fetch órfão": *)
(* a call is answered, with a result or an error, whatever the server and  *)
(* a restart do, and then nothing of it is under way in the relay.         *)
BridgeSettles ==
    (b.at # "idle") ~> (b.at \in {"done", "error"} /\ \A t \in Tries : ~UnderWay(t))
=============================================================================
