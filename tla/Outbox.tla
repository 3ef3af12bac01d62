------------------------------- MODULE Outbox -------------------------------
(***************************************************************************)
(* What the daemon sends to the orchestrator.  A frame goes to the socket  *)
(* when it is OPEN and not clogged; a critical one that cannot go waits in *)
(* outboundQueue for the next `open`, and the frames of a turn's progress  *)
(* (thinking, tool_use) make room there for the ones with its outcome      *)
(* (text, error, hung, exit).  Every other frame is dropped.               *)
(*                                                                         *)
(* "Sent" means given to the socket: there is no acknowledgement.  The     *)
(* frames are 1, 2, ... in the order the daemon makes them.                *)
(***************************************************************************)
EXTENDS Naturals, Sequences, FiniteSets
LOCAL INSTANCE SequencesExt

CONSTANTS
    OutHigh,            \* the frames HIGH_PRIORITY_TYPES names
    OutLow,             \* the other critical ones
    OutMax,             \* createOutboundQueue's max
    OutFrames,          \* bound on the frames of a behaviour
    OutTurns            \* bound on the changes of the channel

ASSUME OutAssumption ==
    /\ OutFrames \in Nat /\ OutTurns \in Nat /\ OutMax \in Nat \ {0}
    /\ OutHigh \cup OutLow \subseteq 1..OutFrames /\ OutHigh \cap OutLow = {}

VARIABLE o              \* the state, see OutTypeOK

OutVars == o

OutInit == o = [canal |-> "closed", fila |-> <<>>, sent |-> <<>>, evicted |-> {}, next |-> 0, turns |-> 0]

(* evictOne: the oldest of low priority, or else the oldest. *)
EvictOne(s) ==
    LET low == SelectInSeq(s.fila, LAMBDA f : f \notin OutHigh)
        i   == IF low = 0 THEN 1 ELSE low
    IN  [s EXCEPT !.fila = RemoveAt(@, i), !.evicted = @ \cup {s.fila[i]}]

EnqueueCritical(s, f) ==
    IF f \notin OutHigh \cup OutLow THEN s
    ELSE LET t == [s EXCEPT !.fila = Append(@, f)]
         IN  IF Len(t.fila) > OutMax THEN EvictOne(t) ELSE t

Turn(s, c) == [s EXCEPT !.canal = c, !.turns = @ + 1]

(* A flush that empties the queue, whatever went. *)
MutFlush(s, n) == [s EXCEPT !.sent = @ \o SubSeq(s.fila, 1, n), !.fila = <<>>]

(* flushOutboundQueue: the first n frames go, in order. *)
Flush(s, n) == [s EXCEPT !.sent = @ \o SubSeq(s.fila, 1, n), !.fila = SubSeq(@, n + 1, Len(@))]

-----------------------------------------------------------------------------
(* send: to the socket, or by trySendOutbound into the queue; ws.send may  *)
(* throw on a socket that is closing.                                      *)
OutSend ==
    /\ o.next < OutFrames
    /\ \E throws \in BOOLEAN :
          LET f == o.next + 1
              s == [o EXCEPT !.next = f]
          IN  o' = IF o.canal = "open" /\ ~throws THEN [s EXCEPT !.sent = Append(@, f)]
                   ELSE EnqueueCritical(s, f)

(* `open`: the hello, and then the queue, until a send throws or clogs.    *)
OutOpens ==
    /\ o.canal = "closed" /\ o.turns < OutTurns
    /\ \E n \in 0..Len(o.fila), canal \in {"open", "clogged"} :
          /\ canal = "clogged" => n > 0
          /\ o' = Turn(Flush(o, n), canal)

(* bufferedAmount passes WS_MAX_BUFFERED, or falls back: nobody flushes.   *)
OutClogs == o.canal = "open" /\ o.turns < OutTurns /\ o' = Turn(o, "clogged")
OutDrains == o.canal = "clogged" /\ o' = [o EXCEPT !.canal = "open"]

OutCloses == o.canal # "closed" /\ o.turns < OutTurns /\ o' = Turn(o, "closed")

OutNext == OutSend \/ OutOpens \/ OutClogs \/ OutDrains \/ OutCloses

OutSpec == OutInit /\ [][OutNext]_OutVars

-----------------------------------------------------------------------------
OutTypeOK ==
    /\ o.canal \in {"closed", "open", "clogged"}
    /\ o.fila \in Seq(1..OutFrames) /\ o.sent \in Seq(1..OutFrames)
    /\ o.evicted \subseteq 1..OutFrames /\ o.next \in 0..OutFrames /\ o.turns \in 0..OutTurns

(* A critical frame is in one place, whatever opens, clogs or throws: sent *)
(* once, waiting, or pushed out of a full queue.                           *)
OutKept ==
    \A f \in 1..o.next :
        LET places == <<ToSet(o.fila), ToSet(o.sent), o.evicted>>
        IN  /\ f \in OutHigh \cup OutLow => Cardinality({i \in 1..3 : f \in places[i]}) = 1
            /\ Cardinality({i \in DOMAIN o.sent : o.sent[i] = f}) <= 1
=============================================================================
