------------------------------ MODULE LiveView ------------------------------
(***************************************************************************)
(* What the user interface shows of the messages of one agent that wait:   *)
(* the daemon publishes a snapshot of them after every change, once a      *)
(* debounce is over; the server forgets it when the connection goes.  A    *)
(* snapshot is no critical frame: one the socket does not take is dropped, *)
(* and a reconciliation every second is there to publish it again.         *)
(*                                                                         *)
(* An item that waits is the sequence of the deliveries joined in it; a    *)
(* message that a recover put back has lost its id and is Nameless.  The   *)
(* record of a delivery is its content as it came from the server.  What   *)
(* items hold, and how they are sealed, is left out.                       *)
(***************************************************************************)
EXTENDS Naturals, Sequences
LOCAL INSTANCE SequencesExt

CONSTANTS
    LvDeliveries,   \* deliveries, numbered from 1
    LvQueue,        \* MAX_BUFFERED_MESSAGES: past it a message joins an item
    LvCeiling,      \* QUEUE_LIVE_MAX_ITEMS
    LvMaxFaults,    \* bound on cuts, clogs, recovers, pauses and stops together
    LvLapses        \* subset of {"mute", "silent"}

ASSUME LvAssumption == LvQueue \in Nat \ {0} /\ LvCeiling \in Nat \ {0} /\ LvMaxFaults \in Nat

VARIABLE lv

LvVars == <<lv>>

Nameless == 0
NoSnapshot == [items |-> <<>>, truncated |-> TRUE]      \* filaVivaUltimo has no entry
EmptySnapshot == [items |-> <<>>, truncated |-> FALSE]

(* queue: of the runner; held: the buffer before a spawn and what a drain  *)
(* holds, or the queue of a pause; regs: filaVivaRegistros; last:          *)
(* filaVivaUltimo; timer, every: the debounce and the reconciliation;      *)
(* view: what the server shows.                                            *)
LvInit ==
    lv = [queue |-> <<>>, held |-> <<>>, paused |-> FALSE, sent |-> 0, regs |-> {}, last |-> NoSnapshot,
          timer |-> FALSE, every |-> FALSE, up |-> TRUE, clogged |-> FALSE, view |-> EmptySnapshot, faults |-> 0]

PendentesDaFilaViva(s) == s.queue \o s.held

(* A delivery without a record shows only if its item bears its name.      *)
Shown(item, regs) ==
    <<[id |-> item[1], own |-> item[1] \in regs]>> \o
    [i \in 1 .. Len(SelectSeq(Tail(item), LAMBDA d : d \in regs)) |->
        [id |-> SelectSeq(Tail(item), LAMBDA d : d \in regs)[i], own |-> TRUE]]

MontarSnapshot(s) ==
    LET all == FlattenSeq([i \in DOMAIN PendentesDaFilaViva(s) |-> Shown(PendentesDaFilaViva(s)[i], s.regs)]) IN
    [items |-> SubSeq(all, 1, IF Len(all) > LvCeiling THEN LvCeiling ELSE Len(all)), truncated |-> Len(all) > LvCeiling]

AgendarFilaViva(s) == [s EXCEPT !.timer = TRUE, !.every = TRUE]

CanSend(s) == s.up /\ ~s.clogged

(* An emission that forgets the items it could not send. *)
MutEmitirFilaViva(s, n) ==
    IF n = s.last \/ (s.last = NoSnapshot /\ n.items = <<>>) THEN s
    ELSE [s EXCEPT !.regs = @ \cap {n.items[i].id : i \in DOMAIN n.items}, !.last = n,
                   !.view = IF CanSend(s) THEN n ELSE @]

(* The records of what is not in the snapshot go, before it is known       *)
(* whether the frame does.                                                 *)
EmitirFilaViva(s, n) ==
    IF n = s.last \/ (s.last = NoSnapshot /\ n.items = <<>>) THEN s
    ELSE [s EXCEPT !.regs = @ \cap {n.items[i].id : i \in DOMAIN n.items},
                   !.last = IF CanSend(s) THEN n ELSE @, !.view = IF CanSend(s) THEN n ELSE @]

(* What a hello publishes again; the queue of a pause is not looked at.    *)
InHello(s) == s.last # NoSnapshot \/ s.regs # {} \/ s.queue # <<>> \/ (~s.paused /\ s.held # <<>>)

(* A snapshot that is dropped while the reconciliation is off, or finds no *)
(* record and nothing published that would keep it on.                     *)
Mute(s, n) ==
    LET t == EmitirFilaViva(s, n) IN
    /\ ~CanSend(s) /\ n # s.last
    /\ s.every => t.last \in {NoSnapshot, EmptySnapshot} /\ t.regs = {} /\ n.items # <<>>
    /\ s.up \/ ~InHello(t)

LvFault == lv.faults < LvMaxFaults
LvFaulty(s) == [s EXCEPT !.faults = @ + 1]

(* send_message: to the queue of the runner, into an item of it, to a turn *)
(* at once, or where it waits for a spawn, a drain or the end of a pause.  *)
LvSend ==
    /\ lv.sent < LvDeliveries
    /\ LET d == lv.sent + 1
           s == AgendarFilaViva([lv EXCEPT !.sent = d, !.regs = @ \cup {d}]) IN
       \/ ~s.paused /\ Len(s.queue) < LvQueue /\ lv' = [s EXCEPT !.queue = Append(@, <<d>>)]
       \/ ~s.paused /\ Len(s.queue) >= LvQueue /\ \E i \in DOMAIN s.queue : lv' = [s EXCEPT !.queue[i] = Append(@, d)]
       \/ ~s.paused /\ s.queue = <<>> /\ lv' = s
       \/ lv' = [s EXCEPT !.held = Append(@, <<d>>)]

(* drainOcQueue takes the head; the state of the runner may be the same as *)
(* before, and then nobody is told.                                        *)
DrainOcQueue ==
    /\ lv.queue # <<>>
    /\ \E told \in BOOLEAN :
          /\ ~told /\ ~lv.every => "silent" \in LvLapses
          /\ LET s == [lv EXCEPT !.queue = Tail(@)] IN lv' = IF told THEN AgendarFilaViva(s) ELSE s

(* recoverHungTurn puts the turn back, without its id. *)
LvRecover ==
    /\ LvFault /\ ~lv.paused
    /\ lv' = AgendarFilaViva(LvFaulty([lv EXCEPT !.queue = <<<<Nameless>>>> \o @]))

(* removerDaFilaViva: an item goes with all that was joined in it; what is *)
(* not found is only published anew.                                       *)
RemoverDaFilaViva ==
    \E d \in 1 .. lv.sent :
       LET without(seq) == SelectSeq(seq, LAMBDA item : \A i \in DOMAIN item : item[i] # d)
           found == without(PendentesDaFilaViva(lv)) # PendentesDaFilaViva(lv) IN
       lv' = AgendarFilaViva([lv EXCEPT !.queue = without(@), !.held = without(@), !.regs = IF found THEN @ \ {d} ELSE @])

LvPause ==
    /\ LvFault /\ ~lv.paused
    /\ lv' = AgendarFilaViva(LvFaulty([lv EXCEPT !.paused = TRUE, !.queue = <<>>, !.held = lv.queue \o @]))

(* resume, and flushInboundBuffer of an agent that is not paused: what was *)
(* held is pushed.                                                         *)
LvFlush == lv.held # <<>> /\ lv' = AgendarFilaViva([lv EXCEPT !.paused = FALSE, !.queue = @ \o lv.held, !.held = <<>>])

(* What a stop retains is shown elsewhere. *)
LvStop == LvFault /\ lv.queue # <<>> /\ lv' = AgendarFilaViva(LvFaulty([lv EXCEPT !.queue = <<>>]))

LvDebounce ==
    /\ lv.timer
    /\ \E n \in {MontarSnapshot(lv)} :
          /\ Mute(lv, n) => "mute" \in LvLapses
          /\ lv' = EmitirFilaViva([lv EXCEPT !.timer = FALSE], n)

(* The interval looks at the agents with a last snapshot or a record, and  *)
(* ends itself when all they have to show is published and empty.          *)
Reconcilia ==
    /\ lv.every
    /\ \E n \in {MontarSnapshot(lv)} :
          LET looks == (lv.last # NoSnapshot \/ lv.regs # {}) /\ ~lv.timer
              s == IF looks THEN EmitirFilaViva(lv, n) ELSE lv IN
          /\ looks /\ Mute(lv, n) => "mute" \in LvLapses
          /\ lv' = [s EXCEPT !.every = s.last \notin {NoSnapshot, EmptySnapshot} \/ s.regs # {}]

(* The connection goes, and clearQueueLiveFrom of the server with it. *)
Disconnect == LvFault /\ lv.up /\ lv' = LvFaulty([lv EXCEPT !.up = FALSE, !.clogged = FALSE, !.view = EmptySnapshot])

(* reemitirFilaVivaNoHello. *)
Hello ==
    /\ ~lv.up
    /\ LET s == [lv EXCEPT !.up = TRUE] IN
       lv' = IF InHello(s) THEN AgendarFilaViva([s EXCEPT !.last = NoSnapshot]) ELSE s

Clog == LvFault /\ lv.up /\ ~lv.clogged /\ lv' = LvFaulty([lv EXCEPT !.clogged = TRUE])
Unclog == lv.clogged /\ lv' = [lv EXCEPT !.clogged = FALSE]

LvNext ==
    \/ LvSend \/ DrainOcQueue \/ LvRecover \/ RemoverDaFilaViva \/ LvPause \/ LvFlush \/ LvStop
    \/ LvDebounce \/ Reconcilia \/ Disconnect \/ Hello \/ Clog \/ Unclog

(* Timers fire, the link comes back (ClientLink), a socket drains. *)
LvFairness == WF_LvVars(LvDebounce) /\ WF_LvVars(Reconcilia) /\ WF_LvVars(Hello) /\ WF_LvVars(Unclog)

LvSpec == LvInit /\ [][LvNext]_LvVars /\ LvFairness

-----------------------------------------------------------------------------
LvTypeOK ==
    /\ lv.regs \subseteq 1 .. lv.sent /\ lv.faults \in 0 .. LvMaxFaults
    /\ {lv.paused, lv.timer, lv.every, lv.up, lv.clogged} \subseteq BOOLEAN
    /\ \A item \in Range(PendentesDaFilaViva(lv)) : item # <<>> /\ Range(item) \subseteq 0 .. lv.sent

(* Whatever frames were dropped and connections lost, the user sees in the *)
(* end what waits: the daemon, once it is left alone, has published its    *)
(* queue as it is (agent-host.ts:1141, 1189; a dropped frame is tried      *)
(* again by the reconciliation, as the comment of line 1158 has it).       *)
LvAgrees == <>[](lv.view.items = MontarSnapshot(lv).items)
=============================================================================
