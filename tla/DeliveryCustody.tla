--------------------------- MODULE DeliveryCustody ---------------------------
(***************************************************************************)
(* What the daemon does with the deliveries of one agent until each is a   *)
(* turn: the host's pause, drain, inbound buffer, retention and spool, the *)
(* ids it has seen, and the processes that follow each other by signal or  *)
(* self-update.  Deliveries are numbered as the server sends them.         *)
(*                                                                         *)
(* The runner is one of a per-message CLI, reduced to its queue and turn   *)
(* (RunnerTurn has the rest): what leaves the queue has begun.  A message  *)
(* joined to another at the ceiling of the queue counts as queued past it. *)
(*                                                                         *)
(* Handlers call each other, so each method is an operator from the state  *)
(* h to the next.  Left out: encryption, principals, the live view of the  *)
(* queue, the seed of a migration, worktrees.                              *)
(***************************************************************************)
EXTENDS Integers, Sequences, FiniteSets, TLC
LOCAL INSTANCE SequencesExt

CONSTANTS
    MaxSent,            \* bound on the deliveries of a behaviour
    MaxQueue,           \* MAX_BUFFERED_MESSAGES
    MaxInbound,         \* maxPerAgent of the inbound buffer
    CapPorAgente,       \* CAP_POR_AGENTE, of the retention and of the pause
    MaxDisturbances,    \* bound on restarts, kills, failed snapshots, stops and
                        \* reconfigurations together
    Lapses              \* the known lapses of the code a run lets happen

AllLapses ==
    {"subida",          \* a start that fails or is stopped, with messages waiting for it
     "teto",            \* a full queue refuses a message the host has taken
     "janela",          \* a signal after the snapshot of the self-update
     "retida",          \* the server delivers what the daemon holds or has begun
     "parado",          \* the server delivers to a runner that was stopped
     "morte"}           \* a kill of what only an earlier snapshot remembers

ASSUME ConstantsAssumption ==
    /\ MaxSent \in Nat \ {0} /\ MaxQueue \in Nat \ {0}
    /\ MaxInbound \in Nat \ {0} /\ CapPorAgente \in Nat \ {0}
    /\ MaxDisturbances \in Nat
    /\ Lapses \subseteq AllLapses

VARIABLE h              \* the state, see TypeOK

Deliveries == 1..MaxSent
Record(d, tag) == [d |-> d, tag |-> tag]
Records(ds, tag) == [i \in DOMAIN ds |-> Record(ds[i], tag)]
Names(rs) == [i \in DOMAIN rs |-> rs[i].d]
NamesIn(rs) == ToSet(Names(rs))
Without(ds, S) == SelectSeq(ds, LAMBDA d : d \notin S)

(* What a new process knows. *)
EmptyMemory ==
    [exec |-> "normal", runner |-> "nenhum", parado |-> FALSE, subindo |-> FALSE,
     entrada |-> FALSE, pausado |-> FALSE, dreno |-> FALSE, turno |-> 0,
     fila |-> <<>>, pausa |-> <<>>, inbound |-> <<>>, retida |-> <<>>,
     drainHeld |-> <<>>, spooled |-> <<>>, vistos |-> {}, recentes |-> {}]

(* What outlives a process: the two files, the copies and the pause the    *)
(* server keeps, and the history of the behaviour.                         *)
EmptyWorld ==
    [spool |-> <<>>, seen |-> {}, modal |-> {}, pausadoNoServer |-> FALSE,
     enviadas |-> 0, feitas |-> {}, perdidas |-> {},
     inicios |-> [d \in Deliveries |-> 0], cortes |-> [d \in Deliveries |-> 0],
     amnesias |-> 0, restarts |-> 0, stops |-> 0]

Init == h = EmptyMemory @@ EmptyWorld

-----------------------------------------------------------------------------
MayDisturb(s) == s.restarts + s.amnesias + s.stops < MaxDisturbances

(* A sequence at its cap loses its oldest. *)
Capped(ds, cap) == IF Len(ds) <= cap THEN ds ELSE SubSeq(ds, Len(ds) - cap + 1, Len(ds))
Overflow(ds, cap) == ToSet(ds) \ ToSet(Capped(ds, cap))

(* The runner dequeues when it has no turn and was not stopped. *)
Idle(s) == s.runner = "vivo" /\ s.turno = 0

Drain(s) ==
    IF Idle(s) /\ s.fila # <<>>
    THEN [s EXCEPT !.turno = Head(s.fila), !.fila = Tail(@),
                   !.inicios[Head(s.fila)] = @ + 1]
    ELSE s

(* holdForDrain: once per delivery id. *)
HoldForDrain(s, ds, tag) ==
    [s EXCEPT !.drainHeld = @ \o Records(Without(ds, NamesIn(@)), tag)]

(* reter, and the frame that gives the server a copy of all that is held.  *)
ReterDoRunner(s, ds) ==
    LET todas == s.retida \o Without(ds, ToSet(s.retida))
    IN  IF ds = <<>> THEN s
        ELSE [s EXCEPT !.retida = Capped(todas, CapPorAgente),
                       !.perdidas = @ \cup Overflow(todas, CapPorAgente),
                       !.modal = @ \cup ToSet(Capped(todas, CapPorAgente))]

(* segurarNaPausa: behind what is held, or in front of it. *)
MutSegurarNaPausa(s, frente, tras) ==      \* the cap looks at one end only
    [s EXCEPT !.pausa = frente \o Capped(@ \o tras, CapPorAgente)]

SegurarNaPausa(s, frente, tras) ==
    LET todas == frente \o s.pausa \o tras
    IN  [s EXCEPT !.pausa = Capped(todas, CapPorAgente),
                  !.perdidas = @ \cup Overflow(todas, CapPorAgente)]

(* How many deliveries of its own the queue of the runner accepts: one     *)
(* more if the first of them becomes the turn at once.                     *)
Room(s) ==
    IF Len(s.fila) >= MaxQueue THEN 0
    ELSE MaxQueue - Len(s.fila) + (IF Idle(s) THEN 1 ELSE 0)

(* deliverSpoolFor, for a runner that may take them: in order, up to the   *)
(* first it refuses; the file keeps the rest.                              *)
MutSpoolToRunner(s) ==                     \* the file is not rewritten
    LET k == IF Room(s) < Len(s.spooled) THEN Room(s) ELSE Len(s.spooled)
    IN  Drain([s EXCEPT !.fila = @ \o Names(SubSeq(s.spooled, 1, k)),
                        !.spooled = SubSeq(@, k + 1, Len(@))])

SpoolToRunner(s) ==
    LET k == IF Room(s) < Len(s.spooled) THEN Room(s) ELSE Len(s.spooled)
        resto == SubSeq(s.spooled, k + 1, Len(s.spooled))
    IN  Drain([s EXCEPT !.fila = @ \o Names(SubSeq(s.spooled, 1, k)),
                        !.spooled = resto, !.spool = resto])

DeliverSpoolFor(s) ==
    IF s.spooled = <<>> \/ s.runner = "nenhum" THEN s
    ELSE IF s.pausado
    THEN [SegurarNaPausa(s, Names(s.spooled), <<>>) EXCEPT !.spooled = <<>>, !.spool = <<>>]
    ELSE IF s.dreno
    THEN [HoldForDrain(s, Names(s.spooled), "") EXCEPT !.spooled = <<>>, !.spool = <<>>]
    ELSE SpoolToRunner(s)

(* The hook of the queue.  Of a paused agent it would drop what it is      *)
(* given back, but the queue of a paused agent does not change.            *)
OnRunnerQueueChanged(s) == DeliverSpoolFor(s)

PushUserMessage(s, ds) ==
    Drain(OnRunnerQueueChanged([s EXCEPT !.fila = @ \o ds]))

LiberarPausa(s) ==
    IF s.pausado \/ s.pausa = <<>> \/ s.runner = "nenhum" \/ s.parado \/ s.spooled # <<>> THEN s
    ELSE IF s.dreno THEN [HoldForDrain(s, s.pausa, "") EXCEPT !.pausa = <<>>]
    ELSE PushUserMessage([s EXCEPT !.pausa = <<>>], s.pausa)

TirarDoRunnerParaPausa(s) == [SegurarNaPausa(s, s.fila, <<>>) EXCEPT !.fila = <<>>]

(* The end of a spawn: the spool, then what the pause holds, then what     *)
(* waited.  Without a runner what waited is taken and given to nobody.     *)
MutFlushInboundBuffer(s) ==                \* does not look at the pause
    LET u == LiberarPausa(DeliverSpoolFor([s EXCEPT !.inbound = <<>>]))
    IN  IF s.dreno THEN HoldForDrain(u, s.inbound, "")
        ELSE IF u.runner = "nenhum" THEN u
        ELSE PushUserMessage(u, s.inbound)

FlushInboundBuffer(s) ==
    LET esperavam == s.inbound
        t == [s EXCEPT !.inbound = <<>>]
        u == LiberarPausa(DeliverSpoolFor(t))
    IN  IF s.pausado THEN DeliverSpoolFor(SegurarNaPausa(t, esperavam, <<>>))
        ELSE IF s.dreno THEN HoldForDrain(DeliverSpoolFor(t), esperavam, "")
        ELSE IF u.runner = "nenhum" THEN u
        ELSE PushUserMessage(u, esperavam)

(* startDrain empties the queue of the runner. *)
LigaDreno(s) == [HoldForDrain(s, s.fila, "") EXCEPT !.fila = <<>>, !.dreno = TRUE]

(* holdInFlightForShutdown: the delivery whose turn is about to be cut, in *)
(* front of the rest.                                                      *)
MutHoldInFlight(s) == [s EXCEPT !.turno = 0]   \* the turn dies with the process

HoldInFlight(s) ==
    IF s.turno = 0 THEN s
    ELSE [s EXCEPT !.drainHeld = IF s.turno \in NamesIn(@) THEN @
                                 ELSE <<Record(s.turno, "")>> \o @,
                   !.cortes[s.turno] = @ + 1, !.turno = 0]

(* All that goes to the spool: what the drain holds, what is retained (of  *)
(* an agent with an entry), what waits and what the pause holds.           *)
ParaOSpool(s) ==
    LET retidas == IF s.entrada THEN s.retida ELSE <<>>
    IN  HoldForDrain(HoldForDrain(HoldForDrain(s, retidas, "retido"), s.inbound, ""),
                     s.pausa, "pausa").drainHeld

(* writeReexecSpool: of an agent without a project nothing can be sealed.  *)
(* What an earlier process left goes behind; an empty spool is not written.*)
WriteReexecSpool(s) ==
    LET records == (IF s.entrada THEN ParaOSpool(s) ELSE <<>>) \o s.spooled
    IN  [s EXCEPT !.drainHeld = <<>>, !.inbound = <<>>, !.pausa = <<>>, !.spooled = <<>>,
                  !.retida = IF s.entrada THEN <<>> ELSE @,
                  !.spool = IF records = <<>> THEN @ ELSE records]

SpoolLost(s) == IF s.entrada THEN {} ELSE NamesIn(ParaOSpool(s))

(* commitReexecSnapshot: the spool, then the ids seen; a spool that fails  *)
(* leaves the ids as they were, and what the ids saved earlier keep the    *)
(* server from sending again is declared lost.                             *)
MutSnapshots(s) ==                         \* the ids are saved whatever the spool did
    {[WriteReexecSpool(s) EXCEPT !.seen = s.vistos \ SpoolLost(s)]}
    \cup IF MayDisturb(s) THEN {[s EXCEPT !.amnesias = @ + 1, !.seen = s.vistos]} ELSE {}

Snapshots(s) ==
    {[WriteReexecSpool(s) EXCEPT !.seen = s.vistos \ SpoolLost(s)]}
    \cup IF ~MayDisturb(s) THEN {}
         ELSE {[WriteReexecSpool(s) EXCEPT !.amnesias = @ + 1],
               [s EXCEPT !.amnesias = @ + 1,
                         !.perdidas = @ \cup (NamesIn(ParaOSpool(s)) \cap s.seen)]}

-----------------------------------------------------------------------------
(* agent:send.  The server sends a delivery until the daemon has seen it.  *)
Conectado == h.exec \in {"normal", "parando", "janela"}
Esperado(d) == d <= h.enviadas + 1 /\ d \notin h.vistos

Aceita(s, d) ==
    [s EXCEPT !.vistos = @ \cup {d}, !.enviadas = IF d > @ THEN d ELSE @,
              !.recentes = IF s.spooled = <<>> THEN {} ELSE @ \cup {d}]

MutSendMessage(s, d) ==                    \* does not wait for the spool
    IF s.pausado THEN SegurarNaPausa(s, <<>>, <<d>>)
    ELSE IF s.dreno THEN HoldForDrain(s, <<d>>, "")
    ELSE IF s.runner = "nenhum" THEN [s EXCEPT !.inbound = Append(@, d)]
    ELSE IF s.parado THEN ReterDoRunner(s, <<d>>)
    ELSE Drain([s EXCEPT !.fila = Append(@, d)])

SendMessage(s, d) ==
    IF s.pausado THEN SegurarNaPausa(s, <<>>, <<d>>)
    ELSE IF s.dreno THEN HoldForDrain(s, <<d>>, "")
    ELSE IF s.runner = "nenhum" \/ s.spooled # <<>>
    THEN LET todas == Append(s.inbound, d)
         IN  [s EXCEPT !.inbound = Capped(todas, MaxInbound),
                       !.perdidas = @ \cup Overflow(todas, MaxInbound)]
    ELSE IF s.parado THEN ReterDoRunner(s, <<d>>)
    ELSE PushUserMessage(s, <<d>>)

(* A full queue that cannot join the message refuses it; the answer of the *)
(* runner is not looked at and the delivery counts as seen all the same.   *)
Recusada ==
    /\ "teto" \in Lapses /\ Len(h.fila) >= MaxQueue
    /\ ~h.pausado /\ ~h.dreno /\ h.runner # "nenhum" /\ h.spooled = <<>> /\ ~h.parado

Send(d) ==
    /\ Conectado /\ Esperado(d)
    /\ h' \in {Aceita(SendMessage(h, d), d)} \cup (IF Recusada THEN {Aceita(h, d)} ELSE {})

-----------------------------------------------------------------------------
(* spawn, the announcement of the agent: of a runner that lives it only    *)
(* brings the pause; with another configuration it replaces the runner.    *)
Anunciado == [h EXCEPT !.pausado = h.pausadoNoServer]

Reconnect ==
    /\ h.exec = "normal" /\ h.runner = "vivo"
    /\ h' = IF h.pausadoNoServer THEN TirarDoRunnerParaPausa(Anunciado)
            ELSE LiberarPausa(Anunciado)

(* The runner of another configuration, or one that was stopped, goes      *)
(* first, and its turn with it; the new one comes after some awaits, and   *)
(* its entry waits for the start.                                          *)
Replace ==
    /\ h.exec = "normal" /\ ~h.subindo /\ h.runner # "nenhum"
    /\ h.runner = "vivo" => MayDisturb(h)
    /\ h' = [ReterDoRunner(Anunciado, h.fila) EXCEPT
                !.runner = "nenhum", !.fila = <<>>,
                !.turno = 0, !.feitas = @ \cup ({h.turno} \ {0}),
                !.stops = IF h.runner = "vivo" THEN @ + 1 ELSE @]

Spawn ==
    /\ h.exec = "normal" /\ ~h.subindo /\ h.runner = "nenhum"
    /\ h' = [Anunciado EXCEPT !.runner = "vivo", !.parado = FALSE,
                              !.subindo = TRUE, !.entrada = TRUE]

(* start() has settled.  A runner stopped or never available is gone.      *)
StartDone(r) ==
    /\ h.exec \in {"normal", "parando"} /\ h.subindo
    /\ r = h.runner \/ (r = "nenhum" /\ h.turno = 0)
    /\ r = "morrendo" \/ (r = "nenhum" /\ h.inbound # <<>> /\ ~h.pausado /\ ~h.dreno)
          => "subida" \in Lapses
    /\ h' = FlushInboundBuffer([h EXCEPT !.runner = r, !.subindo = FALSE, !.parado = FALSE,
                                         !.fila = IF r = "nenhum" THEN <<>> ELSE @])

(* The close of the turn's process.  A runner that was stopped goes with   *)
(* it, and takes what its queue got since.                                 *)
TurnEnds ==
    /\ h.exec = "normal" /\ h.turno # 0
    /\ LET t == [h EXCEPT !.feitas = @ \cup {h.turno}, !.turno = 0]
       IN  h' = IF h.runner = "vivo" THEN Drain(t)
                ELSE [t EXCEPT !.runner = "nenhum", !.fila = <<>>]

(* agent:stop *)
Stop ==
    /\ h.exec = "normal" /\ h.runner # "nenhum" /\ MayDisturb(h)
    /\ h' = [ReterDoRunner(h, h.fila) EXCEPT
                !.parado = TRUE, !.fila = <<>>, !.stops = @ + 1,
                !.runner = IF h.turno = 0 THEN "nenhum" ELSE "morrendo"]

-----------------------------------------------------------------------------
(* agent:pause and agent:resume.  A daemon that is away misses them and    *)
(* learns the pause from the announcement.                                 *)
Pause ==
    /\ ~h.pausadoNoServer
    /\ LET t == [h EXCEPT !.pausadoNoServer = TRUE]
       IN  h' = IF ~Conectado \/ h.pausado THEN t
                ELSE TirarDoRunnerParaPausa([t EXCEPT !.pausado = TRUE])

Resume ==
    /\ h.pausadoNoServer
    /\ LET t == [h EXCEPT !.pausadoNoServer = FALSE]
       IN  h' = IF ~Conectado \/ ~h.pausado THEN t
                ELSE LiberarPausa([t EXCEPT !.pausado = FALSE])

(* agent:queue_deliver of one copy the server keeps.  An item that is not  *)
(* accepted stays there.                                                   *)
QueueDeliver(d) ==
    LET entregue == [h EXCEPT !.modal = @ \ {d}]
        comeca == h.inicios[d] > 0
        guardada == d \in ToSet(h.retida) \cup ToSet(h.fila) \cup ToSet(h.pausa)
                          \cup ToSet(h.inbound) \cup NamesIn(h.drainHeld \o h.spooled)
    IN  /\ h.exec = "normal" /\ d \in h.modal /\ h.runner # "nenhum"
        /\ comeca \/ guardada => "retida" \in Lapses
        /\ h.parado \/ h.runner = "morrendo" => "parado" \in Lapses
        /\ \/ /\ h.pausado
              /\ h' = IF d \in ToSet(h.pausa) THEN entregue
                      ELSE SegurarNaPausa(entregue, <<>>, <<d>>)
           \/ /\ ~h.pausado /\ Len(h.fila) < MaxQueue
              /\ h' = PushUserMessage(entregue, <<d>>)

(* agent:queue_forget: the copies of both sides go. *)
QueueForget ==
    /\ h.exec = "normal" /\ h.modal # {}
    /\ h' = [h EXCEPT !.perdidas = @ \cup ToSet(h.retida) \cup h.modal,
                      !.retida = <<>>, !.modal = {}]

(* The lifetime of what is retained, and of what waits for a runner.       *)
RetidaExpira ==
    /\ h.exec = "normal" /\ h.retida # <<>>
    /\ h' = [h EXCEPT !.perdidas = @ \cup {Head(h.retida)}, !.retida = Tail(@)]

InboundExpira ==
    /\ h.exec = "normal" /\ h.inbound # <<>>
    /\ h' = [h EXCEPT !.perdidas = @ \cup {Head(h.inbound)}, !.inbound = Tail(@)]

(* agent:queue_live_remove: the first place that has the delivery.         *)
Remover(d) ==
    LET t == [h EXCEPT !.perdidas = @ \cup {d}]
    IN  /\ h.exec \in {"normal", "parando"}
        /\ \/ /\ d \in ToSet(h.fila)
              /\ h' = OnRunnerQueueChanged([t EXCEPT !.fila = Without(@, {d})])
           \/ /\ d \notin ToSet(h.fila) /\ d \in ToSet(h.inbound)
              /\ h' = [t EXCEPT !.inbound = Without(@, {d})]
           \/ /\ d \notin ToSet(h.fila \o h.inbound) /\ d \in NamesIn(h.drainHeld)
              /\ h' = [t EXCEPT !.drainHeld = SelectSeq(@, LAMBDA r : r.d # d)]
           \/ /\ d \notin ToSet(h.fila \o h.inbound) \cup NamesIn(h.drainHeld)
              /\ d \in ToSet(h.pausa)
              /\ h' = [t EXCEPT !.pausa = Without(@, {d})]

-----------------------------------------------------------------------------
(* The self-update that has waited long enough starts the drain.           *)
StartDrain ==
    /\ h.exec = "normal" /\ ~h.dreno
    /\ h' = LigaDreno(h)

(* It leaves when nothing runs, or at the ceiling of the drain: hold all,  *)
(* stop the runners, and up to 2 s later write the snapshot.               *)
UpdateBegins ==
    /\ h.exec = "normal" /\ MayDisturb(h)
    /\ h.turno = 0 \/ h.dreno
    /\ LET s == HoldInFlight(IF h.dreno THEN h ELSE LigaDreno(h))
       IN  h' = [ReterDoRunner(s, s.fila) EXCEPT
                    !.exec = "parando", !.restarts = @ + 1, !.runner = "nenhum", !.fila = <<>>]

UpdateSnapshot ==
    /\ h.exec = "parando"
    /\ \E s \in Snapshots(h) : h' = [s EXCEPT !.exec = "janela"]

(* A process that is gone leaves no memory. *)
Sai(s) == [(EmptyMemory @@ s) EXCEPT !.exec = "saindo"]

(* A signal writes the snapshot at once, the socket closed.                *)
Sigterm ==
    /\ h.exec \in {"normal", "parando"} \/ (h.exec = "janela" /\ "janela" \in Lapses)
    /\ MayDisturb(h)
    /\ \E s \in Snapshots([HoldInFlight(LigaDreno(h)) EXCEPT !.restarts = @ + 1]) : h' = Sai(s)

(* A kill leaves no snapshot, only the files of earlier ones.              *)
SoNaMemoria ==
    {h.turno} \cup ToSet(h.fila \o h.pausa \o h.inbound) \cup NamesIn(h.drainHeld)

Crash ==
    /\ h.exec \in {"normal", "parando"} /\ MayDisturb(h)
    /\ SoNaMemoria \cap h.seen # {} => "morte" \in Lapses
    /\ h' = [Sai(h) EXCEPT !.amnesias = @ + 1]

(* The next process: what is past its time in the spool is retained, the   *)
(* rest waits for the spawn, and the ids seen are those saved.             *)
Boot(vencidas) ==
    LET Venceu(r) == r.d \in vencidas /\ r.tag = ""
        resto == SelectSeq(h.spool, LAMBDA r : ~Venceu(r))
    IN  /\ h.exec \in {"janela", "saindo"}
        /\ vencidas \subseteq {r.d : r \in {x \in ToSet(h.spool) : x.tag = ""}}
        /\ h' = ReterDoRunner([(EmptyMemory @@ h) EXCEPT
                                  !.vistos = h.seen, !.spooled = resto, !.spool = resto,
                                  !.feitas = @ \cap h.seen, !.perdidas = @ \cap h.seen],
                              Names(SelectSeq(h.spool, Venceu)))

Next ==
    \/ \E d \in Deliveries : Send(d) \/ QueueDeliver(d) \/ Remover(d)
    \/ Reconnect \/ Replace \/ Spawn \/ (\E r \in {"vivo", "morrendo", "nenhum"} : StartDone(r))
    \/ TurnEnds \/ Stop \/ Pause \/ Resume
    \/ QueueForget \/ RetidaExpira \/ InboundExpira
    \/ StartDrain \/ UpdateBegins \/ UpdateSnapshot \/ Sigterm \/ Crash
    \/ \E vencidas \in SUBSET Deliveries : Boot(vencidas)

Spec == Init /\ [][Next]_h
-----------------------------------------------------------------------------
RecordType == [d : Deliveries, tag : {"", "pausa", "retido"}]

(* Every place holds deliveries, and none holds more than its cap: the     *)
(* inbound buffer, the pause and the retention discard their oldest.       *)
TypeOK ==
    /\ h.exec \in {"normal", "parando", "janela", "saindo"}
    /\ h.runner \in {"nenhum", "vivo", "morrendo"}
    /\ {h.parado, h.subindo, h.entrada, h.pausado, h.dreno, h.pausadoNoServer} \subseteq BOOLEAN
    /\ h.turno \in Deliveries \cup {0}
    /\ {h.fila, h.pausa, h.inbound, h.retida} \subseteq Seq(Deliveries)
    /\ {h.drainHeld, h.spooled, h.spool} \subseteq Seq(RecordType)
    /\ {h.vistos, h.recentes, h.seen, h.modal, h.feitas, h.perdidas} \subseteq SUBSET Deliveries
    /\ Len(h.inbound) <= MaxInbound
    /\ Len(h.pausa) <= CapPorAgente /\ Len(h.retida) <= CapPorAgente
    /\ {h.inicios, h.cortes} \subseteq [Deliveries -> Nat]
    /\ {h.amnesias, h.restarts, h.stops, h.enviadas} \subseteq Nat

(* Between a process that leaves and the next, only the files count.       *)
Vivo == h.exec \in {"normal", "parando"}
Lembradas == IF Vivo THEN h.vistos ELSE h.seen
Guardadas ==
    NamesIn(h.spool) \cup
    (IF Vivo THEN ToSet(h.fila \o h.pausa \o h.inbound \o h.retida) \cup NamesIn(h.drainHeld \o h.spooled)
     ELSE {})

Estado(d) ==
    IF d \notin Lembradas THEN "fora"
    ELSE IF Vivo /\ d = h.turno THEN "em_turno"
    ELSE IF d \in Guardadas THEN "guardada"
    ELSE IF d \in h.feitas THEN "feita"
    ELSE IF d \in h.modal THEN "guardada"
    ELSE IF d \in h.perdidas THEN "perdida"
    ELSE "esquecida"

(* A delivery the daemon would refuse as a duplicate is in custody, done,  *)
(* kept by the server, or was lost aloud: never forgotten (the dedup of    *)
(* agent:send and the order of the snapshot).                              *)
SeenIsKept == \A d \in Deliveries : Estado(d) # "esquecida"

(* A delivery begins once, and once more for each time a restart cut its   *)
(* turn or the ids seen were not saved (the spool and the dedup together). *)
BegunOnce == \A d \in Deliveries : h.inicios[d] <= 1 + h.cortes[d] + h.amnesias

(* While the spool of the earlier process waits, nothing that arrived in   *)
(* this one reaches the runner (T-1000).                                   *)
NewWaitsForSpool ==
    h.spooled # <<>> => h.recentes \cap ({h.turno} \cup ToSet(h.fila)) = {}

(* Of a paused agent nothing begins, across spawns and restarts (T-1306).  *)
PausedBeginsNothing ==
    [][h.pausadoNoServer /\ h.pausadoNoServer' => h.inicios' = h.inicios]_h

(* Whatever holds a delivery, the daemon keeps the promise of Custody.     *)
Promessa == INSTANCE Custody WITH
    Deliveries <- Deliveries,
    estado <- [d \in Deliveries |-> Estado(d)],
    amnesias <- h.amnesias
ImplementsCustody == Promessa!Spec
=============================================================================
