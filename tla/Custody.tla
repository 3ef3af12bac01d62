------------------------------ MODULE Custody ------------------------------
(***************************************************************************)
(* What the daemon promises about a delivery it has seen, whatever holds   *)
(* it: it is kept until it is a turn, a turn that has begun is done or     *)
(* kept again, and it is only lost where the code says so aloud.  A        *)
(* delivery outside is one the server will send (again).                   *)
(***************************************************************************)
EXTENDS Naturals

CONSTANT Deliveries
VARIABLES estado, amnesias

Estados == {"fora", "guardada", "em_turno", "feita", "perdida"}

(* What may become of a delivery in one step of a daemon that remembers.   *)
Passos ==
    {<<"fora", "guardada">>, <<"fora", "em_turno">>,
     <<"guardada", "em_turno">>, <<"guardada", "perdida">>,
     <<"guardada", "fora">>,             \* given back to the server
     <<"em_turno", "feita">>,
     <<"em_turno", "guardada">>}         \* cut by a restart

(* What may become of it when the ids seen were not saved.  From then on a *)
(* delivery may exist twice, kept and sent again; with one copy done the   *)
(* other may go.                                                           *)
Esquecimentos == {"fora", "guardada", "perdida"}

Init == estado = [d \in Deliveries |-> "fora"] /\ amnesias = 0

Step ==
    /\ estado' \in [Deliveries -> Estados]
    /\ \A d \in Deliveries :
          \/ estado'[d] = estado[d] \/ <<estado[d], estado'[d]>> \in Passos
          \/ amnesias > 0 /\ estado[d] = "guardada" /\ estado'[d] = "feita"
    /\ amnesias' = amnesias

Forget ==
    /\ estado' \in [Deliveries -> Estados]
    /\ \A d \in Deliveries : estado'[d] = estado[d] \/ estado'[d] \in Esquecimentos
    /\ amnesias' = amnesias + 1

Spec == Init /\ [][Step \/ Forget]_<<estado, amnesias>>
=============================================================================
