----------------------------- MODULE PartsProofs -----------------------------
(***************************************************************************)
(* What is proved of a component alone holds of it among the others: a     *)
(* step of the composition is a step of each component or leaves it as it  *)
(* is.                                                                     *)
(***************************************************************************)
EXTENDS MCComponents, RequestProofs, LinkProofs, QueueProofs, TLAPS

(* The components of which the theorems below speak start as they do alone. *)
LEMMA PartsStart ==
    ASSUME PartsInit
    PROVE  LinkInit /\ OutInit /\ RingInit /\ GitInit /\ MoInit /\ FrInit /\ SessionInit
BY DEF PartsInit

(* And they move as they do alone.                                         *)
LEMMA PartsMove ==
    ASSUME [PartsNext]_partsVars
    PROVE  /\ [LinkNext]_LinkVars /\ [OutNext]_OutVars /\ [RingNext]_RingVars
           /\ [GitNext]_GitVars /\ [MoNext]_MoVars /\ [FrNext]_FrVars /\ [SessionNext]_SessionVars
<1>1. CASE UNCHANGED partsVars
  BY <1>1 DEF partsVars
<1>2. CASE PartsNext
  <2>1. [LinkNext]_LinkVars
    BY <1>2, Zenon DEF PartsNext
  <2>2. [OutNext]_OutVars
    BY <1>2, Zenon DEF PartsNext
  <2>3. [RingNext]_RingVars
    BY <1>2, Zenon DEF PartsNext
  <2>4. [GitNext]_GitVars
    BY <1>2, Zenon DEF PartsNext
  <2>5. [MoNext]_MoVars
    BY <1>2, Zenon DEF PartsNext
  <2>6. [FrNext]_FrVars
    BY <1>2, Zenon DEF PartsNext
  <2>7. [SessionNext]_SessionVars
    BY <1>2, Zenon DEF PartsNext
  <2> QED BY <2>1, <2>2, <2>3, <2>4, <2>5, <2>6, <2>7
<1> QED BY <1>1, <1>2

(* Of two daemons one serves, and every critical frame is in one place     *)
(* (main.ts, ws-handoff.ts, outbound-delivery.ts), whichever component of  *)
(* the composition moves.                                                  *)
THEOREM LinkIsKept == PartsSpec => []LinkKept
<1>1. PartsSpec => LinkInit /\ [][LinkNext]_LinkVars
  BY PartsStart, PartsMove, PTL DEF PartsSpec
<1>2. PartsSpec => OutSpec
  BY PartsStart, PartsMove, PTL DEF PartsSpec, OutSpec
<1>3. LinkOneDaemon /\ OutKept => LinkKept
  BY DEF LinkKept
<1> QED BY <1>1, <1>2, <1>3, LinkServes, FramesAccountedFor, PTL

(* The override is kept, a rename replaces nothing it found, and a git     *)
(* request runs in its own place (main.ts), whichever component of the     *)
(* composition moves.                                                      *)
THEOREM RequestsAreKept ==
    ASSUME ~GitRootless, MoLapses = {}
    PROVE  PartsSpec => []RequestsKept
<1>1. PartsSpec => GitSpec /\ MoSpec /\ FrSpec
  BY PartsStart, PartsMove, PTL DEF PartsSpec, GitSpec, MoSpec, FrSpec
<1>2. GitSpec => []GitOwnPlace
  BY GitInPlace
<1>3. MoSpec => []MoKept
  BY OverrideKept
<1>4. MoKept /\ FrSpared /\ GitOwnPlace => RequestsKept
  BY DEF RequestsKept
<1> QED BY <1>1, <1>2, <1>3, <1>4, RenameSpares, PTL

(* Nothing that an agent was sent is lost or held twice, and two senders   *)
(* share no turn (runners/message-session.ts), whichever component of the  *)
(* composition moves.                                                      *)
THEOREM QueueIsKept == PartsSpec => [](NothingLost /\ SendersKeptApart)
<1>1. PartsSpec => SessionSpec
  BY PartsStart, PartsMove, PTL DEF PartsSpec, SessionSpec
<1>2. TurnsOfOneSender /\ SenderOrderKept => SendersKeptApart
  BY DEF SendersKeptApart
<1> QED BY <1>1, <1>2, QueueNothingLost, QueueKeepsSendersApart, PTL
=============================================================================
