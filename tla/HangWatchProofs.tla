--------------------------- MODULE HangWatchProofs ---------------------------
(***************************************************************************)
(* What HangWatch promises, for every profile of thresholds whose limits   *)
(* are in the order of HangOrdered, and for any number of messages, tools  *)
(* and faults. The invariant ties each clock the watch reads to the time   *)
(* it stands for; one lemma per action keeps it, and those of the watch    *)
(* itself also say which turn it may cut.                                  *)
(***************************************************************************)
EXTENDS HangWatch, TLAPS
LOCAL INSTANCE FiniteSetsExt

-----------------------------------------------------------------------------
(* Thresholds *)

(* The larger of two limits.                                               *)
LEMMA MaxOfTwo ==
    ASSUME NEW a \in Nat, NEW b \in Nat
    PROVE  Max({a, b}) = IF a >= b THEN a ELSE b
<1> DEFINE m == IF a >= b THEN a ELSE b
<1>1. m \in {a, b} /\ \A x \in {a, b} : m >= x
  OBVIOUS
<1>2. \A x \in {a, b} : (\A y \in {a, b} : x >= y) => x = m
  OBVIOUS
<1> HIDE DEF m
<1>3. Max({a, b}) = m
  BY <1>1, <1>2 DEF Max
<1> QED BY <1>3 DEF m

(* The smaller of two limits.                                              *)
LEMMA MinOfTwo ==
    ASSUME NEW a \in Nat, NEW b \in Nat
    PROVE  Min({a, b}) = IF a <= b THEN a ELSE b
<1> DEFINE m == IF a <= b THEN a ELSE b
<1>1. m \in {a, b} /\ \A x \in {a, b} : m <= x
  OBVIOUS
<1>2. \A x \in {a, b} : (\A y \in {a, b} : x <= y) => x = m
  OBVIOUS
<1> HIDE DEF m
<1>3. Min({a, b}) = m
  BY <1>1, <1>2 DEF Min
<1> QED BY <1>3 DEF m

(* The largest of three limits.                                            *)
LEMMA MaxOfThree ==
    ASSUME NEW a \in Nat, NEW b \in Nat, NEW c \in Nat
    PROVE  LET m == Max({a, b, c}) IN m \in Nat /\ m >= a /\ m >= b /\ m >= c
<1> DEFINE S == {a, b, c}
<1>1. \E x \in S : \A y \in S : x >= y
  <2>1. CASE a >= b /\ a >= c
    BY <2>1
  <2>2. CASE b >= a /\ b >= c
    BY <2>2
  <2>3. CASE c >= a /\ c >= b
    BY <2>3
  <2> QED BY <2>1, <2>2, <2>3
<1>2. Max(S) \in S /\ \A y \in S : Max(S) >= y
  <2> HIDE DEF S
  <2> QED BY <1>1 DEF Max
<1> QED BY <1>2

(* How long a turn may say nothing: before its first event and after it,   *)
(* at most and at least.                                                   *)
Cold(t) == Max({t.hard, t.first})
Warm(t) == Max({t.hard, t.post})
Longest(t) == Max({t.tools, Cold(t), Warm(t)})
Shortest(t) == Min({Cold(t), Warm(t)})

(* The thresholds are numbers.                                             *)
LEMMA Thresholds ==
    ASSUME NEW t \in HangProfiles
    PROVE  /\ t.soft \in Nat /\ t.hard \in Nat /\ t.dead \in Nat /\ t.tools \in Nat /\ t.first \in Nat
           /\ t.post \in Nat /\ t.life \in Nat /\ t.cap \in Nat /\ t.ceiling \in Nat
BY HangAssumption DEF HangFields

(* The two hard limits of silence and what bounds them.                    *)
LEMMA HardLimits ==
    ASSUME NEW t \in HangProfiles
    PROVE  /\ Cold(t) = IF t.hard >= t.first THEN t.hard ELSE t.first
           /\ Warm(t) = IF t.hard >= t.post THEN t.hard ELSE t.post
           /\ Cold(t) \in Nat /\ Warm(t) \in Nat
           /\ Shortest(t) \in Nat /\ Shortest(t) <= Cold(t) /\ Shortest(t) <= Warm(t)
           /\ Longest(t) \in Nat /\ Cold(t) <= Longest(t) /\ Warm(t) <= Longest(t)
           /\ t.tools <= Longest(t) /\ 0 < Longest(t)
<1>1. t.hard \in Nat /\ t.first \in Nat /\ t.post \in Nat /\ t.tools \in Nat /\ t.hard > 0
  BY Thresholds, HangOrdered
<1>2. Cold(t) = IF t.hard >= t.first THEN t.hard ELSE t.first
  BY <1>1, MaxOfTwo DEF Cold
<1>3. Warm(t) = IF t.hard >= t.post THEN t.hard ELSE t.post
  BY <1>1, MaxOfTwo DEF Warm
<1>4. Cold(t) \in Nat /\ Warm(t) \in Nat /\ Cold(t) > 0
  BY <1>1, <1>2, <1>3
<1>5. Shortest(t) \in Nat /\ Shortest(t) <= Cold(t) /\ Shortest(t) <= Warm(t)
  BY <1>4, MinOfTwo DEF Shortest
<1>6. Longest(t) \in Nat /\ t.tools <= Longest(t) /\ Cold(t) <= Longest(t) /\ Warm(t) <= Longest(t)
  BY <1>1, <1>4, MaxOfThree DEF Longest
<1> QED BY <1>2, <1>3, <1>4, <1>5, <1>6

(* When the silence is hard (hangPhase).                                   *)
LEMMA PhaseHard ==
    ASSUME NEW t \in HangProfiles, NEW idle \in Nat, NEW cold \in BOOLEAN
    PROVE  HangPhase(idle, t, cold) = "hard" <=> idle >= (IF cold THEN Cold(t) ELSE Warm(t))
BY DEF HangPhase, EffectiveHardMs, Cold, Warm
-----------------------------------------------------------------------------
(* The invariant *)

HangPlaces == {"none", "gate", "refused", "live", "dead"}

HangState ==
    [t : HangProfiles, queue : Nat, sent : Nat, busy : BOOLEAN, at : HangPlaces,
     state : {"idle", "queued", "thinking", "stalled"}, attempt : Nat, idle : Nat, age : Nat,
     firstEvent : BOOLEAN, soft : BOOLEAN, deadSince : Nat, tools : SUBSET (1 .. HangTools),
     toolsAge : Nat, arm : Nat, compacting : BOOLEAN, compactAge : Nat, healed : Nat,
     due : BOOLEAN, cuts : {0, 1}, faults : Nat, quiet : Nat, life : Nat, gone : Nat, orphan : Nat]

(* Tools, and a stall, are of a turn that runs. *)
HangPlaced(s) ==
    /\ s.busy = (s.at # "none") /\ (s.compacting => ~s.busy)
    /\ s.at \in {"none", "gate", "refused"} => s.tools = {} /\ s.life = 0
    /\ s.at \in {"none", "gate"} => s.quiet = 0
    /\ s.state = "stalled" => s.tools = {}

(* The watch counts a dead turn from its next look at it. *)
Dying(s) ==
    /\ s.at # "dead" => s.gone = 0
    /\ s.at \in {"gate", "refused", "live"} => s.deadSince = 0
    /\ s.at = "dead" => s.gone <= s.deadSince + 1 /\ s.deadSince <= s.t.dead + 1

(* The clock of the turn tells the truth while the turn runs. *)
Silent(s) ==
    /\ s.at \in {"live", "refused"} => s.quiet = s.idle
    /\ s.tools # {} => s.quiet <= s.toolsAge
    /\ s.quiet <= Longest(s.t)

Living(s) ==
    /\ s.t.cap # 0 => s.life <= s.t.cap
    /\ s.at = "live" /\ s.t.marks => s.age = s.life
    /\ s.at = "live" /\ s.t.atCeiling = "recover" => s.t.ceiling <= s.life + s.arm \/ HangMaxAge <= s.life

TurnWaiting(s) == s.queue > 0 /\ ~s.busy /\ ~s.compacting

(* A queue that waits is healed no later than it has waited. *)
TurnWaits(s) ==
    /\ s.orphan > 0 => TurnWaiting(s)
    /\ s.orphan <= s.healed /\ s.orphan <= HangHeal

TurnWatched(s) ==
    /\ s \in HangState /\ HangPlaced(s) /\ Dying(s) /\ Silent(s) /\ Living(s)
    /\ s.compactAge <= HangCompact

(* What is so once the watch has looked, until time moves again. *)
Settled(s) ==
    /\ s.at = "dead" => s.deadSince <= s.t.dead /\ (s.deadSince = 0 => s.gone = 0)
    /\ s.at = "live" /\ s.t.cap # 0 => s.life < s.t.cap
    /\ s.at \in {"live", "refused"} => s.quiet < Longest(s.t)
    /\ s.compacting => s.compactAge < HangCompact
    /\ s.orphan < HangHeal

HangInv == TurnWatched(hw) /\ TurnWaits(hw) /\ (~hw.due => Settled(hw))

-----------------------------------------------------------------------------
(* Operators *)

(* The fields of Touched.                                                  *)
LEMMA TouchedKeeps ==
    ASSUME NEW s \in HangState
    PROVE  LET n == Touched(s)
           IN  /\ n \in HangState /\ n.state # "stalled"
               /\ n.idle = 0 /\ n.deadSince = 0
               /\ <<n.t, n.queue, n.busy, n.at, n.age, n.tools, n.toolsAge, n.arm, n.compacting>>
                  = <<s.t, s.queue, s.busy, s.at, s.age, s.tools, s.toolsAge, s.arm, s.compacting>>
               /\ <<n.compactAge, n.healed, n.due, n.cuts, n.faults, n.quiet, n.life, n.gone, n.orphan>>
                  = <<s.compactAge, s.healed, s.due, s.cuts, s.faults, s.quiet, s.life, s.gone, s.orphan>>
<1> DEFINE state == IF s.state = "stalled" THEN "thinking" ELSE s.state
           n == [s EXCEPT !.idle = 0, !.soft = FALSE, !.deadSince = 0, !.firstEvent = TRUE, !.state = state]
<1>1. Touched(s) = n
  BY DEF Touched
<1>2. state \in {"idle", "queued", "thinking", "stalled"} /\ state # "stalled"
  BY DEF HangState
<1> HIDE DEF state
<1>3. n \in HangState /\ n.state = state /\ n.idle = 0 /\ n.deadSince = 0
  BY <1>2 DEF HangState
<1>4. /\ <<n.t, n.queue, n.busy, n.at, n.age, n.tools, n.toolsAge, n.arm, n.compacting>>
         = <<s.t, s.queue, s.busy, s.at, s.age, s.tools, s.toolsAge, s.arm, s.compacting>>
      /\ <<n.compactAge, n.healed, n.due, n.cuts, n.faults, n.quiet, n.life, n.gone, n.orphan>>
         = <<s.compactAge, s.healed, s.due, s.cuts, s.faults, s.quiet, s.life, s.gone, s.orphan>>
  BY DEF HangState
<1> HIDE DEF n
<1> QED BY <1>1, <1>2, <1>3, <1>4

(* The queue is drained of one message at most, and what waited is         *)
(* watched.                                                                *)
LEMMA DrainedKeeps ==
    ASSUME NEW s, TurnWatched(s), NEW n \in Drained(s)
    PROVE  /\ TurnWatched(n)
           /\ n.t = s.t /\ n.due = s.due /\ n.cuts = s.cuts /\ n.healed = s.healed
           /\ TurnWaiting(s) => TurnWaits(n) /\ Settled(n)
           /\ TurnWaits(s) => TurnWaits(n)
           /\ Settled(s) => Settled(n)
<1>1. CASE s.busy \/ s.compacting \/ s.queue = 0
  <2>1. n = s
    BY <1>1 DEF Drained
  <2>2. ~TurnWaiting(s)
    BY <1>1 DEF TurnWatched, HangState, TurnWaiting
  <2> QED BY <2>1, <2>2
<1>2. CASE ~(s.busy \/ s.compacting \/ s.queue = 0)
  <2> DEFINE u == Touched(s)
             m == [u EXCEPT !.queue = @ - 1, !.orphan = 0]
             a == [m EXCEPT !.busy = TRUE, !.at = "gate", !.state = "queued"]
             b == [m EXCEPT !.faults = @ + 1, !.busy = ~s.t.frees,
                            !.at = IF s.t.frees THEN "none" ELSE "refused"]
  <2>1. n \in {a, b}
    BY <1>2 DEF Drained
  <2>2. /\ s \in HangState /\ s.at = "none" /\ s.tools = {} /\ s.life = 0 /\ s.gone = 0 /\ s.quiet = 0
        /\ s.queue \in Nat /\ s.queue > 0 /\ ~s.compacting
    BY <1>2 DEF TurnWatched, HangPlaced, Dying, HangState
  <2>3. /\ u \in HangState /\ u.state # "stalled" /\ u.queue - 1 \in Nat
        /\ u.idle = 0 /\ u.deadSince = 0 /\ u.at = "none" /\ u.tools = {}
        /\ u.life = 0 /\ u.gone = 0 /\ u.quiet = 0 /\ ~u.compacting
        /\ u.t = s.t /\ u.due = s.due /\ u.cuts = s.cuts /\ u.healed = s.healed /\ u.compactAge = s.compactAge
    BY <2>2, TouchedKeeps
  <2> HIDE DEF u
  <2>4. /\ m \in HangState /\ m.orphan = 0 /\ m.state # "stalled"
        /\ m.idle = 0 /\ m.deadSince = 0 /\ m.at = "none" /\ m.tools = {}
        /\ m.life = 0 /\ m.gone = 0 /\ m.quiet = 0 /\ ~m.compacting
        /\ m.t = s.t /\ m.due = s.due /\ m.cuts = s.cuts /\ m.healed = s.healed /\ m.compactAge = s.compactAge
    BY <2>3 DEF HangState
  <2> HIDE DEF m
  <2>5. s.t.frees \in BOOLEAN /\ s.t \in HangProfiles
    BY <2>2, HangAssumption DEF HangState
  <2>6. /\ n \in HangState /\ n.orphan = 0 /\ n.state # "stalled"
        /\ n.at \in {"none", "gate", "refused"} /\ n.busy = (n.at # "none")
        /\ n.idle = 0 /\ n.deadSince = 0 /\ n.tools = {}
        /\ n.life = 0 /\ n.gone = 0 /\ n.quiet = 0 /\ ~n.compacting
        /\ n.t = s.t /\ n.due = s.due /\ n.cuts = s.cuts /\ n.healed = s.healed /\ n.compactAge = s.compactAge
    <3> DEFINE at == IF n = a THEN "gate" ELSE IF s.t.frees THEN "none" ELSE "refused"
               state == IF n = a THEN "queued" ELSE m.state
               faults == IF n = a THEN m.faults ELSE m.faults + 1
               busy == at # "none"
    <3>1. /\ at \in {"none", "gate", "refused"} /\ at \in HangPlaces /\ faults \in Nat /\ busy \in BOOLEAN
          /\ state \in {"idle", "queued", "thinking", "stalled"} /\ state # "stalled"
      BY <2>4 DEF HangState, HangPlaces
    <3>2. n = [m EXCEPT !.busy = busy, !.at = at, !.state = state, !.faults = faults]
      <4>1. CASE n = a
        <5>1. at = "gate" /\ state = "queued" /\ faults = m.faults /\ busy = TRUE
          BY <4>1
        <5> HIDE DEF at, state, faults, busy
        <5> QED BY <2>4, <4>1, <5>1 DEF HangState
      <4>2. CASE n # a
        <5>1. state = m.state /\ faults = m.faults + 1
          BY <4>2
        <5>2. at = (IF s.t.frees THEN "none" ELSE "refused") /\ busy = ~s.t.frees
          BY <2>5, <4>2
        <5> HIDE DEF at, state, faults, busy
        <5>3. n = b
          BY <2>1, <4>2
        <5> QED BY <2>4, <5>1, <5>2, <5>3 DEF HangState
      <4> QED BY <4>1, <4>2
    <3> HIDE DEF at, state, faults, a, b
    <3>3. busy = (at # "none")
      OBVIOUS
    <3> HIDE DEF busy
    <3>4. n \in HangState
      BY <2>4, <3>1, <3>2, ZenonT(60) DEF HangState
    <3>5. /\ n.busy = busy /\ n.at = at /\ n.state = state
          /\ n.orphan = 0 /\ n.idle = 0 /\ n.deadSince = 0 /\ n.tools = {}
          /\ n.life = 0 /\ n.gone = 0 /\ n.quiet = 0 /\ ~n.compacting
      BY <2>4, <3>2 DEF HangState
    <3>6. n.t = s.t /\ n.due = s.due /\ n.cuts = s.cuts /\ n.healed = s.healed /\ n.compactAge = s.compactAge
      BY <2>4, <3>2 DEF HangState
    <3> QED BY <3>1, <3>3, <3>4, <3>5, <3>6
  <2> HIDE DEF a, b
  <2>7. /\ 0 < Longest(n.t) /\ Longest(n.t) \in Nat /\ n.healed \in Nat /\ n.t.cap \in Nat /\ n.t.dead \in Nat
        /\ n.compactAge <= HangCompact /\ HangHeal \in Nat /\ HangHeal > 0
    BY <2>5, <2>6, HardLimits, Thresholds, HangAssumption, HangOrdered DEF HangState, TurnWatched
  <2>8. TurnWatched(n)
    <3>1. HangPlaced(n) /\ Dying(n)
      BY <2>6, <2>7 DEF HangPlaced, Dying
    <3>2. Silent(n) /\ Living(n)
      BY <2>6, <2>7 DEF Silent, Living
    <3> QED BY <2>6, <2>7, <3>1, <3>2 DEF TurnWatched
  <2>9. TurnWaits(n) /\ Settled(n)
    BY <2>6, <2>7 DEF TurnWaits, Settled
  <2> QED BY <2>6, <2>8, <2>9
<1> QED BY <1>1, <1>2

(* The fields of Idle.                                                     *)
LEMMA IdleFields ==
    ASSUME NEW s \in HangState, NEW a \in Nat, NEW q \in Nat
    PROVE  LET n == [Idle(s) EXCEPT !.attempt = a, !.queue = q]
           IN  /\ n \in HangState /\ n.busy = FALSE /\ n.at = "none" /\ n.state = "idle" /\ n.tools = {}
               /\ n.quiet = 0 /\ n.life = 0 /\ n.gone = 0
               /\ n.t = s.t /\ n.due = s.due /\ n.cuts = s.cuts /\ n.compacting = s.compacting
               /\ n.orphan = s.orphan /\ n.compactAge = s.compactAge /\ n.healed = s.healed
<1> DEFINE n == [s EXCEPT !.busy = FALSE, !.at = "none", !.state = "idle", !.tools = {}, !.toolsAge = 0,
                          !.arm = 0, !.quiet = 0, !.life = 0, !.gone = 0, !.attempt = a, !.queue = q]
<1>1. [Idle(s) EXCEPT !.attempt = a, !.queue = q] = n
  BY DEF Idle, HangState
<1>2. n \in HangState
  <2> DEFINE x == [s EXCEPT !.busy = FALSE, !.at = "none", !.state = "idle"]
             y == [x EXCEPT !.tools = {}, !.toolsAge = 0, !.arm = 0]
             z == [y EXCEPT !.quiet = 0, !.life = 0, !.gone = 0]
  <2>1. n = [z EXCEPT !.attempt = a, !.queue = q]
    BY DEF HangState
  <2>2. x \in HangState
    BY DEF HangState, HangPlaces
  <2> HIDE DEF x, n
  <2>3. y \in HangState
    BY <2>2 DEF HangState
  <2> HIDE DEF y
  <2>4. z \in HangState
    BY <2>3 DEF HangState
  <2> HIDE DEF z
  <2> QED BY <2>1, <2>4 DEF HangState
<1>3. /\ n.busy = FALSE /\ n.at = "none" /\ n.state = "idle" /\ n.tools = {}
      /\ n.quiet = 0 /\ n.life = 0 /\ n.gone = 0
  BY DEF HangState
<1>4. /\ n.t = s.t /\ n.due = s.due /\ n.cuts = s.cuts /\ n.compacting = s.compacting
      /\ n.orphan = s.orphan /\ n.compactAge = s.compactAge /\ n.healed = s.healed
  BY DEF HangState
<1> HIDE DEF n
<1> QED BY <1>1, <1>2, <1>3, <1>4

(* Nothing runs any more.                                                  *)
LEMMA IdleKeeps ==
    ASSUME NEW s \in HangState, ~s.compacting, s.orphan = 0, s.compactAge <= HangCompact,
           NEW a \in Nat, NEW q \in Nat
    PROVE  LET n == [Idle(s) EXCEPT !.attempt = a, !.queue = q]
           IN  TurnWatched(n) /\ TurnWaits(n) /\ Settled(n) /\ n.t = s.t /\ n.due = s.due /\ n.cuts = s.cuts
<1> DEFINE n == [Idle(s) EXCEPT !.attempt = a, !.queue = q]
<1>1. /\ n \in HangState /\ n.busy = FALSE /\ n.at = "none" /\ n.state = "idle" /\ n.tools = {}
      /\ n.quiet = 0 /\ n.life = 0 /\ n.gone = 0
      /\ n.t = s.t /\ n.due = s.due /\ n.cuts = s.cuts /\ n.compacting = s.compacting
      /\ n.orphan = s.orphan /\ n.compactAge = s.compactAge /\ n.healed = s.healed
  BY IdleFields, ZenonT(60)
<1> HIDE DEF n
<1>2. n.t \in HangProfiles /\ n.healed \in Nat
  BY <1>1 DEF HangState
<1>3. 0 < Longest(n.t) /\ Longest(n.t) \in Nat /\ n.t.cap \in Nat /\ n.t.dead \in Nat
  BY <1>2, HardLimits, Thresholds
<1>4. HangPlaced(n) /\ Dying(n)
  BY <1>1, <1>3 DEF HangPlaced, Dying
<1>5. Silent(n) /\ Living(n)
  BY <1>1, <1>3 DEF Silent, Living
<1>6. TurnWaits(n) /\ Settled(n)
  BY <1>1, <1>2, HangAssumption, HangOrdered DEF TurnWaits, Settled
<1>7. TurnWatched(n)
  BY <1>1, <1>4, <1>5 DEF TurnWatched
<1> QED BY <1>1, <1>6, <1>7 DEF n

(* A turn that is recovered is watched again, and counted as cut.          *)
LEMMA RecoveredKeeps ==
    ASSUME NEW s, TurnWatched(s), TurnWaits(s), s.at # "none", NEW n \in Recovered(s)
    PROVE  TurnWatched(n) /\ TurnWaits(n) /\ Settled(n) /\ n.t = s.t /\ n.due = s.due /\ n.cuts # s.cuts
<1> DEFINE c == Touched(s)
           m == [c EXCEPT !.cuts = 1 - @]
           again == s.t.retries /\ s.attempt = 0 /\ s.at # "refused"
           a == IF again THEN 1 ELSE 0
           q == IF again THEN s.queue + 1 ELSE s.queue
           k == [Idle(m) EXCEPT !.attempt = a, !.queue = q]
<1>1. s \in HangState /\ ~s.compacting /\ s.orphan = 0 /\ s.compactAge <= HangCompact
  <2>1. s \in HangState /\ s.busy /\ ~s.compacting /\ s.compactAge <= HangCompact
    BY DEF TurnWatched, HangPlaced
  <2> QED BY <2>1 DEF TurnWaits, TurnWaiting, HangState
<1>2. 1 - s.cuts \in {0, 1} /\ 1 - s.cuts # s.cuts /\ s.queue + 1 \in Nat
  BY <1>1 DEF HangState
<1>3. /\ c \in HangState /\ c.cuts = s.cuts /\ c.t = s.t /\ c.due = s.due /\ c.queue = s.queue
      /\ ~c.compacting /\ c.orphan = 0 /\ c.compactAge <= HangCompact
  BY <1>1, TouchedKeeps
<1> HIDE DEF c
<1>4. /\ m \in HangState /\ ~m.compacting /\ m.orphan = 0 /\ m.compactAge <= HangCompact
      /\ m.t = s.t /\ m.due = s.due /\ m.cuts # s.cuts /\ m.queue = s.queue
  <2>1. 1 - c.cuts \in {0, 1} /\ 1 - c.cuts # s.cuts
    BY <1>2, <1>3
  <2>2. m = [c EXCEPT !.cuts = 1 - c.cuts]
    OBVIOUS
  <2> HIDE DEF m
  <2>3. m \in HangState /\ m.cuts = 1 - c.cuts
    BY <1>3, <2>1, <2>2 DEF HangState
  <2>4. /\ m.t = c.t /\ m.due = c.due /\ m.queue = c.queue
        /\ m.compacting = c.compacting /\ m.orphan = c.orphan /\ m.compactAge = c.compactAge
    BY <1>3, <2>2 DEF HangState
  <2> QED BY <1>3, <2>1, <2>3, <2>4
<1> HIDE DEF m
<1>5. a \in Nat /\ q \in Nat
  BY <1>1, <1>2 DEF HangState
<1>6. n \in Drained(k)
  <2>1. Idle(m).queue = s.queue
    BY <1>4 DEF Idle, HangState
  <2>2. Recovered(s) = Drained([Idle(m) EXCEPT !.attempt = a, !.queue = IF again THEN @ + 1 ELSE @])
    BY Zenon DEF Recovered, m, c
  <2>3. [Idle(m) EXCEPT !.attempt = a, !.queue = IF again THEN @ + 1 ELSE @] = k
    <3> HIDE DEF again
    <3> QED BY <2>1
  <2> HIDE DEF k
  <2> QED BY <2>2, <2>3
<1> HIDE DEF a, q
<1>7. TurnWatched(k) /\ TurnWaits(k) /\ Settled(k) /\ k.t = m.t /\ k.due = m.due /\ k.cuts = m.cuts
  BY <1>4, <1>5, IdleKeeps
<1> HIDE DEF k
<1> QED BY <1>4, <1>6, <1>7, DrainedKeeps

-----------------------------------------------------------------------------
(* The watch *)

(* What a turn must be for the watch to cut it. *)
MayCut(s) ==
    \/ s.at \in {"dead", "refused"}
    \/ s.at = "live" /\ s.t.cap # 0 /\ s.life >= s.t.cap
    \/ s.at = "live" /\ s.quiet >= Shortest(s.t) /\ (s.tools = {} \/ s.toolsAge >= s.t.tools)

(* What a look of the watch at s leaves behind. *)
Looked(s, n) ==
    /\ TurnWatched(n) /\ TurnWaits(n) /\ Settled(n) /\ n.t = s.t
    /\ n.cuts # s.cuts => MayCut(s)

(* A hard silence is no shorter than the shortest limit, another one       *)
(* shorter than the longest.                                               *)
LEMMA PhaseLimits ==
    ASSUME NEW t \in HangProfiles, NEW idle \in Nat, NEW cold \in BOOLEAN
    PROVE  /\ HangPhase(idle, t, cold) = "hard" => idle >= Shortest(t)
           /\ HangPhase(idle, t, cold) # "hard" => idle < Longest(t)
<1>1. /\ Cold(t) \in Nat /\ Warm(t) \in Nat /\ Shortest(t) \in Nat /\ Longest(t) \in Nat
      /\ Shortest(t) <= Cold(t) /\ Shortest(t) <= Warm(t) /\ Cold(t) <= Longest(t) /\ Warm(t) <= Longest(t)
  BY HardLimits
<1>2. HangPhase(idle, t, cold) = "hard" <=> idle >= (IF cold THEN Cold(t) ELSE Warm(t))
  BY PhaseHard
<1> DEFINE hard == IF cold THEN Cold(t) ELSE Warm(t)
<1>3. hard \in {Cold(t), Warm(t)}
  OBVIOUS
<1> HIDE DEF hard
<1> QED BY <1>1, <1>2, <1>3 DEF hard

(* The watch of the silence cuts only what may be cut, and leaves no       *)
(* silence that is too long.                                               *)
LEMMA SilenceLooked ==
    ASSUME NEW s, TurnWatched(s), TurnWaits(s), s.at \notin {"none", "gate"}, s.tools = {},
           s.at = "dead" => s.deadSince <= s.t.dead /\ s.deadSince # 0,
           s.at = "live" /\ s.t.cap # 0 => s.life < s.t.cap,
           NEW n \in WatchSilence(s)
    PROVE  Looked(s, n)
<1> DEFINE phase == HangPhase(s.idle, s.t, ~s.firstEvent)
<1>1. s \in HangState /\ s.t \in HangProfiles /\ s.idle \in Nat /\ (~s.firstEvent) \in BOOLEAN
  BY DEF TurnWatched, HangState
<1>2. (phase = "hard" => s.idle >= Shortest(s.t)) /\ (phase # "hard" => s.idle < Longest(s.t))
  BY <1>1, PhaseLimits
<1>3. s.at \in {"refused", "live", "dead"}
  BY <1>1 DEF HangState, HangPlaces
<1>4. \/ phase = "hard" /\ n \in Recovered(s)
      \/ phase # "hard" /\ n \in {s, [s EXCEPT !.soft = TRUE, !.state = "stalled"]}
  BY DEF WatchSilence
<1> HIDE DEF phase
<1>5. CASE phase = "hard" /\ n \in Recovered(s)
  <2>1. TurnWatched(n) /\ TurnWaits(n) /\ Settled(n) /\ n.t = s.t
    BY <1>3, <1>5, RecoveredKeeps
  <2>2. MayCut(s)
    BY <1>2, <1>3, <1>5 DEF MayCut, TurnWatched, Silent
  <2> QED BY <2>1, <2>2 DEF Looked
<1>6. CASE phase # "hard" /\ n \in {s, [s EXCEPT !.soft = TRUE, !.state = "stalled"]}
  <2>1. Settled(s)
    <3>1. s.orphan = 0 /\ s.compacting = FALSE
      <4>1. s.busy /\ s.compacting = FALSE
        BY <1>1, <1>3 DEF TurnWatched, HangPlaced, HangState
      <4> QED BY <1>1, <4>1 DEF TurnWaits, TurnWaiting, HangState
    <3>2. s.at \in {"live", "refused"} => s.quiet < Longest(s.t)
      BY <1>2, <1>6 DEF TurnWatched, Silent
    <3>3. HangHeal > 0
      BY HangOrdered
    <3> QED BY <3>1, <3>2, <3>3 DEF Settled
  <2>2. CASE n = s
    BY <2>1, <2>2 DEF Looked
  <2>3. CASE n = [s EXCEPT !.soft = TRUE, !.state = "stalled"]
    <3>1. n \in HangState
      BY <1>1, <2>3 DEF HangState
    <3>2. /\ <<n.t, n.queue, n.busy, n.at, n.age, n.idle, n.deadSince, n.tools, n.toolsAge, n.arm, n.compacting>>
             = <<s.t, s.queue, s.busy, s.at, s.age, s.idle, s.deadSince, s.tools, s.toolsAge, s.arm, s.compacting>>
          /\ <<n.compactAge, n.healed, n.cuts, n.quiet, n.life, n.gone, n.orphan>>
             = <<s.compactAge, s.healed, s.cuts, s.quiet, s.life, s.gone, s.orphan>>
      BY <1>1, <2>3 DEF HangState
    <3>3. TurnWatched(n)
      BY <3>1, <3>2 DEF TurnWatched, HangPlaced, Dying, Silent, Living
    <3>4. TurnWaits(n) /\ Settled(n)
      BY <2>1, <3>2 DEF TurnWaits, TurnWaiting, Settled
    <3> QED BY <3>2, <3>3, <3>4 DEF Looked
  <2> QED BY <1>6, <2>2, <2>3
<1> QED BY <1>4, <1>5, <1>6

(* The watch of the open tools.                                            *)
LEMMA ToolsLooked ==
    ASSUME NEW s, TurnWatched(s), TurnWaits(s), s.at \notin {"none", "gate"},
           s.at = "dead" => s.deadSince <= s.t.dead /\ s.deadSince # 0,
           s.at = "live" /\ s.t.cap # 0 => s.life < s.t.cap,
           NEW n \in WatchTools(s)
    PROVE  Looked(s, n)
<1>1. s \in HangState /\ s.t \in HangProfiles /\ s.t.tools \in Nat /\ s.toolsAge \in Nat
  <2>1. s \in HangState /\ s.t \in HangProfiles /\ s.toolsAge \in Nat
    BY DEF TurnWatched, HangState
  <2> QED BY <2>1, Thresholds
<1>2. CASE s.tools = {}
  BY <1>2, SilenceLooked DEF WatchTools
<1>3. CASE s.tools # {} /\ s.toolsAge >= s.t.tools
  <2> DEFINE r == [s EXCEPT !.tools = {}, !.toolsAge = 0]
  <2>1. r \in HangState /\ r.tools = {}
    BY <1>1 DEF HangState
  <2>2. /\ <<r.t, r.queue, r.busy, r.at, r.age, r.idle, r.deadSince, r.state, r.arm, r.compacting>>
           = <<s.t, s.queue, s.busy, s.at, s.age, s.idle, s.deadSince, s.state, s.arm, s.compacting>>
        /\ <<r.compactAge, r.healed, r.cuts, r.quiet, r.life, r.gone, r.orphan>>
           = <<s.compactAge, s.healed, s.cuts, s.quiet, s.life, s.gone, s.orphan>>
    BY <1>1 DEF HangState
  <2>3. n \in WatchSilence(r)
    BY <1>3 DEF WatchTools
  <2> HIDE DEF r
  <2>4. TurnWatched(r)
    BY <2>1, <2>2 DEF TurnWatched, HangPlaced, Dying, Silent, Living
  <2>5. TurnWaits(r)
    BY <2>2 DEF TurnWaits, TurnWaiting
  <2>6. Looked(r, n)
    BY <2>1, <2>2, <2>3, <2>4, <2>5, SilenceLooked
  <2>7. MayCut(r) => MayCut(s)
    BY <1>3, <2>2 DEF MayCut
  <2> QED BY <2>2, <2>6, <2>7 DEF Looked
<1>4. CASE s.tools # {} /\ ~(s.toolsAge >= s.t.tools)
  <2>1. s.state # "stalled" /\ s.at # "refused"
    BY <1>4 DEF TurnWatched, HangPlaced
  <2>2. n = s
    BY <1>4, <2>1 DEF WatchTools
  <2>3. s.quiet < Longest(s.t)
    <3>1. s.quiet <= s.toolsAge /\ s.quiet \in Nat
      BY <1>1, <1>4 DEF TurnWatched, Silent, HangState
    <3>2. s.t.tools <= Longest(s.t) /\ Longest(s.t) \in Nat
      BY <1>1, HardLimits
    <3> QED BY <1>1, <1>4, <3>1, <3>2
  <2>4. s.orphan = 0 /\ s.compacting = FALSE
    <3>1. s.busy /\ s.compacting = FALSE
      BY <1>1 DEF TurnWatched, HangPlaced, HangState
    <3> QED BY <1>1, <3>1 DEF TurnWaits, TurnWaiting, HangState
  <2>5. Settled(s)
    <3>1. HangHeal > 0
      BY HangOrdered
    <3> QED BY <2>3, <2>4, <3>1 DEF Settled
  <2> QED BY <2>2, <2>5 DEF Looked
<1> QED BY <1>2, <1>3, <1>4

(* The watch of the turn.                                                  *)
LEMMA TurnLooked ==
    ASSUME NEW s, TurnWatched(s), TurnWaits(s), s.at \notin {"none", "gate"}, NEW n \in WatchTurn(s)
    PROVE  Looked(s, n)
<1> DEFINE dead == IF s.at # "dead" THEN 0 ELSE IF s.deadSince = 0 THEN 1 ELSE s.deadSince
           r == [s EXCEPT !.deadSince = dead]
<1>1. /\ s \in HangState /\ s.t \in HangProfiles /\ s.deadSince \in Nat /\ s.gone \in Nat
      /\ s.at \in {"refused", "live", "dead"}
  BY DEF TurnWatched, HangState, HangPlaces
<1>2. s.t.dead \in Nat /\ s.t.cap \in Nat /\ s.t.life \in Nat
  BY <1>1, Thresholds
<1>3. /\ dead \in Nat
      /\ s.at # "dead" => dead = 0
      /\ s.at = "dead" => dead # 0 /\ s.gone <= dead + 1 /\ dead <= s.t.dead + 1
  BY <1>1, <1>2 DEF TurnWatched, Dying
<1> HIDE DEF dead
<1>4. r \in HangState /\ r.deadSince = dead
  BY <1>1, <1>3 DEF HangState
<1>5. /\ <<r.t, r.queue, r.busy, r.at, r.age, r.idle, r.tools, r.toolsAge, r.state, r.arm, r.compacting>>
         = <<s.t, s.queue, s.busy, s.at, s.age, s.idle, s.tools, s.toolsAge, s.state, s.arm, s.compacting>>
      /\ <<r.compactAge, r.healed, r.cuts, r.quiet, r.life, r.gone, r.orphan>>
         = <<s.compactAge, s.healed, s.cuts, s.quiet, s.life, s.gone, s.orphan>>
  BY <1>1 DEF HangState
<1>6. \/ dead > s.t.dead /\ n \in Recovered(r)
      \/ LifetimeExceeded(r) /\ n \in Recovered(r)
      \/ ~(dead > s.t.dead) /\ ~LifetimeExceeded(r) /\ n \in WatchTools(r)
  <2>1. WatchTurn(s) = IF r.deadSince > r.t.dead THEN Recovered(r)
                       ELSE IF LifetimeExceeded(r) THEN Recovered(r) ELSE WatchTools(r)
    BY DEF WatchTurn, dead
  <2> QED BY <1>4, <1>5, <2>1
<1> HIDE DEF r
<1>7. TurnWatched(r)
  <2>1. Dying(r)
    BY <1>1, <1>3, <1>4, <1>5 DEF TurnWatched, Dying
  <2> QED BY <1>4, <1>5, <2>1 DEF TurnWatched, HangPlaced, Silent, Living
<1>8. TurnWaits(r)
  BY <1>5 DEF TurnWaits, TurnWaiting
<1>9. r.at # "none" /\ MayCut(r) = MayCut(s)
  BY <1>1, <1>5 DEF MayCut
<1>10. n \in Recovered(r) => TurnWatched(n) /\ TurnWaits(n) /\ Settled(n) /\ n.t = r.t
  BY <1>7, <1>8, <1>9, RecoveredKeeps
<1>11. CASE dead > s.t.dead /\ n \in Recovered(r)
  <2>1. s.at = "dead"
    BY <1>2, <1>3, <1>11
  <2> QED BY <1>5, <1>10, <1>11, <2>1 DEF Looked, MayCut
<1>12. CASE LifetimeExceeded(r) /\ n \in Recovered(r)
  <2>1. /\ s.idle \in Nat /\ s.quiet \in Nat /\ s.toolsAge \in Nat /\ s.life \in Nat
        /\ s.at = "live" => s.quiet = s.idle
        /\ s.tools # {} => s.quiet <= s.toolsAge
        /\ s.at = "live" /\ s.t.marks => s.age = s.life
    BY <1>1 DEF TurnWatched, Silent, Living, HangState
  <2>2. (s.t.cap # 0 /\ s.age >= s.t.cap) \/ (s.t.life # 0 /\ s.idle >= s.t.life)
    BY <1>5, <1>12 DEF LifetimeExceeded
  <2>3. MayCut(s)
    <3>1. CASE s.at # "live"
      BY <1>1, <3>1 DEF MayCut
    <3>2. CASE s.at = "live" /\ s.t.cap # 0 /\ s.age >= s.t.cap
      <4>1. s.t.marks
        BY <1>1, <3>2, HangOrdered
      <4>2. s.age = s.life
        BY <2>1, <3>2, <4>1
      <4> QED BY <3>2, <4>2 DEF MayCut
    <3>3. CASE s.at = "live" /\ s.t.life # 0 /\ s.idle >= s.t.life
      <4>1. /\ s.t.hard \in Nat /\ s.t.first \in Nat /\ s.t.tools \in Nat
            /\ s.t.hard <= s.t.life /\ s.t.first <= s.t.life /\ s.t.tools <= s.t.life
        BY <1>1, <3>3, Thresholds, HangOrdered
      <4>2. /\ Shortest(s.t) \in Nat /\ Cold(s.t) \in Nat /\ Shortest(s.t) <= Cold(s.t)
            /\ Cold(s.t) = IF s.t.hard >= s.t.first THEN s.t.hard ELSE s.t.first
        BY <1>1, HardLimits
      <4>3. s.quiet >= Shortest(s.t)
        BY <1>2, <2>1, <3>3, <4>1, <4>2
      <4>4. s.tools = {} \/ s.toolsAge >= s.t.tools
        BY <1>2, <2>1, <3>3, <4>1
      <4> QED BY <3>3, <4>3, <4>4 DEF MayCut
    <3> QED BY <2>2, <3>1, <3>2, <3>3
  <2> QED BY <1>5, <1>10, <1>12, <2>3 DEF Looked
<1>13. CASE ~(dead > s.t.dead) /\ ~LifetimeExceeded(r) /\ n \in WatchTools(r)
  <2>1. r.at \notin {"none", "gate"} /\ (r.at = "dead" => r.deadSince <= r.t.dead /\ r.deadSince # 0)
    BY <1>1, <1>2, <1>3, <1>4, <1>5, <1>13
  <2>2. r.at = "live" /\ r.t.cap # 0 => r.life < r.t.cap
    <3>1. SUFFICES ASSUME r.at = "live" /\ r.t.cap # 0 PROVE r.life < r.t.cap
      OBVIOUS
    <3>2. r.life \in Nat /\ r.t.cap \in Nat /\ (r.t.marks => r.age = r.life) /\ ~(r.age >= r.t.cap)
      BY <1>2, <1>4, <1>5, <1>7, <1>13, <3>1 DEF TurnWatched, Living, LifetimeExceeded, HangState
    <3>3. r.t.marks
      BY <1>1, <1>5, <3>1, HangOrdered
    <3> QED BY <3>2, <3>3
  <2>3. Looked(r, n)
    BY <1>7, <1>8, <1>13, <2>1, <2>2, ToolsLooked
  <2> QED BY <1>5, <1>9, <2>3 DEF Looked
<1> QED BY <1>6, <1>11, <1>12, <1>13

(* A tick of the watchdog.                                                 *)
LEMMA WatchLooked ==
    ASSUME NEW s, TurnWatched(s), TurnWaits(s), NEW n \in Watch(s)
    PROVE  Looked(s, n)
<1>1. s \in HangState /\ s.t \in HangProfiles /\ s.orphan \in Nat /\ s.healed \in Nat /\ s.compactAge \in Nat
  BY DEF TurnWatched, HangState
<1>2. s.orphan > 0 => s.queue > 0 /\ ~s.busy /\ ~s.compacting
  BY DEF TurnWaits, TurnWaiting
<1>3. HangHeal \in Nat /\ HangHeal > 0 /\ HangCompact \in Nat /\ HangCompact > 0
  BY HangAssumption, HangOrdered
<1>4. (s.at # "none" => s.busy) /\ (s.busy => s.at # "none") /\ (~s.busy => s.at = "none") /\ (s.compacting => ~s.busy)
  BY DEF TurnWatched, HangPlaced
<1>5. CASE s.at = "gate"
  <2>1. n = [s EXCEPT !.deadSince = 0, !.soft = FALSE]
    BY <1>5 DEF Watch
  <2>2. n \in HangState /\ n.deadSince = 0
    BY <1>1, <2>1 DEF HangState
  <2>3. /\ <<n.t, n.queue, n.busy, n.at, n.age, n.idle, n.tools, n.toolsAge, n.state, n.arm, n.compacting>>
           = <<s.t, s.queue, s.busy, s.at, s.age, s.idle, s.tools, s.toolsAge, s.state, s.arm, s.compacting>>
        /\ <<n.compactAge, n.healed, n.cuts, n.quiet, n.life, n.gone, n.orphan>>
           = <<s.compactAge, s.healed, s.cuts, s.quiet, s.life, s.gone, s.orphan>>
    BY <1>1, <2>1 DEF HangState
  <2>4. Dying(n)
    BY <1>5, <2>2, <2>3 DEF TurnWatched, Dying
  <2>5. TurnWatched(n) /\ TurnWaits(n)
    BY <2>2, <2>3, <2>4 DEF TurnWatched, HangPlaced, Silent, Living, TurnWaits, TurnWaiting
  <2>6. Settled(n)
    BY <1>1, <1>2, <1>3, <1>4, <1>5, <2>3 DEF Settled
  <2> QED BY <2>3, <2>5, <2>6 DEF Looked
<1>6. CASE s.at # "gate" /\ s.compacting
  <2>1. ~TurnWaiting(s) /\ s.orphan = 0 /\ s.at = "none"
    BY <1>1, <1>2, <1>4, <1>6 DEF TurnWaiting
  <2>2. CASE s.compactAge >= HangCompact
    <3> DEFINE m == [s EXCEPT !.compacting = FALSE]
    <3>1. n \in Drained(m)
      BY <1>6, <2>2 DEF Watch
    <3>2. m \in HangState /\ m.compacting = FALSE
      BY <1>1 DEF HangState
    <3>3. /\ <<m.t, m.queue, m.busy, m.at, m.age, m.idle, m.tools, m.toolsAge, m.state, m.arm, m.deadSince>>
             = <<s.t, s.queue, s.busy, s.at, s.age, s.idle, s.tools, s.toolsAge, s.state, s.arm, s.deadSince>>
          /\ <<m.compactAge, m.healed, m.cuts, m.quiet, m.life, m.gone, m.orphan>>
             = <<s.compactAge, s.healed, s.cuts, s.quiet, s.life, s.gone, s.orphan>>
      BY <1>1 DEF HangState
    <3> HIDE DEF m
    <3>4. TurnWatched(m)
      BY <3>2, <3>3 DEF TurnWatched, HangPlaced, Dying, Silent, Living
    <3>5. TurnWaits(m) /\ Settled(m)
      BY <1>1, <1>3, <2>1, <3>2, <3>3 DEF TurnWaits, Settled
    <3> QED BY <3>1, <3>3, <3>4, <3>5, DrainedKeeps DEF Looked
  <2>3. CASE ~(s.compactAge >= HangCompact)
    <3>1. n = s
      BY <1>6, <2>3 DEF Watch
    <3>2. Settled(s)
      BY <1>1, <1>3, <2>1, <2>3 DEF Settled
    <3> QED BY <3>1, <3>2 DEF Looked
  <2> QED BY <2>2, <2>3
<1>7. CASE s.at # "gate" /\ ~s.compacting /\ ~s.busy /\ s.queue > 0
  <2>1. TurnWaiting(s) /\ s.at = "none"
    BY <1>4, <1>7 DEF TurnWaiting
  <2>2. CASE s.healed >= HangHeal
    <3> DEFINE m == [s EXCEPT !.healed = 0]
    <3>1. n \in Drained(m)
      BY <1>7, <2>2 DEF Watch
    <3>2. m \in HangState /\ m.healed = 0
      BY <1>1 DEF HangState
    <3>3. /\ <<m.t, m.queue, m.busy, m.at, m.age, m.idle, m.tools, m.toolsAge, m.state, m.arm, m.deadSince>>
             = <<s.t, s.queue, s.busy, s.at, s.age, s.idle, s.tools, s.toolsAge, s.state, s.arm, s.deadSince>>
          /\ <<m.compactAge, m.compacting, m.cuts, m.quiet, m.life, m.gone, m.orphan>>
             = <<s.compactAge, s.compacting, s.cuts, s.quiet, s.life, s.gone, s.orphan>>
      BY <1>1 DEF HangState
    <3> HIDE DEF m
    <3>4. TurnWatched(m)
      BY <3>2, <3>3 DEF TurnWatched, HangPlaced, Dying, Silent, Living
    <3>5. TurnWaiting(m)
      BY <2>1, <3>3 DEF TurnWaiting
    <3> QED BY <3>1, <3>3, <3>4, <3>5, DrainedKeeps DEF Looked
  <2>3. CASE ~(s.healed >= HangHeal)
    <3>1. n = s
      BY <1>7, <2>3 DEF Watch
    <3>2. s.orphan < HangHeal
      BY <1>1, <1>3, <2>3 DEF TurnWaits
    <3>3. Settled(s)
      BY <1>7, <2>1, <3>2 DEF Settled
    <3> QED BY <3>1, <3>3 DEF Looked
  <2> QED BY <2>2, <2>3
<1>8. CASE s.at # "gate" /\ ~s.compacting /\ ~s.busy /\ ~(s.queue > 0)
  <2>1. s.orphan = 0 /\ s.at = "none"
    BY <1>1, <1>2, <1>4, <1>8
  <2>2. n = [s EXCEPT !.state = "idle", !.soft = FALSE, !.deadSince = 0]
    BY <1>8 DEF Watch
  <2>3. n \in HangState /\ n.state = "idle" /\ n.deadSince = 0
    BY <1>1, <2>2 DEF HangState
  <2>4. /\ <<n.t, n.queue, n.busy, n.at, n.age, n.idle, n.tools, n.toolsAge, n.arm, n.compacting>>
           = <<s.t, s.queue, s.busy, s.at, s.age, s.idle, s.tools, s.toolsAge, s.arm, s.compacting>>
        /\ <<n.compactAge, n.healed, n.cuts, n.quiet, n.life, n.gone, n.orphan>>
           = <<s.compactAge, s.healed, s.cuts, s.quiet, s.life, s.gone, s.orphan>>
    BY <1>1, <2>2 DEF HangState
  <2>5. TurnWatched(n) /\ TurnWaits(n)
    BY <2>1, <2>3, <2>4 DEF TurnWatched, HangPlaced, Dying, Silent, Living, TurnWaits, TurnWaiting
  <2>6. Settled(n)
    BY <1>3, <1>8, <2>1, <2>4 DEF Settled
  <2> QED BY <2>4, <2>5, <2>6 DEF Looked
<1>9. CASE s.at # "gate" /\ ~s.compacting /\ s.busy
  <2>1. n \in WatchTurn(s)
    BY <1>9 DEF Watch
  <2>2. s.at \notin {"none", "gate"}
    BY <1>4, <1>9
  <2> QED BY <2>1, <2>2, TurnLooked
<1> QED BY <1>5, <1>6, <1>7, <1>8, <1>9

-----------------------------------------------------------------------------
(* Every step but the watch's and time's keeps what holds between them. *)

Kept(s, n) ==
    /\ TurnWatched(n) /\ TurnWaits(n) /\ n.due = s.due
    /\ Settled(s) => Settled(n)

(* What the invariant says of the fields.                                  *)
LEMMA Ranges ==
    ASSUME NEW s, TurnWatched(s), TurnWaits(s)
    PROVE  /\ s \in HangState /\ s.t \in HangProfiles
           /\ s.queue \in Nat /\ s.sent \in Nat /\ s.faults \in Nat /\ s.orphan \in Nat /\ s.life \in Nat
           /\ s.at \in HangPlaces
           /\ s.at = "live" => s.busy /\ ~s.compacting
           /\ s.at = "gate" => s.busy /\ ~s.compacting
           /\ s.at = "dead" => s.busy /\ ~s.compacting
           /\ s.busy \/ s.compacting => s.orphan = 0
           /\ s.at = "live" => s.gone = 0 /\ s.deadSince = 0
           /\ 0 < Longest(s.t) /\ Longest(s.t) \in Nat /\ s.t.cap \in Nat /\ s.t.dead \in Nat /\ s.t.ceiling \in Nat
<1>1. /\ s \in HangState /\ s.t \in HangProfiles
      /\ s.queue \in Nat /\ s.sent \in Nat /\ s.faults \in Nat /\ s.orphan \in Nat /\ s.life \in Nat
      /\ s.at \in HangPlaces
  BY DEF TurnWatched, HangState
<1>2. /\ s.at = "live" => s.busy /\ ~s.compacting
      /\ s.at = "gate" => s.busy /\ ~s.compacting
      /\ s.at = "dead" => s.busy /\ ~s.compacting
  BY DEF TurnWatched, HangPlaced
<1>3. s.at = "live" => s.gone = 0 /\ s.deadSince = 0
  BY DEF TurnWatched, Dying
<1>4. s.busy \/ s.compacting => s.orphan = 0
  <2>1. s.orphan > 0 => ~s.busy /\ ~s.compacting
    BY DEF TurnWaits, TurnWaiting
  <2> QED BY <1>1, <2>1
<1>5. 0 < Longest(s.t) /\ Longest(s.t) \in Nat /\ s.t.cap \in Nat /\ s.t.dead \in Nat /\ s.t.ceiling \in Nat
  BY <1>1, HardLimits, Thresholds
<1> QED BY <1>1, <1>2, <1>3, <1>4, <1>5

(* A message more.                                                         *)
LEMMA PushKept ==
    ASSUME NEW s, TurnWatched(s), TurnWaits(s), NEW n \in Drained([s EXCEPT !.sent = @ + 1, !.queue = @ + 1])
    PROVE  Kept(s, n) /\ n.cuts = s.cuts
<1> DEFINE m == [s EXCEPT !.sent = @ + 1, !.queue = @ + 1]
<1>1. s \in HangState /\ s.queue + 1 \in Nat /\ s.sent + 1 \in Nat /\ s.queue + 1 > 0
  BY Ranges
<1>2. m \in HangState /\ m.queue > 0
  BY <1>1 DEF HangState
<1>3. /\ <<m.t, m.state, m.busy, m.at, m.age, m.idle, m.deadSince, m.tools, m.toolsAge, m.arm, m.compacting>>
         = <<s.t, s.state, s.busy, s.at, s.age, s.idle, s.deadSince, s.tools, s.toolsAge, s.arm, s.compacting>>
      /\ <<m.compactAge, m.healed, m.due, m.cuts, m.quiet, m.life, m.gone, m.orphan>>
         = <<s.compactAge, s.healed, s.due, s.cuts, s.quiet, s.life, s.gone, s.orphan>>
  BY <1>1 DEF HangState
<1>4. n \in Drained(m)
  OBVIOUS
<1> HIDE DEF m
<1>5. TurnWatched(m)
  BY <1>2, <1>3 DEF TurnWatched, HangPlaced, Dying, Silent, Living
<1>6. TurnWaits(m) /\ (Settled(s) => Settled(m))
  BY <1>2, <1>3 DEF TurnWaits, TurnWaiting, Settled
<1> QED BY <1>3, <1>4, <1>5, <1>6, DrainedKeeps DEF Kept

(* The fields of a turn that is granted its slot.                          *)
LEMMA GrantFields ==
    ASSUME NEW m \in HangState, NEW c \in Nat
    PROVE  LET n == [m EXCEPT !.at = "live", !.arm = c, !.quiet = 0, !.life = 0]
           IN  /\ n \in HangState /\ n.at = "live" /\ n.arm = c /\ n.quiet = 0 /\ n.life = 0
               /\ n.state = m.state /\ n.idle = m.idle /\ n.deadSince = m.deadSince /\ n.tools = m.tools
               /\ n.gone = m.gone /\ n.busy = m.busy /\ n.compacting = m.compacting /\ n.compactAge = m.compactAge
               /\ n.orphan = m.orphan /\ n.t = m.t /\ n.healed = m.healed /\ n.due = m.due /\ n.cuts = m.cuts
               /\ n.age = m.age
<1> DEFINE x == [m EXCEPT !.at = "live", !.arm = c]
           n == [x EXCEPT !.quiet = 0, !.life = 0]
<1>1. [m EXCEPT !.at = "live", !.arm = c, !.quiet = 0, !.life = 0] = n
  BY DEF HangState
<1>2. x \in HangState /\ x.at = "live" /\ x.arm = c
  BY DEF HangState, HangPlaces
<1>3. /\ x.state = m.state /\ x.idle = m.idle /\ x.deadSince = m.deadSince /\ x.tools = m.tools
      /\ x.gone = m.gone /\ x.busy = m.busy /\ x.compacting = m.compacting /\ x.compactAge = m.compactAge
      /\ x.orphan = m.orphan /\ x.t = m.t /\ x.healed = m.healed /\ x.due = m.due /\ x.cuts = m.cuts
      /\ x.age = m.age
  BY DEF HangState
<1> HIDE DEF x
<1>4. n \in HangState /\ n.quiet = 0 /\ n.life = 0
  BY <1>2 DEF HangState
<1>5. /\ n.state = x.state /\ n.idle = x.idle /\ n.deadSince = x.deadSince /\ n.tools = x.tools
      /\ n.gone = x.gone /\ n.busy = x.busy /\ n.compacting = x.compacting /\ n.compactAge = x.compactAge
      /\ n.orphan = x.orphan /\ n.t = x.t /\ n.healed = x.healed /\ n.due = x.due /\ n.cuts = x.cuts
      /\ n.age = x.age /\ n.at = x.at /\ n.arm = x.arm
  BY <1>2 DEF HangState
<1> HIDE DEF n
<1> QED BY <1>1, <1>2, <1>3, <1>4, <1>5

(* The gate grants the slot.                                               *)
LEMMA GateKept ==
    ASSUME NEW s, TurnWatched(s), TurnWaits(s), s.at = "gate", NEW n,
           n = [TurnMarked(Touched([s EXCEPT !.state = "thinking"]))
                 EXCEPT !.at = "live", !.arm = s.t.ceiling, !.quiet = 0, !.life = 0]
    PROVE  Kept(s, n) /\ n.cuts = s.cuts
<1> DEFINE c == [s EXCEPT !.state = "thinking"]
           u == Touched(c)
           m == TurnMarked(u)
<1>1. /\ s \in HangState /\ s.busy /\ ~s.compacting /\ s.orphan = 0 /\ s.t \in HangProfiles
      /\ 0 < Longest(s.t) /\ Longest(s.t) \in Nat /\ s.t.cap \in Nat /\ s.t.ceiling \in Nat
  BY Ranges
<1>2. s.tools = {} /\ s.gone = 0 /\ s.compactAge <= HangCompact
  BY DEF TurnWatched, HangPlaced, Dying
<1>3. c \in HangState /\ <<c.t, c.busy, c.tools, c.compacting, c.compactAge>> = <<s.t, s.busy, s.tools, s.compacting, s.compactAge>>
      /\ <<c.healed, c.due, c.cuts, c.gone, c.orphan>> = <<s.healed, s.due, s.cuts, s.gone, s.orphan>>
  BY <1>1, ZenonT(60) DEF HangState
<1> HIDE DEF c
<1>4. /\ u \in HangState /\ u.state # "stalled" /\ u.idle = 0 /\ u.deadSince = 0 /\ u.tools = {} /\ u.gone = 0
      /\ u.busy /\ ~u.compacting /\ u.compactAge <= HangCompact /\ u.orphan = 0
      /\ u.t = s.t /\ u.healed = s.healed /\ u.due = s.due /\ u.cuts = s.cuts
  BY <1>1, <1>2, <1>3, TouchedKeeps
<1> HIDE DEF u
<1>5. /\ m \in HangState /\ m.state = u.state /\ m.idle = u.idle /\ m.deadSince = u.deadSince /\ m.tools = u.tools
      /\ m.gone = u.gone /\ m.busy = u.busy /\ m.compacting = u.compacting /\ m.compactAge = u.compactAge
      /\ m.orphan = u.orphan /\ m.t = u.t /\ m.healed = u.healed /\ m.due = u.due /\ m.cuts = u.cuts
      /\ u.t.marks => m.age = 0
  <2>1. u \in HangState
    BY <1>4
  <2>2. CASE u.t.marks
    <3>1. m = [u EXCEPT !.age = 0, !.firstEvent = FALSE]
      BY <2>2 DEF TurnMarked
    <3> HIDE DEF m
    <3>2. m \in HangState /\ m.age = 0
      BY <2>1, <3>1 DEF HangState
    <3>3. /\ m.state = u.state /\ m.idle = u.idle /\ m.deadSince = u.deadSince /\ m.tools = u.tools
          /\ m.gone = u.gone /\ m.busy = u.busy /\ m.compacting = u.compacting /\ m.compactAge = u.compactAge
          /\ m.orphan = u.orphan /\ m.t = u.t /\ m.healed = u.healed /\ m.due = u.due /\ m.cuts = u.cuts
      BY <2>1, <3>1 DEF HangState
    <3> QED BY <3>2, <3>3
  <2>3. CASE ~u.t.marks
    <3>1. m = u
      BY <2>3 DEF TurnMarked
    <3> HIDE DEF m
    <3> QED BY <2>1, <2>3, <3>1
  <2> QED BY <2>2, <2>3
<1>6. n = [m EXCEPT !.at = "live", !.arm = s.t.ceiling, !.quiet = 0, !.life = 0]
  BY DEF m, u, c
<1> HIDE DEF m
<1>7. /\ n \in HangState /\ n.at = "live" /\ n.arm = s.t.ceiling /\ n.quiet = 0 /\ n.life = 0
      /\ n.state = m.state /\ n.idle = m.idle /\ n.deadSince = m.deadSince /\ n.tools = m.tools
      /\ n.gone = m.gone /\ n.busy = m.busy /\ n.compacting = m.compacting /\ n.compactAge = m.compactAge
      /\ n.orphan = m.orphan /\ n.t = m.t /\ n.healed = m.healed /\ n.due = m.due /\ n.cuts = m.cuts
      /\ n.age = m.age
  <2> DEFINE g == [m EXCEPT !.at = "live", !.arm = s.t.ceiling, !.quiet = 0, !.life = 0]
  <2>1. m \in HangState /\ s.t.ceiling \in Nat
    BY <1>1, <1>5
  <2>2. /\ g \in HangState /\ g.at = "live" /\ g.arm = s.t.ceiling /\ g.quiet = 0 /\ g.life = 0
        /\ g.state = m.state /\ g.idle = m.idle /\ g.deadSince = m.deadSince /\ g.tools = m.tools
        /\ g.gone = m.gone /\ g.busy = m.busy /\ g.compacting = m.compacting /\ g.compactAge = m.compactAge
        /\ g.orphan = m.orphan /\ g.t = m.t /\ g.healed = m.healed /\ g.due = m.due /\ g.cuts = m.cuts
        /\ g.age = m.age
    BY <2>1, GrantFields
  <2>3. n = g
    BY <1>6
  <2> HIDE DEF g
  <2> QED BY <2>2, <2>3
<1>8. n.healed \in Nat /\ n.busy \in BOOLEAN
  BY <1>7 DEF HangState
<1>9. /\ n.state # "stalled" /\ n.idle = 0 /\ n.deadSince = 0 /\ n.tools = {} /\ n.gone = 0 /\ n.busy = TRUE
      /\ ~n.compacting /\ n.compactAge <= HangCompact /\ n.orphan = 0 /\ n.t = s.t
      /\ n.due = s.due /\ n.cuts = s.cuts
      /\ n.t.marks => n.age = 0
  BY <1>4, <1>5, <1>7, <1>8, ZenonT(60)
<1>10. HangPlaced(n) /\ Dying(n)
  BY <1>7, <1>9 DEF HangPlaced, Dying
<1>11. Silent(n) /\ Living(n)
  BY <1>1, <1>7, <1>9 DEF Silent, Living
<1>12. TurnWaits(n) /\ Settled(n)
  <2>1. HangHeal \in Nat /\ HangHeal > 0
    BY HangAssumption, HangOrdered
  <2> QED BY <1>1, <1>7, <1>8, <1>9, <2>1 DEF TurnWaits, Settled
<1> QED BY <1>7, <1>9, <1>10, <1>11, <1>12 DEF Kept, TurnWatched

(* The CLI of a turn that runs said something. *)
Spoke(s, n) ==
    /\ n \in HangState /\ n.state # "stalled" /\ n.idle = 0 /\ n.deadSince = 0 /\ n.quiet = 0
    /\ <<n.t, n.queue, n.busy, n.at, n.age, n.arm, n.compacting, n.compactAge>>
       = <<s.t, s.queue, s.busy, s.at, s.age, s.arm, s.compacting, s.compactAge>>
    /\ <<n.healed, n.due, n.cuts, n.life, n.gone, n.orphan>> = <<s.healed, s.due, s.cuts, s.life, s.gone, s.orphan>>

(* A turn that is heard of is watched from then.                           *)
LEMMA SpokeKept ==
    ASSUME NEW s, TurnWatched(s), TurnWaits(s), s.at = "live", NEW n, Spoke(s, n)
    PROVE  Kept(s, n) /\ n.cuts = s.cuts
<1>1. /\ n \in HangState /\ n.state # "stalled" /\ n.idle = 0 /\ n.deadSince = 0 /\ n.quiet = 0
      /\ <<n.t, n.queue, n.busy, n.at, n.age, n.arm, n.compacting, n.compactAge>>
         = <<s.t, s.queue, s.busy, s.at, s.age, s.arm, s.compacting, s.compactAge>>
      /\ <<n.healed, n.due, n.cuts, n.life, n.gone, n.orphan>> = <<s.healed, s.due, s.cuts, s.life, s.gone, s.orphan>>
  BY DEF Spoke
<1>2. n.at = "live" /\ n.toolsAge \in Nat /\ 0 < Longest(n.t) /\ Longest(n.t) \in Nat
  <2>1. n.toolsAge \in Nat
    BY <1>1 DEF HangState
  <2>2. n.t = s.t
    BY <1>1
  <2> QED BY <1>1, <2>1, <2>2, Ranges
<1>3. HangPlaced(n) /\ Dying(n) /\ Living(n) /\ n.compactAge <= HangCompact
  BY <1>1, <1>2 DEF TurnWatched, HangPlaced, Dying, Living
<1>4. Silent(n)
  BY <1>1, <1>2 DEF Silent
<1>5. TurnWaits(n)
  BY <1>1 DEF TurnWaits, TurnWaiting
<1>6. Settled(s) => Settled(n)
  BY <1>1, <1>2 DEF Settled
<1>7. n.due = s.due /\ n.cuts = s.cuts
  BY <1>1
<1> QED BY <1>1, <1>3, <1>4, <1>5, <1>6, <1>7 DEF Kept, TurnWatched

(* The fields of a turn that is heard of.                                  *)
LEMMA SpokeFields ==
    ASSUME NEW s \in HangState, NEW u, u = Touched(s), NEW state \in {u.state, "thinking"},
           NEW tools \in SUBSET (1 .. HangTools), NEW age \in Nat
    PROVE  Spoke(s, [u EXCEPT !.state = state, !.quiet = 0, !.tools = tools, !.toolsAge = age])
<1> DEFINE n == [u EXCEPT !.state = state, !.quiet = 0, !.tools = tools, !.toolsAge = age]
<1>1. /\ u \in HangState /\ u.state # "stalled" /\ u.idle = 0 /\ u.deadSince = 0
      /\ <<u.t, u.queue, u.busy, u.at, u.age, u.arm, u.compacting, u.compactAge>>
         = <<s.t, s.queue, s.busy, s.at, s.age, s.arm, s.compacting, s.compactAge>>
      /\ <<u.healed, u.due, u.cuts, u.life, u.gone, u.orphan>> = <<s.healed, s.due, s.cuts, s.life, s.gone, s.orphan>>
  BY TouchedKeeps
<1>2. state \in {"idle", "queued", "thinking", "stalled"} /\ state # "stalled"
  BY <1>1 DEF HangState
<1>3. u \in HangState
  BY <1>1
<1>4. n \in HangState
  BY <1>2, <1>3, ZenonT(60) DEF HangState
<1>5. n.state = state /\ n.quiet = 0 /\ n.idle = u.idle /\ n.deadSince = u.deadSince
  BY <1>3 DEF HangState
<1>6. /\ <<n.t, n.queue, n.busy, n.at, n.age, n.arm, n.compacting, n.compactAge>>
         = <<u.t, u.queue, u.busy, u.at, u.age, u.arm, u.compacting, u.compactAge>>
      /\ <<n.healed, n.due, n.cuts, n.life, n.gone, n.orphan>> = <<u.healed, u.due, u.cuts, u.life, u.gone, u.orphan>>
  BY <1>3 DEF HangState
<1> HIDE DEF n
<1>7. Spoke(s, n)
  BY <1>1, <1>2, <1>4, <1>5, <1>6 DEF Spoke
<1> QED BY <1>7 DEF n

(* An event of the turn.                                                   *)
LEMMA EventKept ==
    ASSUME HangInv, HangEvent
    PROVE  Kept(hw, hw') /\ hw'.cuts = hw.cuts
<1>1. PICK closes \in BOOLEAN :
         hw' = [Touched(hw) EXCEPT !.state = "thinking", !.quiet = 0, !.tools = IF closes THEN {} ELSE @,
                                   !.toolsAge = IF closes THEN 0 ELSE @]
  BY DEF HangEvent
<1> DEFINE u == Touched(hw)
           tools == IF closes THEN {} ELSE u.tools
           age == IF closes THEN 0 ELSE u.toolsAge
<1>2. TurnWatched(hw) /\ TurnWaits(hw) /\ hw.at = "live" /\ hw \in HangState
  BY Ranges DEF HangInv, HangEvent
<1>3. u \in HangState
  BY <1>2, TouchedKeeps
<1>4. hw' = [u EXCEPT !.state = "thinking", !.quiet = 0, !.tools = tools, !.toolsAge = age]
  BY <1>1
<1> HIDE DEF u
<1>5. tools \in SUBSET (1 .. HangTools) /\ age \in Nat
  BY <1>3 DEF HangState
<1> HIDE DEF tools, age
<1>6. u = Touched(hw)
  BY DEF u
<1>7. Spoke(hw, hw')
  BY <1>2, <1>4, <1>5, <1>6, SpokeFields
<1> QED BY <1>2, <1>7, SpokeKept

(* A tool opens.                                                           *)
LEMMA ToolOpensKept ==
    ASSUME HangInv, HangToolOpens
    PROVE  Kept(hw, hw') /\ hw'.cuts = hw.cuts
<1>1. PICK tool \in (1 .. HangTools) \ hw.tools :
         hw' = [Touched(hw) EXCEPT !.tools = @ \cup {tool}, !.quiet = 0,
                                   !.toolsAge = IF hw.tools = {} THEN 0 ELSE @]
  BY DEF HangToolOpens
<1> DEFINE u == Touched(hw)
           tools == u.tools \cup {tool}
           age == IF hw.tools = {} THEN 0 ELSE u.toolsAge
<1>2. TurnWatched(hw) /\ TurnWaits(hw) /\ hw.at = "live" /\ hw \in HangState
  BY Ranges DEF HangInv, HangToolOpens
<1>3. u \in HangState
  BY <1>2, TouchedKeeps
<1>4. hw' = [u EXCEPT !.tools = tools, !.quiet = 0, !.toolsAge = age]
  BY <1>1
<1> HIDE DEF u
<1>5. tools \in SUBSET (1 .. HangTools) /\ age \in Nat
  BY <1>1, <1>3 DEF HangState
<1> HIDE DEF tools, age
<1>6. [u EXCEPT !.tools = tools, !.quiet = 0, !.toolsAge = age]
      = [u EXCEPT !.state = u.state, !.quiet = 0, !.tools = tools, !.toolsAge = age]
  BY <1>3 DEF HangState
<1>7. u = Touched(hw)
  BY DEF u
<1>8. Spoke(hw, hw')
  <2>1. Spoke(hw, [u EXCEPT !.state = u.state, !.quiet = 0, !.tools = tools, !.toolsAge = age])
    BY <1>2, <1>5, <1>7, SpokeFields
  <2> QED BY <1>4, <1>6, <2>1
<1> QED BY <1>2, <1>8, SpokeKept

(* A tool closes.                                                          *)
LEMMA ToolClosesKept ==
    ASSUME HangInv, HangToolCloses
    PROVE  Kept(hw, hw') /\ hw'.cuts = hw.cuts
<1>1. PICK tool \in hw.tools :
         hw' = [hw EXCEPT !.tools = @ \ {tool}, !.toolsAge = IF hw.tools = {tool} THEN 0 ELSE @]
  BY DEF HangToolCloses
<1>2. TurnWatched(hw) /\ TurnWaits(hw) /\ hw \in HangState
  BY Ranges DEF HangInv
<1> DEFINE tools == hw.tools \ {tool}
           age == IF hw.tools = {tool} THEN 0 ELSE hw.toolsAge
<1>3. /\ tools \in SUBSET (1 .. HangTools) /\ age \in Nat
      /\ tools # {} => hw.tools # {} /\ age = hw.toolsAge
      /\ hw.tools = {} => tools = {}
  BY <1>2 DEF HangState
<1>4. hw' = [hw EXCEPT !.tools = tools, !.toolsAge = age]
  BY <1>1
<1> HIDE DEF tools, age
<1>5. hw' \in HangState /\ hw'.tools = tools /\ hw'.toolsAge = age
  BY <1>2, <1>3, <1>4 DEF HangState
<1>6. /\ <<hw'.t, hw'.queue, hw'.busy, hw'.at, hw'.age, hw'.arm, hw'.compacting, hw'.compactAge>>
         = <<hw.t, hw.queue, hw.busy, hw.at, hw.age, hw.arm, hw.compacting, hw.compactAge>>
      /\ <<hw'.healed, hw'.due, hw'.cuts, hw'.life, hw'.gone, hw'.orphan>> = <<hw.healed, hw.due, hw.cuts, hw.life, hw.gone, hw.orphan>>
      /\ <<hw'.state, hw'.idle, hw'.deadSince, hw'.quiet>> = <<hw.state, hw.idle, hw.deadSince, hw.quiet>>
  BY <1>2, <1>4 DEF HangState
<1>7. TurnWatched(hw')
  BY <1>2, <1>3, <1>5, <1>6 DEF TurnWatched, HangPlaced, Dying, Silent, Living
<1>8. TurnWaits(hw') /\ (Settled(hw) => Settled(hw'))
  BY <1>2, <1>6 DEF TurnWaits, TurnWaiting, Settled
<1> QED BY <1>6, <1>7, <1>8 DEF Kept

(* The process of a turn that ran is gone. *)
Died(s, n) ==
    /\ n \in HangState /\ n.at = "dead"
    /\ <<n.t, n.queue, n.busy, n.age, n.compacting, n.compactAge, n.healed, n.due>>
       = <<s.t, s.queue, s.busy, s.age, s.compacting, s.compactAge, s.healed, s.due>>
    /\ <<n.life, n.gone, n.orphan, n.state, n.idle, n.deadSince, n.tools, n.toolsAge, n.quiet>>
       = <<s.life, s.gone, s.orphan, s.state, s.idle, s.deadSince, s.tools, s.toolsAge, s.quiet>>

(* A turn whose process is gone.                                           *)
LEMMA DiedKept ==
    ASSUME NEW s, TurnWatched(s), TurnWaits(s), s.at = "live", NEW n, Died(s, n)
    PROVE  Kept(s, n)
<1>1. /\ n \in HangState /\ n.at = "dead"
      /\ <<n.t, n.queue, n.busy, n.age, n.compacting, n.compactAge, n.healed, n.due>>
         = <<s.t, s.queue, s.busy, s.age, s.compacting, s.compactAge, s.healed, s.due>>
      /\ <<n.life, n.gone, n.orphan, n.state, n.idle, n.deadSince, n.tools, n.toolsAge, n.quiet>>
         = <<s.life, s.gone, s.orphan, s.state, s.idle, s.deadSince, s.tools, s.toolsAge, s.quiet>>
  BY DEF Died
<1>2. s.gone = 0 /\ s.deadSince = 0 /\ s.t.dead \in Nat
  BY Ranges
<1>3. HangPlaced(n) /\ n.compactAge <= HangCompact
  BY <1>1 DEF TurnWatched, HangPlaced
<1>4. Dying(n)
  BY <1>1, <1>2 DEF Dying
<1>5. Silent(n) /\ Living(n)
  BY <1>1 DEF TurnWatched, Silent, Living
<1>6. TurnWaits(n)
  BY <1>1 DEF TurnWaits, TurnWaiting
<1>7. Settled(s) => Settled(n)
  BY <1>1, <1>2 DEF Settled
<1>8. n.due = s.due
  BY <1>1
<1> QED BY <1>1, <1>3, <1>4, <1>5, <1>6, <1>7, <1>8 DEF Kept, TurnWatched

(* The process dies.                                                       *)
LEMMA ProcDiesKept ==
    ASSUME HangInv, HangProcDies
    PROVE  Kept(hw, hw') /\ hw'.cuts = hw.cuts
<1>1. TurnWatched(hw) /\ TurnWaits(hw) /\ hw \in HangState /\ hw.at = "live" /\ hw.faults + 1 \in Nat
  BY Ranges DEF HangInv, HangProcDies
<1>2. hw' = [hw EXCEPT !.faults = hw.faults + 1, !.at = "dead", !.arm = 0]
  BY <1>1 DEF HangProcDies, Faulted, HangState
<1>3. hw' \in HangState /\ hw'.at = "dead" /\ hw'.cuts = hw.cuts
  BY <1>1, <1>2 DEF HangState, HangPlaces
<1>4. /\ <<hw'.t, hw'.queue, hw'.busy, hw'.age, hw'.compacting, hw'.compactAge, hw'.healed, hw'.due>>
         = <<hw.t, hw.queue, hw.busy, hw.age, hw.compacting, hw.compactAge, hw.healed, hw.due>>
      /\ <<hw'.life, hw'.gone, hw'.orphan, hw'.state, hw'.idle, hw'.deadSince, hw'.tools, hw'.toolsAge, hw'.quiet>>
         = <<hw.life, hw.gone, hw.orphan, hw.state, hw.idle, hw.deadSince, hw.tools, hw.toolsAge, hw.quiet>>
  BY <1>1, <1>2 DEF HangState
<1>5. Died(hw, hw')
  BY <1>3, <1>4 DEF Died
<1> QED BY <1>1, <1>3, <1>5, DiedKept

(* The turn ends.                                                          *)
LEMMA TurnEndsKept ==
    ASSUME HangInv, HangTurnEnds
    PROVE  Kept(hw, hw') /\ hw'.cuts = hw.cuts
<1> DEFINE a == 0
           q == hw.queue
           k == [Idle(hw) EXCEPT !.attempt = a, !.queue = q]
<1>1. /\ TurnWatched(hw) /\ TurnWaits(hw) /\ hw \in HangState /\ hw.queue \in Nat
      /\ ~hw.compacting /\ hw.orphan = 0 /\ hw.compactAge <= HangCompact
  <2>1. hw.at \in {"live", "dead"} /\ TurnWatched(hw) /\ TurnWaits(hw)
    BY DEF HangInv, HangTurnEnds
  <2>2. hw.compactAge <= HangCompact
    BY <2>1 DEF TurnWatched
  <2> QED BY <2>1, <2>2, Ranges
<1>2. hw \in HangState /\ hw.queue \in Nat
  BY <1>1
<1>3. [Idle(hw) EXCEPT !.attempt = 0] = k
  BY <1>2 DEF Idle, HangState
<1>4. hw' \in Drained(k)
  BY <1>3 DEF HangTurnEnds
<1>5. a \in Nat /\ q \in Nat
  BY <1>1
<1> HIDE DEF a, q
<1>6. TurnWatched(k) /\ TurnWaits(k) /\ Settled(k) /\ k.t = hw.t /\ k.due = hw.due /\ k.cuts = hw.cuts
  BY <1>1, <1>5, IdleKeeps
<1> HIDE DEF k
<1> QED BY <1>4, <1>6, DrainedKeeps DEF Kept

(* The ceiling is reached.                                                 *)
LEMMA CeilingKept ==
    ASSUME HangInv, HangCeiling
    PROVE  Kept(hw, hw') /\ (hw'.cuts # hw.cuts => MayCut(hw))
<1>1. /\ TurnWatched(hw) /\ TurnWaits(hw) /\ hw \in HangState /\ hw.t \in HangProfiles /\ hw.at = "live"
      /\ hw.arm = 0 /\ hw.life \in Nat /\ hw.t.cap \in Nat /\ hw.t.ceiling \in Nat
  BY Ranges DEF HangInv, HangCeiling
<1>2. hw.t.atCeiling \in {"kill", "recover", "ask"}
  BY <1>1, HangAssumption
<1>3. CASE hw.t.atCeiling = "recover"
  <2>1. hw' \in Recovered(hw)
    BY <1>3 DEF HangCeiling
  <2>2. Kept(hw, hw')
    BY <1>1, <2>1, RecoveredKeeps DEF Kept
  <2>3. hw.t.ceiling <= hw.life + hw.arm \/ HangMaxAge <= hw.life
    BY <1>1, <1>3 DEF TurnWatched, Living
  <2>4. hw.t.cap \in 1 .. hw.t.ceiling
    BY <1>1, <1>3, HangOrdered
  <2>5. hw.t.cap <= HangMaxAge /\ HangMaxAge \in Nat
    <3>1. "cap" \in HangFields
      BY DEF HangFields
    <3>2. hw.t["cap"] <= HangMaxAge
      BY <1>1, <3>1, HangOrdered
    <3>3. HangMaxAge \in Nat
      BY HangAssumption
    <3> QED BY <3>2, <3>3
  <2>6. hw.life >= hw.t.cap /\ hw.t.cap # 0
    BY <1>1, <2>3, <2>4, <2>5
  <2> QED BY <1>1, <2>2, <2>6 DEF MayCut
<1>4. CASE hw.t.atCeiling = "ask" /\ ~GrokTimeoutShouldKill(hw)
  <2> DEFINE a == Max({hw.t.post, 1})
  <2>1. hw' = [hw EXCEPT !.arm = a]
    BY <1>4 DEF HangCeiling
  <2>2. a \in Nat
    <3>1. hw.t.post \in Nat
      BY <1>1, Thresholds
    <3> QED BY <3>1, MaxOfTwo
  <2> HIDE DEF a
  <2>3. hw' \in HangState /\ hw'.at = hw.at /\ hw'.cuts = hw.cuts
    BY <1>1, <2>1, <2>2 DEF HangState
  <2>4. /\ <<hw'.t, hw'.queue, hw'.busy, hw'.age, hw'.compacting, hw'.compactAge, hw'.healed, hw'.due>>
           = <<hw.t, hw.queue, hw.busy, hw.age, hw.compacting, hw.compactAge, hw.healed, hw.due>>
        /\ <<hw'.life, hw'.gone, hw'.orphan, hw'.state, hw'.idle, hw'.deadSince, hw'.tools, hw'.toolsAge, hw'.quiet>>
           = <<hw.life, hw.gone, hw.orphan, hw.state, hw.idle, hw.deadSince, hw.tools, hw.toolsAge, hw.quiet>>
    BY <1>1, <2>1 DEF HangState
  <2>5. Living(hw')
    BY <1>4, <2>3, <2>4, <1>1 DEF TurnWatched, Living
  <2>6. TurnWatched(hw')
    BY <1>1, <2>3, <2>4, <2>5 DEF TurnWatched, HangPlaced, Dying, Silent
  <2>7. TurnWaits(hw') /\ (Settled(hw) => Settled(hw'))
    BY <1>1, <2>3, <2>4 DEF TurnWaits, TurnWaiting, Settled
  <2> QED BY <2>3, <2>4, <2>6, <2>7 DEF Kept
<1>5. CASE hw.t.atCeiling = "kill" \/ (hw.t.atCeiling = "ask" /\ GrokTimeoutShouldKill(hw))
  <2> DEFINE c == IF hw.t.atCeiling = "ask" THEN 1 - hw.cuts ELSE hw.cuts
  <2>1. hw' = [hw EXCEPT !.at = "dead", !.cuts = c]
    BY <1>5 DEF HangCeiling
  <2>2. c \in {0, 1} /\ (c # hw.cuts => hw.t.atCeiling = "ask")
    BY <1>1 DEF HangState
  <2> HIDE DEF c
  <2>3. hw' \in HangState /\ hw'.at = "dead" /\ hw'.cuts = c
    BY <1>1, <2>1, <2>2, ZenonT(60) DEF HangState, HangPlaces
  <2>4. /\ <<hw'.t, hw'.queue, hw'.busy, hw'.age, hw'.compacting, hw'.compactAge, hw'.healed, hw'.due>>
           = <<hw.t, hw.queue, hw.busy, hw.age, hw.compacting, hw.compactAge, hw.healed, hw.due>>
        /\ <<hw'.life, hw'.gone, hw'.orphan, hw'.state, hw'.idle, hw'.deadSince, hw'.tools, hw'.toolsAge, hw'.quiet>>
           = <<hw.life, hw.gone, hw.orphan, hw.state, hw.idle, hw.deadSince, hw.tools, hw.toolsAge, hw.quiet>>
    BY <1>1, <2>1 DEF HangState
  <2>5. Died(hw, hw')
    BY <2>3, <2>4 DEF Died
  <2>6. hw'.cuts # hw.cuts => MayCut(hw)
    <3>1. SUFFICES ASSUME hw.t.atCeiling = "ask" PROVE MayCut(hw)
      BY <2>2, <2>3
    <3>2. /\ hw.idle >= IF hw.t.post # 0 THEN hw.t.post ELSE hw.t.hard
          /\ hw.tools = {} \/ hw.toolsAge >= hw.t.tools
      BY <1>5, <3>1 DEF GrokTimeoutShouldKill
    <3>3. /\ hw.t.hard \in Nat /\ hw.t.post \in Nat /\ hw.idle \in Nat /\ hw.quiet = hw.idle
          /\ hw.t.post # 0 => hw.t.hard <= hw.t.post
      BY <1>1, <3>1, Thresholds, HangOrdered DEF TurnWatched, Silent, HangState
    <3>4. /\ Shortest(hw.t) \in Nat /\ Warm(hw.t) \in Nat /\ Shortest(hw.t) <= Warm(hw.t)
          /\ Warm(hw.t) = IF hw.t.hard >= hw.t.post THEN hw.t.hard ELSE hw.t.post
      BY <1>1, HardLimits
    <3>5. hw.quiet >= Shortest(hw.t)
      BY <3>2, <3>3, <3>4
    <3> QED BY <1>1, <3>2, <3>5 DEF MayCut
  <2> QED BY <1>1, <2>5, <2>6, DiedKept
<1> QED BY <1>2, <1>3, <1>4, <1>5

(* A compaction starts.                                                    *)
LEMMA CompactStartsKept ==
    ASSUME HangInv, HangCompactStarts
    PROVE  Kept(hw, hw') /\ hw'.cuts = hw.cuts
<1>1. /\ TurnWatched(hw) /\ TurnWaits(hw) /\ hw \in HangState /\ hw.faults + 1 \in Nat /\ ~hw.busy
  BY Ranges DEF HangInv, HangCompactStarts
<1>2. hw \in HangState /\ hw.faults + 1 \in Nat
  BY <1>1
<1>3. hw' = [hw EXCEPT !.faults = hw.faults + 1, !.compacting = TRUE, !.compactAge = 0, !.orphan = 0]
  BY <1>2 DEF HangCompactStarts, Faulted, HangState
<1>4. hw' \in HangState /\ hw'.compacting = TRUE /\ hw'.compactAge = 0 /\ hw'.orphan = 0
  BY <1>2, <1>3 DEF HangState
<1>5. /\ <<hw'.t, hw'.queue, hw'.busy, hw'.at, hw'.age, hw'.arm, hw'.healed, hw'.due, hw'.cuts>>
         = <<hw.t, hw.queue, hw.busy, hw.at, hw.age, hw.arm, hw.healed, hw.due, hw.cuts>>
      /\ <<hw'.life, hw'.gone, hw'.state, hw'.idle, hw'.deadSince, hw'.tools, hw'.toolsAge, hw'.quiet>>
         = <<hw.life, hw.gone, hw.state, hw.idle, hw.deadSince, hw.tools, hw.toolsAge, hw.quiet>>
  BY <1>2, <1>3 DEF HangState
<1>6. /\ HangCompact \in Nat /\ HangCompact > 0 /\ HangHeal \in Nat /\ HangHeal > 0
      /\ hw'.healed \in Nat
  BY <1>4, HangAssumption, HangOrdered DEF HangState
<1>7. HangPlaced(hw') /\ Dying(hw') /\ Silent(hw') /\ Living(hw')
  BY <1>1, <1>4, <1>5 DEF TurnWatched, HangPlaced, Dying, Silent, Living
<1>8. TurnWatched(hw')
  BY <1>4, <1>6, <1>7 DEF TurnWatched
<1>9. TurnWaits(hw') /\ (Settled(hw) => Settled(hw'))
  BY <1>4, <1>5, <1>6 DEF TurnWaits, Settled
<1> QED BY <1>5, <1>8, <1>9 DEF Kept

(* A compaction ends.                                                      *)
LEMMA CompactEndsKept ==
    ASSUME HangInv, HangCompactEnds
    PROVE  Kept(hw, hw') /\ hw'.cuts = hw.cuts
<1> DEFINE m == [hw EXCEPT !.compacting = FALSE]
<1>1. TurnWatched(hw) /\ TurnWaits(hw) /\ hw \in HangState /\ hw.orphan = 0
  BY Ranges DEF HangInv, HangCompactEnds
<1>2. hw \in HangState
  BY <1>1
<1>3. hw' \in Drained(m)
  BY DEF HangCompactEnds
<1>4. m \in HangState /\ m.compacting = FALSE
  BY <1>2 DEF HangState
<1>5. /\ <<m.t, m.queue, m.busy, m.at, m.age, m.arm, m.healed, m.due, m.cuts, m.compactAge, m.orphan>>
         = <<hw.t, hw.queue, hw.busy, hw.at, hw.age, hw.arm, hw.healed, hw.due, hw.cuts, hw.compactAge, hw.orphan>>
      /\ <<m.life, m.gone, m.state, m.idle, m.deadSince, m.tools, m.toolsAge, m.quiet>>
         = <<hw.life, hw.gone, hw.state, hw.idle, hw.deadSince, hw.tools, hw.toolsAge, hw.quiet>>
  BY <1>2 DEF HangState
<1> HIDE DEF m
<1>6. TurnWatched(m)
  BY <1>1, <1>4, <1>5 DEF TurnWatched, HangPlaced, Dying, Silent, Living
<1>7. /\ HangHeal \in Nat /\ HangHeal > 0 /\ m.healed \in Nat
  BY <1>4, HangAssumption, HangOrdered DEF HangState
<1>8. TurnWaits(m) /\ (Settled(hw) => Settled(m))
  BY <1>1, <1>4, <1>5, <1>7 DEF TurnWaits, Settled
<1> QED BY <1>3, <1>5, <1>6, <1>8, DrainedKeeps DEF Kept

(* Once the watch has looked, all is settled. *)
LEMMA TickSettles ==
    ASSUME HangInv, HangTick
    PROVE  HangInv' /\ hw'.t = hw.t /\ (hw'.cuts # hw.cuts => MayCut(hw))
<1>1. PICK n \in Watch(hw) : hw' = [n EXCEPT !.due = FALSE]
  BY DEF HangTick
<1>2. TurnWatched(n) /\ TurnWaits(n) /\ Settled(n) /\ n.t = hw.t /\ (n.cuts # hw.cuts => MayCut(hw))
  BY WatchLooked DEF HangInv, Looked
<1>3. n \in HangState
  BY <1>2 DEF TurnWatched
<1>4. hw' \in HangState
  BY <1>1, <1>3 DEF HangState
<1>5. /\ <<hw'.t, hw'.queue, hw'.busy, hw'.at, hw'.age, hw'.arm, hw'.healed, hw'.cuts, hw'.compacting, hw'.compactAge, hw'.orphan>>
         = <<n.t, n.queue, n.busy, n.at, n.age, n.arm, n.healed, n.cuts, n.compacting, n.compactAge, n.orphan>>
      /\ <<hw'.life, hw'.gone, hw'.state, hw'.idle, hw'.deadSince, hw'.tools, hw'.toolsAge, hw'.quiet>>
         = <<n.life, n.gone, n.state, n.idle, n.deadSince, n.tools, n.toolsAge, n.quiet>>
  BY <1>1, <1>3 DEF HangState
<1>6. TurnWatched(hw')
  BY <1>2, <1>4, <1>5 DEF TurnWatched, HangPlaced, Dying, Silent, Living
<1>7. TurnWaits(hw') /\ Settled(hw')
  BY <1>2, <1>5 DEF TurnWaits, TurnWaiting, Settled
<1>8. HangInv'
  BY <1>6, <1>7 DEF HangInv
<1> QED BY <1>2, <1>5, <1>8

(* The ages grow by one, up to HangMaxAge.                                 *)
LEMMA OlderGrows ==
    ASSUME NEW a \in Nat, NEW b \in Nat
    PROVE  /\ Older(a) \in Nat /\ a <= Older(a) /\ Older(a) <= a + 1
           /\ a <= b => Older(a) <= Older(b)
           /\ a < b => Older(a) <= b
           /\ a <= b + 1 => Older(a) <= Older(b) + 1
           /\ Older(a) = a + 1 \/ HangMaxAge <= Older(a)
           /\ HangMaxAge <= a => HangMaxAge <= Older(a)
<1>1. HangMaxAge \in Nat
  BY HangAssumption
<1> QED BY <1>1 DEF Older

Aged(s, idle, age, healed, deadSince, toolsAge, compactAge, arm, quiet, life, gone, orphan) ==
    [s EXCEPT !.due = TRUE, !.idle = idle, !.age = age, !.healed = healed,
              !.deadSince = deadSince, !.toolsAge = toolsAge, !.compactAge = compactAge,
              !.arm = arm, !.quiet = quiet, !.life = life, !.gone = gone, !.orphan = orphan]

(* A unit of time later. *)
AgedTo(s, n, idle, age, healed, deadSince, toolsAge, compactAge, arm, quiet, life, gone, orphan) ==
    /\ n \in HangState /\ n.due = TRUE
    /\ n.idle = idle /\ n.age = age /\ n.healed = healed /\ n.deadSince = deadSince /\ n.toolsAge = toolsAge
    /\ n.compactAge = compactAge /\ n.arm = arm /\ n.quiet = quiet /\ n.life = life /\ n.gone = gone /\ n.orphan = orphan
    /\ <<n.t, n.queue, n.busy, n.at, n.state, n.tools, n.compacting, n.cuts>>
       = <<s.t, s.queue, s.busy, s.at, s.state, s.tools, s.compacting, s.cuts>>

(* The fields after a unit of time.                                        *)
LEMMA TimeFields ==
    ASSUME NEW s \in HangState, NEW idle \in Nat, NEW age \in Nat, NEW healed \in Nat, NEW deadSince \in Nat, NEW toolsAge \in Nat,
           NEW compactAge \in Nat, NEW arm \in Nat, NEW quiet \in Nat, NEW life \in Nat, NEW gone \in Nat, NEW orphan \in Nat
    PROVE  AgedTo(s, Aged(s, idle, age, healed, deadSince, toolsAge, compactAge, arm, quiet, life, gone, orphan),
                  idle, age, healed, deadSince, toolsAge, compactAge, arm, quiet, life, gone, orphan)
<1> DEFINE x == [s EXCEPT !.due = TRUE, !.idle = idle, !.age = age, !.healed = healed]
           y == [x EXCEPT !.deadSince = deadSince, !.toolsAge = toolsAge, !.compactAge = compactAge]
           z == [y EXCEPT !.arm = arm, !.quiet = quiet, !.life = life]
           n == [z EXCEPT !.gone = gone, !.orphan = orphan]
<1>1. Aged(s, idle, age, healed, deadSince, toolsAge, compactAge, arm, quiet, life, gone, orphan) = n
  BY DEF HangState, Aged
<1>2. x \in HangState /\ x.due = TRUE /\ x.idle = idle /\ x.age = age /\ x.healed = healed
  BY DEF HangState
<1>3. <<x.t, x.queue, x.busy, x.at, x.state, x.tools, x.compacting, x.cuts>>
      = <<s.t, s.queue, s.busy, s.at, s.state, s.tools, s.compacting, s.cuts>>
  BY DEF HangState
<1> HIDE DEF x
<1>4. y \in HangState /\ y.deadSince = deadSince /\ y.toolsAge = toolsAge /\ y.compactAge = compactAge
  BY <1>2 DEF HangState
<1>5. <<y.due, y.idle, y.age, y.healed, y.t, y.queue, y.busy, y.at, y.state, y.tools, y.compacting, y.cuts>>
      = <<x.due, x.idle, x.age, x.healed, x.t, x.queue, x.busy, x.at, x.state, x.tools, x.compacting, x.cuts>>
  BY <1>2 DEF HangState
<1> HIDE DEF y
<1>6. z \in HangState /\ z.arm = arm /\ z.quiet = quiet /\ z.life = life
  BY <1>4 DEF HangState
<1>7. /\ <<z.due, z.idle, z.age, z.healed, z.deadSince, z.toolsAge, z.compactAge>>
         = <<y.due, y.idle, y.age, y.healed, y.deadSince, y.toolsAge, y.compactAge>>
      /\ <<z.t, z.queue, z.busy, z.at, z.state, z.tools, z.compacting, z.cuts>>
         = <<y.t, y.queue, y.busy, y.at, y.state, y.tools, y.compacting, y.cuts>>
  BY <1>4 DEF HangState
<1> HIDE DEF z
<1>8. n \in HangState /\ n.gone = gone /\ n.orphan = orphan
  BY <1>6 DEF HangState
<1>9. /\ <<n.due, n.idle, n.age, n.healed, n.deadSince, n.toolsAge, n.compactAge, n.arm, n.quiet, n.life>>
         = <<z.due, z.idle, z.age, z.healed, z.deadSince, z.toolsAge, z.compactAge, z.arm, z.quiet, z.life>>
      /\ <<n.t, n.queue, n.busy, n.at, n.state, n.tools, n.compacting, n.cuts>>
         = <<z.t, z.queue, z.busy, z.at, z.state, z.tools, z.compacting, z.cuts>>
  BY <1>6 DEF HangState
<1> HIDE DEF n
<1> QED BY <1>1, <1>2, <1>3, <1>4, <1>5, <1>6, <1>7, <1>8, <1>9 DEF AgedTo

(* Time passes only when every watch that is due has looked, so no age     *)
(* passes its limit.                                                       *)
LEMMA TimeKeeps ==
    ASSUME HangInv, HangTime
    PROVE  HangInv' /\ hw'.t = hw.t /\ hw'.cuts = hw.cuts
<1> DEFINE idle == Older(hw.idle)
           age == Older(hw.age)
           healed == Older(hw.healed)
           deadSince == IF hw.deadSince = 0 THEN 0 ELSE Older(hw.deadSince)
           toolsAge == IF hw.tools = {} THEN 0 ELSE Older(hw.toolsAge)
           compactAge == IF hw.compacting THEN Older(hw.compactAge) ELSE 0
           arm == IF hw.arm = 0 THEN 0 ELSE hw.arm - 1
           quiet == IF hw.at \in {"live", "refused"} THEN Older(hw.quiet) ELSE 0
           life == IF hw.at = "live" THEN Older(hw.life) ELSE 0
           gone == IF hw.at = "dead" THEN Older(hw.gone) ELSE 0
           orphan == IF hw.queue > 0 /\ ~hw.busy /\ ~hw.compacting THEN Older(hw.orphan) ELSE 0
           n == Aged(hw, idle, age, healed, deadSince, toolsAge, compactAge, arm, quiet, life, gone, orphan)
<1>1. TurnWatched(hw) /\ TurnWaits(hw) /\ Settled(hw) /\ hw \in HangState
  BY DEF HangInv, HangTime, TurnWatched
<1>2. hw' = n
  BY Zenon DEF HangTime, Aged
<1>3. /\ hw.idle \in Nat /\ hw.age \in Nat /\ hw.healed \in Nat /\ hw.deadSince \in Nat /\ hw.toolsAge \in Nat
      /\ hw.compactAge \in Nat /\ hw.arm \in Nat /\ hw.quiet \in Nat /\ hw.life \in Nat /\ hw.gone \in Nat
      /\ hw.orphan \in Nat /\ hw.t \in HangProfiles
  BY <1>1 DEF HangState
<1>4. /\ hw.t.dead \in Nat /\ hw.t.cap \in Nat /\ hw.t.ceiling \in Nat /\ Longest(hw.t) \in Nat /\ 0 < Longest(hw.t)
      /\ HangMaxAge \in Nat /\ HangHeal \in Nat /\ HangCompact \in Nat
  BY <1>3, Thresholds, HardLimits, HangAssumption
<1>5. idle \in Nat /\ age \in Nat /\ healed \in Nat
  BY <1>3, OlderGrows
<1>6. deadSince \in Nat /\ toolsAge \in Nat /\ compactAge \in Nat
  BY <1>3, OlderGrows
<1>7. /\ arm \in Nat /\ quiet \in Nat /\ life \in Nat
      /\ gone \in Nat /\ orphan \in Nat
  <2>1. arm \in Nat
    BY <1>3
  <2>2. quiet \in Nat /\ life \in Nat /\ gone \in Nat
    BY <1>3, OlderGrows
  <2>3. orphan \in Nat
    BY <1>3, OlderGrows
  <2> HIDE DEF arm, quiet, life, gone, orphan
  <2> QED BY <2>1, <2>2, <2>3
<1>8. /\ hw.at # "dead" => gone = 0
      /\ hw.at \in {"gate", "refused", "live"} => deadSince = 0
      /\ hw.at = "dead" => gone <= deadSince + 1 /\ deadSince <= hw.t.dead + 1
  <2>1. hw.at \in {"gate", "refused", "live"} => hw.deadSince = 0
    BY <1>1 DEF TurnWatched, Dying
  <2>2. ASSUME hw.at = "dead"
        PROVE  gone <= deadSince + 1 /\ deadSince <= hw.t.dead + 1
    <3>1. /\ hw.gone <= hw.deadSince + 1 /\ hw.deadSince <= hw.t.dead
          /\ hw.deadSince = 0 => hw.gone = 0
      BY <1>1, <2>2 DEF TurnWatched, Dying, Settled
    <3>2. CASE hw.deadSince = 0
      <4>1. Older(0) <= 1
        BY OlderGrows
      <4> QED BY <1>4, <2>2, <3>1, <3>2, <4>1
    <3>3. CASE hw.deadSince # 0
      <4>1. Older(hw.gone) <= Older(hw.deadSince) + 1 /\ Older(hw.deadSince) <= hw.deadSince + 1
        BY <1>3, <3>1, OlderGrows
      <4>2. Older(hw.deadSince) \in Nat
        BY <1>3, OlderGrows
      <4> QED BY <1>3, <1>4, <2>2, <3>1, <3>3, <4>1, <4>2
    <3> QED BY <3>2, <3>3
  <2> QED BY <2>1, <2>2
<1>9. /\ hw.at \in {"live", "refused"} => quiet = idle
      /\ hw.tools # {} => quiet <= toolsAge
      /\ quiet <= Longest(hw.t)
      /\ hw.at \in {"none", "gate"} => quiet = 0
  <2>1. /\ hw.at \in {"live", "refused"} => hw.quiet = hw.idle /\ hw.quiet < Longest(hw.t)
        /\ hw.tools # {} => hw.quiet <= hw.toolsAge
    BY <1>1 DEF TurnWatched, Silent, Settled
  <2>2. /\ hw.quiet < Longest(hw.t) => Older(hw.quiet) <= Longest(hw.t)
        /\ hw.quiet <= hw.toolsAge => Older(hw.quiet) <= Older(hw.toolsAge)
    BY <1>3, <1>4, OlderGrows
  <2>3. Older(hw.toolsAge) \in Nat
    BY <1>3, OlderGrows
  <2> QED BY <1>4, <2>1, <2>2, <2>3
<1>10. /\ hw.at # "live" => life = 0
       /\ hw.t.cap # 0 => life <= hw.t.cap
       /\ hw.at = "live" /\ hw.t.marks => age = life
       /\ hw.at = "live" /\ hw.t.atCeiling = "recover" => hw.t.ceiling <= life + arm \/ HangMaxAge <= life
  <2>1. /\ hw.at = "live" /\ hw.t.marks => hw.age = hw.life
        /\ hw.at = "live" /\ hw.t.cap # 0 => hw.life < hw.t.cap
        /\ hw.at = "live" /\ hw.t.atCeiling = "recover"
              => hw.t.ceiling <= hw.life + hw.arm \/ HangMaxAge <= hw.life
    BY <1>1 DEF TurnWatched, Living, Settled
  <2>2. hw.at = "live" => hw.t.ceiling = 0 \/ hw.arm # 0
    BY DEF HangTime
  <2>3. /\ hw.life < hw.t.cap => Older(hw.life) <= hw.t.cap
        /\ Older(hw.life) = hw.life + 1 \/ HangMaxAge <= Older(hw.life)
        /\ HangMaxAge <= hw.life => HangMaxAge <= Older(hw.life)
        /\ Older(hw.life) \in Nat
    BY <1>3, <1>4, OlderGrows
  <2>4. hw.t.cap # 0 => life <= hw.t.cap
    BY <1>4, <2>1, <2>3
  <2>5. ASSUME hw.at = "live", hw.t.atCeiling = "recover"
        PROVE  hw.t.ceiling <= life + arm \/ HangMaxAge <= life
    BY <1>3, <1>4, <2>1, <2>2, <2>3, <2>5
  <2> QED BY <2>1, <2>4, <2>5
<1>11. compactAge <= HangCompact
  <2>1. hw.compacting => hw.compactAge < HangCompact
    BY <1>1 DEF Settled
  <2>2. hw.compactAge < HangCompact => Older(hw.compactAge) <= HangCompact
    BY <1>3, <1>4, OlderGrows
  <2> QED BY <1>4, <2>1, <2>2
<1>12. /\ orphan > 0 => TurnWaiting(hw)
       /\ orphan <= healed /\ orphan <= HangHeal
  <2>1. hw.orphan <= hw.healed /\ hw.orphan < HangHeal
    BY <1>1 DEF TurnWaits, Settled
  <2>2. Older(hw.orphan) <= Older(hw.healed) /\ Older(hw.orphan) <= HangHeal /\ Older(hw.healed) \in Nat
    BY <1>3, <1>4, <2>1, OlderGrows
  <2> QED BY <1>4, <2>2 DEF TurnWaiting
<1> HIDE DEF idle, age, healed, deadSince, toolsAge, compactAge, arm, quiet, life, gone, orphan
<1>13. /\ n \in HangState /\ n.due = TRUE
       /\ n.idle = idle /\ n.age = age /\ n.healed = healed /\ n.deadSince = deadSince /\ n.toolsAge = toolsAge
       /\ n.compactAge = compactAge /\ n.arm = arm /\ n.quiet = quiet /\ n.life = life /\ n.gone = gone /\ n.orphan = orphan
       /\ <<n.t, n.queue, n.busy, n.at, n.state, n.tools, n.compacting, n.cuts>>
          = <<hw.t, hw.queue, hw.busy, hw.at, hw.state, hw.tools, hw.compacting, hw.cuts>>
  <2>1. hw \in HangState
    BY <1>1
  <2>2. AgedTo(hw, n, idle, age, healed, deadSince, toolsAge, compactAge, arm, quiet, life, gone, orphan)
    BY <1>5, <1>6, <1>7, <2>1, TimeFields
  <2> HIDE DEF n
  <2> QED BY <2>2 DEF AgedTo
<1> HIDE DEF n
<1>14. HangPlaced(n) /\ Dying(n)
  <2>1. HangPlaced(hw) /\ hw.at \in HangPlaces
    BY <1>1 DEF TurnWatched, HangState
  <2>2. HangPlaced(n)
    BY <1>9, <1>10, <1>13, <2>1 DEF HangPlaced, HangPlaces
  <2> QED BY <1>8, <1>13, <2>2 DEF Dying
<1>15. Silent(n) /\ Living(n)
  BY <1>9, <1>10, <1>13 DEF Silent, Living
<1>16. TurnWatched(n)
  BY <1>11, <1>13, <1>14, <1>15 DEF TurnWatched
<1>17. TurnWaits(n)
  BY <1>12, <1>13 DEF TurnWaits, TurnWaiting
<1> QED BY <1>2, <1>13, <1>16, <1>17 DEF HangInv

-----------------------------------------------------------------------------
(* The theorems *)

(* Nothing runs yet.                                                       *)
LEMMA HangInitInv == HangInit => HangInv
<1> SUFFICES ASSUME HangInit PROVE HangInv
  OBVIOUS
<1>1. PICK t \in HangProfiles :
        hw = [t |-> t, queue |-> 0, sent |-> 0, busy |-> FALSE, at |-> "none", state |-> "idle",
              attempt |-> 0, idle |-> 0, age |-> 0, firstEvent |-> FALSE, soft |-> FALSE, deadSince |-> 0,
              tools |-> {}, toolsAge |-> 0, arm |-> 0, compacting |-> FALSE, compactAge |-> 0, healed |-> 0,
              due |-> FALSE, cuts |-> 0, faults |-> 0, quiet |-> 0, life |-> 0, gone |-> 0, orphan |-> 0]
  BY DEF HangInit
<1>2. hw \in HangState
  BY <1>1 DEF HangState, HangPlaces
<1>3. /\ hw.t \in HangProfiles /\ hw.busy = FALSE /\ hw.at = "none" /\ hw.state = "idle" /\ hw.deadSince = 0
      /\ hw.tools = {} /\ hw.compacting = FALSE /\ hw.compactAge = 0 /\ hw.healed = 0 /\ hw.quiet = 0
      /\ hw.life = 0 /\ hw.gone = 0 /\ hw.orphan = 0
  BY <1>1
<1>4. /\ Longest(hw.t) \in Nat /\ 0 < Longest(hw.t) /\ hw.t.cap \in Nat
      /\ HangCompact \in Nat /\ HangHeal \in Nat /\ HangHeal > 0
  BY <1>3, HardLimits, Thresholds, HangAssumption, HangOrdered
<1>5. HangPlaced(hw) /\ Dying(hw) /\ Silent(hw) /\ Living(hw)
  <2>1. HangPlaced(hw)
    BY <1>3 DEF HangPlaced
  <2>2. Dying(hw) /\ Silent(hw)
    BY <1>3, <1>4 DEF Dying, Silent
  <2>3. Living(hw)
    BY <1>3, <1>4 DEF Living
  <2> QED BY <2>1, <2>2, <2>3
<1>6. TurnWaits(hw) /\ Settled(hw)
  BY <1>3, <1>4 DEF TurnWaits, Settled
<1>7. TurnWatched(hw)
  BY <1>2, <1>3, <1>4, <1>5 DEF TurnWatched
<1> QED BY <1>6, <1>7 DEF HangInv

(* A step keeps the invariant, and cuts only a turn that may be cut. *)
LEMMA HangStep ==
    ASSUME HangInv, [HangNext]_HangVars
    PROVE  HangInv' /\ (hw'.cuts # hw.cuts => MayCut(hw))
<1>1. ASSUME Kept(hw, hw') PROVE HangInv'
  BY <1>1 DEF HangInv, Kept
<1>2. CASE HangPush
  <2>1. Kept(hw, hw') /\ hw'.cuts = hw.cuts
    BY <1>2, PushKept DEF HangInv, HangPush
  <2> QED BY <1>1, <2>1
<1>3. CASE HangGateGrants
  <2>1. Kept(hw, hw') /\ hw'.cuts = hw.cuts
    BY <1>3, GateKept DEF HangInv, HangGateGrants
  <2> QED BY <1>1, <2>1
<1>4. CASE HangEvent
  BY <1>1, <1>4, EventKept
<1>5. CASE HangToolOpens
  BY <1>1, <1>5, ToolOpensKept
<1>6. CASE HangToolCloses
  BY <1>1, <1>6, ToolClosesKept
<1>7. CASE HangProcDies
  BY <1>1, <1>7, ProcDiesKept
<1>8. CASE HangTurnEnds
  BY <1>1, <1>8, TurnEndsKept
<1>9. CASE HangCeiling
  BY <1>1, <1>9, CeilingKept
<1>10. CASE HangCompactStarts
  BY <1>1, <1>10, CompactStartsKept
<1>11. CASE HangCompactEnds
  BY <1>1, <1>11, CompactEndsKept
<1>12. CASE HangTick
  BY <1>12, TickSettles
<1>13. CASE HangTime
  BY <1>13, TimeKeeps
<1>14. CASE UNCHANGED HangVars
  BY <1>14 DEF HangVars, HangInv
<1> QED BY <1>2, <1>3, <1>4, <1>5, <1>6, <1>7, <1>8, <1>9, <1>10, <1>11, <1>12, <1>13, <1>14 DEF HangNext

(* The invariant is inductive.                                             *)
LEMMA HangInvHolds == HangSpec => []HangInv
BY HangInitInv, HangStep, PTL DEF HangSpec

(* Nothing holds the runner for ever: a dead turn, a silent one, one       *)
(* beyond its cap, a compaction that is stuck and a queue nobody drains    *)
(* all end within their limit and one look of the watch (turn-watchdog.ts, *)
(* agent-runner.ts). The clocks of the watch are related to those of what  *)
(* it watches.                                                             *)
THEOREM NothingHoldsForEver == HangSpec => []HangEnds
<1>1. HangInv => HangEnds
  <2> SUFFICES ASSUME HangInv PROVE HangEnds
    OBVIOUS
  <2>1. /\ hw \in HangState /\ TurnWatched(hw) /\ hw.deadSince \in Nat /\ hw.gone \in Nat /\ hw.t.dead \in Nat
        /\ hw.t \in HangProfiles
    <3>1. hw \in HangState /\ TurnWatched(hw) /\ hw.deadSince \in Nat /\ hw.gone \in Nat /\ hw.t \in HangProfiles
      BY DEF HangInv, TurnWatched, HangState
    <3> QED BY <3>1, Thresholds
  <2>2. hw.gone <= hw.t.dead + 2
    BY <2>1 DEF TurnWatched, Dying
  <2>3. hw.quiet <= Max({hw.t.tools, EffectiveHardMs(hw.t, TRUE), EffectiveHardMs(hw.t, FALSE)})
    <3>1. EffectiveHardMs(hw.t, TRUE) = Cold(hw.t) /\ EffectiveHardMs(hw.t, FALSE) = Warm(hw.t)
      BY DEF EffectiveHardMs, Cold, Warm
    <3>2. hw.quiet <= Longest(hw.t)
      BY <2>1 DEF TurnWatched, Silent
    <3> QED BY <3>1, <3>2 DEF Longest
  <2>4. (hw.t.cap # 0 => hw.life <= hw.t.cap) /\ hw.compactAge <= HangCompact
    BY <2>1 DEF TurnWatched, Living
  <2>5. hw.orphan <= HangHeal
    BY DEF HangInv, TurnWaits
  <2> QED BY <2>2, <2>3, <2>4, <2>5 DEF HangEnds
<1> QED BY <1>1, HangInvHolds, PTL

(* A turn that is cut was dead, or out of its time, or silent for as long  *)
(* as the runner may be without an open tool that may still be running     *)
(* (turn-watchdog.ts, hangPhase and its callers in agent-runner.ts).       *)
THEOREM OnlyTheDueAreCut == HangSpec => HangSpares
<1> DEFINE Spared == hw'.cuts # hw.cuts =>
              \/ hw.at \in {"dead", "refused"}
              \/ hw.at = "live" /\ hw.t.cap # 0 /\ hw.life >= hw.t.cap
              \/ /\ hw.at = "live" /\ hw.quiet >= Min({EffectiveHardMs(hw.t, TRUE), EffectiveHardMs(hw.t, FALSE)})
                 /\ hw.tools = {} \/ hw.toolsAge >= hw.t.tools
<1>1. HangInv /\ [HangNext]_HangVars => [Spared]_HangVars
  <2>1. EffectiveHardMs(hw.t, TRUE) = Cold(hw.t) /\ EffectiveHardMs(hw.t, FALSE) = Warm(hw.t)
    BY DEF EffectiveHardMs, Cold, Warm
  <2>2. MayCut(hw) /\ hw'.cuts # hw.cuts => Spared
    BY <2>1 DEF MayCut, Shortest
  <2> HIDE DEF Spared
  <2>3. hw'.cuts = hw.cuts => Spared
    BY DEF Spared
  <2> QED BY <2>2, <2>3, HangStep
<1>2. HangSpec => [][Spared]_HangVars
  BY <1>1, HangInvHolds, PTL DEF HangSpec
<1> QED BY <1>2 DEF HangSpares
=============================================================================
