----------------------------- MODULE HostProofs -----------------------------
(***************************************************************************)
(* What the daemon does to the machine it is on, killing what a test run   *)
(* left behind (SuitePark) and replacing itself (SelfUpdate), each with    *)
(* its invariant, for any windows and any number of releases.              *)
(***************************************************************************)
EXTENDS SelfUpdate, SuitePark, NaturalFacts, TLAPS
LOCAL INSTANCE SequencesExt

-----------------------------------------------------------------------------
(* The abandoned test suites *)

SuiteNames ==
    {"vivos", "run", "age", "hung", "due", "begun", "emCurso", "fase", "hist", "alvo", "parado", "falhas", "injusto"}

SuiteShaped(s) == s = [f \in SuiteNames |-> s[f]]

(* A sample, of which the proof needs the processes, who burned and when.  *)
SuiteSample == [pids : SUBSET SuitePids, run : SUBSET SuitePids, burned : SUBSET SuitePids, worked : BOOLEAN, ago : Nat]

(* While the tree is whole, every sample saw it as it is, and a tree that  *)
(* worked since the sample shows it in a process that it has.              *)
Whole(s) ==
    /\ s.begun /\ SuiteRoot \in s.vivos /\ s.fase # "grace"
    /\ \A i \in 1 .. Len(s.hist) : s.hist[i].pids = s.vivos /\ (s.hist[i].worked => s.hist[i].burned \cap s.vivos # {})

(* Once it is killed no minute passes, and the baseline is the one of the  *)
(* verdict.                                                                *)
Reaped(s) ==
    /\ s.begun /\ IF s.fase = "grace" THEN s.vivos \subseteq s.alvo ELSE SuiteRoot \notin s.vivos
    /\ BaselineAt(s) # 0 /\ ~s.hist[BaselineAt(s)].worked

Unbegun(s) == ~s.begun /\ s.hist = <<>> /\ s.fase = "none" /\ ~s.due /\ s.vivos = {}

SuiteGood(s) ==
    /\ SuiteShaped(s) /\ s.hist \in Seq(SuiteSample) /\ s.vivos \subseteq SuitePids /\ s.run \subseteq SuitePids
    /\ ~s.injusto /\ (s.fase # "none" => s.emCurso) /\ (Unbegun(s) \/ Whole(s) \/ Reaped(s))

(* The fields of the state.                                                *)
LEMMA SuiteDomain ==
    ASSUME NEW s, SuiteShaped(s)
    PROVE  DOMAIN s = SuiteNames
BY DEF SuiteShaped

(* The baseline is the last sample that is old enough. *)
LEMMA BaselineIs ==
    ASSUME NEW s, s.hist \in Seq(SuiteSample)
    PROVE  /\ BaselineAt(s) \in 0 .. Len(s.hist)
           /\ BaselineAt(s) # 0 => s.hist[BaselineAt(s)].ago >= SuiteWindow
           /\ \A i \in 1 .. Len(s.hist) : s.hist[i].ago >= SuiteWindow => i <= BaselineAt(s)
<1> DEFINE I == {i \in 1 .. Len(s.hist) : s.hist[i].ago >= SuiteWindow}
           n == Len(s.hist)
<1>1. n \in Nat
  OBVIOUS
<1>2. BaselineAt(s) = IF I # {} THEN Max(I) ELSE 0
  BY DEF BaselineAt, SelectLastInSeq
<1>3. I \in SUBSET (0 .. n) /\ \A i \in I : i \in 1 .. n /\ i \in Int
  BY <1>1
<1>4. \A i \in 1 .. n : s.hist[i].ago >= SuiteWindow <=> i \in I
  OBVIOUS
<1> HIDE DEF I, n
<1>5. CASE I = {}
  BY <1>1, <1>2, <1>4, <1>5 DEF n
<1>6. CASE I # {}
  <2>1. \E m \in I : \A i \in I : m >= i
    BY <1>1, <1>3, <1>6, NatHasGreatest
  <2>2. Max(I) \in I /\ \A i \in I : Max(I) >= i
    BY <2>1 DEF Max
  <2> QED BY <1>1, <1>2, <1>3, <1>4, <1>6, <2>2 DEF n
<1> QED BY <1>5, <1>6

NewSample(s) == [pids |-> s.vivos, run |-> s.run, burned |-> {}, worked |-> FALSE, ago |-> 0]

(* What a tick adds to the history, and what it drops from it.             *)
LEMMA Pushed ==
    ASSUME NEW s, SuiteShaped(s), s.hist \in Seq(SuiteSample), s.vivos \subseteq SuitePids, s.run \subseteq SuitePids,
           NEW n, n = PushSample(s)
    PROVE  /\ SuiteShaped(n) /\ n.hist \in Seq(SuiteSample)
           /\ \A f \in SuiteNames \ {"hist"} : n[f] = s[f]
           /\ \A i \in 1 .. Len(n.hist) : n.hist[i] = NewSample(s) \/ \E j \in 1 .. Len(s.hist) : n.hist[i] = s.hist[j]
           /\ BaselineAt(s) # 0 => BaselineAt(n) = 1 /\ n.hist[1] = s.hist[BaselineAt(s)]
<1> DEFINE new == NewSample(s)
           all == Append(s.hist, new)
           b == BaselineAt(s)
           hist == IF b = 0 THEN all ELSE SubSeq(all, b, Len(all))
           m == Len(s.hist)
<1>1. new \in SuiteSample /\ new.ago = 0
  BY DEF NewSample, SuiteSample
<1>2. m \in Nat /\ all \in Seq(SuiteSample) /\ Len(all) = m + 1 /\ all[m + 1] = new /\ \A i \in 1 .. m : all[i] = s.hist[i]
  BY <1>1
<1>3. b \in 0 .. m /\ (b # 0 => s.hist[b].ago >= SuiteWindow) /\ \A i \in 1 .. m : s.hist[i].ago >= SuiteWindow => i <= b
  BY BaselineIs
<1>4. n = [s EXCEPT !.hist = hist]
  BY DEF PushSample, NewSample
<1> HIDE DEF hist, b
<1>5. SuiteShaped(n) /\ n.hist = hist /\ \A f \in SuiteNames \ {"hist"} : n[f] = s[f]
  <2>1. DOMAIN s = SuiteNames
    BY SuiteDomain
  <2> QED BY <1>4, <2>1 DEF SuiteShaped, SuiteNames
<1> HIDE DEF new, all
<1>6. CASE b = 0
  <2>1. hist = all
    BY <1>6 DEF hist
  <2>2. \A i \in 1 .. Len(hist) : hist[i] = new \/ \E j \in 1 .. m : hist[i] = s.hist[j]
    BY <1>2, <2>1
  <2> QED BY <1>2, <1>5, <1>6, <2>1, <2>2 DEF b, new
<1>7. CASE b # 0
  <2>1. hist = SubSeq(all, b, m + 1) /\ b \in 1 .. m
    BY <1>2, <1>3, <1>7 DEF hist
  <2>2. hist \in Seq(SuiteSample) /\ Len(hist) = m + 2 - b /\ \A i \in 1 .. m + 2 - b : hist[i] = all[b + i - 1]
    BY <1>2, <2>1, SMTT(60)
  <2>3. \A i \in 1 .. m + 2 - b : b + i - 1 \in b .. m + 1 /\ (b + i - 1 = m + 1 \/ b + i - 1 \in 1 .. m) /\ (i # 1 => b + i - 1 > b)
    <3> SUFFICES ASSUME NEW i \in 1 .. m + 2 - b
                 PROVE  b + i - 1 \in b .. m + 1 /\ (b + i - 1 = m + 1 \/ b + i - 1 \in 1 .. m) /\ (i # 1 => b + i - 1 > b)
      OBVIOUS
    <3>1. m \in Nat /\ b \in Nat /\ 1 <= b /\ b <= m
      BY <1>2, <2>1
    <3> HIDE DEF m
    <3>2. i \in Nat /\ 1 <= i /\ i <= m + 2 - b
      BY <3>1
    <3>3. b + i - 1 \in b .. m + 1
      BY <3>1, <3>2
    <3>4. b + i - 1 = m + 1 \/ b + i - 1 \in 1 .. m
      BY <3>1, <3>2
    <3>5. i # 1 => b + i - 1 > b
      BY <3>1, <3>2
    <3> QED BY <3>3, <3>4, <3>5
  <2>4. \A i \in 1 .. Len(hist) : hist[i] = new \/ \E j \in 1 .. m : hist[i] = s.hist[j]
    BY <1>2, <2>2, <2>3
  <2>5. 1 \in 1 .. m + 2 - b /\ hist[1] = s.hist[b]
    BY <1>2, <2>1, <2>2
  <2>6. \A i \in 1 .. Len(hist) : i # 1 => ~(hist[i].ago >= SuiteWindow)
    <3> SUFFICES ASSUME NEW i \in 1 .. m + 2 - b, i # 1 PROVE ~(hist[i].ago >= SuiteWindow)
      BY <2>2
    <3>1. CASE b + i - 1 = m + 1
      <4>1. hist[i].ago = 0
        BY <1>1, <1>2, <2>2, <3>1
      <4> QED BY <4>1, SuiteAssumption
    <3>2. CASE b + i - 1 \in 1 .. m
      <4>1. hist[i] = s.hist[b + i - 1] /\ ~(b + i - 1 <= b)
        BY <1>2, <2>1, <2>2, <2>3, <3>2
      <4> QED BY <1>3, <3>2, <4>1
    <3> QED BY <2>3, <3>1, <3>2
  <2>7. BaselineAt(n) = 1
    <3>1. n.hist \in Seq(SuiteSample) /\ Len(n.hist) = m + 2 - b
      BY <1>5, <2>2
    <3>2. BaselineAt(n) \in 0 .. m + 2 - b /\ (BaselineAt(n) # 0 => n.hist[BaselineAt(n)].ago >= SuiteWindow)
          /\ (n.hist[1].ago >= SuiteWindow => 1 <= BaselineAt(n))
      BY <2>5, <3>1, BaselineIs
    <3>3. n.hist[1].ago >= SuiteWindow
      BY <1>3, <1>5, <1>7, <2>5
    <3> QED BY <1>5, <2>2, <2>6, <3>2, <3>3
  <2> QED BY <1>5, <2>2, <2>4, <2>5, <2>7 DEF b, new
<1> QED BY <1>6, <1>7

(* The baseline is a matter of the history.                                *)
LEMMA SameBaseline ==
    ASSUME NEW s, NEW n, n.hist = s.hist
    PROVE  BaselineAt(n) = BaselineAt(s)
<1> DEFINE Old(q) == {i \in 1 .. Len(q.hist) : q.hist[i].ago >= SuiteWindow}
<1>1. \A q : BaselineAt(q) = IF Old(q) # {} THEN Max(Old(q)) ELSE 0
  BY DEF BaselineAt, SelectLastInSeq
<1>2. Old(n) = Old(s)
  OBVIOUS
<1> HIDE DEF Old
<1> QED BY <1>1, <1>2

(* What a step that touches neither the tree nor the history keeps.        *)
LEMMA SuiteRests ==
    ASSUME NEW s, SuiteGood(s), NEW n, SuiteShaped(n), n.hist = s.hist, n.vivos = s.vivos, n.run = s.run, n.begun = s.begun,
           n.injusto = s.injusto, s.begun,
           \/ n.fase = s.fase /\ n.alvo = s.alvo /\ n.emCurso = s.emCurso
           \/ s.fase # "grace" /\ n.fase = "ps" /\ n.emCurso
           \/ s.fase # "grace" /\ n.fase = "none"
    PROVE  SuiteGood(n)
<1>1. BaselineAt(n) = BaselineAt(s)
  BY SameBaseline
<1>2. CASE Whole(s)
  BY <1>2 DEF Whole, SuiteGood
<1>3. CASE Reaped(s)
  BY <1>1, <1>3 DEF Reaped, SuiteGood
<1> QED BY <1>2, <1>3 DEF SuiteGood, Unbegun

(* A suite that begins has no sample yet (SuiteBegins).                    *)
LEMMA BeginsWell ==
    ASSUME SuiteGood(u), SuiteBegins
    PROVE  SuiteGood(u')
<1>1. DOMAIN u = SuiteNames
  BY SuiteDomain DEF SuiteGood
<1>2. PICK W \in SUBSET SuiteWorkers : u' = [u EXCEPT !.begun = TRUE, !.vivos = {SuiteRoot} \cup W, !.due = TRUE]
  BY DEF SuiteBegins
<1>3. /\ SuiteShaped(u') /\ u'.begun /\ u'.vivos = {SuiteRoot} \cup W
      /\ u'.hist = u.hist /\ u'.run = u.run /\ u'.fase = u.fase /\ u'.injusto = u.injusto /\ u'.emCurso = u.emCurso
  BY <1>1, <1>2 DEF SuiteShaped, SuiteNames
<1>4. Unbegun(u)
  BY DEF SuiteGood, SuiteBegins, Whole, Reaped
<1> QED BY <1>3, <1>4 DEF SuiteGood, Unbegun, Whole, SuitePids

(* Of a minute that burned CPU every sample is told, in a process that the *)
(* tree has, as long as none was replaced (Minute).                        *)
LEMMA MinuteWell ==
    ASSUME SuiteGood(u), Minute, ~SuiteFresh
    PROVE  SuiteGood(u')
<1>1. DOMAIN u = SuiteNames
  BY SuiteDomain DEF SuiteGood
<1>2. Whole(u)
  BY DEF SuiteGood, Minute, MinuteRuns, Unbegun, Reaped
<1> DEFINE later(h, B) == [h EXCEPT !.ago = Cap(@, SuiteWindow), !.worked = @ \/ B # {}, !.pids = @, !.burned = (@ \cup B) \ {}]
<1>3. PICK hangs \in {u.hung, TRUE}, B \in SUBSET u.vivos, R \in SUBSET u.vivos :
         u' = [u EXCEPT !.vivos = u.vivos, !.run = R \cap u.vivos, !.age = Cap(@, SuiteMinAge), !.due = TRUE, !.hung = hangs,
                        !.hist = [i \in DOMAIN @ |-> later(@[i], B)]]
  <2> DEFINE now(old, new) == IF old = SuiteRoot THEN u.vivos ELSE (u.vivos \ {old}) \cup {new}
             since(h, old, new, B) == [h EXCEPT !.ago = Cap(@, SuiteWindow), !.worked = @ \/ B # {},
                                                !.pids = IF old = SuiteRoot THEN @ ELSE @ \ {new},
                                                !.burned = (@ \cup B) \ (IF old = SuiteRoot THEN {} ELSE {new})]
  <2>1. PICK old \in SuiteWorkers \cup {SuiteRoot}, new \in SuiteWorkers \cup {SuiteRoot}, hangs \in {u.hung, TRUE} :
          /\ old = SuiteRoot <=> new = SuiteRoot
          /\ old # SuiteRoot => SuiteFresh /\ ~hangs /\ old \in u.vivos /\ new \notin u.vivos
          /\ \E B, R \in IF hangs THEN {{}} ELSE SUBSET u.vivos :
               u' = [u EXCEPT !.vivos = now(old, new), !.run = R \cap now(old, new), !.age = Cap(@, SuiteMinAge),
                              !.due = TRUE, !.hung = hangs, !.hist = [i \in DOMAIN @ |-> since(@[i], old, new, B)]]
    BY DEF Minute
  <2>2. old = SuiteRoot
    BY <2>1
  <2> HIDE DEF now, since, later
  <2>3. PICK B \in (IF hangs THEN {{}} ELSE SUBSET u.vivos), R \in (IF hangs THEN {{}} ELSE SUBSET u.vivos) :
          u' = [u EXCEPT !.vivos = u.vivos, !.run = R \cap u.vivos, !.age = Cap(@, SuiteMinAge), !.due = TRUE, !.hung = hangs,
                         !.hist = [i \in DOMAIN @ |-> later(@[i], B)]]
    <3>1. now(old, new) = u.vivos
      BY <2>2 DEF now
    <3>2. \A h, B : since(h, old, new, B) = later(h, B)
      BY <2>2 DEF since, later
    <3>3. \A B : [i \in DOMAIN u.hist |-> since(u.hist[i], old, new, B)] = [i \in DOMAIN u.hist |-> later(u.hist[i], B)]
      BY <3>2
    <3> QED BY <2>1, <3>1, <3>3
  <2>4. B \in SUBSET u.vivos /\ R \in SUBSET u.vivos
    <3>1. {} \in SUBSET u.vivos
      OBVIOUS
    <3> HIDE DEF later
    <3> QED BY <2>3, <3>1
  <2> HIDE DEF later
  <2> QED BY <2>3, <2>4
<1> HIDE DEF later
<1>4. /\ SuiteShaped(u') /\ u'.begun = u.begun /\ u'.vivos = u.vivos /\ u'.hist = [i \in DOMAIN u.hist |-> later(u.hist[i], B)]
      /\ u'.run = R \cap u.vivos /\ u'.fase = u.fase /\ u'.injusto = u.injusto /\ u'.emCurso = u.emCurso
  BY <1>1, <1>3 DEF SuiteShaped, SuiteNames
<1>5. ASSUME NEW h \in SuiteSample
      PROVE  /\ later(h, B) \in SuiteSample /\ later(h, B).pids = h.pids
             /\ later(h, B).burned = h.burned \cup B
             /\ later(h, B).worked = (h.worked \/ B # {})
  <2>1. B \subseteq SuitePids
    BY DEF SuiteGood
  <2>2. Cap(h.ago, SuiteWindow) \in Nat
    BY SuiteAssumption DEF Cap, SuiteSample
  <2> QED BY <2>1, <2>2 DEF later, SuiteSample
<1>6. u'.hist \in Seq(SuiteSample) /\ Len(u'.hist) = Len(u.hist) /\ \A i \in 1 .. Len(u.hist) : u'.hist[i] = later(u.hist[i], B)
  <2>1. u.hist \in Seq(SuiteSample)
    BY DEF SuiteGood
  <2>2. Len(u.hist) \in Nat /\ DOMAIN u.hist = 1 .. Len(u.hist) /\ \A i \in 1 .. Len(u.hist) : u.hist[i] \in SuiteSample
    BY <2>1
  <2> DEFINE f == [i \in 1 .. Len(u.hist) |-> later(u.hist[i], B)]
  <2>3. u'.hist = f /\ f \in [1 .. Len(u.hist) -> SuiteSample]
    <3>1. u'.hist = f
      BY <1>4, <2>2, Zenon
    <3>2. \A h \in SuiteSample : later(h, B) \in SuiteSample
      BY <1>5
    <3>3. f \in [1 .. Len(u.hist) -> SuiteSample]
      BY <2>2, <3>2
    <3> QED BY <3>1, <3>3
  <2>4. \A i \in 1 .. Len(u.hist) : f[i] = later(u.hist[i], B)
    OBVIOUS
  <2> HIDE DEF f
  <2>5. f \in Seq(SuiteSample) /\ Len(f) = Len(u.hist)
    BY <2>2, <2>3
  <2> QED BY <2>3, <2>4, <2>5
<1>7. Whole(u')
  <2>1. SuiteRoot \in u.vivos /\ u.begun /\ u.fase # "grace"
    BY <1>2 DEF Whole
  <2> SUFFICES ASSUME NEW i \in 1 .. Len(u.hist)
               PROVE  u'.hist[i].pids = u.vivos /\ (u'.hist[i].worked => u'.hist[i].burned \cap u.vivos # {})
    BY <1>4, <1>6, <2>1 DEF Whole
  <2>2. u.hist[i] \in SuiteSample
    BY DEF SuiteGood
  <2>3. u.hist[i].pids = u.vivos /\ (u.hist[i].worked => u.hist[i].burned \cap u.vivos # {})
    BY <1>2 DEF Whole
  <2> DEFINE h == u.hist[i]
             n == later(h, B)
  <2>4. n.pids = h.pids /\ n.burned = h.burned \cup B /\ n.worked = (h.worked \/ B # {})
    BY <1>5, <2>2, Zenon
  <2>5. u'.hist[i] = n
    BY <1>6
  <2> HIDE DEF n
  <2>6. B \cap u.vivos = B
    BY <1>3
  <2>7. n.worked => n.burned \cap u.vivos # {}
    <3>1. CASE h.worked
      BY <2>3, <2>4, <3>1
    <3>2. CASE B # {}
      BY <2>4, <2>6, <3>2
    <3> QED BY <2>4, <3>1, <3>2
  <2> QED BY <2>3, <2>4, <2>5, <2>7
<1> QED BY <1>4, <1>6, <1>7 DEF SuiteGood

(* A tree is condemned by a baseline in which nothing worked, and the      *)
(* sample of the verdict keeps that baseline (tickInner up to the          *)
(* SIGTERM).                                                               *)
LEMMA PsAnswersWell ==
    ASSUME SuiteGood(u), PsAnswers
    PROVE  SuiteGood(u')
<1>1. DOMAIN u = SuiteNames
  BY SuiteDomain DEF SuiteGood
<1>2. u.begun /\ u.emCurso /\ u.fase = "ps" /\ (Whole(u) \/ (Reaped(u) /\ SuiteRoot \notin u.vivos))
  BY DEF SuiteGood, PsAnswers, Unbegun, Whole, Reaped
<1>3. CASE u' = TickEnds(u)
  <2>1. /\ SuiteShaped(u') /\ u'.hist = u.hist /\ u'.vivos = u.vivos /\ u'.run = u.run /\ u'.begun = u.begun
        /\ u'.injusto = u.injusto /\ u'.fase = "none"
    BY <1>1, <1>3 DEF SuiteShaped, SuiteNames, TickEnds
  <2> QED BY <1>2, <2>1, SuiteRests
<1> DEFINE p == PushSample(u)
<1>4. /\ SuiteShaped(p) /\ p.hist \in Seq(SuiteSample)
      /\ p.begun = u.begun /\ p.vivos = u.vivos /\ p.run = u.run /\ p.injusto = u.injusto /\ p.emCurso = u.emCurso
      /\ \A i \in 1 .. Len(p.hist) : p.hist[i] = NewSample(u) \/ \E j \in 1 .. Len(u.hist) : p.hist[i] = u.hist[j]
      /\ BaselineAt(u) # 0 => BaselineAt(p) = 1 /\ p.hist[1] = u.hist[BaselineAt(u)]
  BY Pushed DEF SuiteGood, SuiteNames
<1>5. DOMAIN p = SuiteNames
  BY <1>4, SuiteDomain
<1> HIDE DEF p
<1>6. CASE u' = TickEnds(p)
  <2>1. /\ SuiteShaped(u') /\ u'.hist = p.hist /\ u'.vivos = p.vivos /\ u'.run = p.run /\ u'.begun = p.begun
        /\ u'.injusto = p.injusto /\ u'.fase = "none"
    BY <1>5, <1>6 DEF SuiteShaped, SuiteNames, TickEnds
  <2>2. BaselineAt(u') = BaselineAt(p)
    BY <2>1, SameBaseline
  <2>3. CASE Whole(u)
    <3>1. NewSample(u).pids = u.vivos /\ ~NewSample(u).worked
      BY DEF NewSample
    <3> QED BY <1>4, <2>1, <2>3, <3>1, SMTT(60) DEF Whole, SuiteGood
  <2>4. CASE Reaped(u)
    BY <1>2, <1>4, <2>1, <2>2, <2>4 DEF Reaped, SuiteGood, Whole
  <2> QED BY <1>2, <2>3, <2>4
<1>7. CASE Pendurada(u) /\ \E heeds \in SUBSET u.vivos :
                u' = [p EXCEPT !.fase = "grace", !.alvo = u.vivos, !.vivos = @ \ heeds, !.run = @ \ heeds,
                               !.injusto = u.hist[BaselineAt(u)].worked]
  <2> DEFINE h == u.hist[BaselineAt(u)]
  <2>1. BaselineAt(u) # 0 /\ u.vivos \cap h.pids \cap h.burned = {}
    BY <1>7 DEF Pendurada
  <2>2. BaselineAt(u) \in 1 .. Len(u.hist)
    BY <2>1, BaselineIs DEF SuiteGood
  <2>3. ~h.worked
    BY <1>2, <2>1, <2>2 DEF Whole, Reaped
  <2>4. h.worked = FALSE
    <3>1. h \in SuiteSample
      BY <2>2 DEF SuiteGood
    <3> QED BY <2>3, <3>1 DEF SuiteSample
  <2> HIDE DEF h
  <2>5. PICK heeds \in SUBSET u.vivos :
          u' = [p EXCEPT !.fase = "grace", !.alvo = u.vivos, !.vivos = @ \ heeds, !.run = @ \ heeds, !.injusto = FALSE]
    BY <1>7, <2>4 DEF h
  <2>6. /\ SuiteShaped(u') /\ u'.hist = p.hist /\ u'.vivos = p.vivos \ heeds /\ u'.run = p.run \ heeds /\ u'.begun = p.begun
        /\ u'.injusto = FALSE /\ u'.fase = "grace" /\ u'.alvo = u.vivos /\ u'.emCurso = p.emCurso
    BY <1>5, <2>5 DEF SuiteShaped, SuiteNames
  <2>7. BaselineAt(u') = BaselineAt(p)
    BY <2>6, SameBaseline
  <2>8. Reaped(u')
    BY <1>2, <1>4, <2>1, <2>3, <2>6, <2>7 DEF Reaped, h
  <2> QED BY <1>2, <1>4, <2>6, <2>8 DEF SuiteGood
<1> QED BY <1>3, <1>6, <1>7 DEF PsAnswers, p

(* The SIGKILL ends what the verdict named (tickInner after the grace).    *)
LEMMA GraceEndsWell ==
    ASSUME SuiteGood(u), GraceEnds
    PROVE  SuiteGood(u')
<1>1. DOMAIN u = SuiteNames
  BY SuiteDomain DEF SuiteGood
<1>2. u.vivos \subseteq u.alvo /\ Reaped(u)
  BY DEF SuiteGood, GraceEnds, Unbegun, Whole, Reaped
<1>3. /\ SuiteShaped(u') /\ u'.hist = u.hist /\ u'.vivos = u.vivos \ u.alvo /\ u'.run = {} /\ u'.begun = u.begun
      /\ u'.injusto = u.injusto /\ u'.fase = "none"
  BY <1>1 DEF SuiteShaped, SuiteNames, TickEnds, GraceEnds
<1>4. BaselineAt(u') = BaselineAt(u)
  BY <1>3, SameBaseline
<1> QED BY <1>2, <1>3, <1>4 DEF SuiteGood, Reaped

(* The invariant is inductive.                                             *)
LEMMA SuiteStepGood ==
    ASSUME SuiteGood(u), [SuiteNext]_SuiteVars, ~SuiteFresh
    PROVE  SuiteGood(u')
<1>1. DOMAIN u = SuiteNames
  BY SuiteDomain DEF SuiteGood
<1>2. CASE SuiteBegins
  BY <1>2, BeginsWell
<1>3. CASE Minute
  BY <1>3, MinuteWell
<1>4. CASE TickStarts
  <2>1. u.begun
    BY <1>4 DEF TickStarts, SuiteGood, Unbegun, Whole, Reaped
  <2>2. /\ SuiteShaped(u') /\ u'.hist = u.hist /\ u'.vivos = u.vivos /\ u'.run = u.run /\ u'.begun = u.begun
        /\ u'.injusto = u.injusto
        /\ \/ u'.fase = u.fase /\ u'.alvo = u.alvo /\ u'.emCurso = u.emCurso
           \/ u.fase # "grace" /\ u'.fase = "ps" /\ u'.emCurso
    <3>1. CASE u.emCurso
      BY <1>1, <1>4, <3>1 DEF SuiteShaped, SuiteNames, TickStarts
    <3>2. CASE ~u.emCurso
      <4>1. u.fase # "grace"
        BY <3>2 DEF SuiteGood
      <4> QED BY <1>1, <1>4, <3>2, <4>1 DEF SuiteShaped, SuiteNames, TickStarts
    <3> QED BY <3>1, <3>2
  <2> QED BY <2>1, <2>2, SuiteRests
<1>5. CASE PsFails
  <2>1. u.begun
    BY <1>5 DEF PsFails, SuiteGood, Unbegun, Whole, Reaped
  <2>2. /\ SuiteShaped(u') /\ u'.hist = u.hist /\ u'.vivos = u.vivos /\ u'.run = u.run /\ u'.begun = u.begun
        /\ u'.injusto = u.injusto /\ u.fase # "grace" /\ u'.fase = "none"
    BY <1>1, <1>5 DEF SuiteShaped, SuiteNames, PsFails, TickEnds
  <2> QED BY <2>1, <2>2, SuiteRests
<1>6. CASE PsAnswers
  BY <1>6, PsAnswersWell
<1>7. CASE GraceEnds
  BY <1>7, GraceEndsWell
<1>8. CASE StopPark
  <2>1. /\ SuiteShaped(u') /\ u'.hist = u.hist /\ u'.vivos = u.vivos /\ u'.run = u.run /\ u'.begun = u.begun
        /\ u'.injusto = u.injusto /\ u'.fase = u.fase /\ u'.alvo = u.alvo /\ u'.emCurso = u.emCurso
    BY <1>1, <1>8 DEF SuiteShaped, SuiteNames, StopPark
  <2> QED BY <1>8, <2>1, SuiteRests DEF StopPark
<1>9. CASE UNCHANGED SuiteVars
  BY <1>9 DEF SuiteVars
<1> QED BY <1>2, <1>3, <1>4, <1>5, <1>6, <1>7, <1>8, <1>9 DEF SuiteNext

(* No tree is killed that burned CPU within the window (suite-park.ts,     *)
(* assessSuites and tickInner). It holds as long as workers are not        *)
(* replaced: SuiteGood relates what the samples show to what the tree did, *)
(* and one that ends takes its CPU with it.                                *)
THEOREM WorkingTreesSpared ==
    ASSUME ~SuiteFresh
    PROVE  SuiteSpec => []SuiteSpared
<1>1. SuiteInit => SuiteGood(u)
  BY DEF SuiteInit, SuiteGood, SuiteShaped, SuiteNames, Unbegun
<1>2. SuiteGood(u) /\ [SuiteNext]_SuiteVars => SuiteGood(u)'
  BY SuiteStepGood
<1>3. SuiteGood(u) => SuiteSpared
  BY DEF SuiteGood, SuiteSpared
<1> QED BY <1>1, <1>2, <1>3, PTL DEF SuiteSpec

-----------------------------------------------------------------------------
(* The update of the daemon *)

Releases == 0 .. UpdNewest

(* The shape of the state. *)
UpdState ==
    [on : BOOLEAN, boot : Releases, daemon : Releases, bridge : Releases, pub : Releases,
     pubs : 0 .. UpdMaxPublish, faults : 0 .. UpdMaxFaults,
     check : {"none", "sha", "daemon", "bridge"}, sha : Releases, got : Releases,
     applied : -1 .. UpdNewest, age : -1 .. UpdDue, armed : BOOLEAN, draining : BOOLEAN,
     forced : BOOLEAN, held : BOOLEAN, leaving : SUBSET {"check", "tick"}, turn : BOOLEAN]

(* What is fetched is newer than what runs, and what is on disk no older. *)
Forward(s) ==
    /\ s.boot <= s.daemon
    /\ s.check = "bridge" => s.boot < s.got

(* The two bundles are of one release once that is the newest one. *)
Paired(s) ==
    /\ s.daemon = UpdNewest => s.bridge = UpdNewest
    /\ s.check = "bridge" => s.got <= s.pub

USE UpdAssumption DEF UpdAssumption, Releases, UpdDue

(* A boot runs what is on disk (UpdBooted).                                *)
LEMMA BootedKeeps ==
    ASSUME NEW s \in UpdState
    PROVE  /\ UpdBooted(s) \in UpdState
           /\ Forward(UpdBooted(s))
           /\ Paired(s) => Paired(UpdBooted(s))
<1>1. 0 \in Releases /\ -1 \in -1 .. UpdNewest /\ -1 \in -1 .. UpdDue
  OBVIOUS
<1>2. UpdBooted(s) \in UpdState
  BY <1>1 DEF UpdState, UpdBooted
<1>3. UpdBooted(s).boot = s.daemon /\ UpdBooted(s).check = "none" /\ UpdBooted(s).daemon = s.daemon /\ UpdBooted(s).bridge = s.bridge
  BY DEF UpdState, UpdBooted
<1>4. s.daemon \in Nat
  BY DEF UpdState
<1> QED BY <1>2, <1>3, <1>4 DEF Forward, Paired

(* Asking for the re-exec touches no bundle (requestReexec).               *)
LEMMA ReexecKeeps ==
    ASSUME NEW s \in UpdState, NEW who \in {"check", "tick"}
    PROVE  LET n == RequestReexec(s, who)
           IN  /\ n \in UpdState
               /\ n.boot = s.boot /\ n.daemon = s.daemon /\ n.bridge = s.bridge
               /\ n.check = s.check /\ n.got = s.got /\ n.pub = s.pub
BY DEF UpdState, RequestReexec

(* Nor does planning the restart (planRestart).                            *)
LEMMA PlanKeeps ==
    ASSUME NEW s \in UpdState
    PROVE  LET n == PlanRestart(s)
           IN  /\ n \in UpdState
               /\ n.boot = s.boot /\ n.daemon = s.daemon /\ n.bridge = s.bridge
               /\ n.check = "none"
<1> DEFINE v == [s EXCEPT !.check = "none"]
<1>1. /\ v \in UpdState
      /\ v.boot = s.boot /\ v.daemon = s.daemon /\ v.bridge = s.bridge /\ v.check = "none"
  BY DEF UpdState
<1>2. /\ [v EXCEPT !.armed = TRUE] \in UpdState
      /\ LET n == [v EXCEPT !.armed = TRUE]
         IN  n.boot = v.boot /\ n.daemon = v.daemon /\ n.bridge = v.bridge /\ n.check = v.check
  BY <1>1 DEF UpdState
<1>3. PlanRestart(s) = IF ~s.turn THEN RequestReexec(v, "check") ELSE [v EXCEPT !.armed = TRUE]
  BY DEF PlanRestart
<1> HIDE DEF v
<1> QED BY <1>1, <1>2, <1>3, ReexecKeeps

UpdInv == up \in UpdState /\ Forward(up)
UpdPairInv == UpdInv /\ Paired(up)

(* The first boot.                                                         *)
LEMMA UpdInitOK == UpdInit => UpdInv /\ Paired(up)
BY DEF UpdInit, UpdInv, UpdState, Forward, Paired

Core(s) == <<s.boot, s.daemon, s.bridge, s.check, s.got, s.pub>>

(* A fault of the host touches no bundle.                                  *)
LEMMA RestartKeeps ==
    ASSUME NEW s \in UpdState, s.faults + 1 \in 0 .. UpdMaxFaults, NEW turn \in BOOLEAN
    PROVE  LET n == [s EXCEPT !.faults = @ + 1, !.turn = turn]
           IN  n \in UpdState /\ Core(n) = Core(s)
<1> DEFINE n == [s EXCEPT !.faults = @ + 1, !.turn = turn]
<1>1. n \in UpdState
  BY DEF UpdState
<1>2. Core(n) = Core(s)
  BY DEF UpdState, Core
<1> QED BY <1>1, <1>2

(* A step that leaves these alone, or ends the check, keeps both. *)
LEMMA CoreKeeps ==
    ASSUME NEW s \in UpdState, NEW n \in UpdState, Forward(s),
           \/ Core(n) = Core(s)
           \/ /\ n.boot = s.boot /\ n.daemon = s.daemon /\ n.bridge = s.bridge
              /\ n.check # "bridge"
    PROVE  Forward(n) /\ (Paired(s) => Paired(n))
BY DEF Core, Forward, Paired

(* The invariant is inductive; and so is, but for the two lapses, that the *)
(* bundles are of one release.                                             *)
LEMMA UpdStepOK ==
    ASSUME UpdInv, [UpdNext]_UpdVars
    PROVE  UpdInv' /\ (~UpdMixed /\ ~UpdSplit /\ Paired(up) => Paired(up)')
<1> USE DEF UpdInv
<1>1. CASE UpdStart \/ TurnComes \/ TurnGoes
  <2>1. PICK b \in BOOLEAN : up' = [up EXCEPT !.on = b] \/ up' = [up EXCEPT !.turn = b]
    BY <1>1 DEF UpdStart, TurnComes, TurnGoes
  <2>2. up' \in UpdState
    BY <2>1 DEF UpdState
  <2>3. Core(up') = Core(up)
    BY <2>1 DEF UpdState, Core
  <2> QED BY <2>2, <2>3, CoreKeeps
<1>12. CASE ClockRuns
  <2>1. up.age + 1 \in -1 .. UpdDue /\ up' = [up EXCEPT !.age = @ + 1]
    BY <1>12 DEF ClockRuns
  <2>2. up' \in UpdState /\ Core(up') = Core(up)
    BY <2>1 DEF UpdState, Core
  <2> QED BY <2>2, CoreKeeps
<1>2. CASE Publish
  <2>1. PICK rel \in Releases \ {up.pub} :
           /\ rel > up.pub \/ UpdMixed \/ up.check \in {"none", "sha"}
           /\ up' = [up EXCEPT !.pub = rel, !.pubs = @ + 1]
    BY <1>2 DEF Publish
  <2>5. up.pubs + 1 \in 0 .. UpdMaxPublish
    BY <1>2 DEF Publish, UpdState
  <2>2. up' \in UpdState
    BY <2>1, <2>5 DEF UpdState
  <2>3. /\ up'.boot = up.boot /\ up'.daemon = up.daemon /\ up'.bridge = up.bridge
        /\ up'.check = up.check /\ up'.got = up.got /\ up'.pub = rel
    BY <2>1 DEF UpdState
  <2>4. up.got \in Nat /\ up.pub \in Nat /\ rel \in Nat
    BY DEF UpdState
  <2> QED BY <2>1, <2>2, <2>3, <2>4 DEF Forward, Paired
<1>3. CASE FetchSha
  <2>1. CASE up' = [up EXCEPT !.check = "none"]
    <3>1. up' \in UpdState
      BY <2>1 DEF UpdState
    <3>2. up'.boot = up.boot /\ up'.daemon = up.daemon /\ up'.bridge = up.bridge /\ up'.check = "none"
      BY <2>1 DEF UpdState
    <3> QED BY <3>1, <3>2, CoreKeeps
  <2>2. CASE up' = PlanRestart(up)
    BY <2>2, PlanKeeps, CoreKeeps
  <2>3. CASE up' = [up EXCEPT !.check = "daemon", !.sha = up.pub]
    <3>1. up' \in UpdState
      BY <2>3 DEF UpdState
    <3>2. up'.boot = up.boot /\ up'.daemon = up.daemon /\ up'.bridge = up.bridge /\ up'.check = "daemon"
      BY <2>3 DEF UpdState
    <3> QED BY <3>1, <3>2, CoreKeeps
  <2> QED BY <1>3, <2>1, <2>2, <2>3 DEF FetchSha
<1>4. CASE FetchDaemon
  <2>1. CASE up.pub > up.boot
    <3>1. up' = [up EXCEPT !.check = "bridge", !.got = up.pub]
      BY <1>4, <2>1 DEF FetchDaemon
    <3>2. up' \in UpdState
      BY <3>1 DEF UpdState
    <3>3. /\ up'.boot = up.boot /\ up'.daemon = up.daemon /\ up'.bridge = up.bridge
          /\ up'.got = up.pub /\ up'.pub = up.pub
      BY <3>1 DEF UpdState
    <3>4. up.pub \in Nat /\ up.boot \in Nat
      BY DEF UpdState
    <3> QED BY <2>1, <3>2, <3>3, <3>4 DEF Forward, Paired
  <2>2. CASE ~(up.pub > up.boot)
    <3>1. up' = [up EXCEPT !.check = "none"]
      BY <1>4, <2>2 DEF FetchDaemon
    <3>2. up' \in UpdState
      BY <3>1 DEF UpdState
    <3>3. up'.boot = up.boot /\ up'.daemon = up.daemon /\ up'.bridge = up.bridge /\ up'.check = "none"
      BY <3>1 DEF UpdState
    <3> QED BY <3>2, <3>3, CoreKeeps
  <2> QED BY <2>1, <2>2
<1>5. CASE FetchBridge
  <2> DEFINE v == [up EXCEPT !.daemon = up.got, !.bridge = up.pub, !.applied = up.sha,
                             !.age = IF @ = -1 THEN 0 ELSE @]
  <2>5. (IF up.age = -1 THEN 0 ELSE up.age) \in -1 .. UpdDue
    BY DEF UpdState
  <2>6. up.got \in Releases /\ up.pub \in Releases /\ up.sha \in -1 .. UpdNewest
    BY DEF UpdState
  <2>7. v \in UpdState
    BY <2>5, <2>6 DEF UpdState
  <2>1. v.boot = up.boot /\ v.daemon = up.got /\ v.bridge = up.pub
    BY DEF UpdState
  <2>2. up' = PlanRestart(v) /\ up.check = "bridge"
    BY <1>5 DEF FetchBridge
  <2> HIDE DEF v
  <2>4. up.boot \in Nat /\ up.got \in Nat /\ up.pub \in 0 .. UpdNewest
    BY DEF UpdState
  <2>3. /\ up' \in UpdState
        /\ up'.boot = up.boot /\ up'.daemon = up.got /\ up'.bridge = up.pub /\ up'.check = "none"
    BY <2>1, <2>2, <2>7, PlanKeeps
  <2> QED BY <2>2, <2>3, <2>4 DEF Forward, Paired
<1>6. CASE FetchFails
  <2>3. up.faults + 1 \in 0 .. UpdMaxFaults
    BY <1>6 DEF FetchFails, UpdState
  <2>1. up' \in UpdState
    BY <1>6, <2>3 DEF FetchFails, UpdState
  <2>2. up'.boot = up.boot /\ up'.daemon = up.daemon /\ up'.bridge = up.bridge /\ up'.check = "none"
    BY <1>6 DEF FetchFails, UpdState
  <2> QED BY <2>1, <2>2, CoreKeeps
<1>11. CASE Trigger
  <2>1. up' \in UpdState
    BY <1>11 DEF Trigger, UpdState
  <2>2. up'.boot = up.boot /\ up'.daemon = up.daemon /\ up'.bridge = up.bridge /\ up'.check = "sha"
    BY <1>11 DEF Trigger, UpdState
  <2> QED BY <2>1, <2>2, CoreKeeps
<1>7. CASE Tick
  <2> DEFINE v == IF up.age >= UpdDrainAfter /\ ~up.draining
                  THEN [up EXCEPT !.draining = TRUE, !.held = TRUE] ELSE up
             a == [up EXCEPT !.armed = FALSE]
             b == [v EXCEPT !.forced = TRUE, !.armed = FALSE]
  <2>1. v \in UpdState /\ Core(v) = Core(up)
    BY DEF UpdState, Core
  <2>5. a \in UpdState /\ Core(a) = Core(up)
    BY DEF UpdState, Core
  <2>2. up' = IF ~up.turn THEN RequestReexec(a, "tick")
              ELSE IF v.draining /\ v.age >= UpdDue THEN RequestReexec(b, "tick")
              ELSE v
    BY <1>7 DEF Tick
  <2> HIDE DEF v, a
  <2>3. b \in UpdState /\ Core(b) = Core(v)
    BY <2>1 DEF UpdState, Core
  <2> HIDE DEF b
  <2>4. /\ up' \in UpdState
        /\ Core(up') = Core(up)
    BY <2>1, <2>2, <2>3, <2>5, ReexecKeeps DEF Core
  <2> QED BY <2>4, CoreKeeps
<1>8. CASE Exit42
  <2> PICK turn \in BOOLEAN : up' = [UpdBooted(up) EXCEPT !.turn = turn]
    BY <1>8 DEF Exit42
  <2> DEFINE v == UpdBooted(up)
  <2>1. v \in UpdState /\ Forward(v) /\ (Paired(up) => Paired(v))
    BY BootedKeeps
  <2> HIDE DEF v
  <2>2. up' \in UpdState /\ Core(up') = Core(v)
    BY <2>1 DEF v, UpdState, Core
  <2> QED BY <2>1, <2>2, CoreKeeps
<1>9. CASE UpdCrash
  <2> DEFINE torn == [up EXCEPT !.daemon = up.got]
  <2>1. torn \in UpdState /\ torn.faults = up.faults
    BY DEF UpdState
  <2>2. PICK old \in UpdState, turn \in BOOLEAN :
           /\ old.faults = up.faults /\ (~UpdSplit => old = up)
           /\ up' = [UpdBooted(old) EXCEPT !.faults = @ + 1, !.turn = turn]
    BY <1>9, <2>1 DEF UpdCrash
  <2> DEFINE v == UpdBooted(old)
  <2>3. v \in UpdState /\ Forward(v) /\ (~UpdSplit /\ Paired(up) => Paired(v))
    BY <2>2, BootedKeeps
  <2>4. v.faults = old.faults /\ up.faults < UpdMaxFaults
    BY <1>9 DEF UpdBooted, UpdState, UpdCrash
  <2>6. v.faults + 1 \in 0 .. UpdMaxFaults
    BY <2>2, <2>3, <2>4 DEF UpdState
  <2> HIDE DEF v
  <2>5. up' \in UpdState /\ Core(up') = Core(v)
    BY <2>2, <2>3, <2>6, RestartKeeps DEF v
  <2> QED BY <2>3, <2>5, CoreKeeps
<1>10. CASE UNCHANGED UpdVars
  BY <1>10 DEF UpdVars, Forward, Paired
<1> QED BY <1>1, <1>2, <1>3, <1>4, <1>5, <1>6, <1>7, <1>8, <1>9, <1>10, <1>11, <1>12 DEF UpdNext

(* The shape of the state (self-update.ts, main.ts).                       *)
THEOREM UpdTyped == UpdSpec => []UpdTypeOK
<1>1. UpdInit => UpdInv
  BY UpdInitOK
<1>2. UpdInv /\ [UpdNext]_UpdVars => UpdInv'
  BY UpdStepOK
<1>3. UpdInv => UpdTypeOK
  BY DEF UpdInv, UpdState, UpdTypeOK
<1> QED BY <1>1, <1>2, <1>3, PTL DEF UpdSpec

(* The bundle on disk is never older than the one that runs, with the      *)
(* lapses too: a check fetches only what is newer (self-update.ts).        *)
THEOREM NeverOlder == UpdSpec => [](up.boot <= up.daemon)
<1>1. UpdInit => UpdInv
  BY UpdInitOK
<1>2. UpdInv /\ [UpdNext]_UpdVars => UpdInv'
  BY UpdStepOK
<1>3. UpdInv => up.boot <= up.daemon
  BY DEF UpdInv, Forward
<1> QED BY <1>1, <1>2, <1>3, PTL DEF UpdSpec

(* A start never runs an older release than the one that runs, and at the  *)
(* newest the bridge is of that release too (self-update.ts), but for the  *)
(* two lapses SelfUpdate names: a restart between the two renames, and a   *)
(* release withdrawn in the middle of a check.                             *)
THEOREM NeverBack ==
    ASSUME ~UpdMixed, ~UpdSplit
    PROVE  UpdSpec => []UpdNeverBack
<1> DEFINE I == UpdInv /\ Paired(up)
<1>1. UpdInit => I
  BY UpdInitOK
<1>2. I /\ [UpdNext]_UpdVars => I'
  BY UpdStepOK
<1>3. I => UpdNeverBack
  BY DEF UpdInv, Forward, Paired, UpdNeverBack
<1> QED BY <1>1, <1>2, <1>3, PTL DEF UpdSpec
=============================================================================
