----------------------------- MODULE QueueProofs -----------------------------
(***************************************************************************)
(* The queue of an agent, for every number of messages, every ceiling and  *)
(* every number of tries: nothing that arrived is lost or held twice, no   *)
(* turn mixes two senders, and the messages of one sender start in the     *)
(* order he sent them.                                                     *)
(*                                                                         *)
(* None of the three is inductive.  The invariant looks at the turn and    *)
(* the queue behind it as one line (WholeLine): every item of it carries   *)
(* messages of one sender in the order he sent them, every item but the    *)
(* first names that sender, and what a sender wrote is younger further     *)
(* back.  The exception is the retry of a turn cut short, which returns to *)
(* the front without a sender: nothing is ever joined to it, and nothing   *)
(* of its sender is in front of it.                                        *)
(***************************************************************************)
EXTENDS SessionQueue, NaturalFacts, TLAPS
LOCAL INSTANCE SequencesExt

(* The running concatenation FlattenSeq is defined by exists, whatever the  *)
(* length of its argument.                                                  *)
LEMMA RunningJoin ==
    ASSUME NEW S, NEW q \in Seq(Seq(S)), NEW n \in Nat, n <= Len(q)
    PROVE  \E f : f = [i \in 1 .. n |-> IF i = 1 THEN q[i] ELSE f[i - 1] \o q[i]]
<1> DEFINE G(f, k) == f = [i \in 1 .. k |-> IF i = 1 THEN q[i] ELSE f[i - 1] \o q[i]]
           Has(k) == \E f : G(f, k)
           Bad == {k \in 0 .. n : ~Has(k)}
<1>1. SUFFICES ASSUME Bad # {} PROVE FALSE
  <2>1. n \in 0 .. n
    OBVIOUS
  <2> QED BY <2>1
<1>2. Bad \in SUBSET Nat
  <2> HIDE DEF Has
  <2> QED OBVIOUS
<1>3. PICK k \in Bad : \A j \in Bad : k <= j
  BY <1>1, <1>2, NatHasLeast
<1>4. k # 0
  <2>1. G([i \in 1 .. 0 |-> <<>>], 0)
    OBVIOUS
  <2> QED BY <2>1
<1>5. k \in Nat /\ k - 1 \in 0 .. n /\ k \in 1 .. n /\ ~(k <= k - 1)
  BY <1>2, <1>3, <1>4
<1>6. k - 1 \notin Bad
  BY <1>3, <1>5
<1>7. PICK f : G(f, k - 1)
  BY <1>5, <1>6
<1> DEFINE g == [i \in 1 .. k |-> IF i = k THEN IF k = 1 THEN q[k] ELSE f[k - 1] \o q[k] ELSE f[i]]
<1>8. \A i \in 1 .. k - 1 : f[i] = IF i = 1 THEN q[i] ELSE f[i - 1] \o q[i]
  BY <1>7
<1>9. \A i \in 1 .. k : g[i] = IF i = 1 THEN q[i] ELSE g[i - 1] \o q[i]
  <2> SUFFICES ASSUME NEW i \in 1 .. k
               PROVE  g[i] = IF i = 1 THEN q[i] ELSE g[i - 1] \o q[i]
    OBVIOUS
  <2>1. CASE i = 1
    <3>1. CASE k = 1
      BY <2>1, <3>1
    <3>2. CASE k # 1
      <4>1. g[i] = f[i] /\ i \in 1 .. k - 1
        BY <1>5, <2>1, <3>2
      <4> QED BY <1>8, <2>1, <4>1
    <3> QED BY <3>1, <3>2
  <2>2. CASE i # 1 /\ i = k
    <3>1. i - 1 \in 1 .. k /\ i - 1 # k
      BY <1>5, <2>2
    <3>2. g[i - 1] = f[i - 1]
      BY <3>1
    <3>3. g[i] = f[k - 1] \o q[k]
      BY <2>2
    <3> QED BY <2>2, <3>2, <3>3
  <2>3. CASE i # 1 /\ i # k
    <3>1. i \in 1 .. k - 1 /\ i - 1 \in 1 .. k /\ i - 1 # k
      BY <1>5, <2>3
    <3>2. g[i] = f[i] /\ g[i - 1] = f[i - 1]
      BY <2>3, <3>1
    <3> QED BY <1>8, <2>3, <3>1, <3>2
  <2> QED BY <2>1, <2>2, <2>3
<1>10. g = [i \in 1 .. k |-> g[i]]
  OBVIOUS
<1> HIDE DEF g
<1>11. G(g, k)
  BY <1>9, <1>10
<1> QED BY <1>3, <1>11

(* FlattenSeq is the last value of that running concatenation.              *)
LEMMA FlattenIs ==
    ASSUME NEW S, NEW q \in Seq(Seq(S)), Len(q) # 0
    PROVE  \E f : /\ FlattenSeq(q) = f[Len(q)]
                  /\ \A i \in 1 .. Len(q) : f[i] = IF i = 1 THEN q[i] ELSE f[i - 1] \o q[i]
<1> DEFINE G(f) == f = [i \in 1 .. Len(q) |-> IF i = 1 THEN q[i] ELSE f[i - 1] \o q[i]]
           F == CHOOSE f : G(f)
<1>1. Len(q) \in Nat /\ Len(q) <= Len(q)
  OBVIOUS
<1>2. \E f : G(f)
  <2> HIDE DEF F
  <2> QED BY <1>1, RunningJoin
<1>3. G(F)
  <2> HIDE DEF G
  <2> QED BY <1>2
<1>4. FlattenSeq(q) = F[Len(q)]
  BY DEF FlattenSeq
<1>5. F = [i \in 1 .. Len(q) |-> IF i = 1 THEN q[i] ELSE F[i - 1] \o q[i]]
  BY <1>3
<1> HIDE DEF F, G
<1>6. \A i \in 1 .. Len(q) : F[i] = IF i = 1 THEN q[i] ELSE F[i - 1] \o q[i]
  BY <1>5
<1> QED BY <1>4, <1>6

(* The messages the items carry between them.                               *)
Carry(itens) == UNION {ToSet(itens[i].conteudo) : i \in DOMAIN itens}

(* A sequence of sequences without repetition that share nothing. *)
Apart(q) ==
    /\ \A i \in 1 .. Len(q) : \A x, y \in 1 .. Len(q[i]) : q[i][x] = q[i][y] => x = y
    /\ \A i, j \in 1 .. Len(q) : i # j => ToSet(q[i]) \cap ToSet(q[j]) = {}

(* What a concatenation holds, and when it holds nothing twice.             *)
LEMMA Joins ==
    ASSUME NEW a \in Seq(Nat), NEW b \in Seq(Nat)
    PROVE  /\ a \o b \in Seq(Nat) /\ ToSet(a \o b) = ToSet(a) \cup ToSet(b)
           /\ (/\ \A x, y \in 1 .. Len(a) : a[x] = a[y] => x = y
               /\ \A x, y \in 1 .. Len(b) : b[x] = b[y] => x = y
               /\ ToSet(a) \cap ToSet(b) = {})
              => \A x, y \in 1 .. Len(a \o b) : (a \o b)[x] = (a \o b)[y] => x = y
<1> DEFINE c == a \o b
           m == Len(a)
           n == Len(b)
<1>1. /\ c \in Seq(Nat) /\ m \in Nat /\ n \in Nat /\ Len(c) = m + n
      /\ \A i \in 1 .. m : c[i] = a[i]
      /\ \A i \in 1 .. m + n : ~(i <= m) => c[i] = b[i - m]
  OBVIOUS
<1>2. ToSet(a) = {a[i] : i \in 1 .. m} /\ ToSet(b) = {b[i] : i \in 1 .. n} /\ ToSet(c) = {c[i] : i \in 1 .. Len(c)}
  <2>1. DOMAIN a = 1 .. m /\ DOMAIN b = 1 .. n /\ DOMAIN c = 1 .. Len(c)
    BY <1>1
  <2> HIDE DEF c, m, n
  <2> QED BY <2>1 DEF ToSet
<1> HIDE DEF c, m, n
<1>3. \A i \in 1 .. m + n : (i <= m => i \in 1 .. m) /\ (~(i <= m) => i - m \in 1 .. n)
  BY <1>1
<1>4. ToSet(c) = ToSet(a) \cup ToSet(b)
  <2>1. ToSet(c) \subseteq ToSet(a) \cup ToSet(b)
    BY <1>1, <1>2, <1>3
  <2>2. \A i \in 1 .. m : i \in 1 .. m + n
    BY <1>1
  <2>3. \A i \in 1 .. n : i + m \in 1 .. m + n /\ c[i + m] = b[i]
    <3> SUFFICES ASSUME NEW i \in 1 .. n PROVE i + m \in 1 .. m + n /\ c[i + m] = b[i]
      OBVIOUS
    <3>1. i + m \in 1 .. m + n /\ ~(i + m <= m) /\ (i + m) - m = i
      BY <1>1
    <3> QED BY <1>1, <3>1
  <2>4. ToSet(a) \subseteq ToSet(c)
    BY <1>1, <1>2, <2>2
  <2>5. ToSet(b) \subseteq ToSet(c)
    BY <1>1, <1>2, <2>3
  <2> QED BY <2>1, <2>4, <2>5
<1>5. ASSUME \A x, y \in 1 .. m : a[x] = a[y] => x = y,
             \A x, y \in 1 .. n : b[x] = b[y] => x = y,
             ToSet(a) \cap ToSet(b) = {}, NEW x \in 1 .. m + n, NEW y \in 1 .. m + n, c[x] = c[y]
      PROVE  x = y
  <2>1. \A i \in 1 .. m, j \in 1 .. n : a[i] # b[j]
    <3>1. \A i \in 1 .. m : a[i] \in ToSet(a)
      BY <1>2
    <3>2. \A j \in 1 .. n : b[j] \in ToSet(b)
      BY <1>2
    <3> QED BY <1>5, <3>1, <3>2
  <2>2. CASE x <= m /\ y <= m
    BY <1>1, <1>3, <1>5, <2>2
  <2>3. CASE ~(x <= m) /\ ~(y <= m)
    <3>0. c[x] = b[x - m] /\ c[y] = b[y - m] /\ x - m \in 1 .. n /\ y - m \in 1 .. n
      BY <1>1, <1>3, <2>3
    <3>1. x - m = y - m
      BY <1>5, <3>0
    <3> QED BY <1>1, <3>1
  <2>4. CASE x <= m /\ ~(y <= m)
    <3>1. c[x] = a[x] /\ c[y] = b[y - m] /\ x \in 1 .. m /\ y - m \in 1 .. n
      BY <1>1, <1>3, <2>4
    <3> QED BY <1>5, <2>1, <3>1
  <2>5. CASE ~(x <= m) /\ y <= m
    <3>1. c[y] = a[y] /\ c[x] = b[x - m] /\ y \in 1 .. m /\ x - m \in 1 .. n
      BY <1>1, <1>3, <2>5
    <3> QED BY <1>5, <2>1, <3>1
  <2> QED BY <2>2, <2>3, <2>4, <2>5
<1> QED BY <1>1, <1>4, <1>5 DEF c, m, n

(* What FlattenSeq holds, and when it holds nothing twice.                  *)
LEMMA Flattened ==
    ASSUME NEW q \in Seq(Seq(Nat))
    PROVE  /\ FlattenSeq(q) \in Seq(Nat)
           /\ ToSet(FlattenSeq(q)) = UNION {ToSet(q[i]) : i \in 1 .. Len(q)}
           /\ Apart(q) => \A x, y \in 1 .. Len(FlattenSeq(q)) : FlattenSeq(q)[x] = FlattenSeq(q)[y] => x = y
<1>1. CASE Len(q) = 0
  <2>1. FlattenSeq(q) = q /\ q = <<>>
    BY <1>1 DEF FlattenSeq
  <2>2. ToSet(q) = {} /\ 1 .. Len(q) = {}
    BY <2>1 DEF ToSet
  <2> QED BY <2>1, <2>2
<1>2. CASE Len(q) # 0
  <2>1. PICK f : /\ FlattenSeq(q) = f[Len(q)]
                 /\ \A i \in 1 .. Len(q) : f[i] = IF i = 1 THEN q[i] ELSE f[i - 1] \o q[i]
    BY <1>2, FlattenIs
  <2> DEFINE n == Len(q)
             Single(t) == \A x, y \in 1 .. Len(t) : t[x] = t[y] => x = y
             Good(i) == /\ f[i] \in Seq(Nat) /\ \A x : x \in ToSet(f[i]) <=> \E k \in 1 .. i : x \in ToSet(q[k])
                        /\ Apart(q) => Single(f[i])
             Bad == {i \in 1 .. n : ~Good(i)}
  <2>2. n \in Nat /\ \A i \in 1 .. n : q[i] \in Seq(Nat)
    OBVIOUS
  <2>3. \A i \in 1 .. n : Apart(q) => Single(q[i])
    BY DEF Apart
  <2>4. Good(1)
    <3>1. f[1] = q[1] /\ 1 \in 1 .. n
      BY <1>2, <2>1, <2>2
    <3>2. \A k : k \in 1 .. 1 <=> k = 1
      OBVIOUS
    <3> HIDE DEF Single
    <3> QED BY <2>2, <2>3, <3>1, <3>2
  <2>5. ASSUME NEW i \in 1 .. n, i # 1, Good(i - 1)
        PROVE  Good(i)
    <3> DEFINE a == f[i - 1]
               b == q[i]
    <3>1. i - 1 \in 1 .. n /\ \A k : k \in 1 .. i <=> k \in 1 .. i - 1 \/ k = i
      BY <2>2, <2>5
    <3>2. f[i] = a \o b /\ b \in Seq(Nat)
      BY <2>1, <2>2, <2>5
    <3>3. a \in Seq(Nat) /\ (Apart(q) => Single(a))
      BY <2>5
    <3>4. \A x : x \in ToSet(a) <=> \E k \in 1 .. i - 1 : x \in ToSet(q[k])
      BY <2>5
    <3>5. Apart(q) => Single(b)
      BY <2>3
    <3> HIDE DEF a, b, Single
    <3>6. ASSUME Apart(q), NEW x \in ToSet(a), x \in ToSet(b)
          PROVE  FALSE
      <4>1. PICK k \in 1 .. i - 1 : x \in ToSet(q[k])
        BY <3>4, <3>6
      <4>2. k \in 1 .. n /\ i \in 1 .. n /\ k # i
        BY <2>2
      <4> QED BY <3>6, <4>1, <4>2 DEF Apart, b
    <3>7. a \o b \in Seq(Nat) /\ ToSet(a \o b) = ToSet(a) \cup ToSet(b)
          /\ (Single(a) /\ Single(b) /\ ToSet(a) \cap ToSet(b) = {} => Single(a \o b))
      BY <3>2, <3>3, Joins DEF Single
    <3>8. Apart(q) => Single(f[i])
      BY <3>2, <3>3, <3>5, <3>6, <3>7
    <3>9. \A x : x \in ToSet(f[i]) <=> \E k \in 1 .. i : x \in ToSet(q[k])
      <4>1. \A x : x \in ToSet(f[i]) <=> x \in ToSet(a) \/ x \in ToSet(q[i])
        BY <3>2, <3>7 DEF b
      <4> QED BY <3>1, <3>4, <4>1
    <3> QED BY <3>2, <3>7, <3>8, <3>9
  <2> HIDE DEF Good
  <2>6. Bad = {}
    <3>1. SUFFICES ASSUME Bad # {} PROVE FALSE
      OBVIOUS
    <3>2. Bad \in SUBSET Nat
      BY <2>2
    <3>3. PICK i \in Bad : \A j \in Bad : i <= j
      BY <3>1, <3>2, NatHasLeast
    <3>4. i # 1
      BY <2>4, <3>3
    <3>5. i \in 1 .. n /\ i - 1 \in 1 .. n /\ ~(i <= i - 1)
      BY <2>2, <3>3, <3>4
    <3> QED BY <2>5, <3>3, <3>4, <3>5
  <2>7. n \in 1 .. n
    BY <1>2, <2>2
  <2>8. Good(n)
    BY <2>6, <2>7
  <2> QED BY <2>1, <2>8 DEF Good
<1> QED BY <1>1, <1>2

-----------------------------------------------------------------------------
(* The shape of an item, without the bounds of a run.                       *)
QueuedItem ==
    [conteudo : Seq(Nat), id : Nat, agrupadas : SUBSET Nat, dono : Principals \cup {NoDono}, sintetica : BOOLEAN]

(* The messages of an item, in the order they were sent. *)
Rising(c) == \A x, y \in 1 .. Len(c) : x < y => c[x] < c[y]

(* An item carries messages that arrived, of one sender, which is the one   *)
(* it names if it names one.                                                *)
ItemGood(item, au) ==
    /\ Rising(item.conteudo) /\ ToSet(item.conteudo) \subseteq 1 .. Len(au)
    /\ item.sintetica => item.conteudo = <<>>
    /\ \A a, b \in ToSet(item.conteudo) : au[a] = au[b]
    /\ item.dono # NoDono => \A a \in ToSet(item.conteudo) : au[a] = item.dono

(* Turn and queue, one behind the other. *)
LineGood(line, au) ==
    /\ line \in Seq(QueuedItem)
    /\ \A i \in 1 .. Len(line) : ItemGood(line[i], au)
    /\ \A i \in 2 .. Len(line) : \A a \in ToSet(line[i].conteudo) : au[a] = line[i].dono
    /\ \A i, j \in 1 .. Len(line) : i < j =>
          \A a \in ToSet(line[i].conteudo), b \in ToSet(line[j].conteudo) : au[a] = au[b] => a < b

(* Nothing is twice in a rising sequence.                                   *)
LEMMA RisingOnce ==
    ASSUME NEW c \in Seq(Nat), Rising(c), NEW x \in 1 .. Len(c), NEW y \in 1 .. Len(c), c[x] = c[y]
    PROVE  x = y
<1>1. c[x] \in Nat /\ c[y] \in Nat /\ x \in Nat /\ y \in Nat
  OBVIOUS
<1>2. ~(x < y) /\ ~(y < x)
  BY <1>1 DEF Rising
<1> QED BY <1>1, <1>2

(* Where a message is that the items carry.                                 *)
LEMMA ItemContents ==
    ASSUME NEW line \in Seq(QueuedItem)
    PROVE  /\ Len(line) \in Nat /\ DOMAIN line = 1 .. Len(line)
           /\ \A i \in 1 .. Len(line) : line[i] \in QueuedItem /\ line[i].conteudo \in Seq(Nat)
           /\ \A x : x \in Carry(line) <=> \E i \in 1 .. Len(line) : x \in ToSet(line[i].conteudo)
<1>1. Len(line) \in Nat /\ DOMAIN line = 1 .. Len(line) /\ \A i \in 1 .. Len(line) : line[i] \in QueuedItem
  OBVIOUS
<1>2. \A i \in 1 .. Len(line) : line[i].conteudo \in Seq(Nat)
  BY <1>1 DEF QueuedItem
<1>3. \A x : x \in Carry(line) <=> \E i \in 1 .. Len(line) : x \in ToSet(line[i].conteudo)
  BY <1>1 DEF Carry
<1> QED BY <1>1, <1>2, <1>3

(* Mensagens gathers what the items carry, and of a good line gathers       *)
(* nothing twice.                                                           *)
LEMMA MensagensAre ==
    ASSUME NEW line \in Seq(QueuedItem)
    PROVE  /\ ToSet(Mensagens(line)) = Carry(line)
           /\ \A au : LineGood(line, au) =>
                \A x, y \in DOMAIN Mensagens(line) : x # y => Mensagens(line)[x] # Mensagens(line)[y]
<1> DEFINE q == [i \in DOMAIN line |-> line[i].conteudo]
<1>1. /\ q \in Seq(Seq(Nat)) /\ Len(q) = Len(line) /\ \A i \in 1 .. Len(line) : q[i] = line[i].conteudo
  <2>1. DOMAIN line = 1 .. Len(line) /\ Len(line) \in Nat /\ \A i \in 1 .. Len(line) : line[i].conteudo \in Seq(Nat)
    BY ItemContents
  <2> QED BY <2>1
<1>2. Mensagens(line) = FlattenSeq(q)
  BY DEF Mensagens
<1> HIDE DEF q
<1>3. /\ FlattenSeq(q) \in Seq(Nat)
      /\ ToSet(FlattenSeq(q)) = UNION {ToSet(q[i]) : i \in 1 .. Len(q)}
      /\ Apart(q) => \A x, y \in 1 .. Len(FlattenSeq(q)) : FlattenSeq(q)[x] = FlattenSeq(q)[y] => x = y
  BY <1>1, Flattened
<1>4. ToSet(Mensagens(line)) = Carry(line)
  <2>1. \A x : x \in ToSet(FlattenSeq(q)) <=> \E i \in 1 .. Len(line) : x \in ToSet(line[i].conteudo)
    BY <1>1, <1>3
  <2> QED BY <1>2, <2>1, ItemContents
<1>5. ASSUME NEW au, LineGood(line, au)
      PROVE  Apart(q)
  <2>1. ASSUME NEW i \in 1 .. Len(q)
        PROVE  \A x, y \in 1 .. Len(q[i]) : q[i][x] = q[i][y] => x = y
    <3>1. q[i] \in Seq(Nat) /\ Rising(q[i])
      BY <1>1, <1>5 DEF LineGood, ItemGood
    <3> QED BY <3>1, RisingOnce
  <2>2. ASSUME NEW i \in 1 .. Len(q), NEW j \in 1 .. Len(q), i # j, NEW a \in ToSet(q[i]), a \in ToSet(q[j])
        PROVE  FALSE
    <3>1. i < j \/ j < i
      BY <1>1, <2>2
    <3>2. a \in Nat /\ q[i] = line[i].conteudo /\ q[j] = line[j].conteudo
      <4>1. q[i] \in Seq(Nat)
        BY <1>1
      <4>2. \A k \in 1 .. Len(q[i]) : q[i][k] \in Nat
        BY <4>1
      <4>3. DOMAIN q[i] = 1 .. Len(q[i])
        BY <4>1
      <4>4. a \in Nat
        BY <2>2, <4>2, <4>3 DEF ToSet
      <4> QED BY <1>1, <4>4
    <3>3. a < a
      BY <1>1, <1>5, <2>2, <3>1, <3>2 DEF LineGood
    <3> QED BY <3>2, <3>3
  <2> QED BY <2>1, <2>2 DEF Apart
<1>6. ASSUME NEW au, LineGood(line, au), NEW x \in DOMAIN Mensagens(line), NEW y \in DOMAIN Mensagens(line),
             Mensagens(line)[x] = Mensagens(line)[y]
      PROVE  x = y
  <2>1. Apart(q)
    BY <1>5, <1>6
  <2>2. DOMAIN Mensagens(line) = 1 .. Len(FlattenSeq(q))
    BY <1>2, <1>3
  <2> QED BY <1>2, <1>3, <1>6, <2>1, <2>2
<1> QED BY <1>4, <1>6

(* The set of a sequence of messages, by its places.                        *)
LEMMA SetOf ==
    ASSUME NEW c \in Seq(Nat)
    PROVE  ToSet(c) = {c[i] : i \in 1 .. Len(c)} /\ \A x \in ToSet(c) : x \in Nat
BY DEF ToSet

(* A part of a good line is good.                                           *)
LEMMA Picked ==
    ASSUME NEW line \in Seq(QueuedItem), NEW au, LineGood(line, au), NEW sub \in Seq(QueuedItem),
           NEW g \in [1 .. Len(sub) -> 1 .. Len(line)], \A i, j \in 1 .. Len(sub) : i < j => g[i] < g[j],
           \A i \in 1 .. Len(sub) : sub[i] = line[g[i]]
    PROVE  LineGood(sub, au)
<1>1. Len(sub) \in Nat /\ Len(line) \in Nat
  OBVIOUS
<1>2. \A i \in 1 .. Len(sub) : ItemGood(sub[i], au)
  BY DEF LineGood
<1>3. ASSUME NEW i \in 2 .. Len(sub), NEW a \in ToSet(sub[i].conteudo)
      PROVE  au[a] = sub[i].dono
  <2>1. i \in 1 .. Len(sub) /\ 1 \in 1 .. Len(sub) /\ 1 < i
    BY <1>1
  <2>2. g[1] < g[i] /\ g[1] \in 1 .. Len(line) /\ g[i] \in 1 .. Len(line)
    BY <2>1
  <2>3. g[i] \in 2 .. Len(line)
    BY <1>1, <2>2
  <2> QED BY <1>3, <2>1, <2>3 DEF LineGood
<1>4. ASSUME NEW i \in 1 .. Len(sub), NEW j \in 1 .. Len(sub), i < j,
             NEW a \in ToSet(sub[i].conteudo), NEW b \in ToSet(sub[j].conteudo), au[a] = au[b]
      PROVE  a < b
  <2>1. g[i] < g[j] /\ g[i] \in 1 .. Len(line) /\ g[j] \in 1 .. Len(line)
    BY <1>4
  <2>2. a \in ToSet(line[g[i]].conteudo) /\ b \in ToSet(line[g[j]].conteudo)
    BY <1>4
  <2>3. \A k, l \in 1 .. Len(line) : k < l =>
           \A x \in ToSet(line[k].conteudo), y \in ToSet(line[l].conteudo) : au[x] = au[y] => x < y
    BY DEF LineGood
  <2> QED BY <1>4, <2>1, <2>2, <2>3
<1> QED BY <1>2, <1>3, <1>4 DEF LineGood

(* A good line stays good when another message arrives.                     *)
LEMMA LineLater ==
    ASSUME NEW line, NEW au \in Seq(Principals), LineGood(line, au), NEW dono \in Principals
    PROVE  LineGood(line, Append(au, dono))
<1> DEFINE later == Append(au, dono)
<1>1. /\ Len(au) \in Nat /\ Len(later) = Len(au) + 1 /\ line \in Seq(QueuedItem)
      /\ \A a \in 1 .. Len(au) : a \in 1 .. Len(later) /\ later[a] = au[a]
  BY DEF LineGood
<1> HIDE DEF later
<1>2. \A i \in 1 .. Len(line) : ToSet(line[i].conteudo) \subseteq 1 .. Len(au)
  BY DEF LineGood, ItemGood
<1>3. \A i \in 1 .. Len(line) : ItemGood(line[i], later)
  <2> SUFFICES ASSUME NEW i \in 1 .. Len(line)
               PROVE  ItemGood(line[i], later)
    OBVIOUS
  <2>1. ItemGood(line[i], au)
    BY DEF LineGood
  <2>2. \A a \in ToSet(line[i].conteudo) : a \in 1 .. Len(later) /\ later[a] = au[a]
    BY <1>1, <1>2
  <2> QED BY <2>1, <2>2 DEF ItemGood
<1>4. \A i \in 2 .. Len(line) : i \in 1 .. Len(line)
  BY <1>1
<1>5. \A i \in 2 .. Len(line) : \A a \in ToSet(line[i].conteudo) : later[a] = line[i].dono
  BY <1>1, <1>2, <1>4 DEF LineGood
<1>6. ASSUME NEW i \in 1 .. Len(line), NEW j \in 1 .. Len(line), i < j,
             NEW a \in ToSet(line[i].conteudo), NEW b \in ToSet(line[j].conteudo), later[a] = later[b]
      PROVE  a < b
  <2>1. au[a] = au[b]
    BY <1>1, <1>2, <1>6
  <2> QED BY <1>6, <2>1 DEF LineGood
<1> QED BY <1>1, <1>3, <1>5, <1>6 DEF LineGood, later

(* A good line stays good when a younger item goes to its end.              *)
LEMMA LineGrows ==
    ASSUME NEW line, NEW au, LineGood(line, au), NEW item \in QueuedItem, ItemGood(item, au),
           \A a \in ToSet(item.conteudo) : au[a] = item.dono,
           \A a \in ToSet(item.conteudo), b \in Carry(line) : b < a
    PROVE  /\ LineGood(Append(line, item), au)
           /\ \A x : x \in Carry(Append(line, item)) <=> x \in Carry(line) \/ x \in ToSet(item.conteudo)
<1> DEFINE n == Append(line, item)
           m == Len(line)
<1>1. /\ m \in Nat /\ n \in Seq(QueuedItem) /\ Len(n) = m + 1 /\ n[m + 1] = item
      /\ \A i \in 1 .. m : n[i] = line[i]
  BY DEF LineGood
<1>2. /\ \A x : x \in Carry(line) <=> \E i \in 1 .. m : x \in ToSet(line[i].conteudo)
      /\ \A x : x \in Carry(n) <=> \E i \in 1 .. m + 1 : x \in ToSet(n[i].conteudo)
  BY <1>1, ItemContents DEF LineGood
<1>3. /\ \A i \in 1 .. m : ItemGood(line[i], au)
      /\ \A i \in 2 .. m : \A a \in ToSet(line[i].conteudo) : au[a] = line[i].dono
  BY DEF LineGood
<1> HIDE DEF n
<1>4. \A i : i \in 1 .. m + 1 <=> i \in 1 .. m \/ i = m + 1
  BY <1>1
<1>5. \A i \in 1 .. m + 1 : ItemGood(n[i], au)
  BY <1>1, <1>3, <1>4
<1>6. \A i \in 2 .. m + 1 : \A a \in ToSet(n[i].conteudo) : au[a] = n[i].dono
  <2>1. \A i \in 2 .. m + 1 : i = m + 1 \/ (i \in 2 .. m /\ i \in 1 .. m)
    BY <1>1
  <2> QED BY <1>1, <1>3, <2>1
<1>7. ASSUME NEW i \in 1 .. m + 1, NEW j \in 1 .. m + 1, i < j,
             NEW a \in ToSet(n[i].conteudo), NEW b \in ToSet(n[j].conteudo), au[a] = au[b]
      PROVE  a < b
  <2>1. i \in 1 .. m /\ n[i] = line[i]
    BY <1>1, <1>7
  <2>2. CASE j = m + 1
    BY <1>1, <1>2, <1>7, <2>1, <2>2
  <2>3. CASE j \in 1 .. m
    BY <1>1, <1>7, <2>1, <2>3 DEF LineGood
  <2> QED BY <1>4, <2>2, <2>3
<1>8. \A x : x \in Carry(n) <=> x \in Carry(line) \/ x \in ToSet(item.conteudo)
  BY <1>1, <1>2, <1>4
<1> QED BY <1>1, <1>5, <1>6, <1>7, <1>8 DEF LineGood, n

(* Nothing of the same sender waits behind the item, and it may be joined. *)
LastOfSender(line, k) ==
    /\ k \in 1 .. Len(line) /\ ~line[k].sintetica /\ line[k].dono # NoDono
    /\ \A j \in k + 1 .. Len(line) : line[j].sintetica \/ line[j].dono # line[k].dono

(* The line n is `line` with an item joined to the one at k. *)
JoinedAt(n, line, k, item) ==
    /\ n \in Seq(QueuedItem) /\ Len(n) = Len(line) /\ n[k] = Joined(line[k], item)
    /\ \A i \in 1 .. Len(line) : i # k => n[i] = line[i]

(* One message more.                                                        *)
LEMMA Longer ==
    ASSUME NEW old \in Seq(Nat), NEW m \in Nat
    PROVE  LET c == old \o <<m>>
           IN  /\ c \in Seq(Nat) /\ Len(c) = Len(old) + 1 /\ Len(old) \in Nat /\ c[Len(old) + 1] = m
               /\ \A i \in 1 .. Len(old) : c[i] = old[i] /\ old[i] \in Nat
OBVIOUS

(* The item carries this message and no other. *)
Bears(item, m) == item.conteudo = <<m>>

(* A message joined to the last item of its sender. *)
LEMMA LineJoins ==
    ASSUME NEW line, NEW au, LineGood(line, au), NEW k \in 1 .. Len(line), NEW item \in QueuedItem,
           NEW m \in 1 .. Len(au), Bears(item, m), \A b \in Carry(line) : b < m,
           LastOfSender(line, k), au[m] = line[k].dono, NEW n, JoinedAt(n, line, k, item)
    PROVE  /\ LineGood(n, au)
           /\ \A x : x \in Carry(n) <=> x \in Carry(line) \/ x = m
<1> DEFINE c == line[k].conteudo \o <<m>>
           old == line[k].conteudo
<1>1. line \in Seq(QueuedItem) /\ Len(line) \in Nat /\ line[k] \in QueuedItem /\ old \in Seq(Nat) /\ m \in Nat /\ Len(au) \in Nat
  <2>1. line \in Seq(QueuedItem)
    BY DEF LineGood
  <2>2. m \in Nat /\ Len(au) \in Nat
    <3>1. item.conteudo \in Seq(Nat)
      BY DEF QueuedItem
    <3> QED BY <3>1
  <2> QED BY <2>1, <2>2, ItemContents
<1>0. /\ ~line[k].sintetica /\ line[k].dono # NoDono
      /\ \A j \in k + 1 .. Len(line) : line[j].sintetica \/ line[j].dono # line[k].dono
      /\ item.conteudo = <<m>>
  BY DEF LastOfSender, Bears
<1>2. ItemGood(line[k], au)
  BY DEF LineGood
<1>3. /\ c \in Seq(Nat) /\ Len(c) = Len(old) + 1 /\ Len(old) \in Nat /\ c[Len(old) + 1] = m
      /\ \A i \in 1 .. Len(old) : c[i] = old[i] /\ old[i] \in Nat
  BY <1>1, Longer
<1> DEFINE new == Joined(line[k], item)
<1>4. new \in QueuedItem /\ new.conteudo = c /\ new.dono = line[k].dono /\ ~new.sintetica
  <2>1. item.id \in Nat /\ line[k].agrupadas \in SUBSET Nat
    BY <1>1 DEF QueuedItem
  <2>2. new = [line[k] EXCEPT !.conteudo = c, !.agrupadas = @ \cup ({item.id} \ {NoId})]
    BY <1>0 DEF Joined
  <2> HIDE DEF c, new
  <2>3. (line[k].agrupadas \cup ({item.id} \ {NoId})) \in SUBSET Nat
    BY <2>1
  <2> QED BY <1>0, <1>1, <1>3, <2>2, <2>3 DEF QueuedItem
<1>5. /\ n \in Seq(QueuedItem) /\ Len(n) = Len(line) /\ n[k] = new
      /\ \A i \in 1 .. Len(line) : i # k => n[i] = line[i]
  BY DEF JoinedAt
<1> HIDE DEF new
<1>6. \A x : x \in ToSet(c) <=> x \in ToSet(old) \/ x = m
  <2>1. ToSet(c) = {c[i] : i \in 1 .. Len(old) + 1} /\ ToSet(old) = {old[i] : i \in 1 .. Len(old)}
    BY <1>1, <1>3, SetOf
  <2>2. \A i : i \in 1 .. Len(old) + 1 <=> i \in 1 .. Len(old) \/ i = Len(old) + 1
    BY <1>3
  <2> DEFINE l == Len(old)
  <2>3. l \in Nat /\ c[l + 1] = m /\ (\A i \in 1 .. l : c[i] = old[i]) /\ \A i : i \in 1 .. l + 1 <=> i \in 1 .. l \/ i = l + 1
    BY <1>3, <2>2
  <2>4. ToSet(c) = {c[i] : i \in 1 .. l + 1} /\ ToSet(old) = {old[i] : i \in 1 .. l}
    BY <2>1
  <2> HIDE DEF c, old, l
  <2>5. \A x \in ToSet(c) : x \in ToSet(old) \/ x = m
    BY <2>3, <2>4
  <2>6. \A x \in ToSet(old) : x \in ToSet(c)
    BY <2>3, <2>4
  <2>7. m \in ToSet(c)
    BY <2>3, <2>4
  <2> QED BY <2>5, <2>6, <2>7
<1>7. \A x : x \in ToSet(old) => x \in Carry(line) /\ x \in Nat /\ x < m
  BY <1>1, ItemContents, SetOf
<1>8. ItemGood(new, au)
  <2>1. Rising(c)
    <3> SUFFICES ASSUME NEW x \in 1 .. Len(old) + 1, NEW y \in 1 .. Len(old) + 1, x < y PROVE c[x] < c[y]
      BY <1>3 DEF Rising
    <3>1. x \in 1 .. Len(old) /\ (y \in 1 .. Len(old) \/ y = Len(old) + 1)
      <4> DEFINE l == Len(old)
      <4>1. l \in Nat /\ x \in 1 .. l + 1 /\ y \in 1 .. l + 1 /\ x < y
        BY <1>3
      <4> HIDE DEF l
      <4>2. x \in 1 .. l /\ (y \in 1 .. l \/ y = l + 1)
        BY <4>1
      <4> QED BY <4>2 DEF l
    <3>2. CASE y \in 1 .. Len(old)
      <4>1. Rising(old)
        BY <1>2 DEF ItemGood
      <4> QED BY <1>3, <3>1, <3>2, <4>1 DEF Rising
    <3>3. CASE y = Len(old) + 1
      <4>1. old[x] \in ToSet(old)
        BY <1>1, <3>1, SetOf
      <4> QED BY <1>3, <1>7, <3>1, <3>3, <4>1
    <3> QED BY <3>1, <3>2, <3>3
  <2>2. ToSet(c) \subseteq 1 .. Len(au)
    BY <1>2, <1>6 DEF ItemGood
  <2>3. \A a \in ToSet(c) : au[a] = line[k].dono
    BY <1>0, <1>2, <1>6 DEF ItemGood
  <2> HIDE DEF c
  <2> QED BY <1>4, <2>1, <2>2, <2>3 DEF ItemGood
<1>9. \A a \in ToSet(new.conteudo) : au[a] = new.dono
  BY <1>0, <1>4, <1>8 DEF ItemGood
<1> HIDE DEF c, old
<1>10. \A i \in 1 .. Len(line) : ItemGood(n[i], au)
  BY <1>5, <1>8 DEF LineGood
<1>11. \A i \in 2 .. Len(line) : \A a \in ToSet(n[i].conteudo) : au[a] = n[i].dono
  <2>1. \A i \in 2 .. Len(line) : i \in 1 .. Len(line)
    BY <1>1
  <2> QED BY <1>5, <1>9, <2>1 DEF LineGood
<1>12. ASSUME NEW i \in 1 .. Len(line), NEW j \in 1 .. Len(line), i < j,
              NEW a \in ToSet(n[i].conteudo), NEW b \in ToSet(n[j].conteudo), au[a] = au[b]
       PROVE  a < b
  <2>1. CASE j = k
    <3>1. n[i] = line[i] /\ a \in Carry(line) /\ a < m
      BY <1>1, <1>5, <1>12, <2>1, ItemContents
    <3>2. CASE b = m
      BY <3>1, <3>2
    <3>3. CASE b \in ToSet(line[k].conteudo)
      BY <1>12, <2>1, <3>1, <3>3 DEF LineGood
    <3> QED BY <1>4, <1>5, <1>6, <1>12, <2>1, <3>2, <3>3 DEF old
  <2>2. CASE j # k /\ i = k
    <3>1. n[j] = line[j] /\ j \in k + 1 .. Len(line) /\ j \in 2 .. Len(line)
      BY <1>1, <1>5, <1>12, <2>2
    <3>2. CASE a = m
      <4>1. au[b] = line[j].dono /\ au[b] = line[k].dono
        BY <1>12, <3>1, <3>2 DEF LineGood
      <4>2. line[j].sintetica
        BY <1>0, <3>1, <4>1
      <4>3. line[j].conteudo = <<>>
        BY <4>2 DEF LineGood, ItemGood
      <4>4. ToSet(line[j].conteudo) = {}
        BY <4>3 DEF ToSet
      <4> QED BY <1>12, <3>1, <4>4
    <3>3. CASE a \in ToSet(line[k].conteudo)
      BY <1>12, <2>2, <3>1, <3>3 DEF LineGood
    <3> QED BY <1>4, <1>5, <1>6, <1>12, <2>2, <3>2, <3>3 DEF old
  <2>3. CASE j # k /\ i # k
    BY <1>5, <1>12, <2>3 DEF LineGood
  <2> QED BY <2>1, <2>2, <2>3
<1>13. \A x : x \in Carry(n) <=> x \in Carry(line) \/ x = m
  <2>1. /\ \A x : x \in Carry(line) <=> \E i \in 1 .. Len(line) : x \in ToSet(line[i].conteudo)
        /\ \A x : x \in Carry(n) <=> \E i \in 1 .. Len(line) : x \in ToSet(n[i].conteudo)
    BY <1>1, <1>5, ItemContents
  <2>2. \A i \in 1 .. Len(line) : i # k => n[i].conteudo = line[i].conteudo
    BY <1>5
  <2>3. \A x : x \in ToSet(n[k].conteudo) <=> x \in ToSet(line[k].conteudo) \/ x = m
    BY <1>4, <1>5, <1>6 DEF old
  <2> QED BY <2>1, <2>2, <2>3
<1>14. LineGood(n, au)
  BY <1>5, <1>10, <1>11, <1>12 DEF LineGood
<1> QED BY <1>13, <1>14

(* The first item comes back without its id and its sender. *)
LEMMA LineRetried ==
    ASSUME NEW line, NEW au, LineGood(line, au), NEW n \in Seq(QueuedItem), Len(n) = Len(line), line # <<>>,
           n[1].conteudo = line[1].conteudo, n[1].dono = NoDono, ~n[1].sintetica,
           \A i \in 2 .. Len(line) : n[i] = line[i]
    PROVE  LineGood(n, au) /\ Carry(n) = Carry(line)
<1>1. line \in Seq(QueuedItem) /\ Len(line) \in Nat /\ 1 \in 1 .. Len(line)
      /\ \A i \in 1 .. Len(line) : i = 1 \/ i \in 2 .. Len(line)
  BY DEF LineGood
<1>2. \A i \in 1 .. Len(line) : n[i].conteudo = line[i].conteudo
  BY <1>1
<1>3. \A i \in 1 .. Len(line) : ItemGood(n[i], au)
  <2>1. ItemGood(n[1], au)
    <3>1. ItemGood(line[1], au)
      BY <1>1 DEF LineGood
    <3> QED BY <3>1 DEF ItemGood
  <2>2. \A i \in 2 .. Len(line) : i \in 1 .. Len(line)
    BY <1>1
  <2>3. \A i \in 2 .. Len(line) : ItemGood(n[i], au)
    BY <2>2 DEF LineGood
  <2> QED BY <1>1, <2>1, <2>3
<1>4. Carry(n) = Carry(line)
  BY <1>1, <1>2, ItemContents
<1>5. \A i \in 2 .. Len(line) : \A a \in ToSet(n[i].conteudo) : au[a] = n[i].dono
  BY DEF LineGood
<1>6. \A i, j \in 1 .. Len(line) : i < j =>
          \A a \in ToSet(n[i].conteudo), b \in ToSet(n[j].conteudo) : au[a] = au[b] => a < b
  BY <1>2 DEF LineGood
<1> QED BY <1>3, <1>4, <1>5, <1>6 DEF LineGood

(* A message starts before another does. *)
Before(ini, a, b) == \E i \in 1 .. Len(ini) : ini[i] = a /\ \A j \in 1 .. i : ini[j] # b

(* The messages of a sender started in the order he sent them, but for      *)
(* those that will not start.                                               *)
InOrder(ini, au, gone) ==
    \A a, b \in 1 .. Len(au) :
        a < b /\ au[a] = au[b] /\ b \in ToSet(ini) /\ a \notin gone => Before(ini, a, b)

(* Starting a rising content that leaves no older message of a sender       *)
(* behind keeps the order.                                                  *)
LEMMA OrderGrows ==
    ASSUME NEW ini \in Seq(Nat), NEW c \in Seq(Nat), NEW au, NEW gone, InOrder(ini, au, gone), Rising(c), Len(au) \in Nat,
           \A a, b \in 1 .. Len(au) :
               a < b /\ au[a] = au[b] /\ b \in ToSet(c) /\ a \notin gone => a \in ToSet(c) \/ a \in ToSet(ini)
    PROVE  InOrder(ini \o c, au, gone)
<1> DEFINE n == ini \o c
           m == Len(ini)
<1>1. /\ m \in Nat /\ Len(c) \in Nat /\ n \in Seq(Nat) /\ Len(n) = m + Len(c)
      /\ \A i \in 1 .. m : n[i] = ini[i]
      /\ \A i \in 1 .. m + Len(c) : ~(i <= m) => n[i] = c[i - m]
  OBVIOUS
<1>2. ToSet(ini) = {ini[i] : i \in 1 .. m} /\ ToSet(c) = {c[i] : i \in 1 .. Len(c)} /\ ToSet(n) = ToSet(ini) \cup ToSet(c)
  BY SetOf, Joins
<1> HIDE DEF n, m
<1>3. \A i \in 1 .. m : i \in 1 .. m + Len(c) /\ \A j \in 1 .. i : j \in 1 .. m
  BY <1>1
<1> SUFFICES ASSUME NEW a \in 1 .. Len(au), NEW b \in 1 .. Len(au), a < b, au[a] = au[b], b \in ToSet(n), a \notin gone
             PROVE  Before(n, a, b)
  BY DEF InOrder, n
<1>4. CASE b \in ToSet(ini)
  <2>1. PICK i \in 1 .. m : ini[i] = a /\ \A j \in 1 .. i : ini[j] # b
    BY <1>4 DEF InOrder, Before, m
  <2>2. i \in 1 .. Len(n) /\ n[i] = a /\ \A j \in 1 .. i : n[j] # b
    BY <1>1, <1>3, <2>1
  <2> QED BY <2>2 DEF Before
<1>5. CASE b \notin ToSet(ini) /\ a \in ToSet(ini)
  <2>1. PICK i \in 1 .. m : ini[i] = a
    BY <1>2, <1>5
  <2>2. \A j \in 1 .. m : ini[j] # b
    BY <1>2, <1>5
  <2>3. i \in 1 .. Len(n) /\ n[i] = a /\ \A j \in 1 .. i : n[j] # b
    BY <1>1, <1>3, <2>1, <2>2
  <2> QED BY <2>3 DEF Before
<1>6. CASE b \notin ToSet(ini) /\ a \notin ToSet(ini)
  <2>1. b \in ToSet(c) /\ a \in ToSet(c)
    BY <1>2, <1>6
  <2>2. PICK x \in 1 .. Len(c) : c[x] = a
    BY <1>2, <2>1
  <2>3. m + x \in 1 .. Len(n) /\ n[m + x] = a
    <3>1. m + x \in 1 .. m + Len(c) /\ ~(m + x <= m) /\ (m + x) - m = x
      BY <1>1
    <3> QED BY <1>1, <2>2, <3>1
  <2>4. ASSUME NEW j \in 1 .. m + x, n[j] = b
        PROVE  FALSE
    <3>1. CASE j <= m
      <4>1. j \in 1 .. m
        BY <1>1, <3>1
      <4> QED BY <1>1, <1>2, <1>6, <2>4, <4>1
    <3>2. CASE ~(j <= m)
      <4>1. j \in 1 .. m + Len(c) /\ j - m \in 1 .. Len(c) /\ (j - m < x \/ j - m = x)
        <5> DEFINE l == Len(c)
        <5>1. m \in Nat /\ l \in Nat /\ x \in 1 .. l
          BY <1>1
        <5> HIDE DEF l
        <5>2. j \in 1 .. m + l /\ j - m \in 1 .. l /\ (j - m < x \/ j - m = x)
          BY <3>2, <5>1
        <5> QED BY <5>2 DEF l
      <4>2. c[j - m] = b
        BY <1>1, <2>4, <3>2, <4>1
      <4>3. CASE j - m < x
        <5>1. b < a
          BY <2>2, <4>1, <4>2, <4>3 DEF Rising
        <5> QED BY <5>1
      <4>4. CASE j - m = x
        BY <2>2, <4>2, <4>4
      <4> QED BY <4>1, <4>3, <4>4
    <3> QED BY <3>1, <3>2
  <2> QED BY <2>3, <2>4 DEF Before
<1> QED BY <1>4, <1>5, <1>6

(* Primeira is the first place of a message, not just some place.           *)
LEMMA FirstIs ==
    ASSUME NEW m \in Iniciadas, s.iniciadas \in Seq(Nat)
    PROVE  /\ Primeira(m) \in 1 .. Len(s.iniciadas) /\ s.iniciadas[Primeira(m)] = m
           /\ \A j \in 1 .. Len(s.iniciadas) : s.iniciadas[j] = m => Primeira(m) <= j
<1> DEFINE ini == s.iniciadas
           Is(i) == ini[i] = m /\ \A j \in 1 .. (i - 1) : ini[j] # m
           Places == {i \in 1 .. Len(ini) : ini[i] = m}
<1>1. Len(ini) \in Nat /\ DOMAIN ini = 1 .. Len(ini) /\ Places # {} /\ Places \in SUBSET Nat
  BY SetOf DEF Iniciadas
<1>2. PICK i \in Places : \A j \in Places : i <= j
  BY <1>1, NatHasLeast
<1>3. Is(i)
  <2>1. \A j \in 1 .. (i - 1) : j \in 1 .. Len(ini) /\ ~(i <= j)
    BY <1>1
  <2> QED BY <1>2, <2>1
<1>4. Primeira(m) \in 1 .. Len(ini) /\ Is(Primeira(m))
  <2>1. Primeira(m) = CHOOSE k \in 1 .. Len(ini) : Is(k)
    BY <1>1 DEF Primeira
  <2>2. i \in 1 .. Len(ini)
    OBVIOUS
  <2> HIDE DEF Is
  <2> QED BY <1>3, <2>1, <2>2
<1>5. ASSUME NEW j \in 1 .. Len(ini), ini[j] = m
      PROVE  Primeira(m) <= j
  <2>1. j \notin 1 .. (Primeira(m) - 1)
    BY <1>4, <1>5
  <2> QED BY <1>1, <1>4, <2>1
<1> QED BY <1>4, <1>5

(* The order of the invariant is the order of the property.                 *)
LEMMA OrderSays ==
    ASSUME InOrder(s.iniciadas, autor, recusadas \cup retiradas), s.iniciadas \in Seq(Nat), autor \in Seq(Principals)
    PROVE  SenderOrderKept
<1> SUFFICES ASSUME NEW a \in DOMAIN autor, NEW b \in DOMAIN autor, a < b, autor[a] = autor[b],
                    b \in Iniciadas, a \notin recusadas \cup retiradas
             PROVE  a \in Iniciadas /\ Primeira(a) < Primeira(b)
  BY DEF SenderOrderKept, Antes
<1>0. DOMAIN autor = 1 .. Len(autor) /\ Len(s.iniciadas) \in Nat
  OBVIOUS
<1>1. Iniciadas = {s.iniciadas[i] : i \in 1 .. Len(s.iniciadas)}
  <2>1. ToSet(s.iniciadas) = {s.iniciadas[i] : i \in 1 .. Len(s.iniciadas)}
    BY SetOf
  <2> QED BY <2>1 DEF Iniciadas
<1>a. Before(s.iniciadas, a, b)
  <2>1. a \in 1 .. Len(autor) /\ b \in 1 .. Len(autor) /\ b \in ToSet(s.iniciadas)
    BY <1>0 DEF Iniciadas
  <2> QED BY <2>1 DEF InOrder
<1>2. PICK i \in 1 .. Len(s.iniciadas) : s.iniciadas[i] = a /\ \A j \in 1 .. i : s.iniciadas[j] # b
  BY <1>a DEF Before
<1>3. a \in Iniciadas
  BY <1>1, <1>2
<1>4. Primeira(a) <= i /\ Primeira(a) \in 1 .. Len(s.iniciadas)
  BY <1>2, <1>3, FirstIs
<1>5. Primeira(b) \in 1 .. Len(s.iniciadas) /\ Primeira(b) \notin 1 .. i
  BY <1>2, FirstIs
<1> QED BY <1>0, <1>3, <1>4, <1>5

-----------------------------------------------------------------------------
(* The shape of the runner, without the bounds of a run.                    *)
QueueState ==
    [fila : Seq(QueuedItem), turno : Seq(QueuedItem), voo : [conteudo : Seq(Nat), attempt : Nat],
     compacting : BOOLEAN, armado : BOOLEAN, iniciadas : Seq(Nat)]

(* Everything of the runner that carries messages: the turn, then the       *)
(* queue.                                                                   *)
WholeLine(st) == st.turno \o st.fila

(* One turn at a time, and what is in flight is what it carries.            *)
InTurn(st) == Len(st.turno) <= 1 /\ (st.turno # <<>> => st.voo.conteudo = st.turno[1].conteudo)

(* Where the messages are. *)
Placed(st, au, rec, ret) ==
    /\ Carry(st.turno) \subseteq ToSet(st.iniciadas)
    /\ 1 .. Len(au) = rec \cup ret \cup Carry(WholeLine(st)) \cup ToSet(st.iniciadas)
    /\ rec \cap (ret \cup Carry(WholeLine(st)) \cup ToSet(st.iniciadas)) = {}
    /\ ret \cap Carry(WholeLine(st)) = {}

(* The strengthening that is inductive, of any state and any history.       *)
QueueGood(st, au, rec, ret) ==
    /\ st \in QueueState
    /\ InTurn(st)
    /\ LineGood(WholeLine(st), au)
    /\ Placed(st, au, rec, ret)
    /\ InOrder(st.iniciadas, au, rec \cup ret)

(* The inductive invariant of the queue.                                    *)
QueueInv == autor \in Seq(Principals) /\ QueueGood(s, autor, recusadas, retiradas)

(* What two lines carry, one behind the other.                              *)
LEMMA Carries ==
    ASSUME NEW a \in Seq(QueuedItem), NEW b \in Seq(QueuedItem)
    PROVE  a \o b \in Seq(QueuedItem) /\ \A x : x \in Carry(a \o b) <=> x \in Carry(a) \/ x \in Carry(b)
<1> DEFINE c == a \o b
           m == Len(a)
           n == Len(b)
<1>1. /\ c \in Seq(QueuedItem) /\ m \in Nat /\ n \in Nat /\ Len(c) = m + n
      /\ \A i \in 1 .. m : c[i] = a[i]
      /\ \A i \in 1 .. m + n : ~(i <= m) => c[i] = b[i - m]
  OBVIOUS
<1>2. /\ \A x : x \in Carry(a) <=> \E i \in 1 .. m : x \in ToSet(a[i].conteudo)
      /\ \A x : x \in Carry(b) <=> \E i \in 1 .. n : x \in ToSet(b[i].conteudo)
  BY ItemContents
<1> HIDE DEF c, m, n
<1>3. \A x : x \in Carry(c) <=> \E i \in 1 .. m + n : x \in ToSet(c[i].conteudo)
  BY <1>1, ItemContents
<1>4. ASSUME NEW x \in Carry(c)
      PROVE  x \in Carry(a) \/ x \in Carry(b)
  <2>1. PICK i \in 1 .. m + n : x \in ToSet(c[i].conteudo)
    BY <1>3, <1>4
  <2>2. (i <= m => i \in 1 .. m) /\ (~(i <= m) => i - m \in 1 .. n)
    BY <1>1
  <2> QED BY <1>1, <1>2, <2>1, <2>2
<1>5. ASSUME NEW x \in Carry(a)
      PROVE  x \in Carry(c)
  <2>1. PICK i \in 1 .. m : x \in ToSet(a[i].conteudo)
    BY <1>2, <1>5
  <2>2. i \in 1 .. m + n
    BY <1>1
  <2> QED BY <1>1, <1>3, <2>1, <2>2
<1>6. ASSUME NEW x \in Carry(b)
      PROVE  x \in Carry(c)
  <2>1. PICK i \in 1 .. n : x \in ToSet(b[i].conteudo)
    BY <1>2, <1>6
  <2>2. m + i \in 1 .. m + n /\ ~(m + i <= m) /\ (m + i) - m = i
    BY <1>1
  <2> QED BY <1>1, <1>3, <2>1, <2>2
<1> QED BY <1>1, <1>4, <1>5, <1>6 DEF c

(* What a single item carries.                                              *)
LEMMA CarryOne ==
    ASSUME NEW item \in QueuedItem
    PROVE  <<item>> \in Seq(QueuedItem) /\ Carry(<<item>>) = ToSet(item.conteudo)
<1>1. <<item>> \in Seq(QueuedItem) /\ Len(<<item>>) = 1 /\ <<item>>[1] = item /\ \A i : i \in 1 .. 1 <=> i = 1
  OBVIOUS
<1>2. \A x : x \in Carry(<<item>>) <=> \E i \in 1 .. 1 : x \in ToSet(<<item>>[i].conteudo)
  BY <1>1, ItemContents
<1> QED BY <1>1, <1>2

(* No item carries nothing.                                                 *)
LEMMA CarryNone == Carry(<<>>) = {}
BY DEF Carry

(* drainOcQueue loses nothing, mixes nothing and starts in order. *)
LEMMA DrainKeeps ==
    ASSUME NEW st, NEW au \in Seq(Principals), NEW rec, NEW ret, QueueGood(st, au, rec, ret)
    PROVE  QueueGood(Drain(st), au, rec, ret)
<1>1. CASE st.turno # <<>> \/ st.compacting \/ st.fila = <<>>
  BY <1>1 DEF Drain
<1>2. CASE st.turno = <<>> /\ ~st.compacting /\ st.fila # <<>>
  <2> DEFINE item == Head(st.fila)
             voo == [conteudo |-> item.conteudo,
                     attempt  |-> IF st.voo.conteudo = item.conteudo THEN st.voo.attempt ELSE 0]
             n == Drain(st)
             c == item.conteudo
  <2>1. st \in QueueState /\ st.fila \in Seq(QueuedItem) /\ st.voo \in [conteudo : Seq(Nat), attempt : Nat] /\ st.iniciadas \in Seq(Nat)
    BY DEF QueueGood, QueueState
  <2>2. item \in QueuedItem /\ Tail(st.fila) \in Seq(QueuedItem) /\ <<item>> \o Tail(st.fila) = st.fila /\ <<item>> \in Seq(QueuedItem)
        /\ <<item>>[1] = item /\ Len(<<item>>) = 1 /\ 1 \in 1 .. Len(st.fila) /\ item = st.fila[1]
    BY <1>2, <2>1
  <2>3. c \in Seq(Nat)
    BY <2>2 DEF QueuedItem
  <2>4. voo \in [conteudo : Seq(Nat), attempt : Nat] /\ voo.conteudo = c
    BY <2>1, <2>3
  <2>5. n = [st EXCEPT !.fila = Tail(@), !.turno = <<item>>, !.voo = voo, !.iniciadas = @ \o c]
    BY <1>2 DEF Drain
  <2> HIDE DEF item, voo, n, c
  <2>6. st.iniciadas \o c \in Seq(Nat) /\ ToSet(st.iniciadas \o c) = ToSet(st.iniciadas) \cup ToSet(c)
    BY <2>1, <2>3, Joins
  <2>7. /\ n \in QueueState /\ n.fila = Tail(st.fila) /\ n.turno = <<item>> /\ n.voo = voo
        /\ n.iniciadas = st.iniciadas \o c
    BY <2>1, <2>2, <2>4, <2>5, <2>6 DEF QueueState
  <2>8. WholeLine(n) = st.fila /\ WholeLine(st) = st.fila
    BY <1>2, <2>1, <2>2, <2>7 DEF WholeLine
  <2>9. Carry(n.turno) = ToSet(c) /\ ToSet(c) \subseteq Carry(st.fila)
    BY <2>1, <2>2, <2>7, CarryOne, ItemContents DEF c
  <2>10. InTurn(n)
    BY <2>2, <2>4, <2>7 DEF InTurn, c
  <2>11. Placed(n, au, rec, ret)
    BY <2>6, <2>7, <2>8, <2>9 DEF QueueGood, Placed
  <2>12. InOrder(n.iniciadas, au, rec \cup ret)
    <3>1. LineGood(st.fila, au) /\ Rising(c) /\ ItemGood(item, au)
      BY <2>2, <2>8 DEF QueueGood, LineGood, ItemGood, c
    <3>2. ASSUME NEW a \in 1 .. Len(au), NEW b \in 1 .. Len(au),
                 a < b, au[a] = au[b], b \in ToSet(c), a \notin rec \cup ret
          PROVE  a \in ToSet(c) \/ a \in ToSet(st.iniciadas)
      <4>1. a \in Carry(st.fila) \/ a \in ToSet(st.iniciadas)
        BY <2>8, <3>2 DEF QueueGood, Placed
      <4>2. ASSUME a \in Carry(st.fila), a \notin ToSet(c)
            PROVE  FALSE
        <5>1. PICK i \in 1 .. Len(st.fila) : a \in ToSet(st.fila[i].conteudo)
          BY <2>1, <4>2, ItemContents
        <5>2. i # 1 /\ 1 < i
          <6>1. i # 1
            BY <2>2, <4>2, <5>1 DEF c
          <6>2. i \in Nat /\ 1 <= i
            BY <2>1
          <6> QED BY <6>1, <6>2
        <5>3. b < a
          BY <2>2, <3>1, <3>2, <5>1, <5>2 DEF LineGood, c
        <5> QED BY <3>2, <5>3
      <4> QED BY <4>1, <4>2
    <3>3. InOrder(st.iniciadas, au, rec \cup ret) /\ Len(au) \in Nat
      BY DEF QueueGood
    <3> QED BY <2>1, <2>3, <2>7, <3>1, <3>2, <3>3, OrderGrows
  <2>13. LineGood(WholeLine(n), au)
    BY <2>8 DEF QueueGood
  <2> QED BY <2>7, <2>10, <2>11, <2>12, <2>13 DEF QueueGood, n
<1> QED BY <1>1, <1>2

(* The empty queue is a queue.                                              *)
LEMMA NoItems == <<>> \in Seq(QueuedItem)
OBVIOUS

(* No message is in two items of a good line.                               *)
LEMMA Alone ==
    ASSUME NEW line, NEW au, LineGood(line, au), NEW i \in 1 .. Len(line), NEW j \in 1 .. Len(line), i # j,
           NEW x, x \in ToSet(line[i].conteudo), x \in ToSet(line[j].conteudo)
    PROVE  FALSE
<1>1. line \in Seq(QueuedItem) /\ (i < j \/ j < i)
  BY DEF LineGood
<1>2. x \in Nat
  BY <1>1, ItemContents, SetOf
<1>3. x < x
  BY <1>1 DEF LineGood
<1> QED BY <1>2, <1>3

(* What is not of the queue may change. *)
LEMMA SameQueue ==
    ASSUME NEW st, NEW au, NEW rec, NEW ret, QueueGood(st, au, rec, ret), NEW n \in QueueState,
           n.fila = st.fila, n.turno = st.turno, n.voo = st.voo, n.iniciadas = st.iniciadas
    PROVE  QueueGood(n, au, rec, ret)
<1>1. WholeLine(n) = WholeLine(st)
  BY DEF WholeLine
<1> QED BY <1>1 DEF QueueGood, InTurn, Placed

(* A line of at most one item is that item.                                 *)
LEMMA OneItem ==
    ASSUME NEW a \in Seq(QueuedItem), Len(a) <= 1, a # <<>>
    PROVE  a = <<a[1]>> /\ a[1] \in QueuedItem
OBVIOUS

(* The turn is one item, and that item is in flight.                        *)
LEMMA TurnIs ==
    ASSUME NEW st \in QueueState, InTurn(st), st.turno # <<>>
    PROVE  /\ st.turno[1] \in QueuedItem /\ st.turno = <<st.turno[1]>> /\ st.voo.conteudo = st.turno[1].conteudo
           /\ WholeLine(st) = <<st.turno[1]>> \o st.fila
<1>1. st.turno \in Seq(QueuedItem)
  BY DEF QueueState
<1>2. Len(st.turno) <= 1
  BY DEF InTurn
<1>3. st.turno = <<st.turno[1]>> /\ st.turno[1] \in QueuedItem
  BY <1>1, <1>2, OneItem
<1> QED BY <1>3 DEF InTurn, WholeLine

(* What the turn carries and what the queue carries.                        *)
LEMMA LineCarries ==
    ASSUME NEW st \in QueueState
    PROVE  WholeLine(st) \in Seq(QueuedItem) /\ \A x : x \in Carry(WholeLine(st)) <=> x \in Carry(st.turno) \/ x \in Carry(st.fila)
BY Carries DEF QueueState, WholeLine

(* The places of a line behind another.                                     *)
LEMMA Behind ==
    ASSUME NEW a \in Seq(QueuedItem), NEW b \in Seq(QueuedItem)
    PROVE  /\ Len(a) \in Nat /\ Len(b) \in Nat /\ a \o b \in Seq(QueuedItem) /\ Len(a \o b) = Len(a) + Len(b)
           /\ \A i \in 1 .. Len(a) : (a \o b)[i] = a[i]
           /\ \A i \in 1 .. Len(b) : (a \o b)[Len(a) + i] = b[i]
<1>1. Len(a) \in Nat /\ Len(b) \in Nat /\ a \o b \in Seq(QueuedItem) /\ Len(a \o b) = Len(a) + Len(b)
      /\ \A i \in 1 .. Len(a) : (a \o b)[i] = a[i]
  OBVIOUS
<1>2. ASSUME NEW i \in 1 .. Len(b)
      PROVE  (a \o b)[Len(a) + i] = b[i]
  <2>1. Len(a) + i \in 1 .. Len(a) + Len(b) /\ ~(Len(a) + i <= Len(a)) /\ (Len(a) + i) - Len(a) = i
    BY <1>1
  <2> QED BY <2>1
<1> QED BY <1>1, <1>2

(* What comes first and what comes behind are in order, and share nothing. *)
LEMMA Halves ==
    ASSUME NEW a \in Seq(QueuedItem), NEW b \in Seq(QueuedItem), NEW au, LineGood(a \o b, au)
    PROVE  LineGood(a, au) /\ LineGood(b, au) /\ Carry(a) \cap Carry(b) = {}
<1> DEFINE line == a \o b
           m == Len(a)
           l == Len(b)
           f == [i \in 1 .. m |-> i]
           g == [i \in 1 .. l |-> m + i]
<1>1. /\ m \in Nat /\ l \in Nat /\ line \in Seq(QueuedItem) /\ Len(line) = m + l
      /\ (\A i \in 1 .. m : line[i] = a[i]) /\ \A i \in 1 .. l : line[m + i] = b[i]
  BY Behind
<1>0. LineGood(line, au) /\ m = Len(a) /\ l = Len(b)
  OBVIOUS
<1> HIDE DEF line, m, l
<1>2. (\A i \in 1 .. m : i \in 1 .. m + l) /\ \A i \in 1 .. l : m + i \in 1 .. m + l
  BY <1>1
<1>3. LineGood(a, au)
  <2>1. f \in [1 .. m -> 1 .. Len(line)] /\ \A i \in 1 .. m : f[i] = i
    BY <1>1, <1>2
  <2> HIDE DEF f
  <2>2. f \in [1 .. Len(a) -> 1 .. Len(line)] /\ (\A i, j \in 1 .. Len(a) : i < j => f[i] < f[j])
        /\ \A i \in 1 .. Len(a) : a[i] = line[f[i]]
    BY <1>0, <1>1, <2>1
  <2> QED BY <1>0, <1>1, <2>2, Picked
<1>4. LineGood(b, au)
  <2>1. g \in [1 .. l -> 1 .. Len(line)] /\ \A i \in 1 .. l : g[i] = m + i
    BY <1>1, <1>2
  <2> HIDE DEF g
  <2>2. \A i, j \in 1 .. l : i < j => g[i] < g[j]
    BY <1>1, <2>1
  <2>3. g \in [1 .. Len(b) -> 1 .. Len(line)] /\ (\A i, j \in 1 .. Len(b) : i < j => g[i] < g[j])
        /\ \A i \in 1 .. Len(b) : b[i] = line[g[i]]
    BY <1>0, <1>1, <2>1, <2>2
  <2> QED BY <1>0, <1>1, <2>3, Picked
<1>5. ASSUME NEW x \in Carry(a), x \in Carry(b)
      PROVE  FALSE
  <2>1. PICK i \in 1 .. m : x \in ToSet(a[i].conteudo)
    BY ItemContents DEF m
  <2>2. PICK j \in 1 .. l : x \in ToSet(b[j].conteudo)
    BY <1>5, ItemContents DEF l
  <2>3. i # m + j /\ i \in 1 .. Len(line) /\ m + j \in 1 .. Len(line)
    BY <1>1, <1>2
  <2>4. x \in ToSet(line[i].conteudo) /\ x \in ToSet(line[m + j].conteudo)
    BY <1>1, <2>1, <2>2
  <2> QED BY <2>3, <2>4, Alone DEF line
<1> QED BY <1>3, <1>4, <1>5

(* The turn leaves, the queue stays. *)
LEMMA TurnOver ==
    ASSUME NEW st, NEW au, NEW rec, NEW ret, QueueGood(st, au, rec, ret), NEW n \in QueueState,
           n.fila = st.fila, n.turno = <<>>, n.iniciadas = st.iniciadas
    PROVE  QueueGood(n, au, rec, ret)
<1>1. st \in QueueState /\ st.fila \in Seq(QueuedItem) /\ st.turno \in Seq(QueuedItem)
  BY DEF QueueGood, QueueState
<1>2. WholeLine(n) = st.fila
  BY <1>1 DEF WholeLine
<1>3. WholeLine(st) \in Seq(QueuedItem) /\ \A x : x \in Carry(WholeLine(st)) <=> x \in Carry(st.turno) \/ x \in Carry(st.fila)
  BY <1>1, LineCarries
<1>4. LineGood(st.fila, au)
  BY <1>1, Halves DEF QueueGood, WholeLine
<1>5. InTurn(n)
  BY DEF InTurn
<1>6. Placed(n, au, rec, ret)
  <2>1. Placed(st, au, rec, ret)
    BY DEF QueueGood
  <2> QED BY <1>2, <1>3, <2>1, CarryNone DEF Placed
<1> QED BY <1>2, <1>4, <1>5, <1>6 DEF QueueGood

(* The end of a turn keeps the invariant.                                   *)
LEMMA TurnEndsKeeps ==
    ASSUME QueueInv, NEW sawResult \in BOOLEAN, TurnEnds(sawResult)
    PROVE  QueueInv'
<1> DEFINE voo == IF sawResult THEN NoVoo ELSE s.voo
           n == [s EXCEPT !.turno = <<>>, !.voo = voo]
<1>1. s \in QueueState /\ QueueGood(s, autor, recusadas, retiradas) /\ autor \in Seq(Principals)
  BY DEF QueueInv, QueueGood
<1>2. s' = Drain(n) /\ UNCHANGED <<autor, recusadas, retiradas>>
  BY DEF TurnEnds
<1>3. voo \in [conteudo : Seq(Nat), attempt : Nat]
  BY <1>1 DEF NoVoo, QueueState
<1> HIDE DEF voo
<1>4. n \in QueueState /\ n.fila = s.fila /\ n.turno = <<>> /\ n.iniciadas = s.iniciadas
  BY <1>1, <1>3, NoItems DEF QueueState
<1> HIDE DEF n
<1>5. QueueGood(Drain(n), autor, recusadas, retiradas)
  BY <1>1, <1>4, TurnOver, DrainKeeps
<1> QED BY <1>1, <1>2, <1>5 DEF QueueInv

(* A retry comes back in front of what waits. *)
LEMMA RetryKeeps ==
    ASSUME NEW st, NEW au, NEW rec, NEW ret, QueueGood(st, au, rec, ret), st.turno # <<>>, NEW n \in QueueState,
           n.fila = PrependRetry(st.fila, st.voo.conteudo), n.turno = <<>>, n.iniciadas = st.iniciadas
    PROVE  QueueGood(n, au, rec, ret)
<1> DEFINE head == st.turno[1]
           again == [conteudo |-> st.voo.conteudo, id |-> NoId, agrupadas |-> {}, dono |-> NoDono, sintetica |-> FALSE]
<1>1. st \in QueueState /\ st.fila \in Seq(QueuedItem) /\ InTurn(st)
  BY DEF QueueGood, QueueState
<1>2. head \in QueuedItem /\ st.turno = <<head>> /\ st.voo.conteudo = head.conteudo /\ WholeLine(st) = <<head>> \o st.fila
  BY <1>1, TurnIs
<1>3. n.fila = <<again>> \o st.fila
  BY DEF PrependRetry
<1>4. again \in QueuedItem /\ again.conteudo = head.conteudo /\ again.dono = NoDono /\ ~again.sintetica
  BY <1>2 DEF QueuedItem, NoId
<1> HIDE DEF again, head
<1>5. WholeLine(n) = <<again>> \o st.fila
  BY <1>1, <1>3, <1>4 DEF WholeLine
<1>6. /\ WholeLine(n) \in Seq(QueuedItem) /\ Len(WholeLine(n)) = Len(WholeLine(st)) /\ WholeLine(n)[1] = again /\ WholeLine(st)[1] = head
      /\ WholeLine(st) # <<>> /\ \A i \in 2 .. Len(WholeLine(st)) : WholeLine(n)[i] = WholeLine(st)[i]
  BY <1>1, <1>2, <1>4, <1>5
<1>7. LineGood(WholeLine(n), au) /\ Carry(WholeLine(n)) = Carry(WholeLine(st))
  BY <1>4, <1>6, LineRetried DEF QueueGood
<1>8. Placed(n, au, rec, ret)
  <2>1. Placed(st, au, rec, ret)
    BY DEF QueueGood
  <2> QED BY <1>7, <2>1, CarryNone DEF Placed
<1>9. InTurn(n)
  BY DEF InTurn
<1> QED BY <1>7, <1>8, <1>9 DEF QueueGood

(* A hard recover, whether it tries again or gives up, keeps the invariant. *)
LEMMA HardRecoverKeeps ==
    ASSUME QueueInv, HardRecover
    PROVE  QueueInv'
<1> DEFINE again == [s EXCEPT !.turno = <<>>, !.voo.attempt = @ + 1, !.fila = PrependRetry(@, s.voo.conteudo)]
           given == [s EXCEPT !.turno = <<>>, !.voo = NoVoo]
           de == IF s.voo.attempt < MaxAttempts THEN again ELSE given
           d == Drain(de)
           armado == d.armado \/ d.fila = <<>>
<1>1. /\ s \in QueueState /\ QueueGood(s, autor, recusadas, retiradas) /\ autor \in Seq(Principals) /\ s.turno # <<>>
      /\ s.fila \in Seq(QueuedItem) /\ s.voo \in [conteudo : Seq(Nat), attempt : Nat]
  BY DEF QueueInv, QueueGood, HardRecover, QueueState
<1>2. s' = [d EXCEPT !.armado = armado] /\ UNCHANGED <<autor, recusadas, retiradas>>
  BY DEF HardRecover
<1>3. given \in QueueState /\ given.fila = s.fila /\ given.turno = <<>> /\ given.iniciadas = s.iniciadas
  <2>1. NoVoo \in [conteudo : Seq(Nat), attempt : Nat]
    BY DEF NoVoo
  <2> QED BY <1>1, <2>1, NoItems DEF QueueState
<1>4. again \in QueueState /\ again.fila = PrependRetry(s.fila, s.voo.conteudo) /\ again.turno = <<>>
      /\ again.iniciadas = s.iniciadas
  <2> DEFINE fila == PrependRetry(s.fila, s.voo.conteudo)
             voo == [s.voo EXCEPT !.attempt = @ + 1]
  <2>1. fila \in Seq(QueuedItem)
    <3>1. [conteudo |-> s.voo.conteudo, id |-> NoId, agrupadas |-> {}, dono |-> NoDono, sintetica |-> FALSE] \in QueuedItem
      BY <1>1 DEF QueuedItem, NoId
    <3> QED BY <1>1, <3>1 DEF PrependRetry
  <2>2. voo \in [conteudo : Seq(Nat), attempt : Nat]
    BY <1>1
  <2>3. again = [s EXCEPT !.turno = <<>>, !.voo = voo, !.fila = fila]
    BY <1>1 DEF QueueState
  <2> HIDE DEF fila, voo, again
  <2>4. again \in QueueState /\ again.fila = fila /\ again.turno = <<>> /\ again.iniciadas = s.iniciadas
    BY <1>1, <2>1, <2>2, <2>3, NoItems DEF QueueState
  <2> QED BY <2>4 DEF fila
<1> HIDE DEF given, again
<1>5. QueueGood(de, autor, recusadas, retiradas)
  BY <1>1, <1>3, <1>4, TurnOver, RetryKeeps
<1> HIDE DEF de
<1>6. QueueGood(d, autor, recusadas, retiradas) /\ d \in QueueState
  BY <1>1, <1>5, DrainKeeps DEF QueueGood
<1> HIDE DEF d
<1>7. s' \in QueueState /\ s'.fila = d.fila /\ s'.turno = d.turno /\ s'.voo = d.voo /\ s'.iniciadas = d.iniciadas
  <2>1. armado \in BOOLEAN
    BY <1>6 DEF QueueState
  <2> HIDE DEF armado
  <2> QED BY <1>2, <1>6, <2>1 DEF QueueState
<1>8. QueueGood(s', autor, recusadas, retiradas)
  BY <1>6, <1>7, SameQueue
<1> QED BY <1>1, <1>2, <1>8 DEF QueueInv

(* The nudge of a hard recover keeps the invariant: it carries no message.  *)
LEMMA NudgeFiresKeeps ==
    ASSUME QueueInv, NudgeFires
    PROVE  QueueInv'
<1> DEFINE fila == DeliverHangRecoverNudge(s.fila, MaxQueue)
           n == [s EXCEPT !.armado = FALSE, !.fila = fila]
<1>1. /\ s \in QueueState /\ QueueGood(s, autor, recusadas, retiradas) /\ autor \in Seq(Principals)
      /\ s.fila \in Seq(QueuedItem) /\ s.turno \in Seq(QueuedItem)
  BY DEF QueueInv, QueueGood, QueueState
<1>2. s' = Drain(n) /\ UNCHANGED <<autor, recusadas, retiradas>>
  BY DEF NudgeFires
<1>3. Nudge \in QueuedItem /\ Nudge.conteudo = <<>> /\ ToSet(Nudge.conteudo) = {} /\ Nudge.dono = NoDono
  <2>1. <<>> \in Seq(Nat)
    OBVIOUS
  <2> QED BY <2>1 DEF Nudge, QueuedItem, NoId, ToSet
<1>4. fila = s.fila \/ (s.fila = <<>> /\ fila = <<Nudge>>)
  BY DEF DeliverHangRecoverNudge
<1>5. fila \in Seq(QueuedItem)
  BY <1>1, <1>3, <1>4, CarryOne
<1> HIDE DEF fila
<1>6. n \in QueueState /\ n.fila = fila /\ n.turno = s.turno /\ n.voo = s.voo /\ n.iniciadas = s.iniciadas
  BY <1>1, <1>5 DEF QueueState
<1> HIDE DEF n
<1>7. QueueGood(n, autor, recusadas, retiradas)
  <2>1. CASE fila = s.fila
    BY <1>1, <1>6, <2>1, SameQueue
  <2>2. CASE s.fila = <<>> /\ fila = <<Nudge>>
    <3>1. WholeLine(s) = s.turno /\ WholeLine(n) = Append(s.turno, Nudge)
      BY <1>1, <1>3, <1>6, <2>2 DEF WholeLine
    <3>2. ItemGood(Nudge, autor)
      BY <1>3 DEF ItemGood, Rising
    <3>3. LineGood(s.turno, autor)
      BY <1>1, <3>1 DEF QueueGood
    <3>4. LineGood(Append(s.turno, Nudge), autor)
          /\ \A x : x \in Carry(Append(s.turno, Nudge)) <=> x \in Carry(s.turno) \/ x \in ToSet(Nudge.conteudo)
      BY <1>3, <3>2, <3>3, LineGrows
    <3>5. LineGood(WholeLine(n), autor) /\ Carry(WholeLine(n)) = Carry(WholeLine(s))
      <4>1. \A x : x \in Carry(Append(s.turno, Nudge)) <=> x \in Carry(s.turno)
        BY <1>3, <3>4
      <4>2. Carry(Append(s.turno, Nudge)) = Carry(s.turno)
        BY <4>1
      <4> QED BY <3>1, <3>4, <4>2
    <3> QED BY <1>1, <1>6, <3>5 DEF QueueGood, InTurn, Placed
  <2> QED BY <1>4, <2>1, <2>2
<1>8. QueueGood(Drain(n), autor, recusadas, retiradas)
  BY <1>1, <1>7, DrainKeeps
<1> QED BY <1>1, <1>2, <1>8 DEF QueueInv

(* A compact, which only holds the queue, keeps the invariant.              *)
LEMMA CompactKeeps ==
    ASSUME QueueInv, CompactBegins \/ CompactEnds
    PROVE  QueueInv'
<1>1. s \in QueueState /\ QueueGood(s, autor, recusadas, retiradas) /\ autor \in Seq(Principals)
  BY DEF QueueInv, QueueGood
<1>2. ASSUME NEW c \in BOOLEAN
      PROVE  QueueGood([s EXCEPT !.compacting = c], autor, recusadas, retiradas)
  <2> DEFINE n == [s EXCEPT !.compacting = c]
  <2>1. n \in QueueState /\ n.fila = s.fila /\ n.turno = s.turno /\ n.voo = s.voo /\ n.iniciadas = s.iniciadas
    BY <1>1 DEF QueueState
  <2> HIDE DEF n
  <2>2. QueueGood(n, autor, recusadas, retiradas)
    BY <1>1, <2>1, SameQueue
  <2> QED BY <2>2 DEF n
<1>3. CASE CompactBegins
  BY <1>1, <1>2, <1>3 DEF CompactBegins, QueueInv
<1>4. CASE CompactEnds
  BY <1>1, <1>2, <1>4, DrainKeeps DEF CompactEnds, QueueInv
<1> QED BY <1>3, <1>4

(* What is taken out of the queue is handed over, the rest stays as it is. *)
LEMMA TakenOut ==
    ASSUME NEW st, NEW au, NEW rec, NEW ret, QueueGood(st, au, rec, ret), NEW n \in QueueState,
           n.turno = st.turno, n.voo = st.voo, n.iniciadas = st.iniciadas,
           LineGood(WholeLine(n), au), NEW out, out \cap Carry(WholeLine(n)) = {},
           \A x : x \in Carry(WholeLine(st)) <=> x \in Carry(WholeLine(n)) \/ x \in out
    PROVE  QueueGood(n, au, rec, ret \cup out)
<1>1. Placed(st, au, rec, ret) /\ InTurn(st) /\ InOrder(st.iniciadas, au, rec \cup ret)
  BY DEF QueueGood
<1>2. Placed(n, au, rec, ret \cup out)
  BY <1>1 DEF Placed
<1>3. InTurn(n)
  BY <1>1 DEF InTurn
<1>4. InOrder(n.iniciadas, au, rec \cup (ret \cup out))
  BY <1>1 DEF InOrder
<1> QED BY <1>2, <1>3, <1>4 DEF QueueGood

(* Items of the daemon itself carry no message, so none stays behind. *)
LEMMA AllTaken ==
    ASSUME NEW b \in Seq(QueuedItem), NEW au, LineGood(b, au)
    PROVE  \A x : x \in UNION {ToSet(m.conteudo) : m \in TakeAllForDrain(b)} <=> x \in Carry(b)
<1>1. \A i \in 1 .. Len(b) : b[i].sintetica => ToSet(b[i].conteudo) = {}
  BY DEF LineGood, ItemGood, ToSet
<1>2. ToSet(b) = {b[i] : i \in 1 .. Len(b)}
  BY DEF ToSet
<1>3. \A x : x \in Carry(b) <=> \E i \in 1 .. Len(b) : x \in ToSet(b[i].conteudo)
  BY ItemContents
<1>4. \A x : x \in UNION {ToSet(m.conteudo) : m \in TakeAllForDrain(b)}
              <=> \E i \in 1 .. Len(b) : ~b[i].sintetica /\ x \in ToSet(b[i].conteudo)
  BY <1>2 DEF TakeAllForDrain
<1> QED BY <1>1, <1>3, <1>4

(* takeQueuedForDrain keeps the invariant: what leaves the queue is what is *)
(* handed over.                                                             *)
LEMMA TakeQueuedKeeps ==
    ASSUME QueueInv, TakeQueuedForDrain
    PROVE  QueueInv'
<1> DEFINE out == UNION {ToSet(m.conteudo) : m \in TakeAllForDrain(s.fila)}
           n == [s EXCEPT !.fila = <<>>]
<1>1. /\ s \in QueueState /\ QueueGood(s, autor, recusadas, retiradas) /\ autor \in Seq(Principals)
      /\ s.fila \in Seq(QueuedItem) /\ s.turno \in Seq(QueuedItem) /\ WholeLine(s) \in Seq(QueuedItem)
  BY LineCarries DEF QueueInv, QueueGood, QueueState
<1>2. s' = n /\ autor' = autor /\ recusadas' = recusadas /\ retiradas' = retiradas \cup out
  BY DEF TakeQueuedForDrain
<1>3. n \in QueueState /\ n.fila = <<>> /\ n.turno = s.turno /\ n.voo = s.voo /\ n.iniciadas = s.iniciadas
  BY <1>1, NoItems DEF QueueState
<1> HIDE DEF n
<1>4. WholeLine(n) = s.turno
  BY <1>1, <1>3 DEF WholeLine
<1>5. LineGood(s.turno, autor) /\ LineGood(s.fila, autor) /\ Carry(s.turno) \cap Carry(s.fila) = {}
  BY <1>1, Halves DEF QueueGood, WholeLine
<1>6. \A x : x \in out <=> x \in Carry(s.fila)
  BY <1>1, <1>5, AllTaken
<1>7. LineGood(WholeLine(n), autor)
  BY <1>4, <1>5
<1>8. out \cap Carry(WholeLine(n)) = {}
  BY <1>4, <1>5, <1>6
<1>9. \A x : x \in Carry(WholeLine(s)) <=> x \in Carry(WholeLine(n)) \/ x \in out
  BY <1>1, <1>4, <1>6, LineCarries
<1> HIDE DEF out
<1>10. QueueGood(n, autor, recusadas, retiradas \cup out)
  BY <1>1, <1>3, <1>7, <1>8, <1>9, TakenOut
<1> QED BY <1>1, <1>2, <1>10 DEF QueueInv

(* What RemoveAt leaves.                                                    *)
LEMMA RemovedAt ==
    ASSUME NEW b \in Seq(QueuedItem), NEW k \in 1 .. Len(b)
    PROVE  /\ RemoveAt(b, k) \in Seq(QueuedItem) /\ Len(RemoveAt(b, k)) = Len(b) - 1
           /\ \A i \in 1 .. Len(b) - 1 : RemoveAt(b, k)[i] = IF i < k THEN b[i] ELSE b[i + 1]
<1> DEFINE x == SubSeq(b, 1, k - 1)
           y == SubSeq(b, k + 1, Len(b))
           c == x \o y
<1>1. Len(b) \in Nat /\ k \in Nat /\ 1 <= k /\ k <= Len(b)
  OBVIOUS
<1>2. /\ x \in Seq(QueuedItem) /\ Len(x) = k - 1 /\ \A i \in 1 .. k - 1 : x[i] = b[i]
      /\ y \in Seq(QueuedItem) /\ Len(y) = Len(b) - k /\ \A i \in 1 .. Len(b) - k : y[i] = b[k + i]
  BY <1>1
<1> HIDE DEF x, y
<1>3. /\ c \in Seq(QueuedItem) /\ Len(c) = (k - 1) + (Len(b) - k)
      /\ (\A i \in 1 .. k - 1 : c[i] = x[i]) /\ \A i \in 1 .. Len(b) - k : c[(k - 1) + i] = y[i]
  <2>1. /\ c \in Seq(QueuedItem) /\ Len(c) = Len(x) + Len(y)
        /\ (\A i \in 1 .. Len(x) : c[i] = x[i]) /\ \A i \in 1 .. Len(y) : c[Len(x) + i] = y[i]
    BY <1>2, Behind
  <2> HIDE DEF c
  <2> QED BY <1>2, <2>1
<1> HIDE DEF c
<1>4. ASSUME NEW i \in 1 .. Len(b) - 1
      PROVE  c[i] = IF i < k THEN b[i] ELSE b[i + 1]
  <2>1. CASE i < k
    <3>1. i \in 1 .. k - 1
      BY <1>1, <2>1
    <3> QED BY <1>2, <1>3, <2>1, <3>1
  <2>2. CASE ~(i < k)
    <3>1. i - k + 1 \in 1 .. Len(b) - k /\ (k - 1) + (i - k + 1) = i /\ k + (i - k + 1) = i + 1
      BY <1>1, <2>2
    <3>2. c[i] = y[i - k + 1] /\ y[i - k + 1] = b[i + 1]
      BY <1>2, <1>3, <3>1
    <3> QED BY <2>2, <3>2
  <2> QED BY <2>1, <2>2
<1>5. RemoveAt(b, k) = c
  BY DEF RemoveAt, c, x, y
<1> QED BY <1>1, <1>3, <1>4, <1>5

(* Behind the turn, taking one item out leaves a good line that no longer   *)
(* carries it.                                                              *)
LEMMA OneLess ==
    ASSUME NEW a \in Seq(QueuedItem), NEW b \in Seq(QueuedItem), NEW k \in 1 .. Len(b), NEW au, LineGood(a \o b, au)
    PROVE  LET c == RemoveAt(b, k)
           IN  /\ LineGood(a \o c, au) /\ ToSet(b[k].conteudo) \cap Carry(a \o c) = {}
               /\ \A x : x \in Carry(a \o b) <=> x \in Carry(a \o c) \/ x \in ToSet(b[k].conteudo)
<1> DEFINE c == RemoveAt(b, k)
           line == a \o b
           less == a \o c
           m == Len(a)
           l == Len(b)
           g == [i \in 1 .. Len(less) |-> IF i < m + k THEN i ELSE i + 1]
<1>1. c \in Seq(QueuedItem) /\ Len(c) = l - 1 /\ \A i \in 1 .. l - 1 : c[i] = IF i < k THEN b[i] ELSE b[i + 1]
  BY RemovedAt
<1> HIDE DEF c
<1>2. /\ line \in Seq(QueuedItem) /\ Len(line) = m + l /\ m \in Nat /\ l \in Nat
      /\ (\A i \in 1 .. m : line[i] = a[i]) /\ \A i \in 1 .. l : line[m + i] = b[i]
  BY Behind
<1>3. /\ less \in Seq(QueuedItem) /\ Len(less) = m + (l - 1)
      /\ (\A i \in 1 .. m : less[i] = a[i]) /\ \A i \in 1 .. l - 1 : less[m + i] = c[i]
  <2>1. /\ less \in Seq(QueuedItem) /\ Len(less) = m + Len(c)
        /\ (\A i \in 1 .. m : less[i] = a[i]) /\ \A i \in 1 .. Len(c) : less[m + i] = c[i]
    BY <1>1, Behind
  <2> HIDE DEF less, m, l
  <2> QED BY <1>1, <2>1
<1>4. LineGood(line, au) /\ k \in 1 .. l
  OBVIOUS
<1> HIDE DEF line, less, m, l
<1>5. g \in [1 .. Len(less) -> 1 .. Len(line)] /\ \A i, j \in 1 .. Len(less) : i < j => g[i] < g[j]
  BY <1>2, <1>3, <1>4
<1>6. ASSUME NEW i \in 1 .. Len(less)
      PROVE  less[i] = line[g[i]]
  <2>1. CASE i \in 1 .. m
    <3>1. g[i] = i
      BY <1>2, <1>4, <2>1
    <3> QED BY <1>2, <1>3, <2>1, <3>1
  <2>2. CASE ~(i \in 1 .. m)
    <3> DEFINE j == i - m
    <3>1. j \in 1 .. l - 1 /\ i = m + j /\ (i < m + k <=> j < k) /\ j \in 1 .. l /\ j + 1 \in 1 .. l /\ i + 1 = m + (j + 1)
      BY <1>2, <1>3, <2>2
    <3> HIDE DEF j
    <3>2. less[i] = c[j]
      BY <1>3, <3>1
    <3>3. CASE j < k
      <4>1. g[i] = i /\ c[j] = b[j]
        BY <1>1, <3>1, <3>3
      <4> QED BY <1>2, <3>1, <3>2, <4>1
    <3>4. CASE ~(j < k)
      <4>1. g[i] = i + 1 /\ c[j] = b[j + 1]
        BY <1>1, <3>1, <3>4
      <4> QED BY <1>2, <3>1, <3>2, <4>1
    <3> QED BY <3>3, <3>4
  <2> QED BY <2>1, <2>2
<1>7. \A i \in 1 .. Len(line) : i = m + k \/ \E j \in 1 .. Len(less) : g[j] = i
  <2> SUFFICES ASSUME NEW i \in 1 .. Len(line), i # m + k
               PROVE  \E j \in 1 .. Len(less) : g[j] = i
    OBVIOUS
  <2>1. CASE i < m + k
    <3>1. i \in 1 .. Len(less) /\ g[i] = i
      BY <1>2, <1>3, <1>4, <2>1
    <3> QED BY <3>1
  <2>2. CASE ~(i < m + k)
    <3>1. i - 1 \in 1 .. Len(less) /\ ~(i - 1 < m + k) /\ (i - 1) + 1 = i
      BY <1>2, <1>3, <1>4, <2>2
    <3>2. g[i - 1] = i
      BY <3>1
    <3> QED BY <3>1, <3>2
  <2> QED BY <2>1, <2>2
<1>8. \A i \in 1 .. Len(less) : g[i] # m + k
  BY <1>2, <1>3, <1>4
<1> HIDE DEF g
<1>9. LineGood(less, au)
  BY <1>2, <1>3, <1>4, <1>5, <1>6, Picked
<1>10. m + k \in 1 .. Len(line) /\ line[m + k] = b[k]
  BY <1>2, <1>4
<1>11. ASSUME NEW x, x \in ToSet(b[k].conteudo), x \in Carry(less)
       PROVE  FALSE
  <2>1. PICK i \in 1 .. Len(less) : x \in ToSet(less[i].conteudo)
    BY <1>3, <1>11, ItemContents
  <2>2. g[i] \in 1 .. Len(line) /\ g[i] # m + k /\ line[g[i]] = less[i]
    BY <1>5, <1>6, <1>8
  <2>3. x \in ToSet(line[g[i]].conteudo) /\ x \in ToSet(line[m + k].conteudo)
    BY <1>10, <1>11, <2>1, <2>2
  <2> QED BY <1>4, <1>10, <2>2, <2>3, Alone
<1>12. \A x : x \in Carry(line) <=> x \in Carry(less) \/ x \in ToSet(b[k].conteudo)
  <2>1. /\ \A x : x \in Carry(line) <=> \E i \in 1 .. Len(line) : x \in ToSet(line[i].conteudo)
        /\ \A x : x \in Carry(less) <=> \E i \in 1 .. Len(less) : x \in ToSet(less[i].conteudo)
    BY <1>2, <1>3, ItemContents
  <2>2. ASSUME NEW x \in Carry(line)
        PROVE  x \in Carry(less) \/ x \in ToSet(b[k].conteudo)
    <3>1. PICK i \in 1 .. Len(line) : x \in ToSet(line[i].conteudo)
      BY <2>1, <2>2
    <3>2. CASE i = m + k
      BY <1>10, <3>1, <3>2
    <3>3. CASE i # m + k
      <4>1. PICK j \in 1 .. Len(less) : g[j] = i
        BY <1>7, <3>3
      <4>2. x \in ToSet(less[j].conteudo)
        BY <1>6, <3>1, <4>1
      <4> QED BY <2>1, <4>2
    <3> QED BY <3>2, <3>3
  <2>3. ASSUME NEW x \in Carry(less)
        PROVE  x \in Carry(line)
    BY <1>5, <1>6, <2>1
  <2>4. ASSUME NEW x \in ToSet(b[k].conteudo)
        PROVE  x \in Carry(line)
    BY <1>10, <2>1
  <2> QED BY <2>2, <2>3, <2>4
<1> QED BY <1>9, <1>11, <1>12 DEF c, line, less

(* removeQueued keeps the invariant: the item leaves with all that was      *)
(* joined to it.                                                            *)
LEMMA RemoveQueuedKeeps ==
    ASSUME QueueInv, NEW id, RemoveQueued(id)
    PROVE  QueueInv'
<1> DEFINE k == SelectInSeq(s.fila, LAMBDA m : HasDelivery(m, id))
           I == {i \in 1 .. Len(s.fila) : HasDelivery(s.fila[i], id)}
           n == [s EXCEPT !.fila = RemoveAt(s.fila, k)]
           out == ToSet(Mensagens(<<s.fila[k]>>))
<1>1. /\ s \in QueueState /\ QueueGood(s, autor, recusadas, retiradas) /\ autor \in Seq(Principals)
      /\ s.fila \in Seq(QueuedItem) /\ s.turno \in Seq(QueuedItem) /\ WholeLine(s) \in Seq(QueuedItem)
  BY LineCarries DEF QueueInv, QueueGood, QueueState
<1>2. k = IF I # {} THEN Min(I) ELSE 0
  BY DEF SelectInSeq
<1>3. k = 0 \/ k \in 1 .. Len(s.fila)
  <2>1. I \in SUBSET Nat
    BY <1>1
  <2> HIDE DEF I, k
  <2>2. I # {} => Min(I) \in I
    <3> SUFFICES ASSUME I # {} PROVE Min(I) \in I
      OBVIOUS
    <3>1. \E i \in I : \A j \in I : i <= j
      BY <2>1, NatHasLeast
    <3> QED BY <3>1 DEF Min
  <2>3. I \subseteq 1 .. Len(s.fila)
    BY DEF I
  <2> QED BY <1>2, <2>2, <2>3
<1>4. RemoveByDeliveryId(s.fila, id) = [fila |-> IF k = 0 THEN s.fila ELSE RemoveAt(s.fila, k),
                                        removida |-> IF k = 0 THEN <<>> ELSE <<s.fila[k]>>]
  BY DEF RemoveByDeliveryId
<1> HIDE DEF k, I
<1>5. k # 0
  BY <1>4 DEF RemoveQueued
<1>6. s' = n /\ autor' = autor /\ recusadas' = recusadas /\ retiradas' = retiradas \cup out
  BY <1>4, <1>5 DEF RemoveQueued
<1>7. k \in 1 .. Len(s.fila) /\ s.fila[k] \in QueuedItem
  BY <1>1, <1>3, <1>5
<1>8. out = ToSet(s.fila[k].conteudo)
  BY <1>7, CarryOne, MensagensAre
<1>9. RemoveAt(s.fila, k) \in Seq(QueuedItem)
  BY <1>1, <1>7, RemovedAt
<1>10. n \in QueueState /\ n.fila = RemoveAt(s.fila, k) /\ n.turno = s.turno /\ n.voo = s.voo /\ n.iniciadas = s.iniciadas
  BY <1>1, <1>9 DEF QueueState
<1> HIDE DEF n, out
<1>11. /\ LineGood(WholeLine(n), autor) /\ out \cap Carry(WholeLine(n)) = {}
       /\ \A x : x \in Carry(WholeLine(s)) <=> x \in Carry(WholeLine(n)) \/ x \in out
  <2>1. LineGood(s.turno \o s.fila, autor)
    BY <1>1 DEF QueueGood, WholeLine
  <2>2. WholeLine(n) = s.turno \o RemoveAt(s.fila, k) /\ WholeLine(s) = s.turno \o s.fila
    BY <1>10 DEF WholeLine
  <2> QED BY <1>1, <1>7, <1>8, <2>1, <2>2, OneLess
<1>12. QueueGood(n, autor, recusadas, retiradas \cup out)
  BY <1>1, <1>10, <1>11, TakenOut
<1> QED BY <1>1, <1>6, <1>12 DEF QueueInv

(* A message arrives: nobody holds it yet, and it is the youngest. *)
LEMMA NewArrives ==
    ASSUME NEW st, NEW au \in Seq(Principals), NEW rec, NEW ret, QueueGood(st, au, rec, ret), NEW dono \in Principals
    PROVE  LET m == Len(au) + 1
               later == Append(au, dono)
           IN  /\ m \in Nat /\ later \in Seq(Principals) /\ Len(later) = m /\ m \in 1 .. m /\ later[m] = dono
               /\ \A a : a \in 1 .. m <=> a \in 1 .. Len(au) \/ a = m
               /\ m \notin rec \cup ret \cup Carry(WholeLine(st)) \cup ToSet(st.iniciadas)
               /\ \A b \in Carry(WholeLine(st)) : b < m
               /\ LineGood(WholeLine(st), later)
               /\ InOrder(st.iniciadas, later, rec \cup ret)
<1> DEFINE m == Len(au) + 1
           later == Append(au, dono)
<1>1. /\ m \in Nat /\ Len(au) \in Nat /\ later \in Seq(Principals) /\ Len(later) = m /\ m \in 1 .. m /\ later[m] = dono
      /\ \A a \in 1 .. Len(au) : later[a] = au[a]
  OBVIOUS
<1>2. /\ \A a : a \in 1 .. m <=> a \in 1 .. Len(au) \/ a = m
      /\ m \notin 1 .. Len(au) /\ \A a \in 1 .. Len(au) : a < m
  BY <1>1
<1>3. LineGood(WholeLine(st), later)
  BY LineLater DEF QueueGood
<1>4. Placed(st, au, rec, ret) /\ InOrder(st.iniciadas, au, rec \cup ret)
  BY DEF QueueGood
<1> HIDE DEF m, later
<1>5. /\ m \notin rec \cup ret \cup Carry(WholeLine(st)) \cup ToSet(st.iniciadas)
      /\ \A b \in Carry(WholeLine(st)) : b < m
  BY <1>2, <1>4 DEF Placed
<1>6. InOrder(st.iniciadas, later, rec \cup ret)
  <2> SUFFICES ASSUME NEW a \in 1 .. m, NEW b \in 1 .. m, a < b, later[a] = later[b],
                      b \in ToSet(st.iniciadas), a \notin rec \cup ret
               PROVE  Before(st.iniciadas, a, b)
    BY <1>1 DEF InOrder
  <2>1. b \in 1 .. Len(au)
    BY <1>4 DEF Placed
  <2>2. a \in 1 .. Len(au)
    BY <1>1, <2>1
  <2>3. au[a] = au[b]
    BY <1>1, <2>1, <2>2
  <2> QED BY <1>4, <2>1, <2>2, <2>3 DEF InOrder
<1> QED BY <1>1, <1>2, <1>3, <1>5, <1>6 DEF m, later

(* The queue refuses it. *)
LEMMA RefusedKeeps ==
    ASSUME NEW st, NEW au \in Seq(Principals), NEW rec, NEW ret, QueueGood(st, au, rec, ret), NEW dono \in Principals
    PROVE  QueueGood(st, Append(au, dono), rec \cup {Len(au) + 1}, ret)
<1> DEFINE m == Len(au) + 1
           later == Append(au, dono)
<1>1. /\ Len(later) = m /\ LineGood(WholeLine(st), later) /\ InOrder(st.iniciadas, later, rec \cup ret)
      /\ \A a : a \in 1 .. m <=> a \in 1 .. Len(au) \/ a = m
      /\ m \notin rec \cup ret \cup Carry(WholeLine(st)) \cup ToSet(st.iniciadas)
  BY NewArrives
<1> HIDE DEF m, later
<1>2. Placed(st, later, rec \cup {m}, ret)
  <2>1. Placed(st, au, rec, ret)
    BY DEF QueueGood
  <2> QED BY <1>1, <2>1 DEF Placed
<1>3. InOrder(st.iniciadas, later, (rec \cup {m}) \cup ret)
  BY <1>1 DEF InOrder
<1>4. QueueGood(st, later, rec \cup {m}, ret)
  BY <1>1, <1>2, <1>3 DEF QueueGood
<1> QED BY <1>4 DEF m, later

(* It waits, in a place of its own or with an earlier one. *)
LEMMA WaitsKeeps ==
    ASSUME NEW st, NEW au \in Seq(Principals), NEW rec, NEW ret, QueueGood(st, au, rec, ret), NEW dono \in Principals,
           NEW n \in QueueState, n.turno = st.turno, n.voo = st.voo, n.iniciadas = st.iniciadas,
           LineGood(WholeLine(n), Append(au, dono)),
           \A x : x \in Carry(WholeLine(n)) <=> x \in Carry(WholeLine(st)) \/ x = Len(au) + 1
    PROVE  QueueGood(n, Append(au, dono), rec, ret)
<1> DEFINE m == Len(au) + 1
           later == Append(au, dono)
<1>1. /\ Len(later) = m /\ InOrder(st.iniciadas, later, rec \cup ret)
      /\ \A a : a \in 1 .. m <=> a \in 1 .. Len(au) \/ a = m
      /\ m \notin rec \cup ret \cup Carry(WholeLine(st)) \cup ToSet(st.iniciadas)
  BY NewArrives
<1>2. LineGood(WholeLine(n), later) /\ \A x : x \in Carry(WholeLine(n)) <=> x \in Carry(WholeLine(st)) \/ x = m
  OBVIOUS
<1> HIDE DEF m, later
<1>3. Placed(n, later, rec, ret)
  <2>1. Placed(st, au, rec, ret)
    BY DEF QueueGood
  <2> QED BY <1>1, <1>2, <2>1 DEF Placed
<1>4. InTurn(n)
  BY DEF QueueGood, InTurn
<1>5. QueueGood(n, later, rec, ret)
  BY <1>1, <1>2, <1>3, <1>4 DEF QueueGood
<1> QED BY <1>5 DEF m, later

(* A join takes the last item of the sender. *)
LEMMA TargetIs ==
    ASSUME NEW b \in Seq(QueuedItem), NEW item \in QueuedItem, CoalesceTarget(b, item) # 0
    PROVE  LET i == CoalesceTarget(b, item)
           IN  LastOfSender(b, i) /\ b[i].dono = item.dono
<1> DEFINE I == {i \in 1 .. Len(b) : ~b[i].sintetica /\ SamePrincipal(b[i].dono, item.dono)}
           k == CoalesceTarget(b, item)
<1>1. Len(b) \in Nat /\ I \in SUBSET (0 .. Len(b)) /\ \A i \in I : i \in Nat
  OBVIOUS
<1>2. k = IF I # {} THEN Max(I) ELSE 0
  BY DEF CoalesceTarget, SelectLastInSeq
<1> HIDE DEF I, k
<1>3. I # {}
  BY <1>2 DEF k
<1>4. \E i \in I : \A j \in I : i >= j
  BY <1>1, <1>3, NatHasGreatest
<1>5. k \in I /\ \A j \in I : k >= j
  BY <1>2, <1>3, <1>4 DEF Max
<1>6. /\ k \in 1 .. Len(b) /\ ~b[k].sintetica /\ b[k].dono # NoDono /\ b[k].dono = item.dono
  BY <1>5 DEF I, SamePrincipal
<1>7. ASSUME NEW j \in k + 1 .. Len(b), ~b[j].sintetica, b[j].dono = b[k].dono
      PROVE  FALSE
  <2>1. j \in 1 .. Len(b) /\ ~(k >= j)
    BY <1>1, <1>6
  <2>2. j \in I
    BY <1>6, <1>7, <2>1 DEF I, SamePrincipal
  <2> QED BY <1>5, <2>1, <2>2
<1> QED BY <1>6, <1>7 DEF k, LastOfSender

(* Behind the turn, the queue grows at its end. *)
LEMMA AppendBehind ==
    ASSUME NEW a \in Seq(QueuedItem), NEW b \in Seq(QueuedItem), NEW item \in QueuedItem
    PROVE  Append(b, item) \in Seq(QueuedItem) /\ a \o Append(b, item) = Append(a \o b, item)
OBVIOUS

(* An item that is joined keeps its content well formed. *)
LEMMA JoinedIs ==
    ASSUME NEW alvo \in QueuedItem, NEW item \in QueuedItem
    PROVE  Joined(alvo, item) \in QueuedItem
<1>1. alvo.conteudo \in Seq(Nat) /\ item.conteudo \in Seq(Nat) /\ alvo.agrupadas \in SUBSET Nat /\ item.id \in Nat
  BY DEF QueuedItem
<1> DEFINE c == alvo.conteudo \o item.conteudo
           ids == alvo.agrupadas \cup ({item.id} \ {NoId})
<1>2. c \in Seq(Nat) /\ ids \in SUBSET Nat
  BY <1>1
<1>3. Joined(alvo, item) = [alvo EXCEPT !.conteudo = c, !.agrupadas = ids]
  BY DEF Joined
<1> HIDE DEF c, ids
<1> QED BY <1>2, <1>3 DEF QueuedItem

(* One item of a line is exchanged. *)
LEMMA Exchanged ==
    ASSUME NEW b \in Seq(QueuedItem), NEW k \in 1 .. Len(b), NEW new \in QueuedItem
    PROVE  LET c == [b EXCEPT ![k] = new]
           IN  /\ c \in Seq(QueuedItem) /\ Len(c) = Len(b) /\ c[k] = new
               /\ \A i \in 1 .. Len(b) : i # k => c[i] = b[i]
OBVIOUS

(* Behind the turn, the item joined is the same one. *)
LEMMA JoinBehind ==
    ASSUME NEW a \in Seq(QueuedItem), NEW b \in Seq(QueuedItem), NEW c, NEW item, NEW k,
           LastOfSender(b, k), JoinedAt(c, b, k, item)
    PROVE  \E p \in 1 .. Len(a \o b) :
               LastOfSender(a \o b, p) /\ (a \o b)[p].dono = b[k].dono /\ JoinedAt(a \o c, a \o b, p, item)
<1> DEFINE m == Len(a)
           l == Len(b)
           line == a \o b
           new == a \o c
           p == m + k
<1>0. /\ c \in Seq(QueuedItem) /\ Len(c) = Len(b) /\ k \in 1 .. Len(b) /\ c[k] = Joined(b[k], item)
      /\ \A i \in 1 .. Len(b) : i # k => c[i] = b[i]
  BY DEF LastOfSender, JoinedAt
<1>1. /\ m \in Nat /\ l \in Nat /\ line \in Seq(QueuedItem) /\ Len(line) = m + l
      /\ (\A i \in 1 .. m : line[i] = a[i]) /\ \A i \in 1 .. l : line[m + i] = b[i]
  BY Behind
<1>2. /\ new \in Seq(QueuedItem) /\ Len(new) = m + l
      /\ (\A i \in 1 .. m : new[i] = a[i]) /\ \A i \in 1 .. l : new[m + i] = c[i]
  <2>1. /\ new \in Seq(QueuedItem) /\ Len(new) = m + Len(c)
        /\ (\A i \in 1 .. m : new[i] = a[i]) /\ \A i \in 1 .. Len(c) : new[m + i] = c[i]
    BY <1>0, Behind
  <2> HIDE DEF new, m
  <2> QED BY <1>0, <2>1
<1>3. k \in 1 .. l /\ (\A i \in 1 .. l : i # k => c[i] = b[i]) /\ l = Len(b)
  BY <1>0
<1> HIDE DEF line, new, m, l
<1>4. p \in 1 .. Len(line) /\ line[p] = b[k] /\ new[p] = c[k]
  BY <1>1, <1>2, <1>3
<1>5. ASSUME NEW i \in 1 .. Len(line), i # p
      PROVE  new[i] = line[i]
  <2>1. CASE i \in 1 .. m
    BY <1>1, <1>2, <2>1
  <2>2. CASE i \notin 1 .. m
    <3> DEFINE j == i - m
    <3>1. j \in 1 .. l /\ i = m + j /\ j # k
      BY <1>1, <1>3, <1>5, <2>2
    <3> HIDE DEF j
    <3> QED BY <1>1, <1>2, <1>3, <3>1
  <2> QED BY <2>1, <2>2
<1>6. ASSUME NEW i \in p + 1 .. Len(line)
      PROVE  \E j \in k + 1 .. l : line[i] = b[j]
  <2> DEFINE j == i - m
  <2>1. j \in k + 1 .. l /\ j \in 1 .. l /\ i = m + j
    BY <1>1, <1>3
  <2> HIDE DEF j
  <2> QED BY <1>1, <2>1
<1> HIDE DEF p
<1>7. JoinedAt(new, line, p, item)
  BY <1>0, <1>1, <1>2, <1>4, <1>5 DEF JoinedAt
<1>8. LastOfSender(line, p)
  <2>1. \A j \in k + 1 .. l : b[j].sintetica \/ b[j].dono # b[k].dono
    BY <1>3 DEF LastOfSender
  <2>2. \A j \in p + 1 .. Len(line) : line[j].sintetica \/ line[j].dono # line[p].dono
    BY <1>4, <1>6, <2>1
  <2> QED BY <1>4, <2>2 DEF LastOfSender
<1>9. \E q \in 1 .. Len(line) : LastOfSender(line, q) /\ line[q].dono = b[k].dono /\ JoinedAt(new, line, q, item)
  BY <1>4, <1>7, <1>8
<1> QED BY <1>9 DEF line, new

(* The queue after enqueueOrCoalesce has joined the item.                   *)
JoinInto(b, item) == [b EXCEPT ![CoalesceTarget(b, item)] = Joined(@, item)]

(* enqueueOrCoalesce at the ceiling joins without mixing or reordering. *)
LEMMA CoalesceKeeps ==
    ASSUME NEW a \in Seq(QueuedItem), NEW b \in Seq(QueuedItem), NEW au, LineGood(a \o b, au),
           NEW item \in QueuedItem, NEW m \in 1 .. Len(au), Bears(item, m), item.dono = au[m],
           \A x \in Carry(a \o b) : x < m, CoalesceTarget(b, item) # 0
    PROVE  LET c == JoinInto(b, item)
           IN  /\ c \in Seq(QueuedItem) /\ LineGood(a \o c, au)
               /\ \A x : x \in Carry(a \o c) <=> x \in Carry(a \o b) \/ x = m
<1> DEFINE k == CoalesceTarget(b, item)
           new == Joined(b[k], item)
           c == JoinInto(b, item)
           line == a \o b
           joined == a \o c
<1>1. LastOfSender(b, k) /\ b[k].dono = item.dono /\ k \in 1 .. Len(b)
  BY TargetIs DEF LastOfSender
<1>2. c = [b EXCEPT ![k] = new]
  BY DEF JoinInto
<1> HIDE DEF k, c
<1>3. new \in QueuedItem
  <2>1. b[k] \in QueuedItem
    BY <1>1
  <2> QED BY <2>1, JoinedIs
<1> HIDE DEF new
<1>4. /\ c \in Seq(QueuedItem) /\ Len(c) = Len(b) /\ c[k] = new
      /\ \A i \in 1 .. Len(b) : i # k => c[i] = b[i]
  BY <1>1, <1>2, <1>3, Exchanged
<1>5. JoinedAt(c, b, k, item)
  BY <1>4 DEF JoinedAt, new
<1>6. PICK p \in 1 .. Len(line) : LastOfSender(line, p) /\ line[p].dono = b[k].dono /\ JoinedAt(joined, line, p, item)
  BY <1>1, <1>5, JoinBehind
<1>7. LineGood(line, au) /\ (\A x \in Carry(line) : x < m) /\ au[m] = line[p].dono
  BY <1>1, <1>6
<1> HIDE DEF line, joined
<1>8. LineGood(joined, au) /\ \A x : x \in Carry(joined) <=> x \in Carry(line) \/ x = m
  BY <1>6, <1>7, LineJoins
<1> QED BY <1>4, <1>8 DEF line, joined, c

(* pushUserMessage keeps the invariant. *)
LEMMA PushUserMessageKeeps ==
    ASSUME QueueInv, NEW dono \in Principals, NEW comId \in BOOLEAN, NEW propria \in BOOLEAN,
           PushUserMessage(dono, comId, propria)
    PROVE  QueueInv'
<1> DEFINE m == Len(autor) + 1
           later == Append(autor, dono)
           item == Item(m, IF comId THEN m ELSE NoId, dono)
           r == Recebe(s.fila, item, propria)
           k == CoalesceTarget(s.fila, item)
           n == [s EXCEPT !.fila = r.fila]
<1>1. /\ s \in QueueState /\ QueueGood(s, autor, recusadas, retiradas) /\ autor \in Seq(Principals)
      /\ s.fila \in Seq(QueuedItem) /\ s.turno \in Seq(QueuedItem) /\ WholeLine(s) \in Seq(QueuedItem)
  BY LineCarries DEF QueueInv, QueueGood, QueueState
<1>2. /\ m \in Nat /\ later \in Seq(Principals) /\ Len(later) = m /\ m \in 1 .. m /\ later[m] = dono
      /\ \A b \in Carry(WholeLine(s)) : b < m
      /\ LineGood(WholeLine(s), later)
  BY <1>1, NewArrives
<1>3. /\ autor' = later /\ retiradas' = retiradas
      /\ \/ r.outcome = "dropped" /\ recusadas' = recusadas \cup {m} /\ s' = s
         \/ r.outcome # "dropped" /\ s' = Drain(n) /\ recusadas' = recusadas
  BY DEF PushUserMessage
<1>4. QueueGood(s, later, recusadas \cup {m}, retiradas)
  BY <1>1, RefusedKeeps
<1>5. item \in QueuedItem /\ item.conteudo = <<m>> /\ item.dono = dono /\ ToSet(item.conteudo) = {m} /\ ~item.sintetica
  <2> DEFINE id == IF comId THEN m ELSE NoId
  <2>1. id \in Nat
    BY <1>2 DEF NoId
  <2>2. <<m>> \in Seq(Nat) /\ ToSet(<<m>>) = {m}
    BY <1>2 DEF ToSet
  <2> HIDE DEF id, m
  <2>3. Item(m, id, dono) \in QueuedItem /\ Item(m, id, dono).conteudo = <<m>> /\ Item(m, id, dono).dono = dono
        /\ ~Item(m, id, dono).sintetica
    BY <2>1, <2>2 DEF Item, QueuedItem
  <2> QED BY <2>2, <2>3 DEF id
<1>6. \/ r.outcome = "dropped"
      \/ r.outcome # "dropped" /\ r.fila = Append(s.fila, item)
      \/ r.outcome # "dropped" /\ k # 0 /\ r.fila = [s.fila EXCEPT ![k] = Joined(@, item)]
  <2> HIDE DEF item, m
  <2> QED BY DEF Recebe, EnqueueOrCoalesce
<1>8. ASSUME r.fila \in Seq(QueuedItem), LineGood(s.turno \o r.fila, later),
             \A x : x \in Carry(s.turno \o r.fila) <=> x \in Carry(WholeLine(s)) \/ x = m
      PROVE  QueueGood(Drain(n), later, recusadas, retiradas)
  <2> HIDE DEF r, item
  <2>1. n \in QueueState /\ n.fila = r.fila /\ n.turno = s.turno /\ n.voo = s.voo /\ n.iniciadas = s.iniciadas
    BY <1>1, <1>8 DEF QueueState
  <2> HIDE DEF n
  <2>2. WholeLine(n) = s.turno \o r.fila
    BY <2>1 DEF WholeLine
  <2>3. QueueGood(n, later, recusadas, retiradas)
    BY <1>1, <1>8, <2>1, <2>2, WaitsKeeps
  <2> HIDE DEF later
  <2> QED BY <1>2, <2>3, DrainKeeps
<1> HIDE DEF item, r, n, later, m, k
<1>9. CASE r.outcome # "dropped" /\ r.fila = Append(s.fila, item)
  <2>1. r.fila \in Seq(QueuedItem) /\ s.turno \o r.fila = Append(WholeLine(s), item)
    <3>1. Append(s.fila, item) \in Seq(QueuedItem)
          /\ s.turno \o Append(s.fila, item) = Append(s.turno \o s.fila, item)
      BY <1>1, <1>5, AppendBehind
    <3> QED BY <1>9, <3>1 DEF WholeLine
  <2>2. ItemGood(item, later) /\ \A a \in ToSet(item.conteudo) : later[a] = item.dono
    <3>1. Rising(item.conteudo)
      BY <1>5 DEF Rising
    <3> QED BY <1>2, <1>5, <3>1 DEF ItemGood, m
  <2>3. \A a \in ToSet(item.conteudo), b \in Carry(WholeLine(s)) : b < a
    BY <1>2, <1>5
  <2>4. /\ LineGood(Append(WholeLine(s), item), later)
        /\ \A x : x \in Carry(Append(WholeLine(s), item)) <=> x \in Carry(WholeLine(s)) \/ x \in ToSet(item.conteudo)
    BY <1>2, <1>5, <2>2, <2>3, LineGrows
  <2>5. QueueGood(Drain(n), later, recusadas, retiradas)
    BY <1>5, <1>8, <2>1, <2>4
  <2> QED BY <1>2, <1>3, <1>9, <2>5 DEF QueueInv
<1>10. CASE r.outcome # "dropped" /\ k # 0 /\ r.fila = [s.fila EXCEPT ![k] = Joined(@, item)]
  <2>1. LineGood(s.turno \o s.fila, later) /\ \A b \in Carry(s.turno \o s.fila) : b < m
    BY <1>2 DEF WholeLine
  <2>2. m \in 1 .. Len(later) /\ item.dono = later[m] /\ Bears(item, m)
    BY <1>2, <1>5 DEF Bears
  <2>3. CoalesceTarget(s.fila, item) # 0 /\ r.fila = JoinInto(s.fila, item)
    BY <1>10 DEF k, JoinInto
  <2>4. /\ r.fila \in Seq(QueuedItem) /\ LineGood(s.turno \o r.fila, later)
        /\ \A x : x \in Carry(s.turno \o r.fila) <=> x \in Carry(s.turno \o s.fila) \/ x = m
    BY <1>1, <1>5, <2>1, <2>2, <2>3, CoalesceKeeps
  <2>5. QueueGood(Drain(n), later, recusadas, retiradas)
    BY <1>8, <2>4 DEF WholeLine
  <2> QED BY <1>2, <1>3, <1>10, <2>5 DEF QueueInv
<1>11. CASE r.outcome = "dropped"
  BY <1>2, <1>3, <1>4, <1>11 DEF QueueInv
<1> QED BY <1>6, <1>9, <1>10, <1>11

-----------------------------------------------------------------------------
(* An empty queue is a good one. *)
LEMMA QueueStart ==
    ASSUME SessionInit
    PROVE  QueueInv
<1>1. /\ s.fila = <<>> /\ s.turno = <<>> /\ s.iniciadas = <<>> /\ s \in QueueState
      /\ autor = <<>> /\ recusadas = {} /\ retiradas = {}
  <2>1. NoVoo \in [conteudo : Seq(Nat), attempt : Nat] /\ <<>> \in Seq(Nat)
    BY DEF NoVoo
  <2> QED BY <2>1, NoItems DEF SessionInit, QueueState
<1>2. autor \in Seq(Principals) /\ Len(autor) = 0
  BY <1>1
<1>3. WholeLine(s) = <<>> /\ Len(WholeLine(s)) = 0 /\ ToSet(s.iniciadas) = {}
  BY <1>1 DEF WholeLine, ToSet
<1>4. LineGood(WholeLine(s), autor)
  BY <1>3, NoItems DEF LineGood
<1>5. InTurn(s)
  BY <1>1 DEF InTurn
<1>6. Placed(s, autor, recusadas, retiradas)
  BY <1>1, <1>2, <1>3, CarryNone DEF Placed
<1>7. InOrder(s.iniciadas, autor, recusadas \cup retiradas)
  BY <1>3 DEF InOrder
<1> QED BY <1>1, <1>2, <1>4, <1>5, <1>6, <1>7 DEF QueueInv, QueueGood

(* One step of the queue, whatever the step. *)
LEMMA QueueMove ==
    ASSUME QueueInv, [SessionNext]_SessionVars
    PROVE  QueueInv'
<1>1. CASE UNCHANGED SessionVars
  BY <1>1 DEF SessionVars, QueueInv
<1>2. ASSUME NEW dono \in Principals, NEW comId \in BOOLEAN, NEW propria \in BOOLEAN,
             PushUserMessage(dono, comId, propria)
      PROVE  QueueInv'
  BY <1>2, PushUserMessageKeeps
<1>3. ASSUME NEW sawResult \in BOOLEAN, TurnEnds(sawResult)
      PROVE  QueueInv'
  BY <1>3, TurnEndsKeeps
<1>4. ASSUME NEW id \in Msgs, RemoveQueued(id)
      PROVE  QueueInv'
  BY <1>4, RemoveQueuedKeeps
<1>5. CASE HardRecover
  BY <1>5, HardRecoverKeeps
<1>6. CASE NudgeFires
  BY <1>6, NudgeFiresKeeps
<1>7. CASE CompactBegins \/ CompactEnds
  BY <1>7, CompactKeeps
<1>8. CASE TakeQueuedForDrain
  BY <1>8, TakeQueuedKeeps
<1> QED BY <1>1, <1>2, <1>3, <1>4, <1>5, <1>6, <1>7, <1>8 DEF SessionNext

(* What the invariant says of the messages. *)
LEMMA QueueLosesNothing ==
    ASSUME QueueInv
    PROVE  NothingLost
<1>1. /\ s \in QueueState /\ LineGood(WholeLine(s), autor) /\ Placed(s, autor, recusadas, retiradas) /\ autor \in Seq(Principals)
      /\ s.fila \in Seq(QueuedItem) /\ s.turno \in Seq(QueuedItem)
  BY DEF QueueInv, QueueGood, QueueState
<1>2. \A x : x \in Carry(WholeLine(s)) <=> x \in Carry(s.turno) \/ x \in Carry(s.fila)
  BY <1>1, LineCarries
<1>3. LineGood(s.fila, autor)
  BY <1>1, Halves DEF WholeLine
<1>4. /\ ToSet(Mensagens(s.fila)) = Carry(s.fila)
      /\ \A i, j \in DOMAIN Mensagens(s.fila) : i # j => Mensagens(s.fila)[i] # Mensagens(s.fila)[j]
  BY <1>1, <1>3, MensagensAre
<1>5. DOMAIN autor = 1 .. Len(autor)
  BY <1>1
<1>6. DOMAIN autor = recusadas \cup retiradas \cup Carry(s.fila) \cup ToSet(s.iniciadas)
  BY <1>1, <1>2, <1>5 DEF Placed
<1>7. /\ recusadas \cap (retiradas \cup Carry(s.fila) \cup ToSet(s.iniciadas)) = {}
      /\ retiradas \cap Carry(s.fila) = {}
  BY <1>1, <1>2 DEF Placed
<1> QED BY <1>4, <1>6, <1>7 DEF NothingLost, Iniciadas

(* Every item of two good lines is good.                                    *)
LEMMA AllOfBoth ==
    ASSUME NEW a \in Seq(QueuedItem), NEW b \in Seq(QueuedItem), NEW au, LineGood(a, au), LineGood(b, au)
    PROVE  \A item \in ToSet(a \o b) : ItemGood(item, au)
<1> DEFINE m == Len(a)
           l == Len(b)
           line == a \o b
<1>1. /\ m \in Nat /\ l \in Nat /\ line \in Seq(QueuedItem) /\ Len(line) = m + l
      /\ (\A i \in 1 .. m : line[i] = a[i]) /\ \A i \in 1 .. l : line[m + i] = b[i]
  BY Behind
<1>2. (\A i \in 1 .. m : ItemGood(a[i], au)) /\ \A i \in 1 .. l : ItemGood(b[i], au)
  BY DEF LineGood
<1> HIDE DEF m, l, line
<1>3. ASSUME NEW i \in 1 .. m + l
      PROVE  ItemGood(line[i], au)
  <2>1. CASE i \in 1 .. m
    BY <1>1, <1>2, <2>1
  <2>2. CASE i \notin 1 .. m
    <3> DEFINE j == i - m
    <3>1. j \in 1 .. l /\ i = m + j
      BY <1>1, <2>2
    <3> HIDE DEF j
    <3> QED BY <1>1, <1>2, <3>1
  <2> QED BY <2>1, <2>2
<1>4. ToSet(line) = {line[i] : i \in 1 .. m + l}
  <2>1. DOMAIN line = 1 .. m + l
    BY <1>1
  <2> QED BY <2>1 DEF ToSet
<1> QED BY <1>3, <1>4 DEF line

(* What the invariant says of the turns.                                    *)
LEMMA QueueMixesNothing ==
    ASSUME QueueInv
    PROVE  TurnsOfOneSender
<1>1. /\ LineGood(WholeLine(s), autor) /\ s.fila \in Seq(QueuedItem) /\ s.turno \in Seq(QueuedItem)
  BY DEF QueueInv, QueueGood, QueueState
<1>2. LineGood(s.fila, autor) /\ LineGood(s.turno, autor)
  BY <1>1, Halves DEF WholeLine
<1>3. \A item \in ToSet(s.fila \o s.turno) : ItemGood(item, autor)
  BY <1>1, <1>2, AllOfBoth
<1> QED BY <1>3 DEF TurnsOfOneSender, ItemGood

(* Every message that reached pushUserMessage was refused, waits, was       *)
(* handed over or reached a turn, and none is held twice: joining at the   *)
(* ceiling (enqueueOrCoalesce), retries, the live removal, the drain of a  *)
(* restart and the nudge of a hard recover lose and double nothing         *)
(* (runners/message-session.ts, agent-runner.ts).                          *)
THEOREM QueueNothingLost == SessionSpec => []NothingLost
<1>1. SessionInit => QueueInv
  BY QueueStart
<1>2. QueueInv /\ [SessionNext]_SessionVars => QueueInv'
  BY QueueMove
<1>3. QueueInv => NothingLost
  BY QueueLosesNothing
<1> QED BY <1>1, <1>2, <1>3, PTL DEF SessionSpec

(* No turn carries what two senders wrote (sameTurnPrincipal), and what one *)
(* sender wrote starts in the order he sent it, whatever is joined, cut,   *)
(* tried again or removed (runners/message-session.ts, agent-runner.ts).   *)
THEOREM QueueKeepsSendersApart == SessionSpec => [](TurnsOfOneSender /\ SenderOrderKept)
<1>1. SessionInit => QueueInv
  BY QueueStart
<1>2. QueueInv /\ [SessionNext]_SessionVars => QueueInv'
  BY QueueMove
<1>3. QueueInv => TurnsOfOneSender /\ SenderOrderKept
  BY QueueMixesNothing, OrderSays DEF QueueInv, QueueGood, QueueState
<1> QED BY <1>1, <1>2, <1>3, PTL DEF SessionSpec
=============================================================================
