----------------------------- MODULE LinkProofs -----------------------------
(***************************************************************************)
(* The link to the cloud and what it carries: the keys of a project        *)
(* (KeyRing), the frames that wait for the link (Outbox) and the daemons   *)
(* that compete for it (ClientLink), each with its invariant, for any      *)
(* number of keys, frames and starts.                                      *)
(***************************************************************************)
EXTENDS KeyRing, Outbox, ClientLink, NaturalFacts, TLAPS
LOCAL INSTANCE SequencesExt

-----------------------------------------------------------------------------
(* The keys of a project *)

RingEntry == [key : Nat, under : Nat]

RingState ==
    [ativa : Nat, antigas : Seq(Nat), entries : Seq(RingEntry), disk : [wrap : Nat, ring : Seq(RingEntry)],
     current : Nat, had : SUBSET Nat, restarts : Nat]

(* Every entry is sealed with the one after it, the last with `key`. *)
Linked(entries, key) ==
    \A i \in 1 .. Len(entries) :
        entries[i].under = IF i = Len(entries) THEN key ELSE entries[i + 1].key

KeysOf(entries) == {entries[i].key : i \in 1 .. Len(entries)}

(* Memory holds what the file does, or nothing. *)
InMemory(s) ==
    /\ s.ativa = NoKey => s.antigas = <<>> /\ s.entries = <<>>
    /\ s.ativa # NoKey => /\ s.ativa = s.disk.wrap /\ s.entries = s.disk.ring
                          /\ KeysOf(s.entries) \subseteq ToSet(s.antigas)

OnDisk(s) ==
    /\ s.disk.wrap <= s.current /\ s.current > 0
    /\ s.had \subseteq 1 .. s.current
    /\ s.had \subseteq {s.disk.wrap} \cup KeysOf(s.disk.ring)
    /\ s.disk.wrap = NoKey => s.had = {}
    /\ Linked(s.disk.ring, s.disk.wrap)

RingInv == r \in RingState /\ InMemory(r) /\ OnDisk(r)

(* A chain that is linked opens from its last key to its first             *)
(* (importRing).                                                           *)
LEMMA OpenedAll ==
    ASSUME NEW entries \in Seq(RingEntry), NEW key \in Nat, Linked(entries, key)
    PROVE  /\ Opened(entries, key) \in Seq(Nat)
           /\ KeysOf(entries) \subseteq ToSet(Opened(entries, key))
           /\ Opened(entries, key) = <<>> => entries = <<>>
<1> DEFINE n == Len(entries)
           opens(i) == entries[n - i + 1].under = IF i = 1 THEN key ELSE entries[n - i + 2].key
           D == {j \in 0 .. n : \A i \in 1 .. j : opens(i)}
           keys == [i \in 1 .. n |-> entries[n - i + 1].key]
<1>1. n \in Nat /\ \A i \in 1 .. n : entries[i] \in RingEntry
  OBVIOUS
<1>2. \A i \in 1 .. n : opens(i)
  <2> SUFFICES ASSUME NEW i \in 1 .. n PROVE opens(i)
    OBVIOUS
  <2>1. n - i + 1 \in 1 .. n
    BY <1>1
  <2>2. entries[n - i + 1].under = IF n - i + 1 = n THEN key ELSE entries[(n - i + 1) + 1].key
    BY <2>1 DEF Linked
  <2>3. (n - i + 1 = n <=> i = 1) /\ (n - i + 1) + 1 = n - i + 2
    BY <1>1
  <2> QED BY <2>2, <2>3
<1> HIDE DEF opens
<1>3. n \in D /\ \A j \in D : j \in Int /\ n >= j
  BY <1>1, <1>2
<1>4. Max(D) = n
  <2> HIDE DEF D, n
  <2>1. \A x \in D : (\A y \in D : x >= y) => x = n
    BY <1>3, <1>1
  <2> QED BY <1>3, <2>1 DEF Max
<1>5. Opened(entries, key) = keys
  <2>1. Opened(entries, key) = [i \in 1 .. Max(D) |-> entries[n - i + 1].key]
    BY DEF Opened, opens
  <2> HIDE DEF D
  <2> QED BY <1>4, <2>1
<1>6. \A i \in 1 .. n : n - i + 1 \in 1 .. n /\ n - (n - i + 1) + 1 = i
  BY <1>1
<1>7. keys \in [1 .. n -> Nat] /\ \A i \in 1 .. n : keys[n - i + 1] = entries[i].key
  BY <1>1, <1>6 DEF RingEntry
<1>8. DOMAIN keys = 1 .. n
  OBVIOUS
<1> HIDE DEF keys
<1>9. keys \in Seq(Nat)
  BY <1>1, <1>7
<1>10. KeysOf(entries) \subseteq ToSet(keys)
  BY <1>6, <1>7, <1>8, SMTT(30) DEF KeysOf, ToSet
<1>11. keys = <<>> => entries = <<>>
  <2>1. keys = <<>> => n = 0
    BY <1>1, <1>8
  <2> QED BY <2>1
<1> QED BY <1>5, <1>9, <1>10, <1>11

(* What importRing leaves in memory.                                       *)
LEMMA ImportReads ==
    ASSUME NEW s \in RingState, s.ativa # NoKey, NEW entries \in Seq(RingEntry), Linked(entries, s.ativa),
           NEW n, n = Import(s, entries)
    PROVE  /\ n \in RingState
           /\ entries = <<>> => n = s
           /\ entries # <<>> => n.entries = entries /\ KeysOf(entries) \subseteq ToSet(n.antigas)
           /\ <<n.ativa, n.disk, n.current, n.had, n.restarts>>
              = <<s.ativa, s.disk, s.current, s.had, s.restarts>>
<1> DEFINE antigas == Opened(entries, s.ativa)
<1>1. CASE entries = <<>>
  <2>1. n = s
    BY <1>1 DEF Import
  <2> QED BY <1>1, <2>1
<1>2. CASE entries # <<>>
  <2>1. s.ativa \in Nat
    BY DEF RingState
  <2>2. antigas \in Seq(Nat) /\ KeysOf(entries) \subseteq ToSet(antigas) /\ antigas # <<>>
    BY <1>2, <2>1, OpenedAll
  <2>3. n = [s EXCEPT !.antigas = antigas, !.entries = IF antigas = <<>> THEN <<>> ELSE entries]
    BY <1>2 DEF Import
  <2> HIDE DEF antigas
  <2>4. n = [s EXCEPT !.antigas = antigas, !.entries = entries]
    BY <2>2, <2>3
  <2>5. n \in RingState /\ n.antigas = antigas /\ n.entries = entries
    BY <2>2, <2>4 DEF RingState
  <2>6. <<n.ativa, n.disk, n.current, n.had, n.restarts>> = <<s.ativa, s.disk, s.current, s.had, s.restarts>>
    BY <2>4 DEF RingState
  <2> QED BY <1>2, <2>2, <2>5, <2>6
<1> QED BY <1>1, <1>2

(* What a daemon that starts reads back (restore) is every key it had.     *)
LEMMA RestoreReads ==
    ASSUME NEW s \in RingState, InMemory(s), OnDisk(s),
           NEW n, n = Restore(s)
    PROVE  /\ n \in RingState /\ InMemory(n) /\ OnDisk(n)
           /\ n.had = s.had /\ n.had \subseteq {n.ativa} \cup ToSet(n.antigas)
<1> DEFINE t == [s EXCEPT !.ativa = s.disk.wrap]
<1>1. /\ s.ativa \in Nat /\ s.disk \in [wrap : Nat, ring : Seq(RingEntry)]
      /\ s.disk.wrap \in Nat /\ s.disk.ring \in Seq(RingEntry)
  BY DEF RingState
<1>2. CASE s.ativa # NoKey \/ s.disk.wrap = NoKey
  <2>1. n = s
    BY <1>2 DEF Restore
  <2>2. s.had \subseteq {s.ativa} \cup ToSet(s.antigas)
    BY <1>2 DEF InMemory, OnDisk
  <2> QED BY <2>1, <2>2
<1>3. CASE s.ativa = NoKey /\ s.disk.wrap # NoKey
  <2>1. n = Import(t, s.disk.ring)
    BY <1>3 DEF Restore
  <2>2. t \in RingState /\ t.ativa = s.disk.wrap
    BY <1>1 DEF RingState
  <2>3. <<t.antigas, t.entries, t.disk, t.current, t.had>> = <<s.antigas, s.entries, s.disk, s.current, s.had>>
    BY DEF RingState
  <2> HIDE DEF t
  <2>4. t.ativa # NoKey /\ Linked(s.disk.ring, t.ativa)
    BY <1>3, <2>2 DEF OnDisk
  <2>5. /\ n \in RingState
        /\ s.disk.ring = <<>> => n = t
        /\ s.disk.ring # <<>> => n.entries = s.disk.ring /\ KeysOf(s.disk.ring) \subseteq ToSet(n.antigas)
        /\ <<n.ativa, n.disk, n.current, n.had>> = <<t.ativa, t.disk, t.current, t.had>>
    BY <1>1, <2>1, <2>2, <2>4, ImportReads
  <2>6. /\ n.ativa = s.disk.wrap /\ n.ativa # NoKey /\ n.disk = s.disk /\ n.current = s.current /\ n.had = s.had
    BY <1>3, <2>2, <2>3, <2>5
  <2>7. n.entries = s.disk.ring /\ KeysOf(s.disk.ring) \subseteq ToSet(n.antigas)
    <3>1. CASE s.disk.ring = <<>>
      <4>1. s.entries = <<>>
        BY <1>3 DEF InMemory
      <4>2. KeysOf(<<>>) = {}
        BY DEF KeysOf
      <4> QED BY <2>3, <2>5, <3>1, <4>1, <4>2
    <3> QED BY <2>5, <3>1
  <2>8. InMemory(n) /\ OnDisk(n)
    BY <2>6, <2>7 DEF InMemory, OnDisk
  <2>9. n.had \subseteq {n.ativa} \cup ToSet(n.antigas)
    BY <2>6, <2>7 DEF OnDisk
  <2> QED BY <2>5, <2>6, <2>8, <2>9
<1> QED BY <1>2, <1>3

(* One entry more, sealed with the next key, and the chain is linked to    *)
(* that key.                                                               *)
LEMMA EntryAppended ==
    ASSUME NEW old \in Seq(RingEntry), NEW key \in Nat, Linked(old, key),
           NEW e \in RingEntry, e.key = key, NEW new, new = Append(old, e)
    PROVE  /\ new \in Seq(RingEntry)
           /\ KeysOf(new) = KeysOf(old) \cup {key}
           /\ Linked(new, e.under)
<1> DEFINE n == Len(old)
<1>1. n \in Nat /\ new \in Seq(RingEntry) /\ Len(new) = n + 1 /\ new[n + 1] = e
  OBVIOUS
<1>2. \A i \in 1 .. n : new[i] = old[i]
  OBVIOUS
<1>3. \A i \in 1 .. n : old[i].under = IF i = n THEN key ELSE old[i + 1].key
  BY DEF Linked
<1> HIDE DEF n
<1>4. \A i : i \in 1 .. n + 1 <=> i \in 1 .. n \/ i = n + 1
  BY <1>1
<1>5. KeysOf(new) = {new[i].key : i \in 1 .. n + 1} /\ KeysOf(old) = {old[i].key : i \in 1 .. n}
  BY <1>1 DEF KeysOf, n
<1>6. KeysOf(new) = KeysOf(old) \cup {key}
  BY <1>1, <1>2, <1>4, <1>5
<1>7. \A i \in 1 .. n + 1 : new[i].under = IF i = n + 1 THEN e.under ELSE new[i + 1].key
  <2> SUFFICES ASSUME NEW i \in 1 .. n + 1
               PROVE  new[i].under = IF i = n + 1 THEN e.under ELSE new[i + 1].key
    OBVIOUS
  <2>1. CASE i = n + 1
    BY <1>1, <2>1
  <2>2. CASE i = n
    <3>1. i \in 1 .. n /\ i # n + 1 /\ i + 1 = n + 1
      BY <1>1, <2>2
    <3>2. old[i].under = key
      BY <1>3, <2>2, <3>1
    <3> QED BY <1>1, <1>2, <3>1, <3>2
  <2>3. CASE i # n /\ i # n + 1
    <3>1. i \in 1 .. n /\ i + 1 \in 1 .. n
      BY <1>1, <2>3
    <3>2. old[i].under = old[i + 1].key
      BY <1>3, <2>3, <3>1
    <3> QED BY <1>2, <2>3, <3>1, <3>2
  <2> QED BY <2>1, <2>2, <2>3
<1>8. Linked(new, e.under)
  BY <1>1, <1>7 DEF Linked
<1> QED BY <1>1, <1>6, <1>8

(* A key put first.                                                        *)
LEMMA KeyPrepended ==
    ASSUME NEW old \in Seq(Nat), NEW x \in Nat
    PROVE  <<x>> \o old \in Seq(Nat) /\ ToSet(old) \cup {x} \subseteq ToSet(<<x>> \o old)
<1> DEFINE new == <<x>> \o old
<1>1. new \in Seq(Nat) /\ Len(old) \in Nat /\ Len(new) = Len(old) + 1 /\ new[1] = x
  OBVIOUS
<1>2. \A i \in 1 .. Len(old) : new[i + 1] = old[i]
  OBVIOUS
<1>3. DOMAIN old = 1 .. Len(old) /\ DOMAIN new = 1 .. Len(new)
  BY <1>1
<1>4. 1 \in DOMAIN new /\ \A i \in DOMAIN old : i + 1 \in DOMAIN new
  BY <1>1, <1>3
<1> HIDE DEF new
<1>5. x \in ToSet(new)
  BY <1>1, <1>4 DEF ToSet
<1>6. \A i \in DOMAIN old : old[i] \in ToSet(new)
  BY <1>2, <1>3, <1>4 DEF ToSet
<1>7. ToSet(old) \cup {x} \subseteq ToSet(new)
  BY <1>5, <1>6 DEF ToSet
<1> QED BY <1>1, <1>7 DEF new

(* The project after a promotion, with the key that replaces the active.   *)
Chained(s, entries, antigas) ==
    [[s EXCEPT !.entries = entries, !.antigas = antigas] EXCEPT !.ativa = s.current]

(* What rememberProjectKey has in memory before it imports the chain.      *)
Renewed(s) == [Promote(s, s.current) EXCEPT !.ativa = s.current]

(* What the promotion of a key writes in memory.                           *)
LEMMA Promoted ==
    ASSUME NEW s \in RingState, NEW entries \in Seq(RingEntry), NEW antigas \in Seq(Nat),
           NEW n, n = Chained(s, entries, antigas)
    PROVE  /\ n \in RingState /\ n.ativa = s.current /\ n.entries = entries /\ n.antigas = antigas
           /\ <<n.current, n.had, n.disk, n.restarts>> = <<s.current, s.had, s.disk, s.restarts>>
<1> DEFINE p == [s EXCEPT !.entries = entries, !.antigas = antigas]
<1>1. s.current \in Nat /\ n = [p EXCEPT !.ativa = s.current]
  BY DEF RingState, Chained
<1>2. p \in RingState /\ p.entries = entries /\ p.antigas = antigas
  BY DEF RingState
<1>3. <<p.current, p.had, p.disk, p.restarts>> = <<s.current, s.had, s.disk, s.restarts>>
  BY DEF RingState
<1> HIDE DEF p
<1>4. n \in RingState /\ n.ativa = s.current
  BY <1>1, <1>2 DEF RingState
<1>5. <<n.entries, n.antigas, n.current, n.had, n.disk, n.restarts>>
      = <<p.entries, p.antigas, p.current, p.had, p.disk, p.restarts>>
  BY <1>1, <1>2 DEF RingState
<1> QED BY <1>2, <1>3, <1>4, <1>5

(* The key that was active joins the chain, sealed with the new one        *)
(* (rememberProjectKey).                                                   *)
LEMMA PromoteLinks ==
    ASSUME NEW s \in RingState, InMemory(s), OnDisk(s),
           NEW n, n = Renewed(s)
    PROVE  /\ n \in RingState /\ n.ativa = s.current
           /\ Linked(n.entries, s.current) /\ KeysOf(n.entries) \subseteq ToSet(n.antigas)
           /\ s.ativa # NoKey => s.had \subseteq {n.ativa} \cup KeysOf(n.entries)
           /\ s.ativa = NoKey => n.entries = <<>>
           /\ <<n.current, n.had, n.disk, n.restarts>> = <<s.current, s.had, s.disk, s.restarts>>
<1> DEFINE p == Promote(s, s.current)
<1>1. n = [p EXCEPT !.ativa = s.current]
  BY DEF Renewed
<1>2. /\ s.ativa \in Nat /\ s.current \in Nat /\ s.entries \in Seq(RingEntry) /\ s.antigas \in Seq(Nat)
  BY DEF RingState
<1>3. s = [s EXCEPT !.entries = s.entries, !.antigas = s.antigas]
  BY DEF RingState
<1>4. CASE s.ativa = NoKey \/ s.ativa = s.current
  <2>1. p = s
    BY <1>4 DEF Promote
  <2> HIDE DEF p
  <2>0. n = Chained(s, s.entries, s.antigas)
    BY <1>1, <1>3, <2>1 DEF Chained
  <2>2. /\ n \in RingState /\ n.ativa = s.current /\ n.entries = s.entries /\ n.antigas = s.antigas
        /\ <<n.current, n.had, n.disk, n.restarts>> = <<s.current, s.had, s.disk, s.restarts>>
    BY <1>2, <2>0, Promoted
  <2>3. CASE s.ativa = NoKey
    <3>1. s.entries = <<>>
      BY <2>3 DEF InMemory
    <3>2. Linked(<<>>, s.current) /\ KeysOf(<<>>) = {}
      BY DEF Linked, KeysOf
    <3> QED BY <2>2, <2>3, <3>1, <3>2
  <2>4. CASE s.ativa # NoKey
    <3>1. /\ Linked(s.entries, s.current) /\ KeysOf(s.entries) \subseteq ToSet(s.antigas)
          /\ s.had \subseteq {s.current} \cup KeysOf(s.entries)
      BY <1>4, <2>4 DEF InMemory, OnDisk
    <3> QED BY <2>2, <2>4, <3>1
  <2> QED BY <2>3, <2>4
<1>5. CASE s.ativa # NoKey /\ s.ativa # s.current
  <2> DEFINE e == Entry(s.ativa, s.current)
             entries == Append(s.entries, e)
             antigas == <<s.ativa>> \o s.antigas
  <2>1. p = [s EXCEPT !.entries = entries, !.antigas = antigas]
    BY <1>5 DEF Promote
  <2>2. e \in RingEntry /\ e.key = s.ativa /\ e.under = s.current
    BY <1>2 DEF Entry, RingEntry
  <2> HIDE DEF p, e
  <2>3. /\ Linked(s.entries, s.ativa) /\ KeysOf(s.entries) \subseteq ToSet(s.antigas)
        /\ s.had \subseteq {s.ativa} \cup KeysOf(s.entries)
    BY <1>5 DEF InMemory, OnDisk
  <2>4. entries \in Seq(RingEntry) /\ KeysOf(entries) = KeysOf(s.entries) \cup {s.ativa} /\ Linked(entries, s.current)
    BY <1>2, <2>2, <2>3, EntryAppended, ZenonT(60)
  <2>5. antigas \in Seq(Nat) /\ ToSet(s.antigas) \cup {s.ativa} \subseteq ToSet(antigas)
    BY <1>2, KeyPrepended
  <2> HIDE DEF entries, antigas
  <2>6. /\ n \in RingState /\ n.ativa = s.current /\ n.entries = entries /\ n.antigas = antigas
        /\ <<n.current, n.had, n.disk, n.restarts>> = <<s.current, s.had, s.disk, s.restarts>>
    <3>1. n = Chained(s, entries, antigas)
      BY <1>1, <2>1 DEF Chained
    <3> QED BY <2>4, <2>5, <3>1, Promoted
  <2> QED BY <1>5, <2>3, <2>4, <2>5, <2>6
<1> QED BY <1>4, <1>5

(* The server's chain has every key before the current one.                *)
LEMMA ServerChain ==
    ASSUME r \in RingState, r.current > 0
    PROVE  /\ ServerRing \in Seq(RingEntry) /\ Linked(ServerRing, r.current)
           /\ KeysOf(ServerRing) = 1 .. r.current - 1
           /\ ServerRing = <<>> => r.current = 1
<1> DEFINE c == r.current
           n == c - 1
<1>1. c \in Nat /\ n \in Nat /\ c = n + 1
  BY DEF RingState
<1>2. ServerRing = [i \in 1 .. n |-> Entry(i, i + 1)]
  BY DEF ServerRing
<1> HIDE DEF c
<1>3. \A i \in 1 .. n : Entry(i, i + 1) \in RingEntry /\ Entry(i, i + 1).key = i /\ Entry(i, i + 1).under = i + 1
  BY <1>1 DEF Entry, RingEntry
<1> DEFINE e(i) == Entry(i, i + 1)
<1> HIDE DEF n, e
<1>4. ServerRing = [i \in 1 .. n |-> e(i)]
  BY <1>2 DEF e
<1>5. \A i \in 1 .. n : e(i) \in RingEntry /\ e(i).key = i /\ e(i).under = i + 1
  BY <1>3 DEF e
<1>6. ServerRing \in Seq(RingEntry) /\ Len(ServerRing) = n
  BY <1>1, <1>4, <1>5
<1>7. \A i \in 1 .. n : ServerRing[i].key = i /\ ServerRing[i].under = i + 1
  BY <1>4, <1>5
<1>8. KeysOf(ServerRing) = 1 .. n
  BY <1>6, <1>7 DEF KeysOf
<1>9. Linked(ServerRing, c)
  <2> SUFFICES ASSUME NEW i \in 1 .. n
               PROVE  ServerRing[i].under = IF i = n THEN c ELSE ServerRing[i + 1].key
    BY <1>6 DEF Linked
  <2>1. i # n => i + 1 \in 1 .. n
    BY <1>1
  <2> QED BY <1>1, <1>7, <2>1
<1>10. ServerRing = <<>> => n = 0
  BY <1>6
<1> QED BY <1>1, <1>6, <1>8, <1>9, <1>10 DEF c, n

(* rememberProjectKey's last step: the key joins, and the file is written. *)
Written(s, key) == Persist([s EXCEPT !.had = @ \cup {key}], key)

(* What is written to disk (persist).                                      *)
LEMMA Writes ==
    ASSUME NEW s \in RingState, NEW key \in Nat
    PROVE  /\ Written(s, key) \in RingState
           /\ Written(s, key).had = s.had \cup {key}
           /\ Written(s, key).disk = [wrap |-> key, ring |-> s.entries]
           /\ <<Written(s, key).ativa, Written(s, key).antigas, Written(s, key).entries, Written(s, key).current>>
              = <<s.ativa, s.antigas, s.entries, s.current>>
<1> DEFINE t == [s EXCEPT !.had = @ \cup {key}]
           d == [wrap |-> key, ring |-> s.entries]
<1>1. d \in [wrap : Nat, ring : Seq(RingEntry)]
  BY DEF RingState
<1>2. t \in RingState /\ t.had = s.had \cup {key}
  BY DEF RingState
<1>3. <<t.ativa, t.antigas, t.entries, t.current>> = <<s.ativa, s.antigas, s.entries, s.current>>
  BY DEF RingState
<1>4. Written(s, key) = [t EXCEPT !.disk = [wrap |-> key, ring |-> t.entries]]
  BY DEF Written, Persist
<1>5. Written(s, key) = [t EXCEPT !.disk = d]
  BY <1>3, <1>4
<1> HIDE DEF t, d
<1>6. Written(s, key) \in RingState /\ Written(s, key).disk = d
  BY <1>1, <1>2, <1>5 DEF RingState
<1>7. <<Written(s, key).had, Written(s, key).ativa, Written(s, key).antigas, Written(s, key).entries,
        Written(s, key).current>> = <<t.had, t.ativa, t.antigas, t.entries, t.current>>
  BY <1>2, <1>5 DEF RingState
<1> QED BY <1>2, <1>3, <1>6, <1>7 DEF d

(* A new key of the project, and the one it replaces (rememberProjectKey). *)
LEMMA RingRemembers ==
    ASSUME "file" \notin RingAbsent, RingInv, RememberProjectKey
    PROVE  RingInv'
<1>1. r \in RingState /\ InMemory(r) /\ OnDisk(r)
  BY DEF RingInv
<1>2. PICK ring \in {ServerRing} \cup (IF MayLackRing THEN {<<>>} ELSE {}) :
         r' = Written(Import(Renewed(r), ring), r.current)
  BY DEF RememberProjectKey, Renewed, Written
<1> DEFINE m == Renewed(r)
           i == Import(m, ring)
           c == r.current
<1>3. c \in Nat /\ c > 0 /\ r.had \subseteq 1 .. c
  BY <1>1 DEF RingState, OnDisk
<1>4. /\ m \in RingState /\ m.ativa = c /\ Linked(m.entries, c) /\ KeysOf(m.entries) \subseteq ToSet(m.antigas)
      /\ r.ativa # NoKey => r.had \subseteq {c} \cup KeysOf(m.entries)
      /\ <<m.current, m.had>> = <<c, r.had>>
  BY <1>1, PromoteLinks
<1>5. /\ ServerRing \in Seq(RingEntry) /\ Linked(ServerRing, c)
      /\ KeysOf(ServerRing) = 1 .. c - 1 /\ (ServerRing = <<>> => c = 1)
  BY <1>1, <1>3, ServerChain
<1>6. ring # <<>> => ring = ServerRing
  BY <1>2
<1>7. ring = <<>> => c = 1 \/ r.ativa # NoKey
  BY <1>2, <1>5 DEF MayLackRing
<1>8. ring \in Seq(RingEntry) /\ Linked(ring, c)
  <2>1. Linked(<<>>, c) /\ <<>> \in Seq(RingEntry)
    BY DEF Linked
  <2> QED BY <1>5, <1>6, <2>1
<1> HIDE DEF m, c
<1>9. /\ i \in RingState
      /\ ring = <<>> => i = m
      /\ ring # <<>> => i.entries = ring /\ KeysOf(ring) \subseteq ToSet(i.antigas)
      /\ <<i.ativa, i.current, i.had>> = <<m.ativa, m.current, m.had>>
  <2>1. m.ativa # NoKey
    BY <1>3, <1>4 DEF NoKey
  <2> QED BY <1>4, <1>8, <2>1, ImportReads
<1> HIDE DEF i
<1>10. i.ativa = c /\ i.current = c /\ i.had = r.had
  BY <1>4, <1>9
<1>11. /\ Linked(i.entries, c) /\ KeysOf(i.entries) \subseteq ToSet(i.antigas)
       /\ r.had \subseteq {c} \cup KeysOf(i.entries)
  <2>1. CASE ring = <<>>
    <3>1. c = 1 => r.had \subseteq {c}
      BY <1>3
    <3> QED BY <1>4, <1>7, <1>9, <2>1, <3>1
  <2>2. CASE ring # <<>>
    <3>1. r.had \subseteq {c} \cup (1 .. c - 1)
      BY <1>3
    <3> QED BY <1>5, <1>6, <1>8, <1>9, <2>2, <3>1
  <2> QED BY <2>1, <2>2
<1> DEFINE n == Written(i, c)
<1>12. /\ n \in RingState /\ n.had = r.had \cup {c} /\ n.disk = [wrap |-> c, ring |-> i.entries]
       /\ <<n.ativa, n.antigas, n.entries, n.current>> = <<c, i.antigas, i.entries, c>>
  BY <1>3, <1>9, <1>10, Writes
<1>13. r' = n
  BY <1>2 DEF i, m, c
<1> HIDE DEF n
<1>14. n.disk.wrap = c /\ n.disk.ring = i.entries
  BY <1>12
<1>15. c # NoKey /\ c \in 1 .. c
  BY <1>3 DEF NoKey
<1>16. InMemory(n)
  BY <1>11, <1>12, <1>14, <1>15 DEF InMemory
<1>17. OnDisk(n)
  BY <1>3, <1>11, <1>12, <1>14, <1>15 DEF OnDisk
<1> QED BY <1>12, <1>13, <1>16, <1>17 DEF RingInv

(* The project with nothing in memory. *)
Blank(s) == [s EXCEPT !.ativa = NoKey, !.antigas = <<>>, !.entries = <<>>]

(* A daemon that is restarted has nothing in memory.                       *)
LEMMA Blanks ==
    ASSUME NEW s \in RingState
    PROVE  /\ Blank(s) \in RingState
           /\ <<Blank(s).ativa, Blank(s).antigas, Blank(s).entries>> = <<NoKey, <<>>, <<>>>>
           /\ <<Blank(s).disk, Blank(s).current, Blank(s).had, Blank(s).restarts>>
              = <<s.disk, s.current, s.had, s.restarts>>
<1> DEFINE x == [s EXCEPT !.ativa = NoKey]
           y == [x EXCEPT !.antigas = <<>>]
           z == [y EXCEPT !.entries = <<>>]
<1>1. NoKey \in Nat /\ <<>> \in Seq(Nat) /\ <<>> \in Seq(RingEntry)
  BY DEF NoKey
<1>2. Blank(s) = z
  BY DEF RingState, Blank
<1>3. x \in RingState
  BY <1>1 DEF RingState
<1>4. <<x.ativa, x.disk, x.current, x.had, x.restarts>> = <<NoKey, s.disk, s.current, s.had, s.restarts>>
  BY DEF RingState
<1> HIDE DEF x
<1>5. y \in RingState
  BY <1>1, <1>3 DEF RingState
<1>6. <<y.ativa, y.antigas, y.disk, y.current, y.had, y.restarts>> = <<x.ativa, <<>>, x.disk, x.current, x.had, x.restarts>>
  BY <1>3 DEF RingState
<1> HIDE DEF y
<1>7. z \in RingState
  BY <1>1, <1>5 DEF RingState
<1>8. <<z.ativa, z.antigas, z.entries, z.disk, z.current, z.had, z.restarts>>
      = <<y.ativa, y.antigas, <<>>, y.disk, y.current, y.had, y.restarts>>
  BY <1>5 DEF RingState
<1> HIDE DEF z
<1> QED BY <1>2, <1>4, <1>6, <1>7, <1>8

(* The invariant is inductive.                                             *)
LEMMA RingKeepsUp ==
    ASSUME "file" \notin RingAbsent, RingInv, RingNext
    PROVE  RingInv'
<1>0. r \in RingState
  BY DEF RingInv
<1>1. r \in RingState /\ InMemory(r) /\ OnDisk(r)
  BY DEF RingInv
<1>2. CASE RememberProjectKey
  BY <1>2, RingRemembers
<1>3. CASE KeyFor
  BY <1>1, <1>3, RestoreReads DEF KeyFor, RingInv
<1>4. CASE Rotate
  <2>1. r' = [r EXCEPT !.current = @ + 1]
    BY <1>4 DEF Rotate
  <2>0. r.current \in Nat /\ r.current + 1 \in Nat /\ r.disk.wrap \in Nat
    BY <1>0 DEF RingState
  <2>2. r' \in RingState /\ r'.current = r.current + 1
    BY <1>0, <2>0, <2>1 DEF RingState
  <2>3. <<r'.ativa, r'.antigas, r'.entries, r'.disk, r'.had>> = <<r.ativa, r.antigas, r.entries, r.disk, r.had>>
    BY <1>0, <2>1 DEF RingState
  <2>4. InMemory(r')
    BY <1>1, <2>3 DEF InMemory
  <2>5. OnDisk(r')
    <3>1. r'.current > 0 /\ r'.disk.wrap <= r'.current /\ 1 .. r.current \subseteq 1 .. r'.current
      BY <1>1, <2>0, <2>2, <2>3 DEF OnDisk
    <3> QED BY <1>1, <2>3, <3>1 DEF OnDisk
  <2> QED BY <2>2, <2>4, <2>5 DEF RingInv
<1>5. CASE RingRestart
  <2> DEFINE t == Blank(r)
  <2>1. r' = [t EXCEPT !.restarts = r.restarts + 1]
    BY <1>0, <1>5 DEF RingRestart, Blank, RingState
  <2>2. /\ t \in RingState /\ <<t.ativa, t.antigas, t.entries>> = <<NoKey, <<>>, <<>>>>
        /\ <<t.disk, t.current, t.had>> = <<r.disk, r.current, r.had>>
    BY <1>0, Blanks
  <2>5. r.restarts + 1 \in Nat
    BY <1>0 DEF RingState
  <2> HIDE DEF t
  <2>6. r' \in RingState
    BY <2>1, <2>2, <2>5 DEF RingState
  <2>3. <<r'.ativa, r'.antigas, r'.entries, r'.disk, r'.current, r'.had>>
        = <<t.ativa, t.antigas, t.entries, t.disk, t.current, t.had>>
    BY <2>1, <2>2 DEF RingState
  <2>4. InMemory(r')
    BY <2>2, <2>3 DEF InMemory
  <2>7. OnDisk(r')
    BY <1>1, <2>2, <2>3 DEF OnDisk
  <2> QED BY <2>4, <2>6, <2>7 DEF RingInv
<1>6. CASE ForgetProjectKey
  <2> DEFINE d == [wrap |-> NoKey, ring |-> <<>>]
             t == Blank(r)
  <2>1. r' = [t EXCEPT !.disk = d, !.had = {}]
    BY <1>0, <1>6 DEF ForgetProjectKey, RingState, Blank
  <2>0. NoKey \in Nat /\ d.wrap = NoKey /\ d.ring = <<>> /\ d \in [wrap : Nat, ring : Seq(RingEntry)]
    BY DEF NoKey
  <2>2. t \in RingState /\ t.current = r.current
    BY <1>0, Blanks
  <2>3. <<t.ativa, t.antigas, t.entries>> = <<NoKey, <<>>, <<>>>>
    BY <1>0, Blanks
  <2> HIDE DEF t, d
  <2>4. r' \in RingState /\ r'.disk = d /\ r'.had = {}
    BY <2>0, <2>1, <2>2 DEF RingState
  <2>5. <<r'.ativa, r'.antigas, r'.entries, r'.current>> = <<t.ativa, t.antigas, t.entries, t.current>>
    BY <2>1, <2>2 DEF RingState
  <2>6. InMemory(r')
    BY <2>3, <2>5 DEF InMemory
  <2>7. OnDisk(r')
    <3>1. NoKey <= r.current /\ r.current > 0
      BY <1>1 DEF OnDisk, RingState, NoKey
    <3>2. Linked(<<>>, NoKey)
      BY DEF Linked
    <3> QED BY <2>0, <2>2, <2>3, <2>4, <2>5, <3>1, <3>2 DEF OnDisk
  <2> QED BY <2>4, <2>6, <2>7 DEF RingInv
<1> QED BY <1>2, <1>3, <1>4, <1>5, <1>6 DEF RingNext

(* What was sealed with a key the daemon had, it can read after any        *)
(* rotation and any restart (daemon-crypto.ts), but for the lapse KeyRing  *)
(* names: a wrap that the file has already comes without its ring.         *)
THEOREM HistoryKept ==
    ASSUME "file" \notin RingAbsent
    PROVE  RingSpec => []HistoryReadable
<1>1. RingInit => RingInv
  <2> SUFFICES ASSUME RingInit PROVE RingInv
    OBVIOUS
  <2>1. r \in RingState
    BY DEF RingInit, RingState, NoKey
  <2>2. InMemory(r)
    BY DEF RingInit, InMemory
  <2>3. OnDisk(r)
    BY DEF RingInit, OnDisk, NoKey, Linked
  <2> QED BY <2>1, <2>2, <2>3 DEF RingInv
<1>2. RingInv /\ [RingNext]_RingVars => RingInv'
  <2>1. RingInv /\ UNCHANGED RingVars => RingInv'
    BY DEF RingInv, RingVars
  <2> QED BY <2>1, RingKeepsUp
<1>3. RingInv => HistoryReadable
  <2> SUFFICES ASSUME RingInv PROVE HistoryReadable
    OBVIOUS
  <2>1. Restore(r).had \subseteq {Restore(r).ativa} \cup ToSet(Restore(r).antigas) /\ Restore(r).had = r.had
    BY RestoreReads DEF RingInv
  <2> QED BY <2>1 DEF HistoryReadable, Readable
<1> QED BY <1>1, <1>2, <1>3, PTL DEF RingSpec

-----------------------------------------------------------------------------
CardFun(S, f) ==
    f = [T \in SUBSET S |-> IF T = {} THEN 0 ELSE 1 + f[T \ {CHOOSE x : x \in T}]]

(* The Cardinality that the modules count with is a function as its        *)
(* definition asks for.                                                    *)
LEMMA CardIs ==
    ASSUME NEW S, NEW f, CardFun(S, f)
    PROVE  \E g : CardFun(S, g) /\ Cardinality(S) = g[S]
<1> DEFINE g == CHOOSE h : CardFun(S, h)
<1>1. CardFun(S, g)
  BY Zenon
<1>2. Cardinality(S) = g[S]
  BY Zenon DEF Cardinality, CardFun
<1> QED BY <1>1, <1>2

(* The set without elements.                                               *)
LEMMA CardEmpty == Cardinality({}) = 0
<1> DEFINE f == [T \in SUBSET {} |-> 0]
<1>1. CardFun({}, f)
  BY DEF CardFun
<1>2. PICK g : CardFun({}, g) /\ Cardinality({}) = g[{}]
  BY <1>1, CardIs
<1>3. g[{}] = 0
  BY <1>2 DEF CardFun
<1> QED BY <1>2, <1>3

(* The set of one element.                                                 *)
LEMMA CardOne == ASSUME NEW x PROVE Cardinality({x}) = 1
<1> DEFINE f == [T \in SUBSET {x} |-> IF T = {} THEN 0 ELSE 1]
<1>1. \A T \in SUBSET {x} : T = {} \/ T = {x}
  OBVIOUS
<1>2. (CHOOSE y : y \in {x}) = x
  OBVIOUS
<1>3. {x} \ {CHOOSE y : y \in {x}} = {} /\ {} \in SUBSET {x} /\ {x} \in SUBSET {x} /\ {x} # {}
  BY <1>2
<1>4. CardFun({x}, f)
  <2>1. \A T \in SUBSET {x} : T # {} => f[T \ {CHOOSE y : y \in T}] = 0
    BY <1>1, <1>3
  <2>2. \A T \in SUBSET {x} : f[T] = IF T = {} THEN 0 ELSE 1 + f[T \ {CHOOSE y : y \in T}]
    BY <2>1
  <2> HIDE DEF f
  <2>3. f = [T \in SUBSET {x} |-> f[T]]
    BY DEF f
  <2> QED BY <2>2, <2>3 DEF CardFun
<1>5. PICK g : CardFun({x}, g) /\ Cardinality({x}) = g[{x}]
  BY <1>4, CardIs
<1>6. g[{}] = 0 /\ g[{x}] = 1 + g[{}]
  BY <1>3, <1>5 DEF CardFun
<1> QED BY <1>5, <1>6

-----------------------------------------------------------------------------
(* The frames *)

Once(q) == \A i, j \in 1 .. Len(q) : q[i] = q[j] => i = j

(* The frames of a queue.                                                  *)
LEMMA Domain ==
    ASSUME NEW q \in Seq(Nat)
    PROVE  Len(q) \in Nat /\ ToSet(q) = {q[i] : i \in 1 .. Len(q)} /\ \A i \in 1 .. Len(q) : q[i] \in Nat
BY DEF ToSet

(* Two queues that share no frame, one after the other.                    *)
LEMMA JoinKeeps ==
    ASSUME NEW a \in Seq(Nat), NEW b \in Seq(Nat), Once(a), Once(b), ToSet(a) \cap ToSet(b) = {}
    PROVE  a \o b \in Seq(Nat) /\ Once(a \o b) /\ ToSet(a \o b) = ToSet(a) \cup ToSet(b)
<1> DEFINE c == a \o b
           m == Len(a)
           n == Len(b)
<1>1. /\ c \in Seq(Nat) /\ m \in Nat /\ n \in Nat /\ Len(c) = m + n
      /\ \A i \in 1 .. m + n : c[i] = IF i <= m THEN a[i] ELSE b[i - m]
  OBVIOUS
<1> HIDE DEF c
<1>2. ToSet(a) = {a[i] : i \in 1 .. m} /\ ToSet(b) = {b[i] : i \in 1 .. n} /\ ToSet(c) = {c[i] : i \in 1 .. m + n}
  BY <1>1, Domain
<1>3. /\ \A i, j \in 1 .. m : a[i] = a[j] => i = j
      /\ \A i, j \in 1 .. n : b[i] = b[j] => i = j
      /\ \A i \in 1 .. m, j \in 1 .. n : a[i] # b[j]
  <2>1. \A i \in 1 .. m, j \in 1 .. n : a[i] \in ToSet(a) /\ b[j] \in ToSet(b)
    BY <1>2
  <2> QED BY <2>1 DEF Once
<1> HIDE DEF m, n
<1>4. \A i \in 1 .. m + n : (i <= m => i \in 1 .. m) /\ (~(i <= m) => i - m \in 1 .. n)
  BY <1>1
<1>5. \A i, j \in 1 .. m + n : c[i] = c[j] => i = j
  <2> SUFFICES ASSUME NEW i \in 1 .. m + n, NEW j \in 1 .. m + n, c[i] = c[j]
               PROVE  i = j
    OBVIOUS
  <2>1. CASE i <= m /\ j <= m
    BY <1>1, <1>3, <1>4, <2>1
  <2>2. CASE ~(i <= m) /\ ~(j <= m)
    <3>1. i - m = j - m
      BY <1>1, <1>3, <1>4, <2>2
    <3> QED BY <1>1, <3>1
  <2>3. CASE i <= m /\ ~(j <= m)
    BY <1>1, <1>3, <1>4, <2>3, ZenonT(60)
  <2>4. CASE ~(i <= m) /\ j <= m
    BY <1>1, <1>3, <1>4, <2>4, ZenonT(60)
  <2> QED BY <2>1, <2>2, <2>3, <2>4
<1>6. Once(c)
  BY <1>1, <1>5 DEF Once
<1>7. ToSet(c) \subseteq ToSet(a) \cup ToSet(b)
  BY <1>1, <1>2, <1>4
<1>8. ToSet(a) \subseteq ToSet(c)
  <2>1. \A i \in 1 .. m : i \in 1 .. m + n /\ c[i] = a[i]
    BY <1>1
  <2> QED BY <1>2, <2>1
<1>9. ToSet(b) \subseteq ToSet(c)
  <2>1. \A i \in 1 .. n : i + m \in 1 .. m + n /\ ~(i + m <= m) /\ (i + m) - m = i
    BY <1>1
  <2>2. \A i \in 1 .. n : c[i + m] = b[i]
    BY <1>1, <2>1
  <2> QED BY <1>2, <2>1, <2>2
<1> QED BY <1>1, <1>6, <1>7, <1>8, <1>9 DEF c

(* A part of a queue.                                                      *)
LEMMA Cut ==
    ASSUME NEW q \in Seq(Nat), Once(q), NEW x \in Nat \ {0}, NEW y \in Nat, y <= Len(q)
    PROVE  /\ SubSeq(q, x, y) \in Seq(Nat) /\ Once(SubSeq(q, x, y))
           /\ ToSet(SubSeq(q, x, y)) = {q[i] : i \in x .. y}
<1> DEFINE c == SubSeq(q, x, y)
           n == IF x <= y THEN y - x + 1 ELSE 0
<1>1. Len(q) \in Nat /\ n \in Nat
  OBVIOUS
<1>2. Len(c) = n /\ \A i \in 1 .. n : c[i] = q[x + i - 1]
  BY <1>1
<1>3. \A i \in 1 .. n : x + i - 1 \in 1 .. Len(q) /\ x + i - 1 \in x .. y
  BY <1>1
<1>4. c \in Seq(Nat)
  BY <1>1, <1>3
<1> HIDE DEF c
<1>5. \A i \in x .. y : i - x + 1 \in 1 .. n /\ x + (i - x + 1) - 1 = i
  BY <1>1
<1>6. Once(c)
  <2> SUFFICES ASSUME NEW i \in 1 .. n, NEW j \in 1 .. n, c[i] = c[j]
               PROVE  i = j
    BY <1>2 DEF Once
  <2>1. x + i - 1 = x + j - 1
    BY <1>2, <1>3 DEF Once
  <2> QED BY <1>1, <2>1
<1>7. ToSet(c) = {c[i] : i \in 1 .. n}
  BY <1>2, <1>4, Domain
<1> HIDE DEF n
<1>8. ToSet(c) = {q[i] : i \in x .. y}
  <2>1. ToSet(c) \subseteq {q[i] : i \in x .. y}
    BY <1>2, <1>3, <1>7
  <2>2. \A i \in x .. y : c[i - x + 1] = q[i]
    BY <1>2, <1>5
  <2>3. {q[i] : i \in x .. y} \subseteq ToSet(c)
    BY <1>5, <1>7, <2>2
  <2> QED BY <2>1, <2>3
<1> QED BY <1>4, <1>6, <1>8 DEF c

(* A frame more.                                                           *)
LEMMA Joining ==
    ASSUME NEW q \in Seq(Nat), Once(q), NEW f \in Nat, f \notin ToSet(q)
    PROVE  Append(q, f) \in Seq(Nat) /\ Once(Append(q, f)) /\ ToSet(Append(q, f)) = ToSet(q) \cup {f}
<1>1. Append(q, f) = q \o <<f>> /\ <<f>> \in Seq(Nat)
  OBVIOUS
<1>2. Once(<<f>>)
  BY DEF Once
<1>3. ToSet(<<f>>) = {f}
  BY DEF ToSet
<1>4. ToSet(q) \cap ToSet(<<f>>) = {}
  BY <1>3
<1> DEFINE b == <<f>>
<1>5. b \in Seq(Nat) /\ Once(b) /\ ToSet(b) = {f} /\ ToSet(q) \cap ToSet(b) = {} /\ Append(q, f) = q \o b
  BY <1>1, <1>2, <1>3, <1>4
<1> HIDE DEF b
<1> QED BY <1>5, JoinKeeps

(* A queue cut in two.                                                     *)
LEMMA Parted ==
    ASSUME NEW q \in Seq(Nat), Once(q), NEW n \in 0 .. Len(q)
    PROVE  LET a == SubSeq(q, 1, n)  b == SubSeq(q, n + 1, Len(q))
           IN  /\ a \in Seq(Nat) /\ b \in Seq(Nat) /\ Once(a) /\ Once(b)
               /\ ToSet(a) \cup ToSet(b) = ToSet(q) /\ ToSet(a) \cap ToSet(b) = {}
<1>1. Len(q) \in Nat /\ n \in Nat /\ n <= Len(q) /\ n + 1 \in Nat \ {0} /\ 1 \in Nat \ {0}
  OBVIOUS
<1> DEFINE a == SubSeq(q, 1, n)
           b == SubSeq(q, n + 1, Len(q))
<1>2. a \in Seq(Nat) /\ Once(a) /\ ToSet(a) = {q[i] : i \in 1 .. n}
  BY <1>1, Cut
<1>3. b \in Seq(Nat) /\ Once(b) /\ ToSet(b) = {q[i] : i \in n + 1 .. Len(q)}
  BY <1>1, Cut
<1>4. ToSet(q) = {q[i] : i \in 1 .. Len(q)}
  BY Domain
<1> HIDE DEF a, b
<1>5. \A i : i \in 1 .. Len(q) <=> i \in 1 .. n \/ i \in n + 1 .. Len(q)
  BY <1>1
<1>6. \A i \in 1 .. n, j \in n + 1 .. Len(q) : i # j
  BY <1>1
<1>7. ToSet(a) \cup ToSet(b) = ToSet(q)
  BY <1>2, <1>3, <1>4, <1>5
<1>8. ToSet(a) \cap ToSet(b) = {}
  BY <1>2, <1>3, <1>5, <1>6 DEF Once
<1> QED BY <1>2, <1>3, <1>7, <1>8 DEF a, b

(* A frame less.                                                           *)
LEMMA Removed ==
    ASSUME NEW q \in Seq(Nat), Once(q), NEW n \in 1 .. Len(q)
    PROVE  RemoveAt(q, n) \in Seq(Nat) /\ Once(RemoveAt(q, n)) /\ ToSet(RemoveAt(q, n)) = ToSet(q) \ {q[n]}
<1>1. Len(q) \in Nat /\ n - 1 \in Nat /\ n - 1 <= Len(q) /\ n + 1 \in Nat \ {0} /\ 1 \in Nat \ {0}
  OBVIOUS
<1> DEFINE a == SubSeq(q, 1, n - 1)
           b == SubSeq(q, n + 1, Len(q))
<1>2. a \in Seq(Nat) /\ Once(a) /\ ToSet(a) = {q[i] : i \in 1 .. n - 1}
  BY <1>1, Cut
<1>3. b \in Seq(Nat) /\ Once(b) /\ ToSet(b) = {q[i] : i \in n + 1 .. Len(q)}
  BY <1>1, Cut
<1>4. ToSet(q) = {q[i] : i \in 1 .. Len(q)}
  BY Domain
<1>5. RemoveAt(q, n) = a \o b
  BY DEF RemoveAt
<1> HIDE DEF a, b
<1>6. \A i : i \in 1 .. Len(q) <=> i \in 1 .. n - 1 \/ i \in n + 1 .. Len(q) \/ i = n
  BY <1>1
<1>7. /\ \A i \in 1 .. n - 1, j \in n + 1 .. Len(q) : i # j
      /\ n \notin 1 .. n - 1 /\ n \notin n + 1 .. Len(q)
  BY <1>1
<1>8. ToSet(a) \cap ToSet(b) = {}
  BY <1>2, <1>3, <1>6, <1>7 DEF Once
<1>9. ToSet(a) \cup ToSet(b) = ToSet(q) \ {q[n]}
  BY <1>2, <1>3, <1>4, <1>6, <1>7 DEF Once
<1>10. a \o b \in Seq(Nat) /\ Once(a \o b) /\ ToSet(a \o b) = ToSet(a) \cup ToSet(b)
  BY <1>2, <1>3, <1>8, JoinKeeps
<1> QED BY <1>5, <1>9, <1>10

OutState ==
    [canal : {"closed", "open", "clogged"}, fila : Seq(Nat), sent : Seq(Nat), evicted : SUBSET Nat,
     next : Nat, turns : Nat]

(* Every frame is in one place at most, once, and a critical one is in one. *)
FramesPlaced(fila, sent, evicted, next) ==
    /\ Once(fila) /\ Once(sent)
    /\ ToSet(fila) \cap ToSet(sent) = {} /\ ToSet(fila) \cap evicted = {} /\ ToSet(sent) \cap evicted = {}
    /\ ToSet(fila) \cup ToSet(sent) \cup evicted \subseteq 1 .. next
    /\ (OutHigh \cup OutLow) \cap (1 .. next) \subseteq ToSet(fila) \cup ToSet(sent) \cup evicted

OutInv == o \in OutState /\ FramesPlaced(o.fila, o.sent, o.evicted, o.next)

(* Min takes a member of the set.                                          *)
LEMMA Smallest ==
    ASSUME NEW S \in SUBSET Nat, S # {}
    PROVE  Min(S) \in S
<1>1. \E n \in S : \A m \in S : n <= m
  BY NatHasLeast
<1> QED BY <1>1 DEF Min

(* Of a queue that is not empty exactly one frame is evicted (evictOne).   *)
LEMMA Evicts ==
    ASSUME NEW s \in OutState, Len(s.fila) > 0
    PROVE  \E n \in 1 .. Len(s.fila) :
              EvictOne(s) = [s EXCEPT !.fila = RemoveAt(@, n), !.evicted = @ \cup {s.fila[n]}]
<1> DEFINE I == {i \in 1 .. Len(s.fila) : s.fila[i] \notin OutHigh}
           low == SelectInSeq(s.fila, LAMBDA f : f \notin OutHigh)
           n == IF low = 0 THEN 1 ELSE low
<1>1. s.fila \in Seq(Nat) /\ Len(s.fila) \in Nat
  BY DEF OutState
<1>2. low = IF I # {} THEN Min(I) ELSE 0
  BY DEF SelectInSeq
<1>3. I \in SUBSET Nat /\ I \subseteq 1 .. Len(s.fila)
  BY <1>1
<1>4. EvictOne(s) = [s EXCEPT !.fila = RemoveAt(@, n), !.evicted = @ \cup {s.fila[n]}]
  BY DEF EvictOne
<1> HIDE DEF low
<1>5. low = 0 \/ low \in 1 .. Len(s.fila)
  <2> HIDE DEF I
  <2> QED BY <1>2, <1>3, Smallest
<1>6. n \in 1 .. Len(s.fila)
  BY <1>1, <1>5
<1> QED BY <1>4, <1>6

(* Placing a frame in the queue, where it was nowhere. *)
LEMMA FrameWaits ==
    ASSUME NEW fila \in Seq(Nat), NEW sent \in Seq(Nat), NEW evicted \in SUBSET Nat, NEW next \in Nat,
           FramesPlaced(fila, sent, evicted, next)
    PROVE  /\ Append(fila, next + 1) \in Seq(Nat) /\ Append(sent, next + 1) \in Seq(Nat)
           /\ FramesPlaced(Append(fila, next + 1), sent, evicted, next + 1)
           /\ FramesPlaced(fila, Append(sent, next + 1), evicted, next + 1)
           /\ next + 1 \notin OutHigh \cup OutLow => FramesPlaced(fila, sent, evicted, next + 1)
<1> DEFINE f == next + 1
<1>1. f \in Nat /\ 1 .. f = 1 .. next \cup {f} /\ f \notin 1 .. next
  OBVIOUS
<1>2. f \notin ToSet(fila) /\ f \notin ToSet(sent) /\ f \notin evicted /\ Once(fila) /\ Once(sent)
  BY <1>1 DEF FramesPlaced
<1>3. Append(fila, f) \in Seq(Nat) /\ Once(Append(fila, f)) /\ ToSet(Append(fila, f)) = ToSet(fila) \cup {f}
  BY <1>1, <1>2, Joining
<1>4. Append(sent, f) \in Seq(Nat) /\ Once(Append(sent, f)) /\ ToSet(Append(sent, f)) = ToSet(sent) \cup {f}
  BY <1>1, <1>2, Joining
<1>5. /\ ToSet(fila) \cap ToSet(sent) = {} /\ ToSet(fila) \cap evicted = {} /\ ToSet(sent) \cap evicted = {}
      /\ ToSet(fila) \cup ToSet(sent) \cup evicted \subseteq 1 .. next
      /\ (OutHigh \cup OutLow) \cap (1 .. next) \subseteq ToSet(fila) \cup ToSet(sent) \cup evicted
  BY DEF FramesPlaced
<1> HIDE DEF f
<1>6. FramesPlaced(Append(fila, f), sent, evicted, f)
  BY <1>1, <1>2, <1>3, <1>5 DEF FramesPlaced
<1>7. FramesPlaced(fila, Append(sent, f), evicted, f)
  BY <1>1, <1>2, <1>4, <1>5 DEF FramesPlaced
<1>8. f \notin OutHigh \cup OutLow => FramesPlaced(fila, sent, evicted, f)
  BY <1>1, <1>2, <1>5 DEF FramesPlaced
<1> QED BY <1>3, <1>4, <1>6, <1>7, <1>8 DEF f

(* The eviction of a frame keeps the account.                              *)
LEMMA PushedOut ==
    ASSUME NEW fila \in Seq(Nat), NEW sent \in Seq(Nat), NEW evicted \in SUBSET Nat, NEW next \in Nat,
           FramesPlaced(fila, sent, evicted, next), NEW n \in 1 .. Len(fila)
    PROVE  /\ RemoveAt(fila, n) \in Seq(Nat) /\ evicted \cup {fila[n]} \in SUBSET Nat
           /\ FramesPlaced(RemoveAt(fila, n), sent, evicted \cup {fila[n]}, next)
<1>1. Once(fila)
  BY DEF FramesPlaced
<1>2. RemoveAt(fila, n) \in Seq(Nat) /\ Once(RemoveAt(fila, n)) /\ ToSet(RemoveAt(fila, n)) = ToSet(fila) \ {fila[n]}
  BY <1>1, Removed
<1>3. fila[n] \in ToSet(fila) /\ fila[n] \in Nat
  BY Domain
<1>4. FramesPlaced(RemoveAt(fila, n), sent, evicted \cup {fila[n]}, next)
  BY <1>2, <1>3 DEF FramesPlaced
<1> QED BY <1>2, <1>3, <1>4

(* The flush of the first frames keeps the account.                        *)
LEMMA Flushed ==
    ASSUME NEW fila \in Seq(Nat), NEW sent \in Seq(Nat), NEW evicted \in SUBSET Nat, NEW next \in Nat,
           FramesPlaced(fila, sent, evicted, next), NEW n \in 0 .. Len(fila)
    PROVE  /\ sent \o SubSeq(fila, 1, n) \in Seq(Nat) /\ SubSeq(fila, n + 1, Len(fila)) \in Seq(Nat)
           /\ FramesPlaced(SubSeq(fila, n + 1, Len(fila)), sent \o SubSeq(fila, 1, n), evicted, next)
<1> DEFINE a == SubSeq(fila, 1, n)
           b == SubSeq(fila, n + 1, Len(fila))
<1>1. Once(fila) /\ Once(sent)
  BY DEF FramesPlaced
<1>2. /\ a \in Seq(Nat) /\ b \in Seq(Nat) /\ Once(a) /\ Once(b)
      /\ ToSet(a) \cup ToSet(b) = ToSet(fila) /\ ToSet(a) \cap ToSet(b) = {}
  BY <1>1, Parted
<1> HIDE DEF a, b
<1>3. ToSet(sent) \cap ToSet(a) = {}
  BY <1>2 DEF FramesPlaced
<1>4. sent \o a \in Seq(Nat) /\ Once(sent \o a) /\ ToSet(sent \o a) = ToSet(sent) \cup ToSet(a)
  BY <1>1, <1>2, <1>3, JoinKeeps
<1>5. FramesPlaced(b, sent \o a, evicted, next)
  BY <1>2, <1>4 DEF FramesPlaced
<1> QED BY <1>2, <1>4, <1>5 DEF a, b

(* send, of a frame that does not go to the socket. *)
LEMMA Enqueues ==
    ASSUME NEW s \in OutState, NEW f \in Nat, Append(s.fila, f) \in Seq(Nat),
           FramesPlaced(Append(s.fila, f), s.sent, s.evicted, s.next),
           f \notin OutHigh \cup OutLow => FramesPlaced(s.fila, s.sent, s.evicted, s.next),
           NEW n, n = EnqueueCritical(s, f)
    PROVE  n \in OutState /\ FramesPlaced(n.fila, n.sent, n.evicted, n.next)
<1> DEFINE fila == Append(s.fila, f)
           t == [s EXCEPT !.fila = fila]
<1>1. CASE f \notin OutHigh \cup OutLow
  BY <1>1 DEF EnqueueCritical
<1>2. CASE f \in OutHigh \cup OutLow
  <2>1. t \in OutState /\ t.fila = fila
    BY DEF OutState
  <2>2. <<t.sent, t.evicted, t.next>> = <<s.sent, s.evicted, s.next>>
    BY DEF OutState
  <2>3. n = IF Len(t.fila) > OutMax THEN EvictOne(t) ELSE t
    BY <1>2 DEF EnqueueCritical
  <2> HIDE DEF t
  <2>4. FramesPlaced(t.fila, t.sent, t.evicted, t.next)
    BY <2>1, <2>2
  <2>5. t.fila \in Seq(Nat) /\ t.sent \in Seq(Nat) /\ t.evicted \in SUBSET Nat /\ t.next \in Nat
    BY <2>1 DEF OutState
  <2>6. CASE ~(Len(t.fila) > OutMax)
    BY <2>1, <2>3, <2>4, <2>6
  <2>7. CASE Len(t.fila) > OutMax
    <3>1. Len(t.fila) > 0
      BY <2>5, <2>7, OutAssumption
    <3>2. PICK m \in 1 .. Len(t.fila) : n = [t EXCEPT !.fila = RemoveAt(@, m), !.evicted = @ \cup {t.fila[m]}]
      BY <2>1, <2>3, <2>7, <3>1, Evicts
    <3> DEFINE fila2 == RemoveAt(t.fila, m)
               evicted2 == t.evicted \cup {t.fila[m]}
    <3>3. fila2 \in Seq(Nat) /\ evicted2 \in SUBSET Nat /\ FramesPlaced(fila2, t.sent, evicted2, t.next)
      BY <2>4, <2>5, PushedOut
    <3>4. n = [t EXCEPT !.fila = fila2, !.evicted = evicted2]
      BY <2>1, <3>2 DEF OutState
    <3> HIDE DEF fila2, evicted2
    <3>5. n \in OutState /\ n.fila = fila2 /\ n.evicted = evicted2
      BY <2>1, <3>3, <3>4 DEF OutState
    <3>6. <<n.sent, n.next>> = <<t.sent, t.next>>
      BY <2>1, <3>4 DEF OutState
    <3> QED BY <3>3, <3>5, <3>6
  <2> QED BY <2>6, <2>7
<1> QED BY <1>1, <1>2

(* The invariant is inductive.                                             *)
LEMMA OutStep ==
    ASSUME OutInv, OutNext
    PROVE  OutInv'
<1>0. o \in OutState
  BY DEF OutInv
<1>1. /\ o.fila \in Seq(Nat) /\ o.sent \in Seq(Nat) /\ o.evicted \in SUBSET Nat /\ o.next \in Nat /\ o.turns + 1 \in Nat
      /\ FramesPlaced(o.fila, o.sent, o.evicted, o.next)
  BY DEF OutInv, OutState
<1>2. CASE OutSend
  <2> DEFINE f == o.next + 1
             s == [o EXCEPT !.next = f]
  <2>1. \/ o' = [s EXCEPT !.sent = Append(@, f)]
        \/ o' = EnqueueCritical(s, f)
    BY <1>2, Zenon DEF OutSend
  <2>2. f \in Nat
    BY <1>1
  <2> HIDE DEF f
  <2>3. s \in OutState /\ s.next = f
    BY <1>0, <2>2 DEF OutState
  <2>4. <<s.fila, s.sent, s.evicted>> = <<o.fila, o.sent, o.evicted>>
    BY <1>0 DEF OutState
  <2> HIDE DEF s
  <2> DEFINE sent == Append(o.sent, f)
  <2>5. /\ Append(o.fila, f) \in Seq(Nat) /\ sent \in Seq(Nat)
        /\ FramesPlaced(Append(o.fila, f), o.sent, o.evicted, f)
        /\ FramesPlaced(o.fila, sent, o.evicted, f)
        /\ f \notin OutHigh \cup OutLow => FramesPlaced(o.fila, o.sent, o.evicted, f)
    BY <1>1, FrameWaits DEF f
  <2>6. CASE o' = [s EXCEPT !.sent = Append(@, f)]
    <3>1. o' = [s EXCEPT !.sent = sent]
      BY <2>4, <2>6
    <3> HIDE DEF sent
    <3>2. o' \in OutState /\ o'.sent = sent
      BY <2>3, <2>5, <3>1 DEF OutState
    <3>3. <<o'.fila, o'.evicted, o'.next>> = <<s.fila, s.evicted, s.next>>
      BY <2>3, <3>1 DEF OutState
    <3>4. FramesPlaced(o'.fila, o'.sent, o'.evicted, o'.next)
      BY <2>3, <2>4, <2>5, <3>2, <3>3
    <3> QED BY <3>2, <3>4 DEF OutInv
  <2>7. CASE o' = EnqueueCritical(s, f)
    <3>1. /\ Append(s.fila, f) \in Seq(Nat) /\ FramesPlaced(Append(s.fila, f), s.sent, s.evicted, s.next)
          /\ f \notin OutHigh \cup OutLow => FramesPlaced(s.fila, s.sent, s.evicted, s.next)
      BY <2>3, <2>4, <2>5
    <3>2. o' \in OutState /\ FramesPlaced(o'.fila, o'.sent, o'.evicted, o'.next)
      BY <2>2, <2>3, <2>7, <3>1, Enqueues
    <3> QED BY <3>2 DEF OutInv
  <2> QED BY <2>1, <2>6, <2>7
<1>3. CASE OutOpens
  <2>1. PICK n \in 0 .. Len(o.fila), canal \in {"open", "clogged"} : o' = Turn(Flush(o, n), canal)
    BY <1>3 DEF OutOpens
  <2> DEFINE fila == SubSeq(o.fila, n + 1, Len(o.fila))
             sent == o.sent \o SubSeq(o.fila, 1, n)
             s == Flush(o, n)
  <2>2. fila \in Seq(Nat) /\ sent \in Seq(Nat) /\ FramesPlaced(fila, sent, o.evicted, o.next)
    BY <1>1, Flushed
  <2>3. s = [o EXCEPT !.sent = sent, !.fila = fila]
    BY <1>0 DEF Flush, OutState
  <2> HIDE DEF fila, sent, s
  <2>4. s \in OutState /\ s.fila = fila /\ s.sent = sent
    BY <1>0, <2>2, <2>3 DEF OutState
  <2>5. <<s.evicted, s.next, s.turns>> = <<o.evicted, o.next, o.turns>>
    BY <1>0, <2>3 DEF OutState
  <2>6. o' = [s EXCEPT !.canal = canal, !.turns = s.turns + 1]
    BY <2>1, <2>4 DEF Turn, OutState, s
  <2>7. s.turns + 1 \in Nat /\ canal \in {"closed", "open", "clogged"}
    BY <1>1, <2>5
  <2>8. o' \in OutState
    BY <2>4, <2>6, <2>7 DEF OutState
  <2>9. <<o'.fila, o'.sent, o'.evicted, o'.next>> = <<s.fila, s.sent, s.evicted, s.next>>
    BY <2>4, <2>6 DEF OutState
  <2> QED BY <2>2, <2>4, <2>5, <2>8, <2>9 DEF OutInv
<1>4. CASE OutClogs \/ OutCloses \/ OutDrains
  <2>1. \E canal \in {"closed", "open", "clogged"}, turns \in Nat : o' = [o EXCEPT !.canal = canal, !.turns = turns]
    <3>1. CASE OutClogs
      <4>1. o' = [o EXCEPT !.canal = "clogged", !.turns = o.turns + 1]
        BY <1>0, <3>1 DEF OutClogs, Turn, OutState
      <4> QED BY <1>1, <4>1
    <3>2. CASE OutCloses
      <4>1. o' = [o EXCEPT !.canal = "closed", !.turns = o.turns + 1]
        BY <1>0, <3>2 DEF OutCloses, Turn, OutState
      <4> QED BY <1>1, <4>1
    <3>3. CASE OutDrains
      <4>1. o' = [o EXCEPT !.canal = "open", !.turns = o.turns] /\ o.turns \in Nat
        BY <1>0, <3>3 DEF OutDrains, OutState
      <4> QED BY <4>1
    <3> QED BY <1>4, <3>1, <3>2, <3>3
  <2>2. PICK canal \in {"closed", "open", "clogged"}, turns \in Nat : o' = [o EXCEPT !.canal = canal, !.turns = turns]
    BY <2>1
  <2>3. o' \in OutState
    BY <1>0, <2>2 DEF OutState
  <2>4. <<o'.fila, o'.sent, o'.evicted, o'.next>> = <<o.fila, o.sent, o.evicted, o.next>>
    BY <1>0, <2>2 DEF OutState
  <2> QED BY <1>1, <2>3, <2>4 DEF OutInv
<1> QED BY <1>2, <1>3, <1>4 DEF OutNext

(* The frames are counted: a critical one in one place, no one sent twice. *)
LEMMA OutCounted == OutInv => OutKept
<1> SUFFICES ASSUME OutInv PROVE OutKept
  OBVIOUS
<1> SUFFICES ASSUME NEW f \in 1 .. o.next
             PROVE  LET places == <<ToSet(o.fila), ToSet(o.sent), o.evicted>>
                    IN  /\ f \in OutHigh \cup OutLow => Cardinality({i \in 1 .. 3 : f \in places[i]}) = 1
                        /\ Cardinality({i \in DOMAIN o.sent : o.sent[i] = f}) <= 1
  BY DEF OutKept
<1> DEFINE a == ToSet(o.fila)
           b == ToSet(o.sent)
           c == o.evicted
           places == <<a, b, c>>
           I == {i \in 1 .. 3 : f \in places[i]}
           J == {i \in DOMAIN o.sent : o.sent[i] = f}
<1>1. FramesPlaced(o.fila, o.sent, o.evicted, o.next) /\ o.sent \in Seq(Nat)
  BY DEF OutInv, OutState
<1>2. a \cap b = {} /\ a \cap c = {} /\ b \cap c = {} /\ (OutHigh \cup OutLow) \cap (1 .. o.next) \subseteq a \cup b \cup c
  BY <1>1 DEF FramesPlaced
<1>3. f \in OutHigh \cup OutLow => Cardinality(I) = 1
  <2> SUFFICES ASSUME f \in OutHigh \cup OutLow PROVE Cardinality(I) = 1
    OBVIOUS
  <2>1. f \in a \cup b \cup c
    BY <1>2
  <2> HIDE DEF a, b, c
  <2>2. places[1] = a /\ places[2] = b /\ places[3] = c /\ \A i \in 1 .. 3 : i = 1 \/ i = 2 \/ i = 3
    OBVIOUS
  <2> HIDE DEF places
  <2>3. I = {1} \/ I = {2} \/ I = {3}
    BY <1>2, <2>1, <2>2
  <2> HIDE DEF I
  <2> QED BY <2>3, CardOne
<1>4. Cardinality(J) <= 1
  <2>1. \A i, j \in J : i = j
    BY <1>1 DEF FramesPlaced, Once
  <2> HIDE DEF J
  <2>2. J = {} \/ \E i : J = {i}
    <3>1. \A i \in J : J = {i}
      BY <2>1
    <3> QED BY <3>1
  <2>3. CASE J = {}
    BY <2>3, CardEmpty
  <2>4. CASE \E i : J = {i}
    <3>1. PICK i : J = {i}
      BY <2>4
    <3> QED BY <3>1, CardOne
  <2> QED BY <2>2, <2>3, <2>4
<1> QED BY <1>3, <1>4

(* No critical frame is lost in the outbox or sent twice: at any time it   *)
(* has been given to the socket, waits in outboundQueue, or was pushed out *)
(* of it when it was full, whatever opens, clogs, throws or closes         *)
(* (main.ts, outbound-delivery.ts).                                        *)
THEOREM FramesAccountedFor == OutSpec => []OutKept
<1>1. OutInit => OutInv
  <2> SUFFICES ASSUME OutInit PROVE OutInv
    OBVIOUS
  <2>1. o \in OutState
    BY DEF OutInit, OutState
  <2>2. o.fila = <<>> /\ o.sent = <<>> /\ o.evicted = {} /\ o.next = 0
    BY DEF OutInit
  <2>3. Once(<<>>) /\ ToSet(<<>>) = {} /\ 1 .. 0 = {}
    BY DEF Once, ToSet
  <2>4. FramesPlaced(o.fila, o.sent, o.evicted, o.next)
    BY <2>2, <2>3 DEF FramesPlaced
  <2> QED BY <2>1, <2>4 DEF OutInv
<1>2. OutInv /\ [OutNext]_OutVars => OutInv'
  <2>1. OutInv /\ UNCHANGED OutVars => OutInv'
    BY DEF OutInv, OutVars
  <2> QED BY <2>1, OutStep
<1> QED BY <1>1, <1>2, OutCounted, PTL DEF OutSpec
-----------------------------------------------------------------------------
(* The connection *)

Messages == {"welcome", "spawn", "4000", "4001"}

LinkNames == {"at", "passivo", "net", "asks", "down", "cli", "owner", "ghost", "starts", "plain", "ousts", "faults"}

Shaped(s) == s = [f \in LinkNames |-> s[f]]

Ats == {"dead", "wait", "dial", "hello", "up"}
Nets == {"none", "ok", "lost"}
Asks == {"none", "active", "passive"}
Clis == {"none", "waiting", "run", "late"}

Typed(s) ==
    /\ s.at \in [LinkProcs -> Ats] /\ s.passivo \in [LinkProcs -> BOOLEAN] /\ s.net \in [LinkProcs -> Nets]
    /\ s.asks \in [LinkProcs -> Asks] /\ s.down \in [LinkProcs -> Seq(Messages)] /\ s.cli \in [LinkProcs -> Clis]
    /\ s.owner \in LinkProcs \cup {0} /\ s.starts \in Nat /\ s.plain \in Nat /\ s.ousts \in Nat

(* What a connection that is not there has, who says a passive hello, and  *)
(* in what order the messages of one that is accepted, or refused, come.   *)
Line(s, p) ==
    /\ s.at[p] \in {"dead", "wait", "dial"} => s.asks[p] = "none" /\ s.down[p] = <<>> /\ s.net[p] = "none"
    /\ s.asks[p] = "passive" => s.passivo[p]
    /\ s.asks[p] # "none" => \A i \in 1 .. Len(s.down[p]) : s.down[p][i] # "welcome"
    /\ \A i \in 1 .. Len(s.down[p]) :
          /\ s.down[p][i] = "4001" => s.passivo[p] /\ \A j \in 1 .. Len(s.down[p]) : s.down[p][j] # "welcome"
          /\ s.down[p][i] = "4000" => s.ousts > 0
          /\ s.down[p][i] = "spawn" => IF i = 1 THEN ~s.passivo[p] ELSE s.down[p][i - 1] = "welcome"
    /\ s.passivo[p] => s.cli[p] # "run"

(* p has a normal hello to say, or has said one that is not heard yet. *)
HasHello(s, p) == (s.at[p] \in {"wait", "dial"} /\ ~s.passivo[p]) \/ s.asks[p] = "active"

(* Somebody has been accepted. *)
Engaged(s) == s.owner # 0 \/ s.ousts > 0 \/ \E p \in LinkProcs : s.passivo[p]

(* The normal hellos there will have been, but for those that took a live  *)
(* connection and the first that took none.                                *)
LocksHeld(s) == IF Engaged(s) THEN 1 ELSE 0
Budget(s) == s.starts + s.plain - s.ousts - LocksHeld(s)

Fits(S, n) == \E f \in [S -> 1 .. n] : \A x, y \in S : f[x] = f[y] => x = y

HellosCounted(s) == Budget(s) \in Nat /\ Fits({p \in LinkProcs : HasHello(s, p)}, Budget(s))

LinkGood(s) == Shaped(s) /\ Typed(s) /\ (\A p \in LinkProcs : Line(s, p)) /\ HellosCounted(s)

LinkInv == LinkGood(k)

(* Fewer hellos fit where more did.                                        *)
LEMMA FitsSub ==
    ASSUME NEW S, NEW T \in SUBSET S, NEW m \in Nat, NEW n \in Nat, m <= n, Fits(S, m)
    PROVE  Fits(T, n)
<1>1. PICK f \in [S -> 1 .. m] : \A x, y \in S : f[x] = f[y] => x = y
  BY DEF Fits
<1> DEFINE g == [x \in T |-> f[x]]
<1>2. 1 .. m \subseteq 1 .. n
  OBVIOUS
<1>3. g \in [T -> 1 .. n]
  BY <1>2
<1>4. \A x, y \in T : g[x] = g[y] => x = y
  BY <1>1
<1> QED BY <1>3, <1>4 DEF Fits

(* One hello more fits in a budget that is one larger.                     *)
LEMMA FitsMore ==
    ASSUME NEW S, NEW T, NEW p, T \subseteq S \cup {p}, NEW m \in Nat, Fits(S, m)
    PROVE  Fits(T, m + 1)
<1>1. PICK f \in [S -> 1 .. m] : \A x, y \in S : f[x] = f[y] => x = y
  BY DEF Fits
<1> DEFINE g == [x \in T |-> IF x \in S THEN f[x] ELSE m + 1]
<1>2. m + 1 \in 1 .. m + 1 /\ m + 1 \notin 1 .. m /\ 1 .. m \subseteq 1 .. m + 1
  OBVIOUS
<1>3. g \in [T -> 1 .. m + 1]
  BY <1>2
<1>4. \A x, y \in T : g[x] = g[y] => x = y
  BY <1>1, <1>2
<1> QED BY <1>3, <1>4 DEF Fits

(* One hello said, the others fit in a budget that is one smaller.         *)
LEMMA FitsLess ==
    ASSUME NEW S, NEW p \in S, NEW m \in Nat, Fits(S, m)
    PROVE  m - 1 \in Nat /\ Fits(S \ {p}, m - 1)
<1>1. PICK f \in [S -> 1 .. m] : \A x, y \in S : f[x] = f[y] => x = y
  BY DEF Fits
<1> DEFINE g == [x \in S \ {p} |-> IF f[x] = m THEN f[p] ELSE f[x]]
<1>2. m - 1 \in Nat /\ m \in 1 .. m /\ \A i \in 1 .. m : i # m => i \in 1 .. m - 1
  BY <1>1
<1>3. \A x \in S \ {p} : g[x] \in 1 .. m - 1
  <2> SUFFICES ASSUME NEW x \in S \ {p} PROVE g[x] \in 1 .. m - 1
    OBVIOUS
  <2>1. f[x] \in 1 .. m /\ f[p] \in 1 .. m /\ f[x] # f[p]
    BY <1>1
  <2> QED BY <1>2, <2>1
<1>4. \A x, y \in S \ {p} : g[x] = g[y] => x = y
  BY <1>1
<1>5. g = [x \in S \ {p} |-> g[x]]
  OBVIOUS
<1> HIDE DEF g
<1>6. g \in [S \ {p} -> 1 .. m - 1]
  BY <1>3, <1>5
<1> QED BY <1>2, <1>4, <1>6 DEF Fits

(* Nothing but p has changed. *)
Only(s, n, p) ==
    \A q \in LinkProcs \ {p} :
       /\ n.at[q] = s.at[q] /\ n.passivo[q] = s.passivo[q] /\ n.net[q] = s.net[q]
       /\ n.asks[q] = s.asks[q] /\ n.down[q] = s.down[q] /\ n.cli[q] = s.cli[q]

(* A step of one daemon leaves the others in line.                         *)
LEMMA OneLine ==
    ASSUME NEW s, NEW n, NEW p \in LinkProcs, \A q \in LinkProcs : Line(s, q), Only(s, n, p), Line(n, p),
           Typed(s), Typed(n), s.ousts <= n.ousts
    PROVE  \A q \in LinkProcs : Line(n, q)
<1> SUFFICES ASSUME NEW q \in LinkProcs, q # p PROVE Line(n, q)
  OBVIOUS
<1>1. /\ n.at[q] = s.at[q] /\ n.passivo[q] = s.passivo[q] /\ n.net[q] = s.net[q]
      /\ n.asks[q] = s.asks[q] /\ n.down[q] = s.down[q] /\ n.cli[q] = s.cli[q]
  BY DEF Only
<1>2. Line(s, q)
  OBVIOUS
<1>3. s.ousts > 0 => n.ousts > 0
  BY DEF Typed
<1> QED BY <1>1, <1>2, <1>3 DEF Line

(* The accounts, when p has one more normal hello to say, *)
LEMMA Gains ==
    ASSUME NEW s, NEW n, NEW p \in LinkProcs, Typed(s), Typed(n), HellosCounted(s), Only(s, n, p),
           n.starts + n.plain = s.starts + s.plain + 1, n.ousts = s.ousts, Engaged(n) => Engaged(s)
    PROVE  HellosCounted(n)
<1> DEFINE S == {q \in LinkProcs : HasHello(s, q)}
           T == {q \in LinkProcs : HasHello(n, q)}
<1>1. Budget(s) \in Nat /\ Fits(S, Budget(s))
  BY DEF HellosCounted
<1>2. T \subseteq S \cup {p}
  BY DEF Only, HasHello
<1> HIDE DEF S, T
<1>3. Fits(T, Budget(s) + 1)
  BY <1>1, <1>2, FitsMore
<1>4. Budget(n) \in Nat /\ Budget(s) + 1 <= Budget(n)
  <2>1. LocksHeld(s) \in 0 .. 1 /\ LocksHeld(n) \in 0 .. 1 /\ LocksHeld(n) <= LocksHeld(s)
    BY DEF LocksHeld
  <2>2. n.starts \in Nat /\ n.plain \in Nat /\ n.ousts \in Nat /\ s.starts \in Nat /\ s.plain \in Nat /\ s.ousts \in Nat
    BY DEF Typed
  <2> QED BY <1>1, <2>1, <2>2 DEF Budget
<1>5. Fits(T, Budget(n))
  BY <1>1, <1>3, <1>4, FitsSub
<1> QED BY <1>4, <1>5 DEF HellosCounted, T

(* when it has none it had not, *)
LEMMA Keeps ==
    ASSUME NEW s, NEW n, NEW p \in LinkProcs, Typed(s), Typed(n), HellosCounted(s), Only(s, n, p),
           HasHello(n, p) => HasHello(s, p),
           n.starts + n.plain = s.starts + s.plain, n.ousts = s.ousts, Engaged(n) => Engaged(s)
    PROVE  HellosCounted(n)
<1> DEFINE S == {q \in LinkProcs : HasHello(s, q)}
           T == {q \in LinkProcs : HasHello(n, q)}
<1>1. Budget(s) \in Nat /\ Fits(S, Budget(s))
  BY DEF HellosCounted
<1>2. T \subseteq S
  BY DEF Only, HasHello
<1> HIDE DEF S, T
<1>3. Budget(n) \in Nat /\ Budget(s) <= Budget(n)
  <2>1. LocksHeld(s) \in 0 .. 1 /\ LocksHeld(n) \in 0 .. 1 /\ LocksHeld(n) <= LocksHeld(s)
    BY DEF LocksHeld
  <2>2. n.starts \in Nat /\ n.plain \in Nat /\ n.ousts \in Nat /\ s.starts \in Nat /\ s.plain \in Nat /\ s.ousts \in Nat
    BY DEF Typed
  <2> QED BY <1>1, <2>1, <2>2 DEF Budget
<1>4. Fits(T, Budget(n))
  BY <1>1, <1>2, <1>3, FitsSub
<1> QED BY <1>3, <1>4 DEF HellosCounted, T

(* and when the one it had is heard. *)
LEMMA Spends ==
    ASSUME NEW s, NEW n, NEW p \in LinkProcs, Typed(s), Typed(n), HellosCounted(s),
           \A q \in LinkProcs \ {p} : HasHello(n, q) => HasHello(s, q), HasHello(s, p), ~HasHello(n, p),
           n.starts + n.plain = s.starts + s.plain, n.ousts = s.ousts \/ (n.ousts = s.ousts + 1 /\ Engaged(s))
    PROVE  HellosCounted(n)
<1> DEFINE S == {q \in LinkProcs : HasHello(s, q)}
           T == {q \in LinkProcs : HasHello(n, q)}
<1>1. Budget(s) \in Nat /\ Fits(S, Budget(s)) /\ p \in S
  BY DEF HellosCounted
<1>2. T \subseteq S \ {p}
  OBVIOUS
<1> HIDE DEF S, T
<1>3. Budget(s) - 1 \in Nat /\ Fits(S \ {p}, Budget(s) - 1)
  BY <1>1, FitsLess
<1>4. Budget(n) \in Nat /\ Budget(s) - 1 <= Budget(n)
  <2>1. LocksHeld(s) \in 0 .. 1 /\ LocksHeld(n) \in 0 .. 1 /\ (Engaged(s) => LocksHeld(s) = 1)
    BY DEF LocksHeld
  <2>2. n.starts \in Nat /\ n.plain \in Nat /\ n.ousts \in Nat /\ s.starts \in Nat /\ s.plain \in Nat /\ s.ousts \in Nat
    BY DEF Typed
  <2>3. n.ousts = s.ousts \/ (n.ousts = s.ousts + 1 /\ LocksHeld(s) = 1)
    BY <2>1
  <2> QED BY <1>3, <2>1, <2>2, <2>3 DEF Budget
<1>5. Fits(T, Budget(n))
  BY <1>2, <1>3, <1>4, FitsSub
<1> QED BY <1>4, <1>5 DEF HellosCounted, T

(* The fields of Gone.                                                     *)
LEMMA GoneIs ==
    ASSUME NEW s, Shaped(s), NEW p
    PROVE  /\ Shaped(Gone(s, p))
           /\ Gone(s, p).net = [s.net EXCEPT ![p] = "none"] /\ Gone(s, p).asks = [s.asks EXCEPT ![p] = "none"]
           /\ Gone(s, p).down = [s.down EXCEPT ![p] = <<>>]
           /\ Gone(s, p).at = s.at /\ Gone(s, p).passivo = s.passivo /\ Gone(s, p).cli = s.cli
           /\ Gone(s, p).owner = s.owner /\ Gone(s, p).starts = s.starts /\ Gone(s, p).plain = s.plain
           /\ Gone(s, p).ousts = s.ousts
<1>1. DOMAIN s = LinkNames
  BY DEF Shaped
<1>2. Shaped(Gone(s, p))
  BY <1>1 DEF Shaped, Gone, LinkNames
<1> QED BY <1>1, <1>2 DEF Gone, LinkNames

(* The fields of the state.                                                *)
LEMMA ShapedDomain ==
    ASSUME NEW s, Shaped(s)
    PROVE  DOMAIN s = LinkNames
BY DEF Shaped

(* The counters are numbers.                                               *)
LEMMA TypedNumbers ==
    ASSUME NEW s, Typed(s)
    PROVE  s.starts \in Nat /\ s.plain \in Nat /\ s.ousts \in Nat
BY DEF Typed

(* The fields of ClosePlain.                                               *)
LEMMA ClosePlainIs ==
    ASSUME NEW s, Shaped(s), NEW p
    PROVE  /\ Shaped(ClosePlain(s, p))
           /\ ClosePlain(s, p).at = [s.at EXCEPT ![p] = "wait"]
           /\ ClosePlain(s, p).passivo = [s.passivo EXCEPT ![p] = FALSE]
           /\ ClosePlain(s, p).net = [s.net EXCEPT ![p] = "none"]
           /\ ClosePlain(s, p).asks = [s.asks EXCEPT ![p] = "none"]
           /\ ClosePlain(s, p).down = [s.down EXCEPT ![p] = <<>>]
           /\ ClosePlain(s, p).plain = s.plain + 1 /\ ClosePlain(s, p).cli = s.cli
           /\ ClosePlain(s, p).owner = s.owner /\ ClosePlain(s, p).starts = s.starts
           /\ ClosePlain(s, p).ousts = s.ousts
<1> DEFINE g == Gone(s, p)
<1>0. /\ Shaped(g)
      /\ g.net = [s.net EXCEPT ![p] = "none"] /\ g.asks = [s.asks EXCEPT ![p] = "none"] /\ g.down = [s.down EXCEPT ![p] = <<>>]
      /\ g.at = s.at /\ g.passivo = s.passivo /\ g.cli = s.cli
      /\ g.owner = s.owner /\ g.starts = s.starts /\ g.plain = s.plain /\ g.ousts = s.ousts
  BY GoneIs, ZenonT(60)
<1> HIDE DEF g
<1>1. DOMAIN g = LinkNames
  BY <1>0, ShapedDomain
<1>2. ClosePlain(s, p) = AgendarConnect([g EXCEPT !.passivo[p] = FALSE, !.plain = @ + 1], p)
  BY DEF ClosePlain, g
<1>3. Shaped(ClosePlain(s, p))
  BY <1>1, <1>2 DEF Shaped, AgendarConnect, LinkNames
<1>4. /\ ClosePlain(s, p).at = [g.at EXCEPT ![p] = "wait"]
      /\ ClosePlain(s, p).passivo = [g.passivo EXCEPT ![p] = FALSE]
      /\ ClosePlain(s, p).net = g.net /\ ClosePlain(s, p).asks = g.asks /\ ClosePlain(s, p).down = g.down
      /\ ClosePlain(s, p).plain = g.plain + 1 /\ ClosePlain(s, p).cli = g.cli
      /\ ClosePlain(s, p).owner = g.owner /\ ClosePlain(s, p).starts = g.starts
      /\ ClosePlain(s, p).ousts = g.ousts
  BY <1>1, <1>2 DEF AgendarConnect, LinkNames
<1> QED BY <1>0, <1>3, <1>4

(* A close that is no handoff puts the daemon back in line.                *)
LEMMA PlainCloses ==
    ASSUME NEW s, LinkGood(s), NEW p \in LinkProcs
    PROVE  LinkGood(ClosePlain(s, p))
<1> DEFINE n == ClosePlain(s, p)
<1>0. Shaped(s) /\ Typed(s) /\ HellosCounted(s) /\ \A q \in LinkProcs : Line(s, q)
  BY DEF LinkGood
<1>1. /\ Shaped(n) /\ n.at = [s.at EXCEPT ![p] = "wait"] /\ n.passivo = [s.passivo EXCEPT ![p] = FALSE]
      /\ n.net = [s.net EXCEPT ![p] = "none"] /\ n.asks = [s.asks EXCEPT ![p] = "none"]
      /\ n.down = [s.down EXCEPT ![p] = <<>>] /\ n.plain = s.plain + 1 /\ n.cli = s.cli
      /\ n.owner = s.owner /\ n.starts = s.starts /\ n.ousts = s.ousts
  BY <1>0, ClosePlainIs, ZenonT(60)
<1> HIDE DEF n
<1>2. Typed(n)
  BY <1>0, <1>1 DEF Typed, Ats, Nets, Asks
<1>3. Only(s, n, p)
  BY <1>0, <1>1 DEF Only, Typed
<1>4. Line(n, p)
  BY <1>0, <1>1 DEF Line, Typed
<1>5. Engaged(n) => Engaged(s)
  BY <1>0, <1>1 DEF Engaged, Typed
<1>6. n.starts + n.plain = s.starts + s.plain + 1 /\ n.ousts = s.ousts /\ s.ousts <= n.ousts
  <2>1. s.starts \in Nat /\ s.plain \in Nat /\ s.ousts \in Nat
    BY <1>0, TypedNumbers
  <2> QED BY <1>1, <2>1
<1>7. HellosCounted(n)
  BY <1>0, <1>2, <1>3, <1>5, <1>6, Gains
<1> QED BY <1>0, <1>1, <1>2, <1>3, <1>4, <1>6, <1>7, OneLine DEF LinkGood, n

(* A process that lost the token, or did not get it, with cli for its CLIs. *)
Rested(s, n, p, cli) ==
    /\ n.at = [s.at EXCEPT ![p] = "wait"] /\ n.passivo = [s.passivo EXCEPT ![p] = TRUE]
    /\ n.net = [s.net EXCEPT ![p] = "none"] /\ n.asks = [s.asks EXCEPT ![p] = "none"]
    /\ n.down = [s.down EXCEPT ![p] = <<>>] /\ n.cli = [s.cli EXCEPT ![p] = cli]
    /\ n.owner = s.owner /\ n.starts = s.starts /\ n.plain = s.plain /\ n.ousts = s.ousts

(* What the two handoff closes do to the invariant.                        *)
LEMMA LinkRests ==
    ASSUME NEW s, LinkGood(s), NEW p \in LinkProcs, NEW cli \in Clis \ {"run"}, Engaged(s),
           NEW n, Shaped(n), Rested(s, n, p, cli)
    PROVE  LinkGood(n)
<1>0. Shaped(s) /\ Typed(s) /\ HellosCounted(s) /\ \A q \in LinkProcs : Line(s, q)
  BY DEF LinkGood
<1>1. Typed(n)
  BY <1>0 DEF Rested, Typed, Ats, Nets, Asks
<1>2. Only(s, n, p)
  BY <1>0 DEF Rested, Only, Typed
<1>3. Line(n, p) /\ ~HasHello(n, p)
  BY <1>0 DEF Rested, Line, Typed, HasHello
<1>4. n.starts + n.plain = s.starts + s.plain /\ n.ousts = s.ousts /\ s.ousts <= n.ousts
  <2>1. s.starts \in Nat /\ s.plain \in Nat /\ s.ousts \in Nat
    BY <1>0, TypedNumbers
  <2>2. n.starts = s.starts /\ n.plain = s.plain /\ n.ousts = s.ousts
    BY DEF Rested
  <2> QED BY <2>1, <2>2
<1>5. HellosCounted(n)
  BY <1>0, <1>1, <1>2, <1>3, <1>4, Keeps
<1> QED BY <1>0, <1>1, <1>2, <1>3, <1>4, <1>5, OneLine DEF LinkGood

(* The fields of CloseHandoff.                                             *)
LEMMA CloseHandoffIs ==
    ASSUME NEW s, Shaped(s), s.cli \in [LinkProcs -> Clis], NEW p \in LinkProcs, NEW occupied \in BOOLEAN
    PROVE  /\ Shaped(CloseHandoff(s, p, occupied))
           /\ Rested(s, CloseHandoff(s, p, occupied), p,
                     IF occupied \/ s.cli[p] = "waiting" THEN s.cli[p] ELSE "none")
<1> DEFINE n == CloseHandoff(s, p, occupied)
           g == Gone(s, p)
           t == [g EXCEPT !.passivo[p] = TRUE]
           cli == IF occupied \/ s.cli[p] = "waiting" THEN s.cli[p] ELSE "none"
<1>0. /\ Shaped(g)
      /\ g.net = [s.net EXCEPT ![p] = "none"] /\ g.asks = [s.asks EXCEPT ![p] = "none"] /\ g.down = [s.down EXCEPT ![p] = <<>>]
      /\ g.at = s.at /\ g.passivo = s.passivo /\ g.cli = s.cli
      /\ g.owner = s.owner /\ g.starts = s.starts /\ g.plain = s.plain /\ g.ousts = s.ousts
  BY GoneIs, ZenonT(60)
<1>1. n = AgendarConnect(IF occupied THEN t ELSE StopLocalClis(t, p), p)
  BY DEF CloseHandoff, AgendarRetomadaPassiva
<1> HIDE DEF g, n
<1>2. DOMAIN g = LinkNames
  BY <1>0, ShapedDomain
<1>3. /\ DOMAIN t = LinkNames
      /\ t.at = g.at /\ t.passivo = [g.passivo EXCEPT ![p] = TRUE] /\ t.net = g.net /\ t.asks = g.asks /\ t.down = g.down
      /\ t.owner = g.owner /\ t.starts = g.starts /\ t.plain = g.plain /\ t.ousts = g.ousts /\ t.cli = g.cli
  BY <1>2 DEF LinkNames
<1> HIDE DEF t
<1>4. Shaped(n)
  BY <1>1, <1>3 DEF Shaped, AgendarConnect, StopLocalClis, LinkNames
<1>5. /\ n.at = [t.at EXCEPT ![p] = "wait"] /\ n.passivo = t.passivo /\ n.net = t.net /\ n.asks = t.asks /\ n.down = t.down
      /\ n.owner = t.owner /\ n.starts = t.starts /\ n.plain = t.plain /\ n.ousts = t.ousts
  BY <1>1, <1>3 DEF AgendarConnect, StopLocalClis, LinkNames
<1>6. n.cli = [s.cli EXCEPT ![p] = cli]
  <2>1. CASE occupied
    <3>1. n.cli = s.cli
      BY <1>0, <1>1, <1>3, <2>1 DEF AgendarConnect, LinkNames
    <3> QED BY <2>1, <3>1
  <2>2. CASE ~occupied
    <3>1. n.cli = [s.cli EXCEPT ![p] = IF @ = "waiting" THEN @ ELSE "none"]
      BY <1>0, <1>1, <1>3, <2>2 DEF AgendarConnect, StopLocalClis, LinkNames
    <3> QED BY <2>2, <3>1
  <2> QED BY <2>1, <2>2
<1> HIDE DEF cli
<1>7. Rested(s, n, p, cli)
  BY <1>0, <1>3, <1>5, <1>6 DEF Rested
<1> QED BY <1>4, <1>7 DEF n, cli

(* 4000 or 4001. *)
HandedOff(s, p) == s.down[p] # <<>> /\ Head(s.down[p]) \in {"4000", "4001"}

(* A handoff is told only to a daemon that another one has replaced.       *)
LEMMA HandoffEngaged ==
    ASSUME NEW s, LinkGood(s), NEW p \in LinkProcs, HandedOff(s, p)
    PROVE  Engaged(s) /\ (Head(s.down[p]) = "4001" => s.cli[p] # "run")
<1>1. s.down[p] \in Seq(Messages) /\ s.down[p] # <<>>
  BY DEF Typed, LinkGood, HandedOff
<1>2. 1 \in 1 .. Len(s.down[p]) /\ Head(s.down[p]) = s.down[p][1]
  BY <1>1
<1>3. Line(s, p)
  BY DEF LinkGood
<1>4. s.down[p][1] = "4001" => s.passivo[p] /\ s.cli[p] # "run"
  BY <1>2, <1>3 DEF Line
<1>5. s.down[p][1] = "4000" => s.ousts > 0
  BY <1>2, <1>3 DEF Line
<1>6. s.down[p][1] = "4000" \/ s.down[p][1] = "4001"
  BY <1>2 DEF HandedOff
<1> QED BY <1>2, <1>4, <1>5, <1>6 DEF Engaged

(* A handoff close keeps the invariant.                                    *)
LEMMA HandsOff ==
    ASSUME NEW s, LinkGood(s), NEW p \in LinkProcs, HandedOff(s, p)
    PROVE  LinkGood(CloseHandoff(s, p, Head(s.down[p]) = "4001"))
<1>1. Engaged(s) /\ (Head(s.down[p]) = "4001" => s.cli[p] # "run")
  BY HandoffEngaged
<1>2. Shaped(s) /\ s.cli \in [LinkProcs -> Clis]
  BY DEF LinkGood, Typed
<1>3. PICK occupied \in BOOLEAN : occupied = (Head(s.down[p]) = "4001")
  OBVIOUS
<1> DEFINE n == CloseHandoff(s, p, occupied)
           cli == IF occupied \/ s.cli[p] = "waiting" THEN s.cli[p] ELSE "none"
<1>4. Shaped(n) /\ Rested(s, n, p, cli)
  BY <1>2, CloseHandoffIs
<1>5. cli \in Clis \ {"run"}
  BY <1>1, <1>2, <1>3 DEF Clis
<1>6. LinkGood(n)
  <2> HIDE DEF cli, n
  <2> QED BY <1>1, <1>4, <1>5, LinkRests
<1> QED BY <1>3, <1>6

(* A daemon starts: a hello more, and a start more to pay it.              *)
LEMMA Starts ==
    ASSUME LinkInv, NEW p \in LinkProcs, StartProc(p)
    PROVE  LinkInv'
<1>0. Shaped(k) /\ Typed(k) /\ HellosCounted(k) /\ \A q \in LinkProcs : Line(k, q)
  BY DEF LinkInv, LinkGood
<1>1. Shaped(k')
  <2>1. DOMAIN k = LinkNames
    BY <1>0, ShapedDomain
  <2> QED BY <2>1 DEF StartProc, Shaped, LinkNames
<1>2. /\ k'.at = [k.at EXCEPT ![p] = "dial"] /\ k'.passivo = [k.passivo EXCEPT ![p] = FALSE] /\ k'.net = k.net
      /\ k'.asks = k.asks /\ k'.down = k.down /\ k'.cli = k.cli
      /\ k'.owner = k.owner /\ k'.starts = k.starts + 1 /\ k'.plain = k.plain
      /\ k'.ousts = k.ousts
  <2>1. DOMAIN k = LinkNames
    BY <1>0, ShapedDomain
  <2> QED BY <2>1 DEF StartProc, LinkNames
<1>3. Typed(k')
  BY <1>0, <1>2 DEF Typed, Ats, Nets, Asks, Clis
<1>4. Only(k, k', p)
  BY <1>0, <1>2 DEF Only, Typed
<1>5. Line(k', p)
  BY <1>0, <1>2 DEF Line, Typed, StartProc, Lives
<1>6. k'.starts + k'.plain = k.starts + k.plain + 1 /\ k'.ousts = k.ousts /\ k.ousts <= k'.ousts
  <2>1. k.starts \in Nat /\ k.plain \in Nat /\ k.ousts \in Nat
    BY <1>0, TypedNumbers
  <2> QED BY <1>2, <2>1
<1>7. Engaged(k') => Engaged(k)
  BY <1>0, <1>2 DEF Engaged, Typed
<1>8. HellosCounted(k')
  BY <1>0, <1>3, <1>4, <1>6, <1>7, Gains
<1> QED BY <1>0, <1>1, <1>3, <1>4, <1>5, <1>6, <1>8, OneLine DEF LinkInv, LinkGood

(* The timer of the reconnection.                                          *)
LEMMA Times ==
    ASSUME LinkInv, NEW p \in LinkProcs, ConnectTimer(p)
    PROVE  LinkInv'
<1>0. Shaped(k) /\ Typed(k) /\ HellosCounted(k) /\ \A q \in LinkProcs : Line(k, q)
  BY DEF LinkInv, LinkGood
<1>1. Shaped(k')
  <2>1. DOMAIN k = LinkNames
    BY <1>0, ShapedDomain
  <2> QED BY <2>1 DEF ConnectTimer, Shaped, LinkNames
<1>2. /\ k'.at = [k.at EXCEPT ![p] = "dial"] /\ k'.passivo = k.passivo /\ k'.net = k.net
      /\ k'.asks = k.asks /\ k'.down = k.down /\ k'.cli = k.cli
      /\ k'.owner = k.owner /\ k'.starts = k.starts /\ k'.plain = k.plain
      /\ k'.ousts = k.ousts
  <2>1. DOMAIN k = LinkNames
    BY <1>0, ShapedDomain
  <2> QED BY <2>1 DEF ConnectTimer, LinkNames
<1>3. Typed(k')
  BY <1>0, <1>2 DEF Typed, Ats, Nets, Asks, Clis
<1>4. Only(k, k', p)
  BY <1>0, <1>2 DEF Only, Typed
<1>5. Line(k', p)
  BY <1>0, <1>2 DEF Line, Typed, ConnectTimer
<1>6. k'.starts + k'.plain = k.starts + k.plain /\ k'.ousts = k.ousts /\ k.ousts <= k'.ousts
  <2>1. k.starts \in Nat /\ k.plain \in Nat /\ k.ousts \in Nat
    BY <1>0, TypedNumbers
  <2> QED BY <1>2, <2>1
<1>7. (Engaged(k') => Engaged(k)) /\ (HasHello(k', p) => HasHello(k, p))
  BY <1>0, <1>2 DEF Engaged, HasHello, Typed, ConnectTimer
<1>8. HellosCounted(k')
  BY <1>0, <1>3, <1>4, <1>6, <1>7, Keeps
<1> QED BY <1>0, <1>1, <1>3, <1>4, <1>5, <1>6, <1>8, OneLine DEF LinkInv, LinkGood

(* A socket that opens.                                                    *)
LEMMA SaysHello ==
    ASSUME LinkInv, NEW p \in LinkProcs, Opens(p)
    PROVE  LinkInv'
<1>0. Shaped(k) /\ Typed(k) /\ HellosCounted(k) /\ \A q \in LinkProcs : Line(k, q)
  BY DEF LinkInv, LinkGood
<1>1. Shaped(k')
  <2>1. DOMAIN k = LinkNames
    BY <1>0, ShapedDomain
  <2> QED BY <2>1 DEF Opens, Shaped, LinkNames
<1>2. /\ k'.at = [k.at EXCEPT ![p] = "hello"] /\ k'.passivo = k.passivo /\ k'.net = [k.net EXCEPT ![p] = "ok"]
      /\ k'.asks = [k.asks EXCEPT ![p] = IF k.passivo[p] THEN "passive" ELSE "active"] /\ k'.down = k.down /\ k'.cli = k.cli
      /\ k'.owner = k.owner /\ k'.starts = k.starts /\ k'.plain = k.plain
      /\ k'.ousts = k.ousts
  <2>1. DOMAIN k = LinkNames
    BY <1>0, ShapedDomain
  <2> QED BY <2>1 DEF Opens, LinkNames
<1>3. Typed(k')
  BY <1>0, <1>2 DEF Typed, Ats, Nets, Asks, Clis
<1>4. Only(k, k', p)
  BY <1>0, <1>2 DEF Only, Typed
<1>5. Line(k', p)
  BY <1>0, <1>2 DEF Line, Typed, Opens
<1>6. k'.starts + k'.plain = k.starts + k.plain /\ k'.ousts = k.ousts /\ k.ousts <= k'.ousts
  <2>1. k.starts \in Nat /\ k.plain \in Nat /\ k.ousts \in Nat
    BY <1>0, TypedNumbers
  <2> QED BY <1>2, <2>1
<1>7. (Engaged(k') => Engaged(k)) /\ (HasHello(k', p) => HasHello(k, p))
  BY <1>0, <1>2 DEF Engaged, HasHello, Typed, Opens
<1>8. HellosCounted(k')
  BY <1>0, <1>3, <1>4, <1>6, <1>7, Keeps
<1> QED BY <1>0, <1>1, <1>3, <1>4, <1>5, <1>6, <1>8, OneLine DEF LinkInv, LinkGood

(* A connection that is lost.                                              *)
LEMMA Loses ==
    ASSUME LinkInv, NEW p \in LinkProcs, LinkLost(p)
    PROVE  LinkInv'
<1>0. Shaped(k) /\ Typed(k) /\ HellosCounted(k) /\ \A q \in LinkProcs : Line(k, q)
  BY DEF LinkInv, LinkGood
<1>1. Shaped(k')
  <2>1. DOMAIN k = LinkNames
    BY <1>0, ShapedDomain
  <2> QED BY <2>1 DEF LinkLost, Shaped, LinkNames
<1>2. /\ k'.at = k.at /\ k'.passivo = k.passivo /\ k'.net = [k.net EXCEPT ![p] = "lost"]
      /\ k'.asks = [k.asks EXCEPT ![p] = "none"] /\ k'.down = [k.down EXCEPT ![p] = <<>>] /\ k'.cli = k.cli
      /\ k'.owner = k.owner /\ k'.starts = k.starts /\ k'.plain = k.plain
      /\ k'.ousts = k.ousts
  <2>1. DOMAIN k = LinkNames
    BY <1>0, ShapedDomain
  <2> QED BY <2>1 DEF LinkLost, LinkNames
<1>3. Typed(k')
  BY <1>0, <1>2 DEF Typed, Ats, Nets, Asks, Clis
<1>4. Only(k, k', p)
  BY <1>0, <1>2 DEF Only, Typed
<1>5. Line(k', p)
  BY <1>0, <1>2 DEF Line, Typed, LinkLost
<1>6. k'.starts + k'.plain = k.starts + k.plain /\ k'.ousts = k.ousts /\ k.ousts <= k'.ousts
  <2>1. k.starts \in Nat /\ k.plain \in Nat /\ k.ousts \in Nat
    BY <1>0, TypedNumbers
  <2> QED BY <1>2, <2>1
<1>7. (Engaged(k') => Engaged(k)) /\ (HasHello(k', p) => HasHello(k, p))
  BY <1>0, <1>2 DEF Engaged, HasHello, Typed, LinkLost
<1>8. HellosCounted(k')
  BY <1>0, <1>3, <1>4, <1>6, <1>7, Keeps
<1> QED BY <1>0, <1>1, <1>3, <1>4, <1>5, <1>6, <1>8, OneLine DEF LinkInv, LinkGood

(* The wait for the spawn ends.                                            *)
LEMMA EndsWait ==
    ASSUME LinkInv, NEW p \in LinkProcs, SpawnWaitEnds(p)
    PROVE  LinkInv'
<1>0. Shaped(k) /\ Typed(k) /\ HellosCounted(k) /\ \A q \in LinkProcs : Line(k, q)
  BY DEF LinkInv, LinkGood
<1>1. Shaped(k')
  <2>1. DOMAIN k = LinkNames
    BY <1>0, ShapedDomain
  <2> QED BY <2>1 DEF SpawnWaitEnds, Shaped, LinkNames
<1>2. /\ k'.at = k.at /\ k'.passivo = k.passivo /\ k'.net = k.net
      /\ k'.asks = k.asks /\ k'.down = k.down /\ k'.cli = [k.cli EXCEPT ![p] = IF k.passivo[p] THEN "late" ELSE "run"]
      /\ k'.owner = k.owner /\ k'.starts = k.starts /\ k'.plain = k.plain
      /\ k'.ousts = k.ousts
  <2>1. DOMAIN k = LinkNames
    BY <1>0, ShapedDomain
  <2> QED BY <2>1 DEF SpawnWaitEnds, LinkNames
<1>3. Typed(k')
  BY <1>0, <1>2 DEF Typed, Ats, Nets, Asks, Clis
<1>4. Only(k, k', p)
  BY <1>0, <1>2 DEF Only, Typed
<1>5. Line(k', p)
  BY <1>0, <1>2 DEF Line, Typed, SpawnWaitEnds
<1>6. k'.starts + k'.plain = k.starts + k.plain /\ k'.ousts = k.ousts /\ k.ousts <= k'.ousts
  <2>1. k.starts \in Nat /\ k.plain \in Nat /\ k.ousts \in Nat
    BY <1>0, TypedNumbers
  <2> QED BY <1>2, <2>1
<1>7. (Engaged(k') => Engaged(k)) /\ (HasHello(k', p) => HasHello(k, p))
  BY <1>0, <1>2 DEF Engaged, HasHello, Typed, SpawnWaitEnds
<1>8. HellosCounted(k')
  BY <1>0, <1>3, <1>4, <1>6, <1>7, Keeps
<1> QED BY <1>0, <1>1, <1>3, <1>4, <1>5, <1>6, <1>8, OneLine DEF LinkInv, LinkGood

(* A daemon that dies.                                                     *)
LEMMA DaemonDies ==
    ASSUME LinkInv, NEW p \in LinkProcs, ProcDies(p)
    PROVE  LinkInv'
<1>0. Shaped(k) /\ Typed(k) /\ HellosCounted(k) /\ \A q \in LinkProcs : Line(k, q)
  BY DEF LinkInv, LinkGood
<1> DEFINE g == Gone(k, p)
<1>a. /\ Shaped(g)
      /\ g.net = [k.net EXCEPT ![p] = "none"] /\ g.asks = [k.asks EXCEPT ![p] = "none"] /\ g.down = [k.down EXCEPT ![p] = <<>>]
      /\ g.at = k.at /\ g.passivo = k.passivo /\ g.cli = k.cli
      /\ g.owner = k.owner /\ g.starts = k.starts /\ g.plain = k.plain /\ g.ousts = k.ousts
  BY <1>0, GoneIs, ZenonT(60)
<1>b. k' = [g EXCEPT !.at[p] = "dead", !.cli[p] = "none", !.faults = @ + 1]
  BY DEF ProcDies
<1> HIDE DEF g
<1>c. DOMAIN g = LinkNames
  BY <1>a, ShapedDomain
<1>1. Shaped(k')
  BY <1>b, <1>c DEF Shaped, LinkNames
<1>2. /\ k'.at = [k.at EXCEPT ![p] = "dead"] /\ k'.passivo = k.passivo /\ k'.net = [k.net EXCEPT ![p] = "none"]
      /\ k'.asks = [k.asks EXCEPT ![p] = "none"] /\ k'.down = [k.down EXCEPT ![p] = <<>>] /\ k'.cli = [k.cli EXCEPT ![p] = "none"]
      /\ k'.owner = k.owner /\ k'.starts = k.starts /\ k'.plain = k.plain
      /\ k'.ousts = k.ousts
  BY <1>a, <1>b, <1>c DEF LinkNames
<1>3. Typed(k')
  BY <1>0, <1>2 DEF Typed, Ats, Nets, Asks, Clis, Messages
<1>4. Only(k, k', p)
  BY <1>0, <1>2 DEF Only, Typed
<1>5. Line(k', p)
  BY <1>0, <1>2 DEF Line, Typed
<1>6. k'.starts + k'.plain = k.starts + k.plain /\ k'.ousts = k.ousts /\ k.ousts <= k'.ousts
  <2>1. k.starts \in Nat /\ k.plain \in Nat /\ k.ousts \in Nat
    BY <1>0, TypedNumbers
  <2> QED BY <1>2, <2>1
<1>7. (Engaged(k') => Engaged(k)) /\ (HasHello(k', p) => HasHello(k, p))
  BY <1>0, <1>2 DEF Engaged, HasHello, Typed
<1>8. HellosCounted(k')
  BY <1>0, <1>3, <1>4, <1>6, <1>7, Keeps
<1> QED BY <1>0, <1>1, <1>3, <1>4, <1>5, <1>6, <1>8, OneLine DEF LinkInv, LinkGood

(* The welcome arrives.                                                    *)
LEMMA Welcomed ==
    ASSUME LinkInv, NEW p \in LinkProcs, Welcome(p)
    PROVE  LinkInv'
<1>0. Shaped(k) /\ Typed(k) /\ HellosCounted(k) /\ \A q \in LinkProcs : Line(k, q)
  BY DEF LinkInv, LinkGood
<1>a. k.down[p] \in Seq(Messages) /\ k.down[p] # <<>> /\ Head(k.down[p]) = "welcome"
  BY <1>0 DEF Typed, Welcome
<1>b. /\ Tail(k.down[p]) \in Seq(Messages) /\ Len(k.down[p]) \in Nat /\ Len(k.down[p]) > 0
      /\ Len(Tail(k.down[p])) = Len(k.down[p]) - 1 /\ k.down[p][1] = "welcome"
      /\ \A i \in 1 .. Len(k.down[p]) - 1 : Tail(k.down[p])[i] = k.down[p][i + 1]
  BY <1>a
<1> DEFINE old == k.down[p]
           new == Tail(old)
<1>c. /\ \A i \in 1 .. Len(new) : i + 1 \in 1 .. Len(old) /\ new[i] = old[i + 1]
      /\ \A i \in 1 .. Len(new) : i # 1 => i - 1 \in 1 .. Len(new) /\ new[i - 1] = old[i]
      /\ 1 \in 1 .. Len(old) /\ old[1] = "welcome" /\ new \in Seq(Messages)
      /\ \A i \in 1 .. Len(new) : i + 1 # 1 /\ (i + 1) - 1 = i
  BY <1>b
<1>1. Shaped(k')
  <2>1. DOMAIN k = LinkNames
    BY <1>0, ShapedDomain
  <2> QED BY <2>1 DEF Welcome, Took, Shaped, LinkNames
<1>2. /\ k'.at = [k.at EXCEPT ![p] = "up"] /\ k'.passivo = [k.passivo EXCEPT ![p] = FALSE] /\ k'.net = k.net
      /\ k'.asks = k.asks /\ k'.down = [k.down EXCEPT ![p] = Tail(k.down[p])] /\ k'.cli = k.cli
      /\ k'.owner = k.owner /\ k'.starts = k.starts /\ k'.plain = k.plain
      /\ k'.ousts = k.ousts
  <2>1. DOMAIN k = LinkNames
    BY <1>0, ShapedDomain
  <2> QED BY <2>1 DEF Welcome, Took, LinkNames
<1>3. Typed(k')
  BY <1>0, <1>2, <1>b DEF Typed, Ats, Nets, Asks, Clis, Messages
<1>4. Only(k, k', p)
  BY <1>0, <1>2 DEF Only, Typed
<1>5. Line(k', p)
  <2>1. k'.at[p] = "up" /\ ~k'.passivo[p] /\ k'.asks[p] = k.asks[p] /\ k'.down[p] = new /\ k'.cli[p] = k.cli[p] /\ k'.ousts = k.ousts
    BY <1>0, <1>2 DEF Typed
  <2> HIDE DEF old, new
  <2>2. /\ k.asks[p] # "none" => \A i \in 1 .. Len(old) : old[i] # "welcome"
        /\ \A i \in 1 .. Len(old) :
              /\ old[i] = "4001" => k.passivo[p] /\ \A j \in 1 .. Len(old) : old[j] # "welcome"
              /\ old[i] = "4000" => k.ousts > 0
              /\ old[i] = "spawn" => IF i = 1 THEN ~k.passivo[p] ELSE old[i - 1] = "welcome"
    BY <1>0 DEF Line, old
  <2>3. k.asks[p] = "none" /\ \A i \in 1 .. Len(old) : old[i] # "4001"
    BY <1>c, <2>2
  <2>4. \A i \in 1 .. Len(new) : new[i] # "4001" /\ (new[i] = "4000" => k'.ousts > 0)
    BY <1>c, <2>1, <2>2, <2>3
  <2>5. \A i \in 1 .. Len(new) : new[i] = "spawn" => i = 1 \/ new[i - 1] = "welcome"
    <3> SUFFICES ASSUME NEW i \in 1 .. Len(new), new[i] = "spawn", i # 1 PROVE new[i - 1] = "welcome"
      OBVIOUS
    <3>1. i + 1 \in 1 .. Len(old) /\ old[i + 1] = "spawn" /\ i + 1 # 1 /\ (i + 1) - 1 = i
      BY <1>c
    <3>2. old[(i + 1) - 1] = "welcome"
      BY <2>2, <3>1
    <3> QED BY <1>c, <3>1, <3>2
  <2> QED BY <2>1, <2>3, <2>4, <2>5 DEF Line
<1>6. k'.starts + k'.plain = k.starts + k.plain /\ k'.ousts = k.ousts /\ k.ousts <= k'.ousts
  <2>1. k.starts \in Nat /\ k.plain \in Nat /\ k.ousts \in Nat
    BY <1>0, TypedNumbers
  <2> QED BY <1>2, <2>1
<1>7. (Engaged(k') => Engaged(k)) /\ (HasHello(k', p) => HasHello(k, p))
  BY <1>0, <1>2 DEF Engaged, HasHello, Typed
<1>8. HellosCounted(k')
  BY <1>0, <1>3, <1>4, <1>6, <1>7, Keeps
<1> QED BY <1>0, <1>1, <1>3, <1>4, <1>5, <1>6, <1>8, OneLine DEF LinkInv, LinkGood

(* The spawn arrives: the runner starts unless the daemon has stopped.     *)
LEMMA Spawns ==
    ASSUME LinkInv, NEW p \in LinkProcs, SpawnArrives(p)
    PROVE  LinkInv'
<1>0. Shaped(k) /\ Typed(k) /\ HellosCounted(k) /\ \A q \in LinkProcs : Line(k, q)
  BY DEF LinkInv, LinkGood
<1>a. k.down[p] \in Seq(Messages) /\ k.down[p] # <<>> /\ Head(k.down[p]) = "spawn"
  BY <1>0 DEF Typed, SpawnArrives
<1>b. /\ Tail(k.down[p]) \in Seq(Messages) /\ Len(k.down[p]) \in Nat /\ Len(k.down[p]) > 0
      /\ Len(Tail(k.down[p])) = Len(k.down[p]) - 1 /\ k.down[p][1] = "spawn"
      /\ \A i \in 1 .. Len(k.down[p]) - 1 : Tail(k.down[p])[i] = k.down[p][i + 1]
  BY <1>a
<1> DEFINE old == k.down[p]
           new == Tail(old)
<1>c. /\ \A i \in 1 .. Len(new) : i + 1 \in 1 .. Len(old) /\ new[i] = old[i + 1]
      /\ \A i \in 1 .. Len(new) : i # 1 => i - 1 \in 1 .. Len(new) /\ new[i - 1] = old[i]
      /\ 1 \in 1 .. Len(old) /\ old[1] = "spawn" /\ new \in Seq(Messages)
      /\ \A i \in 1 .. Len(new) : i + 1 # 1 /\ (i + 1) - 1 = i
  BY <1>b
<1>e. PICK cli \in {"run", "waiting"} : k' = [Took(p) EXCEPT !.cli[p] = cli]
  <2>1. PICK late \in BOOLEAN : k' = [Took(p) EXCEPT !.cli[p] = IF @ \in {"run", "late"} \/ ~late THEN "run" ELSE "waiting"]
    BY DEF SpawnArrives
  <2> DEFINE old2 == Took(p).cli[p]
             cli == IF old2 \in {"run", "late"} \/ ~late THEN "run" ELSE "waiting"
  <2>2. cli \in {"run", "waiting"}
    OBVIOUS
  <2>3. k' = [Took(p) EXCEPT !.cli[p] = cli]
    BY <2>1
  <2> QED BY <2>2, <2>3
<1>1. Shaped(k')
  <2>1. DOMAIN k = LinkNames
    BY <1>0, ShapedDomain
  <2> QED BY <1>e, <2>1 DEF Took, Shaped, LinkNames
<1>2. /\ k'.at = k.at /\ k'.passivo = k.passivo /\ k'.net = k.net
      /\ k'.asks = k.asks /\ k'.down = [k.down EXCEPT ![p] = Tail(k.down[p])] /\ k'.cli = [k.cli EXCEPT ![p] = cli]
      /\ k'.owner = k.owner /\ k'.starts = k.starts /\ k'.plain = k.plain
      /\ k'.ousts = k.ousts
  <2>1. DOMAIN k = LinkNames
    BY <1>0, ShapedDomain
  <2> QED BY <1>e, <2>1 DEF Took, LinkNames
<1>3. Typed(k')
  BY <1>0, <1>2, <1>b DEF Typed, Ats, Nets, Asks, Clis, Messages
<1>4. Only(k, k', p)
  BY <1>0, <1>2 DEF Only, Typed
<1>5. Line(k', p)
  <2>1. /\ k'.at[p] = k.at[p] /\ k'.passivo[p] = k.passivo[p] /\ k'.asks[p] = k.asks[p] /\ k'.down[p] = new
        /\ k'.ousts = k.ousts /\ k'.net[p] = k.net[p]
    BY <1>0, <1>2 DEF Typed
  <2> HIDE DEF old, new
  <2>2. /\ k.at[p] \in {"dead", "wait", "dial"} => old = <<>>
        /\ k.asks[p] = "passive" => k.passivo[p]
        /\ k.asks[p] # "none" => \A i \in 1 .. Len(old) : old[i] # "welcome"
        /\ \A i \in 1 .. Len(old) :
              /\ old[i] = "4001" => k.passivo[p] /\ \A j \in 1 .. Len(old) : old[j] # "welcome"
              /\ old[i] = "4000" => k.ousts > 0
              /\ old[i] = "spawn" => IF i = 1 THEN ~k.passivo[p] ELSE old[i - 1] = "welcome"
    BY <1>0 DEF Line, old
  <2>3. ~k.passivo[p] /\ k.at[p] \notin {"dead", "wait", "dial"} /\ k.asks[p] # "passive"
    <3>1. old # <<>>
      BY <1>a DEF old
    <3> QED BY <1>c, <2>2, <3>1
  <2>4. \A i \in 1 .. Len(new) : new[i] # "4001" /\ (new[i] = "4000" => k'.ousts > 0)
    BY <1>c, <2>1, <2>2, <2>3
  <2>5. \A i \in 1 .. Len(new) : new[i] = "spawn" => i = 1 \/ new[i - 1] = "welcome"
    <3> SUFFICES ASSUME NEW i \in 1 .. Len(new), new[i] = "spawn", i # 1 PROVE new[i - 1] = "welcome"
      OBVIOUS
    <3>1. i + 1 \in 1 .. Len(old) /\ old[i + 1] = "spawn" /\ i + 1 # 1 /\ (i + 1) - 1 = i
      BY <1>c
    <3>2. old[(i + 1) - 1] = "welcome"
      BY <2>2, <3>1
    <3> QED BY <1>c, <3>1, <3>2
  <2>6. k.asks[p] # "none" => \A i \in 1 .. Len(new) : new[i] # "welcome"
    BY <1>c, <2>2
  <2> QED BY <2>1, <2>3, <2>4, <2>5, <2>6 DEF Line
<1>6. k'.starts + k'.plain = k.starts + k.plain /\ k'.ousts = k.ousts /\ k.ousts <= k'.ousts
  <2>1. k.starts \in Nat /\ k.plain \in Nat /\ k.ousts \in Nat
    BY <1>0, TypedNumbers
  <2> QED BY <1>2, <2>1
<1>7. (Engaged(k') => Engaged(k)) /\ (HasHello(k', p) => HasHello(k, p))
  BY <1>0, <1>2 DEF Engaged, HasHello, Typed
<1>8. HellosCounted(k')
  BY <1>0, <1>3, <1>4, <1>6, <1>7, Keeps
<1> QED BY <1>0, <1>1, <1>3, <1>4, <1>5, <1>6, <1>8, OneLine DEF LinkInv, LinkGood

(* The server accepts a hello and takes no live connection from another.   *)
AcceptedFields(s, n, p) ==
    /\ n.asks = [s.asks EXCEPT ![p] = "none"] /\ n.owner = p
    /\ n.at = s.at /\ n.passivo = s.passivo /\ n.net = s.net /\ n.cli = s.cli
    /\ n.starts = s.starts /\ n.plain = s.plain

(* The fields of Accept.                                                   *)
LEMMA AcceptIs ==
    ASSUME NEW s, Shaped(s), NEW p
    PROVE  /\ Shaped(Accept(s, p)) /\ AcceptedFields(s, Accept(s, p), p)
           /\ Accept(s, p).down = [s.down EXCEPT ![p] = <<"welcome", "spawn">>] /\ Accept(s, p).ousts = s.ousts
<1>1. DOMAIN s = LinkNames
  BY ShapedDomain
<1>2. Shaped(Accept(s, p))
  BY <1>1 DEF Accept, Shaped, LinkNames
<1> QED BY <1>1, <1>2 DEF Accept, AcceptedFields, LinkNames

(* Who is accepted has said its hello.                                     *)
LEMMA AcceptedLine ==
    ASSUME NEW s, Typed(s), NEW p \in LinkProcs, Line(s, p), s.asks[p] # "none",
           NEW n, AcceptedFields(s, n, p), n.down[p] = <<"welcome", "spawn">>
    PROVE  Line(n, p) /\ ~HasHello(n, p)
<1>1. n.at[p] \notin {"dead", "wait", "dial"} /\ n.asks[p] = "none" /\ n.passivo[p] = s.passivo[p] /\ n.cli[p] = s.cli[p]
  BY DEF AcceptedFields, Line, Typed
<1>2. n.passivo[p] => n.cli[p] # "run"
  BY <1>1 DEF Line
<1>3. Len(n.down[p]) = 2 /\ n.down[p][1] = "welcome" /\ n.down[p][2] = "spawn"
  OBVIOUS
<1>4. \A i \in 1 .. 2 : i = 1 \/ (i = 2 /\ i - 1 = 1)
  OBVIOUS
<1>5. Line(n, p)
  BY <1>1, <1>2, <1>3, <1>4 DEF Line
<1> QED BY <1>1, <1>5 DEF HasHello

(* The server accepts a hello with no other daemon in place.               *)
LEMMA Accepts ==
    ASSUME NEW s, LinkGood(s), NEW p \in LinkProcs, s.asks[p] # "none"
    PROVE  LinkGood(Accept(s, p))
<1> DEFINE n == Accept(s, p)
<1>0. Shaped(s) /\ Typed(s) /\ HellosCounted(s) /\ \A q \in LinkProcs : Line(s, q)
  BY DEF LinkGood
<1>1. /\ Shaped(n) /\ AcceptedFields(s, n, p)
      /\ n.down = [s.down EXCEPT ![p] = <<"welcome", "spawn">>] /\ n.ousts = s.ousts
  BY <1>0, AcceptIs
<1> HIDE DEF n
<1>2. <<"welcome", "spawn">> \in Seq(Messages)
  BY DEF Messages
<1>3. Typed(n)
  <2> DEFINE w == <<"welcome", "spawn">>
  <2>1. n.down = [s.down EXCEPT ![p] = w] /\ w \in Seq(Messages)
    BY <1>1, <1>2
  <2> HIDE DEF w
  <2>2. AcceptedFields(s, n, p) /\ n.ousts = s.ousts /\ Typed(s)
    BY <1>0, <1>1
  <2>3. n.asks \in [LinkProcs -> Asks]
    BY <2>2 DEF Typed, AcceptedFields, Asks
  <2>4. n.down \in [LinkProcs -> Seq(Messages)]
    BY <2>1, <2>2 DEF Typed
  <2> QED BY <2>2, <2>3, <2>4 DEF Typed, AcceptedFields
<1>4. n.down[p] = <<"welcome", "spawn">>
  BY <1>0, <1>1 DEF Typed
<1>5. Line(n, p) /\ ~HasHello(n, p)
  BY <1>0, <1>1, <1>4, AcceptedLine
<1>6. Only(s, n, p)
  BY <1>0, <1>1 DEF Only, Typed, AcceptedFields
<1>7. n.starts + n.plain = s.starts + s.plain /\ n.ousts = s.ousts /\ s.ousts <= n.ousts
  <2>1. s.starts \in Nat /\ s.plain \in Nat /\ s.ousts \in Nat
    BY <1>0, TypedNumbers
  <2> QED BY <1>1, <2>1 DEF AcceptedFields
<1>8. HellosCounted(n)
  <2>1. CASE s.asks[p] = "active"
    <3>1. HasHello(s, p) /\ \A q \in LinkProcs \ {p} : HasHello(n, q) => HasHello(s, q)
      BY <1>6, <2>1 DEF HasHello, Only
    <3> QED BY <1>0, <1>3, <1>5, <1>7, <3>1, Spends
  <2>2. CASE s.asks[p] = "passive"
    <3>1. Engaged(s)
      BY <1>0, <2>2 DEF Engaged, Line
    <3> QED BY <1>0, <1>3, <1>5, <1>6, <1>7, <3>1, Keeps
  <2> QED BY <1>0, <2>1, <2>2 DEF Typed, Asks
<1> QED BY <1>0, <1>1, <1>3, <1>5, <1>6, <1>7, <1>8, OneLine DEF LinkGood, n

(* It takes the live connection of q for p: one hello is spent on it.      *)
PortTaken(p, q) ==
    /\ q # p /\ k.asks[p] = "active" /\ k.owner = q /\ k.net[q] = "ok"
    /\ k' = [Accept(k, p) EXCEPT !.down[q] = Append(@, "4000"), !.ousts = @ + 1]

(* The server accepts a hello in the place of another daemon: the hello    *)
(* pays for the handoff.                                                   *)
LEMMA Ousts ==
    ASSUME LinkInv, NEW p \in LinkProcs, NEW q \in LinkProcs, PortTaken(p, q)
    PROVE  LinkInv'
<1> DEFINE a == Accept(k, p)
           w == <<"welcome", "spawn">>
           down == Append(k.down[q], "4000")
<1>0. Shaped(k) /\ Typed(k) /\ HellosCounted(k) /\ \A x \in LinkProcs : Line(k, x)
  BY DEF LinkInv, LinkGood
<1>1. Shaped(a) /\ AcceptedFields(k, a, p) /\ a.down = [k.down EXCEPT ![p] = w] /\ a.ousts = k.ousts
  BY <1>0, AcceptIs
<1>2. k' = [a EXCEPT !.down[q] = Append(@, "4000"), !.ousts = @ + 1]
  BY DEF PortTaken
<1>21. q # p /\ k.asks[p] = "active" /\ k.owner = q /\ k.net[q] = "ok"
  BY DEF PortTaken
<1> HIDE DEF a
<1>3. DOMAIN a = LinkNames
  BY <1>1, ShapedDomain
<1>4. Shaped(k')
  BY <1>2, <1>3 DEF Shaped, LinkNames
<1>5. /\ k'.down = [a.down EXCEPT ![q] = Append(@, "4000")] /\ k'.ousts = a.ousts + 1
      /\ k'.asks = a.asks /\ k'.owner = a.owner /\ k'.at = a.at /\ k'.passivo = a.passivo /\ k'.net = a.net
      /\ k'.cli = a.cli /\ k'.starts = a.starts /\ k'.plain = a.plain
  BY <1>2, <1>3 DEF LinkNames
<1>6. AcceptedFields(k, k', p) /\ k'.ousts = k.ousts + 1
  BY <1>1, <1>5 DEF AcceptedFields
<1>7. w \in Seq(Messages) /\ "4000" \in Messages
  BY DEF Messages
<1>8. k.down \in [LinkProcs -> Seq(Messages)] /\ k.down[q] \in Seq(Messages)
  BY <1>0 DEF Typed
<1>9. down \in Seq(Messages)
  BY <1>7, <1>8
<1>10. k'.down \in [LinkProcs -> Seq(Messages)] /\ k'.down[p] = w /\ k'.down[q] = down
       /\ \A x \in LinkProcs \ {p, q} : k'.down[x] = k.down[x]
  <2> HIDE DEF w
  <2>1. a.down \in [LinkProcs -> Seq(Messages)] /\ a.down[p] = w /\ a.down[q] = k.down[q]
        /\ \A x \in LinkProcs \ {p, q} : a.down[x] = k.down[x]
    BY <1>1, <1>7, <1>8, <1>21
  <2>2. k'.down = [a.down EXCEPT ![q] = down]
    BY <1>5, <2>1
  <2> HIDE DEF down
  <2> QED BY <1>9, <1>21, <2>1, <2>2
<1>11. k.starts \in Nat /\ k.plain \in Nat /\ k.ousts \in Nat
  BY <1>0, TypedNumbers
<1>12. Typed(k')
  <2>1. k'.ousts \in Nat
    BY <1>6, <1>11
  <2> HIDE DEF w, down
  <2> QED BY <1>0, <1>6, <1>10, <2>1 DEF Typed, AcceptedFields, Asks
<1>13. Line(k', p) /\ ~HasHello(k', p)
  BY <1>0, <1>6, <1>10, <1>21, AcceptedLine
<1>14. k'.ousts > 0
  BY <1>6, <1>11
<1>15. \A x \in LinkProcs \ {p} :
          /\ k'.asks[x] = k.asks[x] /\ k'.at[x] = k.at[x] /\ k'.passivo[x] = k.passivo[x]
          /\ k'.net[x] = k.net[x] /\ k'.cli[x] = k.cli[x]
  BY <1>0, <1>6 DEF AcceptedFields, Typed
<1>16. Line(k', q)
  <2> DEFINE old == k.down[q]
  <2>1. /\ k'.asks[q] = k.asks[q] /\ k'.at[q] = k.at[q] /\ k'.passivo[q] = k.passivo[q]
        /\ k'.net[q] = k.net[q] /\ k'.cli[q] = k.cli[q]
    BY <1>15, <1>21
  <2>2. k'.down[q] = Append(old, "4000")
    BY <1>10
  <2>3. Len(old) \in Nat /\ Len(k'.down[q]) = Len(old) + 1 /\ k'.down[q][Len(old) + 1] = "4000"
        /\ \A i \in 1 .. Len(old) : k'.down[q][i] = old[i]
    BY <1>8, <2>2
  <2>4. Line(k, q)
    BY <1>0
  <2>5. k.at[q] \notin {"dead", "wait", "dial"}
    BY <1>21, <2>4 DEF Line
  <2>6. \A i \in 1 .. Len(old) + 1 : i \in 1 .. Len(old) \/ i = Len(old) + 1
    BY <2>3
  <2>7. \A i \in 1 .. Len(old) : i # 1 => i - 1 \in 1 .. Len(old)
    BY <2>3
  <2> HIDE DEF old, down, w
  <2>8. k.asks[q] # "none" => \A i \in 1 .. Len(old) + 1 : k'.down[q][i] # "welcome"
    <3>1. k.asks[q] # "none" => \A i \in 1 .. Len(old) : old[i] # "welcome"
      BY <2>4 DEF Line, old
    <3> QED BY <2>3, <2>6, <3>1
  <2>9. \A i \in 1 .. Len(old) + 1 :
           /\ k'.down[q][i] = "4001" => k.passivo[q] /\ \A j \in 1 .. Len(old) + 1 : k'.down[q][j] # "welcome"
           /\ k'.down[q][i] = "spawn" => IF i = 1 THEN ~k.passivo[q] ELSE k'.down[q][i - 1] = "welcome"
    <3>1. \A i \in 1 .. Len(old) :
             /\ old[i] = "4001" => k.passivo[q] /\ \A j \in 1 .. Len(old) : old[j] # "welcome"
             /\ old[i] = "spawn" => IF i = 1 THEN ~k.passivo[q] ELSE old[i - 1] = "welcome"
      BY <2>4 DEF Line, old
    <3> QED BY <2>3, <2>6, <2>7, <3>1
  <2>10. (k.asks[q] = "passive" => k.passivo[q]) /\ (k.passivo[q] => k.cli[q] # "run")
    BY <2>4 DEF Line
  <2> QED BY <1>14, <2>1, <2>3, <2>5, <2>8, <2>9, <2>10 DEF Line
<1>17. \A x \in LinkProcs : Line(k', x)
  <2> SUFFICES ASSUME NEW x \in LinkProcs \ {p, q} PROVE Line(k', x)
    BY <1>13, <1>16
  <2>1. k'.down[x] = k.down[x] /\ Line(k, x)
    BY <1>0, <1>10
  <2> QED BY <1>14, <1>15, <2>1 DEF Line
<1>18. HasHello(k, p) /\ \A x \in LinkProcs \ {p} : HasHello(k', x) => HasHello(k, x)
  BY <1>15, <1>21 DEF HasHello
<1>19. Engaged(k) /\ k'.starts + k'.plain = k.starts + k.plain
  <2>1. k.owner # 0
    BY <1>21, LinkAssumption
  <2> QED BY <1>6, <2>1 DEF Engaged, AcceptedFields
<1>20. HellosCounted(k')
  BY <1>0, <1>6, <1>12, <1>13, <1>18, <1>19, Spends
<1> QED BY <1>4, <1>12, <1>17, <1>20 DEF LinkInv, LinkGood

(* The server hears a hello.                                               *)
LEMMA HearsHello ==
    ASSUME LinkInv, NEW p \in LinkProcs, ServerHearsHello(p)
    PROVE  LinkInv'
<1>1. k.asks[p] = "active"
  BY DEF ServerHearsHello
<1>2. CASE OwnerReached /\ k.owner # p
  <2>1. k' = [Accept(k, p) EXCEPT !.down[k.owner] = Append(@, "4000"), !.ousts = @ + 1]
    BY <1>2, Zenon DEF ServerHearsHello
  <2>2. k.owner \in LinkProcs /\ k.net[k.owner] = "ok"
    BY <1>2 DEF LinkInv, LinkGood, Typed, OwnerReached
  <2>3. PortTaken(p, k.owner)
    BY <1>1, <1>2, <2>1, <2>2 DEF PortTaken
  <2> QED BY <2>2, <2>3, Ousts
<1>3. CASE ~(OwnerReached /\ k.owner # p)
  <2>1. k' = Accept(k, p)
    BY <1>3, Zenon DEF ServerHearsHello
  <2> QED BY <1>1, <2>1, Accepts DEF LinkInv
<1> QED BY <1>2, <1>3

HelloRefused(p) == k.asks[p] = "passive" /\ k' = [k EXCEPT !.asks[p] = "none", !.down[p] = <<"4001">>]

(* The server refuses the one that is not the host.                        *)
LEMMA SecondRefused ==
    ASSUME LinkInv, NEW p \in LinkProcs, HelloRefused(p)
    PROVE  LinkInv'
<1> DEFINE w == <<"4001">>
<1>0. Shaped(k) /\ Typed(k) /\ HellosCounted(k) /\ \A q \in LinkProcs : Line(k, q)
  BY DEF LinkInv, LinkGood
<1>1. Shaped(k')
  <2>1. DOMAIN k = LinkNames
    BY <1>0, ShapedDomain
  <2> QED BY <2>1 DEF Shaped, LinkNames, HelloRefused
<1>2. /\ k'.at = k.at /\ k'.passivo = k.passivo /\ k'.net = k.net
      /\ k'.asks = [k.asks EXCEPT ![p] = "none"] /\ k'.down = [k.down EXCEPT ![p] = w] /\ k'.cli = k.cli
      /\ k'.owner = k.owner /\ k'.starts = k.starts /\ k'.plain = k.plain
      /\ k'.ousts = k.ousts
  <2>1. DOMAIN k = LinkNames
    BY <1>0, ShapedDomain
  <2> QED BY <2>1 DEF LinkNames, HelloRefused
<1>3. w \in Seq(Messages) /\ Len(w) = 1 /\ w[1] = "4001" /\ \A i \in 1 .. 1 : i = 1
  BY DEF Messages
<1> HIDE DEF w
<1>4. Typed(k')
  <2>1. Typed(k)
    BY <1>0
  <2>2. k'.asks \in [LinkProcs -> Asks]
    BY <1>2, <2>1 DEF Typed, Asks
  <2>3. k'.down \in [LinkProcs -> Seq(Messages)]
    BY <1>2, <1>3, <2>1 DEF Typed
  <2> QED BY <1>2, <2>1, <2>2, <2>3 DEF Typed
<1>5. Only(k, k', p)
  BY <1>0, <1>2 DEF Only, Typed
<1>6. Line(k, p) /\ k.passivo[p] /\ k.at[p] \notin {"dead", "wait", "dial"}
  <2>1. Line(k, p)
    BY <1>0
  <2> QED BY <2>1 DEF Line, HelloRefused
<1>7. /\ k'.at[p] = k.at[p] /\ k'.passivo[p] = k.passivo[p] /\ k'.net[p] = k.net[p] /\ k'.cli[p] = k.cli[p]
      /\ k'.asks[p] = "none" /\ k'.down[p] = w
  BY <1>0, <1>2 DEF Typed
<1>8. Line(k', p)
  <2>1. k.passivo[p] => k.cli[p] # "run"
    BY <1>6 DEF Line
  <2> QED BY <1>3, <1>6, <1>7, <2>1 DEF Line
<1>9. k'.starts + k'.plain = k.starts + k.plain /\ k'.ousts = k.ousts /\ k.ousts <= k'.ousts
  <2>1. k.starts \in Nat /\ k.plain \in Nat /\ k.ousts \in Nat
    BY <1>0, TypedNumbers
  <2> QED BY <1>2, <2>1
<1>10. (Engaged(k') => Engaged(k)) /\ ~HasHello(k', p)
  BY <1>2, <1>6, <1>7 DEF Engaged, HasHello
<1>11. HellosCounted(k')
  BY <1>0, <1>4, <1>5, <1>9, <1>10, Keeps
<1> QED BY <1>0, <1>1, <1>4, <1>5, <1>8, <1>9, <1>11, OneLine DEF LinkInv, LinkGood

(* The server gives up a socket.                                           *)
LEMMA TimesOut ==
    ASSUME LinkInv, ServerTimesOut
    PROVE  LinkInv'
<1>0. Shaped(k) /\ Typed(k) /\ HellosCounted(k) /\ \A q \in LinkProcs : Line(k, q)
  BY DEF LinkInv, LinkGood
<1>1. DOMAIN k = LinkNames /\ k.owner \in LinkProcs
  BY <1>0, ShapedDomain DEF Typed, ServerTimesOut
<1>2. Shaped(k')
  BY <1>1 DEF Shaped, LinkNames, ServerTimesOut
<1>3. /\ k'.at = k.at /\ k'.passivo = k.passivo /\ k'.net = k.net /\ k'.asks = k.asks /\ k'.down = k.down
      /\ k'.cli = k.cli /\ k'.owner = 0 /\ k'.starts = k.starts /\ k'.plain = k.plain /\ k'.ousts = k.ousts
  BY <1>1 DEF LinkNames, ServerTimesOut
<1>4. Typed(k')
  BY <1>0, <1>3 DEF Typed
<1>5. \A q \in LinkProcs : Line(k', q)
  BY <1>0, <1>3 DEF Line
<1>6. k.starts \in Nat /\ k.plain \in Nat /\ k.ousts \in Nat
  BY <1>0, TypedNumbers
<1>7. Only(k, k', k.owner)
  BY <1>3 DEF Only
<1>8. (Engaged(k') => Engaged(k)) /\ (HasHello(k', k.owner) => HasHello(k, k.owner))
  BY <1>3 DEF Engaged, HasHello
<1>9. k'.starts + k'.plain = k.starts + k.plain /\ k'.ousts = k.ousts
  BY <1>3
<1>10. HellosCounted(k')
  BY <1>0, <1>1, <1>4, <1>7, <1>8, <1>9, Keeps
<1> QED BY <1>2, <1>4, <1>5, <1>10 DEF LinkInv, LinkGood

(* A heartbeat that fails, a dial that fails.                              *)
LEMMA ClosesPlain ==
    ASSUME LinkInv, NEW p \in LinkProcs, Heartbeat(p) \/ DialFails(p)
    PROVE  LinkInv'
<1>1. CASE Heartbeat(p)
  BY <1>1, PlainCloses DEF Heartbeat, LinkInv
<1>2. CASE DialFails(p)
  <2> DEFINE s == [k EXCEPT !.faults = @ + 1]
  <2>1. k' = ClosePlain(s, p)
    BY <1>2 DEF DialFails
  <2>2. Shaped(k) /\ Typed(k) /\ HellosCounted(k) /\ \A q \in LinkProcs : Line(k, q)
    BY DEF LinkInv, LinkGood
  <2>3. DOMAIN k = LinkNames
    BY <2>2, ShapedDomain
  <2>4. Shaped(s)
    BY <2>3 DEF Shaped, LinkNames
  <2>5. /\ s.at = k.at /\ s.passivo = k.passivo /\ s.net = k.net /\ s.asks = k.asks /\ s.down = k.down
        /\ s.cli = k.cli /\ s.owner = k.owner /\ s.starts = k.starts /\ s.plain = k.plain /\ s.ousts = k.ousts
    BY <2>3 DEF LinkNames
  <2> HIDE DEF s
  <2>6. Typed(s) /\ \A q \in LinkProcs : Line(s, q)
    BY <2>2, <2>5 DEF Typed, Line
  <2>7. Engaged(s) <=> Engaged(k)
    BY <2>5 DEF Engaged
  <2>8. Budget(s) = Budget(k)
    <3>1. LocksHeld(s) = LocksHeld(k)
      BY <2>7 DEF LocksHeld
    <3> QED BY <2>5, <3>1 DEF Budget
  <2>9. {q \in LinkProcs : HasHello(s, q)} = {q \in LinkProcs : HasHello(k, q)}
    BY <2>5 DEF HasHello
  <2>10. LinkGood(s)
    BY <2>2, <2>4, <2>6, <2>8, <2>9 DEF LinkGood, HellosCounted
  <2> QED BY <2>1, <2>10, PlainCloses DEF LinkInv
<1> QED BY <1>1, <1>2

(* The invariant is inductive.                                             *)
LEMMA LinkStep ==
    ASSUME LinkInv, LinkNext
    PROVE  LinkInv'
<1>1. CASE ServerTimesOut
  BY <1>1, TimesOut
<1>2. ASSUME NEW p \in LinkProcs,
             \/ StartProc(p) \/ ProcDies(p) \/ ConnectTimer(p) \/ Opens(p) \/ DialFails(p)
             \/ LinkLost(p) \/ Heartbeat(p) \/ ServerHearsHello(p) \/ ServerHearsPassive(p)
             \/ Welcome(p) \/ SpawnArrives(p) \/ SpawnWaitEnds(p) \/ ClosedByServer(p)
      PROVE  LinkInv'
  <2>1. CASE StartProc(p)
    BY <2>1, Starts
  <2>2. CASE ProcDies(p)
    BY <2>2, DaemonDies
  <2>3. CASE ConnectTimer(p)
    BY <2>3, Times
  <2>4. CASE Opens(p)
    BY <2>4, SaysHello
  <2>5. CASE DialFails(p) \/ Heartbeat(p)
    BY <2>5, ClosesPlain
  <2>6. CASE LinkLost(p)
    BY <2>6, Loses
  <2>7. CASE ServerHearsHello(p)
    BY <2>7, HearsHello
  <2>8. CASE ServerHearsPassive(p)
    <3>1. k.asks[p] = "passive"
      BY <2>8 DEF ServerHearsPassive
    <3>2. CASE k.owner \in {0, p}
      <4>1. k' = Accept(k, p)
        BY <2>8, <3>2, Zenon DEF ServerHearsPassive
      <4> QED BY <3>1, <4>1, Accepts DEF LinkInv
    <3>3. CASE k.owner \notin {0, p}
      <4>1. k' = [k EXCEPT !.asks[p] = "none", !.down[p] = <<"4001">>]
        BY <2>8, <3>3, Zenon DEF ServerHearsPassive
      <4> QED BY <3>1, <4>1, SecondRefused DEF HelloRefused
    <3> QED BY <3>2, <3>3
  <2>9. CASE Welcome(p)
    BY <2>9, Welcomed
  <2>10. CASE SpawnArrives(p)
    BY <2>10, Spawns
  <2>11. CASE SpawnWaitEnds(p)
    BY <2>11, EndsWait
  <2>12. CASE ClosedByServer(p)
    <3>1. HandedOff(k, p) /\ k' = CloseHandoff(k, p, Head(k.down[p]) = "4001")
      BY <2>12, Zenon DEF ClosedByServer, HandedOff
    <3>2. LinkGood(CloseHandoff(k, p, Head(k.down[p]) = "4001"))
      BY <3>1, HandsOff DEF LinkInv
    <3> QED BY <3>1, <3>2, Zenon DEF LinkInv
  <2> QED BY <1>2, <2>1, <2>2, <2>3, <2>4, <2>5, <2>6, <2>7, <2>8, <2>9, <2>10, <2>11, <2>12
<1> QED BY <1>1, <1>2 DEF LinkNext

(* Two daemons that have not started.                                      *)
LEMMA LinkStart == LinkInit => LinkInv
<1> SUFFICES ASSUME LinkInit PROVE LinkInv
  OBVIOUS
<1>1. /\ k.at = All("dead") /\ k.passivo = All(FALSE) /\ k.net = All("none") /\ k.asks = All("none")
      /\ k.down = All(<<>>) /\ k.cli = All("none") /\ k.owner = 0
      /\ k.starts = 0 /\ k.plain = 0 /\ k.ousts = 0
  BY DEF LinkInit
<1>2. Shaped(k)
  BY DEF LinkInit, Shaped, LinkNames
<1>3. Typed(k)
  BY <1>1 DEF Typed, All, Ats, Nets, Asks, Clis
<1>4. \A p \in LinkProcs : Line(k, p)
  BY <1>1 DEF Line, All
<1>5. ~Engaged(k)
  BY <1>1 DEF Engaged, All
<1>6. Budget(k) = 0
  <2>1. LocksHeld(k) = 0
    BY <1>5 DEF LocksHeld
  <2> QED BY <1>1, <2>1 DEF Budget
<1>7. {p \in LinkProcs : HasHello(k, p)} = {}
  BY <1>1 DEF HasHello, All
<1>8. Fits({}, 0)
  <2> DEFINE f == [x \in {} |-> x]
  <2>1. f \in [{} -> 1 .. 0]
    OBVIOUS
  <2> QED BY <2>1 DEF Fits
<1> QED BY <1>2, <1>3, <1>4, <1>6, <1>7, <1>8 DEF LinkInv, LinkGood, HellosCounted

(* Without the fairness, for the composition: a live connection is taken   *)
(* from its owner at most once per start after the first and per close     *)
(* that was no handoff, and a process that lost the token runs no CLI      *)
(* until it is welcomed again; whatever is lost, late or started again.    *)
LEMMA LinkServes == LinkInit /\ [][LinkNext]_LinkVars => []LinkOneDaemon
<1>1. LinkInv /\ [LinkNext]_LinkVars => LinkInv'
  <2>1. LinkInv /\ UNCHANGED LinkVars => LinkInv'
    BY DEF LinkInv, LinkVars
  <2> QED BY <2>1, LinkStep
<1>2. LinkInv => LinkOneDaemon
  <2> SUFFICES ASSUME LinkInv PROVE LinkOneDaemon
    OBVIOUS
  <2>1. Typed(k) /\ Budget(k) \in Nat /\ \A p \in LinkProcs : Line(k, p)
    BY DEF LinkInv, LinkGood, HellosCounted
  <2>2. LinkLoserStopped
    BY <2>1 DEF LinkLoserStopped, Line
  <2>3. k.starts \in Nat /\ k.plain \in Nat /\ k.ousts \in Nat
    BY <2>1, TypedNumbers
  <2>4. LocksHeld(k) \in 0 .. 1 /\ (k.ousts > 0 => LocksHeld(k) = 1)
    BY DEF LocksHeld, Engaged
  <2>5. LinkNoRelay
    BY <2>1, <2>3, <2>4 DEF LinkNoRelay, Budget
  <2> QED BY <2>2, <2>5 DEF LinkOneDaemon
<1> QED BY LinkStart, <1>1, <1>2, PTL

(* Two daemons do not take the token from each other in turns, and the one *)
(* that lost it runs no CLI (main.ts, ws-handoff.ts). The argument counts: *)
(* every replacement is paid by a hello, and every hello by a start or by  *)
(* a close that was no handoff.                                            *)
THEOREM OneServes == LinkSpec => []LinkOneDaemon
BY LinkServes, PTL DEF LinkSpec
=============================================================================
