------------------------------- MODULE KeyRing -------------------------------
(***************************************************************************)
(* The daemon's keys of one E2EE project: the active one and the older     *)
(* ones, in memory, and on disk the wrap of the active key with the ring,  *)
(* a chain in which every older key is sealed with the one after it.  The  *)
(* keys are 1, 2, ... in the order the project was rotated; a text sealed  *)
(* with a key is read with that key and no other.                          *)
(*                                                                         *)
(* The server is external: it forwards the current key's wrap, with its    *)
(* own chain of the older ones or without (keyRing is optional).           *)
(*                                                                         *)
(* Left out: the daemon's key pair, the other projects in the file, AAD    *)
(* and the versions of the format, which no key depends on.                *)
(***************************************************************************)
EXTENDS Naturals, Sequences, FiniteSets
LOCAL INSTANCE SequencesExt

CONSTANTS
    RingKeys,           \* bound on the keys of the project
    RingAbsent,         \* when a wrap may come without the ring: while the daemon
                        \* has a key in "memory", or when its "file" has that wrap
    RingMaxRestarts     \* bound on restarts

ASSUME RingAssumption ==
    RingKeys \in Nat \ {0} /\ RingAbsent \subseteq {"memory", "file"} /\ RingMaxRestarts \in Nat

VARIABLE r              \* the state, see RingTypeOK

RingVars == r

NoKey == 0

(* An entry of the ring: `key` sealed with `under`. *)
Entry(key, under) == [key |-> key, under |-> under]

(* ativa, antigas (newest first), entries (oldest first), the file, the    *)
(* project's current key, and the keys the daemon has ever had since it    *)
(* last forgot the project.                                                *)
RingInit ==
    r = [ativa |-> NoKey, antigas |-> <<>>, entries |-> <<>>, disk |-> [wrap |-> NoKey, ring |-> <<>>],
         current |-> 1, had |-> {}, restarts |-> 0]

(* The server's chain. *)
ServerRing == [i \in 1..(r.current - 1) |-> Entry(i, i + 1)]

-----------------------------------------------------------------------------
(* importProjectKeyRing: open the chain from its end, as far as it goes.   *)
Opened(entries, ativa) ==
    LET n == Len(entries)
        opens(i) == entries[n - i + 1].under = IF i = 1 THEN ativa ELSE entries[n - i + 2].key
    IN  [i \in 1..Max({j \in 0..n : \A i \in 1..j : opens(i)}) |-> entries[n - i + 1].key]

Import(s, entries) ==
    IF entries = <<>> \/ s.ativa = NoKey THEN s
    ELSE LET antigas == Opened(entries, s.ativa)
         IN  [s EXCEPT !.antigas = antigas, !.entries = IF antigas = <<>> THEN <<>> ELSE entries]

(* A rotation that forgets to keep the key it replaces. *)
MutPromote(s, key) == [s EXCEPT !.antigas = IF s.ativa \in {NoKey, key} THEN @ ELSE <<>>]

(* promoteActiveToRing: the key in memory becomes the newest of the old.   *)
Promote(s, key) ==
    IF s.ativa \in {NoKey, key} THEN s
    ELSE [s EXCEPT !.entries = Append(@, Entry(s.ativa, key)), !.antigas = <<s.ativa>> \o @]

(* restoreFromDisk, when there is no key in memory (keyFor).               *)
Restore(s) ==
    IF s.ativa # NoKey \/ s.disk.wrap = NoKey THEN s
    ELSE Import([s EXCEPT !.ativa = s.disk.wrap], s.disk.ring)

(* persistProjectCrypto: the wrap that came, and the ring in memory.       *)
Persist(s, key) == [s EXCEPT !.disk = [wrap |-> key, ring |-> s.entries]]

-----------------------------------------------------------------------------
MayLackRing ==
    \/ "memory" \in RingAbsent /\ r.ativa # NoKey
    \/ "file" \in RingAbsent /\ r.ativa = NoKey /\ r.disk.wrap = r.current

(* rememberProjectKey: the wrap of the current key, with the chain or      *)
(* without it.                                                             *)
RememberProjectKey ==
    \E ring \in {ServerRing} \cup (IF MayLackRing THEN {<<>>} ELSE {}) :
       LET s == [Promote(r, r.current) EXCEPT !.ativa = r.current]
       IN  r' = Persist([Import(s, ring) EXCEPT !.had = @ \cup {r.current}], r.current)

(* Any reading or sealing of a text goes through keyFor. *)
KeyFor == r.ativa = NoKey /\ r.disk.wrap # NoKey /\ r' = Restore(r)

(* The web rotates the project's key. *)
Rotate == r.current < RingKeys /\ r' = [r EXCEPT !.current = @ + 1]

(* The process starts again, with the file it left; forgetAllProjectKeys.  *)
RingRestart ==
    /\ r.restarts < RingMaxRestarts
    /\ r' = [r EXCEPT !.ativa = NoKey, !.antigas = <<>>, !.entries = <<>>, !.restarts = @ + 1]

(* forgetProjectKey: from memory and from the file. *)
ForgetProjectKey ==
    /\ r.had # {}
    /\ r' = [r EXCEPT !.ativa = NoKey, !.antigas = <<>>, !.entries = <<>>,
                      !.disk = [wrap |-> NoKey, ring |-> <<>>], !.had = {}]

RingNext == RememberProjectKey \/ KeyFor \/ Rotate \/ RingRestart \/ ForgetProjectKey

RingSpec == RingInit /\ [][RingNext]_RingVars

-----------------------------------------------------------------------------
RingTypeOK ==
    /\ {r.ativa, r.disk.wrap, r.current} \subseteq 0..RingKeys
    /\ ToSet(r.antigas) \cup r.had \subseteq 1..RingKeys /\ r.restarts \in 0..RingMaxRestarts
    /\ ToSet(r.entries) \cup ToSet(r.disk.ring) \subseteq [key : 1..RingKeys, under : 1..RingKeys]

(* The keys decryptForProject tries: the active one, then the older ones.  *)
Readable == LET s == Restore(r) IN {s.ativa} \cup ToSet(s.antigas)

(* "preserva leitura de histórico pós-restart": what was sealed with a key *)
(* the daemon had is readable, across rotations and restarts, until the    *)
(* project is forgotten.                                                   *)
HistoryReadable == r.had \subseteq Readable
=============================================================================
