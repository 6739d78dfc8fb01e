------------------------------ MODULE JanetTable ------------------------------
(***************************************************************************)
(* Tables ("table.c", "util.c"): open addressing with linear probing that  *)
(* wraps around.  A removed entry leaves a tombstone; tombstones count for *)
(* the load until the table is rehashed.                                   *)
(*                                                                         *)
(* A program may walk through the keys with `next`, which finds its place  *)
(* from the last key.  Of a weak table the collector may remove entries.   *)
(***************************************************************************)
EXTENDS Integers, FiniteSets

CONSTANTS Keys, Values,
          None,      \* nil
          Hash       \* janet_hash

ASSUME TableAssumption ==
  /\ IsFiniteSet(Keys) /\ 2 * Cardinality(Keys) < 2 ^ 30    \* the counts are int32_t
  /\ None \notin Keys /\ None \notin Values /\ Hash \in [Keys -> Nat]

Dead == <<"tombstone">>
Free == <<"empty">>

VARIABLES buckets,    \* bucket -> Free, Dead or <<key, value>>
          room,       \* capacity: how many buckets there are
          count, deleted,
          weak,       \* the collector may remove entries
          put,        \* history: the map of what was put and not removed
          walk,       \* the last key `next` returned, None outside a walk
          seen,       \* keys returned in this walk
          twice       \* history: a key was returned twice

tablevars == <<buckets, room, count, deleted, weak, put, walk, seen, twice>>

(* janet_tablen: the next power of two above n *)
TableLen(n) == CHOOSE p \in {2 ^ e : e \in 0 .. 30} : p > n /\ p \div 2 <= n

Empty(cap) == [b \in 0 .. cap - 1 |-> Free]
IsEntry(x) == x \notin {Free, Dead}

(* janet_maphash, and the two loops of janet_dict_find: from the hash to the *)
(* end, then from the start.                                                 *)
Probe(cap, k, d) ==
  LET i == Hash[k] % cap
  IN IF i + d < cap THEN i + d ELSE i + d - cap

Ends(x, k) == x = Free \/ (x # Dead /\ x[1] = k)

(* janet_dict_find: the bucket with the key, or the first empty one, or in a *)
(* table without any, the first tombstone.                                   *)
First(S) == CHOOSE d \in S : \A e \in S : d <= e
Hits(t, cap, k) == {d \in 0 .. cap - 1 : Ends(t[Probe(cap, k, d)], k)}
Tombs(t, cap, k) == {d \in 0 .. cap - 1 : t[Probe(cap, k, d)] = Dead}
Nowhere == -1
Find(t, cap, k) ==
  LET hits == Hits(t, cap, k)
      dead == Tombs(t, cap, k)
  IN IF hits # {} THEN Probe(cap, k, First(hits)) ELSE IF dead # {} THEN Probe(cap, k, First(dead)) ELSE Nowhere

Has(t, cap, k) == LET b == Find(t, cap, k) IN b # Nowhere /\ IsEntry(t[b])

(* janet_table_rehash: the entries, in order, into a table without any.      *)
Reentered(u, size, x) == IF IsEntry(x) THEN [u EXCEPT ![Find(u, size, x[1])] = x] ELSE u
Rehashed(t, cap, size) ==
  LET upTo[b \in 0 .. cap] == IF b = 0 THEN Empty(size) ELSE Reentered(upTo[b - 1], size, t[b - 1])
  IN upTo[cap]

InitTable ==
  /\ weak \in BOOLEAN /\ \E n \in {0, 1} : room = TableLen(n)
  /\ buckets = Empty(room) /\ count = 0 /\ deleted = 0 /\ put = [k \in Keys |-> None]
  /\ walk = None /\ seen = {} /\ twice = FALSE

IsFull == 2 * (count + deleted + 1) > room

(* janet_table_put with a value, and with an existing key or a new one.  What *)
(* a program changes ends its walk.                                          *)
Put(k, v) ==
  /\ IF Has(buckets, room, k)
     THEN buckets' = [buckets EXCEPT ![Find(buckets, room, k)] = <<k, v>>] /\ UNCHANGED <<room, count, deleted>>
     ELSE LET grows == Find(buckets, room, k) = Nowhere \/ IsFull
              size == IF grows THEN TableLen(2 * count + 2) ELSE room
              t == IF grows THEN Rehashed(buckets, room, size) ELSE buckets
              b == Find(t, size, k)
              left == IF grows THEN 0 ELSE deleted
          IN /\ room' = size /\ buckets' = [t EXCEPT ![b] = <<k, v>>]
             /\ count' = count + 1
             /\ deleted' = IF t[b] = Dead THEN left - 1 ELSE left
  /\ put' = [put EXCEPT ![k] = v]
  /\ walk' = None /\ seen' = {} /\ UNCHANGED <<twice, weak>>

\* Mutant: a removed entry's bucket becomes empty.
Buried_Emptied(t, b) == [t EXCEPT ![b] = Free]
Buried(t, b) == [t EXCEPT ![b] = Dead]
Graves == deleted + 1

(* janet_table_remove, and janet_table_put with nil *)
Remove(k) ==
  /\ Has(buckets, room, k)
  /\ buckets' = Buried(buckets, Find(buckets, room, k)) /\ put' = [put EXCEPT ![k] = None]
  /\ count' = count - 1 /\ deleted' = Graves
  /\ walk' = None /\ seen' = {} /\ UNCHANGED <<room, weak, twice>>

Clear ==
  /\ count + deleted > 0
  /\ buckets' = Empty(room) /\ put' = [k \in Keys |-> None] /\ count' = 0 /\ deleted' = 0
  /\ walk' = None /\ seen' = {} /\ UNCHANGED <<room, weak, twice>>

(* The inlined removal of janet_sweep: any entries may have died.            *)
Swept(b) ==
  /\ weak /\ IsEntry(buckets[b])
  /\ buckets' = Buried(buckets, b) /\ put' = [put EXCEPT ![buckets[b][1]] = None]
  /\ count' = count - 1 /\ deleted' = Graves
  /\ UNCHANGED <<room, weak, walk, seen, twice>>

After(k) == Find(buckets, room, k) + 1

(* janet_next.  Entries of a weak table may go between two calls, and with   *)
(* the last key the walk loses its place: walks are of other tables.         *)
NextKey ==
  /\ ~weak
  /\ LET from == IF walk = None THEN 0 ELSE After(walk)
         rest == {b \in from .. room - 1 : IsEntry(buckets[b])}
     IN IF rest = {} THEN walk' = None /\ seen' = {} /\ UNCHANGED twice
        ELSE LET k == buckets[First(rest)][1]
             IN walk' = k /\ seen' = seen \cup {k} /\ twice' = (twice \/ k \in seen)
  /\ UNCHANGED <<buckets, room, count, deleted, weak, put>>

NextTable ==
  \/ \E k \in Keys : Remove(k) \/ \E v \in Values : Put(k, v)
  \/ Clear \/ NextKey \/ \E b \in DOMAIN buckets : Swept(b)

TableSpec == InitTable /\ [][NextTable]_tablevars

-----------------------------------------------------------------------------
TableTypeOK ==
  /\ buckets \in [0 .. room - 1 -> {Free, Dead} \cup (Keys \X Values)]
  /\ count \in Nat /\ deleted \in Nat

(* janet_table_get *)
TableContents == [k \in Keys |-> IF Has(buckets, room, k) THEN buckets[Find(buckets, room, k)][2] ELSE None]

(* Through collisions, tombstones and rehashes, a table answers as the map   *)
(* of what was put and not removed.                                          *)
IsDict == TableContents = put

(* The counts are those of the buckets, and half of the buckets stay empty:  *)
(* a search ends before it has gone round.                                   *)
CountsAreRight ==
  /\ count = Cardinality({b \in DOMAIN buckets : IsEntry(buckets[b])})
  /\ deleted = Cardinality({b \in DOMAIN buckets : buckets[b] = Dead})

HalfIsEmpty == 2 * (count + deleted) <= room

(* A key is in one bucket only, so a removal removes it.                     *)
OneBucketPerKey ==
  \A b, c \in DOMAIN buckets : IsEntry(buckets[b]) /\ IsEntry(buckets[c]) /\ buckets[b][1] = buckets[c][1] => b = c

(* "Keys are guaranteed to be seen only once per iteration if `x` is not     *)
(* mutated during iteration."                                                *)
SeenOnce == ~twice

(* ... and all of them are seen.                                             *)
SeesAll == NextKey /\ walk' = None => seen = {k \in Keys : Has(buckets, room, k)}
WalkSeesAll == [][SeesAll]_tablevars

(* A table answers as the map of what was put, its counts are right, and     *)
(* next goes through it once.                                                *)
TableIsDict ==
  [](IsDict /\ CountsAreRight /\ HalfIsEmpty /\ OneBucketPerKey /\ SeenOnce) /\ WalkSeesAll
=============================================================================
