------------------------------ MODULE JanetStruct ------------------------------
(***************************************************************************)
(* Structs ("struct.c"): immutable maps, built by putting entries one at a *)
(* time.  Two structs with the same entries are compared bucket by bucket, *)
(* so the buckets may not depend on the order of the puts: a put inserts   *)
(* into a run that is sorted by distance from home, hash and key.          *)
(***************************************************************************)
EXTENDS Integers, FiniteSets

CONSTANTS StructKeys, StructValues,
          Nil,       \* nil, and NaN as a key
          KeyHash,   \* janet_hash
          Rank,      \* janet_compare orders the keys by it
          MaxLength  \* bound: entries announced

ASSUME StructAssumption ==
  /\ Nil \notin StructKeys \cup StructValues
  /\ KeyHash \in [StructKeys -> Int]
  /\ Rank \in [StructKeys -> Int] /\ \A k, l \in StructKeys : Rank[k] = Rank[l] => k = l
  /\ MaxLength \in Nat /\ 2 * MaxLength < 2 ^ 30    \* the capacity is an int32_t

Unfilled == <<Nil, Nil>>

VARIABLES st,         \* bucket -> Unfilled or <<key, value>>
          length,     \* entries announced to janet_struct_begin
          given,      \* puts so far
          made,       \* entries so far (kept in the hash field)
          contents,   \* history: the map that was put
          done        \* janet_struct_end has been called

structvars == <<st, length, given, made, contents, done>>

StructCap(n) == CHOOSE p \in {2 ^ e : e \in 0 .. 30} : p > n /\ p \div 2 <= n

(* janet_struct_begin, of a capacity that does not overflow                  *)
NewStruct(n) == [b \in 0 .. StructCap(2 * n) - 1 |-> Unfilled]
Size(t) == Cardinality(DOMAIN t)
Home(k, cap) == KeyHash[k] % cap
Place(k, d, cap) == IF Home(k, cap) + d < cap THEN Home(k, cap) + d ELSE Home(k, cap) + d - cap

(* janet_struct_find *)
Distances(t, k) == {d \in 0 .. Size(t) - 1 : t[Place(k, d, Size(t))][1] \in {Nil, k}}
StructGet(t, k) ==
  LET hits == Distances(t, k)
  IN IF hits = {} THEN Nil ELSE t[Place(k, CHOOSE d \in hits : \A e \in hits : d <= e, Size(t))][2]

\* Mutant: keys with the same hash keep the order they came in.
Before_Stable(k, dist, l, other) == dist > other \/ (dist = other /\ KeyHash[k] > KeyHash[l])

(* Whether a key goes before the one that has the bucket.                    *)
Before(k, dist, l, other) ==
  \/ dist > other
  \/ dist = other /\ KeyHash[k] > KeyHash[l]
  \/ dist = other /\ KeyHash[k] = KeyHash[l] /\ Rank[k] > Rank[l]

FromHome(b, k, cap) == IF b >= Home(k, cap) THEN b - Home(k, cap) ELSE b + cap - Home(k, cap)
Following(b, cap) == IF b + 1 = cap THEN 0 ELSE b + 1

(* One round of the loops of janet_struct_put_ext, at bucket i with an entry *)
(* kv that is dist away from home: a key it goes before is carried on.       *)
Carry(s, cap, replace) ==
  LET o == s.st[s.i]
      other == FromHome(s.i, o[1], cap)
  IN CASE s.ended -> s
       [] ~s.ended /\ o = Unfilled -> [s EXCEPT !.st[s.i] = s.kv, !.new = 1, !.ended = TRUE]
       [] ~s.ended /\ o # Unfilled /\ o[1] = s.kv[1] ->
            [s EXCEPT !.st[s.i] = IF replace THEN s.kv ELSE o, !.ended = TRUE]
       [] ~s.ended /\ o # Unfilled /\ o[1] # s.kv[1] ->
            IF Before(s.kv[1], s.dist, o[1], other)
            THEN [s EXCEPT !.st[s.i] = s.kv, !.kv = o, !.dist = other + 1, !.i = Following(s.i, cap)]
            ELSE [s EXCEPT !.dist = s.dist + 1, !.i = Following(s.i, cap)]

Carried(t, kv, replace) ==
  LET cap == Size(t)
      round[n \in 0 .. cap] ==
        IF n = 0 THEN [st |-> t, kv |-> kv, i |-> Place(kv[1], 0, cap), dist |-> 0, new |-> 0, ended |-> FALSE]
        ELSE Carry(round[n - 1], cap, replace)
  IN round[cap]

(* janet_struct_put_ext: nil and NaN are dropped, and so is what was not     *)
(* announced.                                                                *)
PutExt(s, n, kv, replace) ==
  IF Nil \in {kv[1], kv[2]} \/ s.made = n THEN s
  ELSE LET r == Carried(s.st, kv, replace) IN [st |-> r.st, made |-> s.made + r.new]

(* The first m of some entries put one after the other into a new struct,    *)
(* where the empty buckets among them are passed over.                       *)
Filled(n, kvs, m) ==
  LET round[i \in 0 .. m] ==
        IF i = 0 THEN [st |-> NewStruct(n), made |-> 0] ELSE PutExt(round[i - 1], n, kvs[i], TRUE)
  IN round[m].st

(* janet_struct_end *)
Finished(t, n, m) == IF m = n THEN t ELSE Filled(m, [i \in 1 .. Size(t) |-> t[i - 1]], Size(t))

InitStruct ==
  /\ length \in 0 .. MaxLength /\ st = NewStruct(length)
  /\ given = 0 /\ made = 0 /\ done = FALSE /\ contents = [k \in StructKeys |-> Nil]

(* janet_struct_put, or, from a prototype that is flattened, without         *)
(* replacing.                                                                *)
StructPut(k, v, replace) ==
  /\ ~done /\ given < length
  /\ LET r == PutExt([st |-> st, made |-> made], length, <<k, v>>, replace) IN st' = r.st /\ made' = r.made
  /\ given' = given + 1
  /\ contents' = IF v = Nil \/ (~replace /\ contents[k] # Nil) THEN contents ELSE [contents EXCEPT ![k] = v]
  /\ UNCHANGED <<length, done>>

StructEnd ==
  /\ ~done /\ given = length /\ done' = TRUE
  /\ st' = Finished(st, length, made) /\ UNCHANGED <<length, given, made, contents>>

NextStruct ==
  StructEnd \/ \E k \in StructKeys, v \in StructValues \cup {Nil}, replace \in BOOLEAN : StructPut(k, v, replace)

StructSpec == InitStruct /\ [][NextStruct]_structvars

-----------------------------------------------------------------------------
(* Puts of a key again, or of nil, leave room that was announced: every key  *)
(* that was put is found, with the value that was put last (or first, when   *)
(* prototypes are flattened), while the struct is made and after.            *)
FindsWhatWasPut == \A k \in StructKeys : StructGet(st, k) = contents[k]

(* Structs with the same entries have the same buckets, whatever the order   *)
(* and the repetitions of the puts: {1 2 3 4} equals {3 4 1 2}.              *)
Given == {k \in StructKeys : contents[k] # Nil}
Listed ==
  LET n == Cardinality(Given)
      keys == CHOOSE f \in [1 .. n -> Given] : \A k \in Given : \E i \in 1 .. n : f[i] = k
  IN [i \in 1 .. n |-> <<keys[i], contents[keys[i]]>>]
Canonical == Filled(Cardinality(Given), Listed, Cardinality(Given))
SameEntriesSameBuckets == done => st = Canonical

(* A struct has what was put, in the same buckets in whatever order.         *)
StructsCompare == FindsWhatWasPut /\ SameEntriesSameBuckets
=============================================================================
