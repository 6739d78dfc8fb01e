----------------------------- MODULE HashProofs -----------------------------
(* Open addressing, for every value of the constants: tables answer as maps, *)
(* structs with the same entries are equal, and symbols are unique.          *)
EXTENDS StructureProofs, JanetTable, JanetStruct, SymCache

(* Powers of two, the sizes of arrays, and buckets. *)

LEMMA PowersAreNat == \A p \in {2 ^ e : e \in 0 .. 30} : p \in Nat
OBVIOUS

LEMMA PowerAbove ==
  ASSUME NEW n \in Nat, n < 2 ^ 30
  PROVE  \E p \in {2 ^ e : e \in 0 .. 30} : p > n /\ p \div 2 <= n
<1> DEFINE P == {1, 2, 4, 8, 16, 32, 64, 128, 256, 512, 1024, 2048, 4096, 8192, 16384, 32768, 65536, 131072, 262144,
                 524288, 1048576, 2097152, 4194304, 8388608, 16777216, 33554432, 67108864, 134217728, 268435456,
                 536870912, 1073741824}
           Powers == {2 ^ e : e \in 0 .. 30}
<1>1. P \subseteq Powers
  <2>1. /\ 1 = 2 ^ 0 /\ 2 = 2 ^ 1 /\ 4 = 2 ^ 2 /\ 8 = 2 ^ 3 /\ 16 = 2 ^ 4 /\ 32 = 2 ^ 5 /\ 64 = 2 ^ 6 /\ 128 = 2 ^ 7
        /\ 256 = 2 ^ 8 /\ 512 = 2 ^ 9 /\ 1024 = 2 ^ 10
    BY SMT
  <2>2. /\ 2048 = 2 ^ 11 /\ 4096 = 2 ^ 12 /\ 8192 = 2 ^ 13 /\ 16384 = 2 ^ 14 /\ 32768 = 2 ^ 15 /\ 65536 = 2 ^ 16
        /\ 131072 = 2 ^ 17 /\ 262144 = 2 ^ 18 /\ 524288 = 2 ^ 19 /\ 1048576 = 2 ^ 20
    BY SMT
  <2>3. /\ 2097152 = 2 ^ 21 /\ 4194304 = 2 ^ 22 /\ 8388608 = 2 ^ 23 /\ 16777216 = 2 ^ 24 /\ 33554432 = 2 ^ 25
        /\ 67108864 = 2 ^ 26 /\ 134217728 = 2 ^ 27 /\ 268435456 = 2 ^ 28 /\ 536870912 = 2 ^ 29 /\ 1073741824 = 2 ^ 30
    BY SMT
  <2> QED BY <2>1, <2>2, <2>3, SMT
<1>2. \E p \in P : p > n /\ p \div 2 <= n
  <2>1. 2 ^ 30 = 1073741824
    BY SMT
  <2> QED BY <2>1, SMT
<1> HIDE DEF P
<1> QED BY <1>1, <1>2

LEMMA OneMore ==
  ASSUME NEW S, IsFiniteSet(S), NEW x
  PROVE  Cardinality(S \cup {x}) <= Cardinality(S) + 1
<1>1. Cardinality(S) \in Nat
  BY FS_CardinalityType
<1>2. CASE x \in S
  <2> DEFINE T == S \cup {x}
  <2>1. T = S
    BY <1>2
  <2> HIDE DEF T
  <2>2. Cardinality(T) <= Cardinality(S) + 1
    BY <1>1, <2>1
  <2> QED BY <2>2 DEF T
<1>3. CASE x \notin S
  <2>1. Cardinality(S \cup {x}) = Cardinality(S) + 1
    BY <1>3, FS_AddElement
  <2> QED BY <1>1, <2>1
<1> QED BY <1>2, <1>3

Buckets(cap) == 0 .. cap - 1

\* Bucket b filled with x.
IsPut(u, c, b, x) == u = [c EXCEPT ![b] = x]

-----------------------------------------------------------------------------
(* Tables. *)

USE TableAssumption

\* A search for k would come to bucket b.
Reached(t, cap, k, b) ==
  \E d \in Buckets(cap) : Probe(cap, k, d) = b /\ \A e \in 0 .. d - 1 : t[Probe(cap, k, e)] # Free

\* A table with the entries of E.
Stores(t, cap, E) ==
  /\ cap \in Nat /\ cap # 0 /\ t \in [Buckets(cap) -> {Free, Dead} \cup E]
  /\ \A x \in E : \E b \in Buckets(cap) : t[b] = x /\ Reached(t, cap, x[1], b)
  /\ \A b, e \in Buckets(cap) : t[b] \in E /\ t[b] = t[e] => b = e

IsMap(E) == E \subseteq Keys \X Values /\ \A x, y \in E : x[1] = y[1] => x = y

TombsIn(t, cap) == {b \in Buckets(cap) : t[b] = Dead}
EntriesIn(t, cap) == {b \in Buckets(cap) : IsEntry(t[b])}
NoTombs(t, cap) == TombsIn(t, cap) = {}
OneMoreTomb(u, t, cap, b) == b \notin TombsIn(t, cap) /\ TombsIn(u, cap) = TombsIn(t, cap) \cup {b}
SameTombs(u, t, cap) == TombsIn(u, cap) = TombsIn(t, cap)

LEMMA EntriesDiffer ==
  /\ Free # Dead
  /\ \A x \in Keys \X Values : x # Free /\ x # Dead /\ IsEntry(x) /\ x[1] \in Keys /\ x[2] \in Values
<1>1. \A x \in Keys \X Values : Len(x) = 2
  OBVIOUS
<1>2. Len(<<"empty">>) = 1 /\ Len(<<"tombstone">>) = 1
  OBVIOUS
<1>3. ASSUME NEW x \in Keys \X Values PROVE x # Free /\ x # Dead
  <2>1. Len(x) = 2
    BY <1>1
  <2>2. x # <<"empty">>
    <3>1. x = <<"empty">> => Len(x) = Len(<<"empty">>)
      OBVIOUS
    <3> QED BY <1>2, <2>1, <3>1
  <2>3. x # <<"tombstone">>
    <3>1. x = <<"tombstone">> => Len(x) = Len(<<"tombstone">>)
      OBVIOUS
    <3> QED BY <1>2, <2>1, <3>1
  <2> QED BY <2>2, <2>3 DEF Free, Dead
<1>4. Free # Dead
  BY DEF Free, Dead
<1> QED BY <1>3, <1>4 DEF IsEntry

\* A search goes over all buckets once.
LEMMA ProbeIs ==
  ASSUME NEW cap \in Nat, cap # 0, NEW k \in Keys
  PROVE  /\ \A d \in Buckets(cap) : Probe(cap, k, d) \in Buckets(cap)
         /\ \A b \in Buckets(cap) : \E d \in Buckets(cap) : Probe(cap, k, d) = b
<1> DEFINE i == Hash[k] % cap
<1>1. i \in 0 .. cap - 1
  <2>1. Hash[k] \in Nat
    OBVIOUS
  <2> QED BY <2>1
<1>2. \A d : Probe(cap, k, d) = IF i + d < cap THEN i + d ELSE i + d - cap
  BY DEF Probe
<1> HIDE DEF i
<1>3. \A d \in Buckets(cap) : Probe(cap, k, d) \in Buckets(cap)
  BY <1>1, <1>2 DEF Buckets
<1>4. ASSUME NEW b \in Buckets(cap) PROVE \E d \in Buckets(cap) : Probe(cap, k, d) = b
  <2> DEFINE d == IF b >= i THEN b - i ELSE b - i + cap
  <2>1. d \in Buckets(cap)
    BY <1>1 DEF Buckets
  <2>2. IF i + d < cap THEN i + d = b ELSE i + d - cap = b
    BY <1>1 DEF Buckets
  <2> HIDE DEF d
  <2>3. Probe(cap, k, d) = b
    BY <1>2, <2>2
  <2> QED BY <2>1, <2>3
<1> QED BY <1>3, <1>4

LEMMA FirstIs ==
  ASSUME NEW S \in SUBSET Nat, S # {}
  PROVE  First(S) \in S /\ \A e \in S : First(S) <= e
<1>1. \E d \in S : \A e \in S : d <= e
  BY LeastExists
<1> QED BY <1>1 DEF First

LEMMA StillReached ==
  ASSUME NEW cap \in Nat, cap # 0, NEW t, NEW u, NEW k \in Keys, NEW b, Reached(t, cap, k, b),
         \A e \in Buckets(cap) : t[e] # Free => u[e] # Free
  PROVE  Reached(u, cap, k, b)
<1>1. PICK d \in Buckets(cap) : Probe(cap, k, d) = b /\ \A e \in 0 .. d - 1 : t[Probe(cap, k, e)] # Free
  BY DEF Reached
<1>2. \A e \in 0 .. d - 1 : Probe(cap, k, e) \in Buckets(cap)
  <2>1. \A e \in 0 .. d - 1 : e \in Buckets(cap)
    BY <1>1 DEF Buckets
  <2> QED BY <2>1, ProbeIs
<1> QED BY <1>1, <1>2 DEF Reached

LEMMA PutStores ==
  ASSUME NEW cap, NEW t, NEW E, NEW x \in Keys \X Values, Stores(t, cap, E), IsMap(E \cup {x}), x \notin E,
         NEW b \in Buckets(cap), t[b] \notin E, Reached(t, cap, x[1], b),
         NEW u, IsPut(u, t, b, x)
  PROVE  Stores(u, cap, E \cup {x}) /\ (t[b] = Free => SameTombs(u, t, cap))
<1>1. /\ cap \in Nat /\ cap # 0 /\ t \in [Buckets(cap) -> {Free, Dead} \cup E]
      /\ \A y \in E : \E e \in Buckets(cap) : t[e] = y /\ Reached(t, cap, y[1], e)
      /\ \A d, e \in Buckets(cap) : t[d] \in E /\ t[d] = t[e] => d = e
  BY DEF Stores
<1>2. u \in [Buckets(cap) -> {Free, Dead} \cup (E \cup {x})] /\ u[b] = x /\ \A e \in Buckets(cap) : e # b => u[e] = t[e]
  BY <1>1 DEF IsPut
<1>3. x # Free /\ x # Dead /\ x[1] \in Keys /\ \A y \in E : y[1] \in Keys
  BY EntriesDiffer DEF IsMap
<1>4. \A e \in Buckets(cap) : t[e] # Free => u[e] # Free
  BY <1>2, <1>3
<1>5. ASSUME NEW y \in E \cup {x} PROVE \E e \in Buckets(cap) : u[e] = y /\ Reached(u, cap, y[1], e)
  <2>1. CASE y = x
    BY <1>1, <1>2, <1>3, <1>4, <2>1, StillReached
  <2>2. CASE y \in E
    <3>1. PICK e \in Buckets(cap) : t[e] = y /\ Reached(t, cap, y[1], e)
      BY <1>1, <2>2
    <3>2. u[e] = y
      BY <1>2, <2>2, <3>1
    <3>3. Reached(u, cap, y[1], e)
      BY <1>1, <1>3, <1>4, <2>2, <3>1, StillReached
    <3> QED BY <3>2, <3>3
  <2> QED BY <2>1, <2>2
<1>6. ASSUME NEW d \in Buckets(cap), NEW e \in Buckets(cap), u[d] \in E \cup {x}, u[d] = u[e] PROVE d = e
  <2>1. CASE d = b \/ e = b
    <3>1. \A i \in Buckets(cap) : i # b => u[i] # x
      <4> TAKE i \in Buckets(cap)
      <4>1. t[i] # x
        BY <1>1, <1>3
      <4> QED BY <1>2, <4>1
    <3> QED BY <1>2, <1>6, <2>1, <3>1
  <2>2. CASE d # b /\ e # b
    <3>1. u[d] = t[d] /\ u[e] = t[e] /\ t[d] # x
      BY <1>1, <1>2, <1>3, <2>2
    <3> QED BY <1>1, <1>6, <3>1
  <2> QED BY <2>1, <2>2
<1>7. Stores(u, cap, E \cup {x})
  BY <1>1, <1>2, <1>5, <1>6 DEF Stores
<1>8. t[b] = Free => SameTombs(u, t, cap)
  BY <1>2, <1>3, EntriesDiffer DEF SameTombs, TombsIn
<1> QED BY <1>7, <1>8

LEMMA BuryStores ==
  ASSUME NEW cap, NEW t, NEW E, Stores(t, cap, E), IsMap(E), NEW b \in Buckets(cap), t[b] \in E,
         NEW u, IsPut(u, t, b, Dead)
  PROVE  Stores(u, cap, E \ {t[b]}) /\ Reached(u, cap, t[b][1], b) /\ OneMoreTomb(u, t, cap, b)
<1> DEFINE x == t[b]
<1>1. /\ cap \in Nat /\ cap # 0 /\ t \in [Buckets(cap) -> {Free, Dead} \cup E]
      /\ \A y \in E : \E e \in Buckets(cap) : t[e] = y /\ Reached(t, cap, y[1], e)
      /\ \A d, e \in Buckets(cap) : t[d] \in E /\ t[d] = t[e] => d = e
  BY DEF Stores
<1>2. u[b] = Dead /\ \A e \in Buckets(cap) : e # b => u[e] = t[e]
  BY <1>1 DEF IsPut
<1>3. u \in [Buckets(cap) -> {Free, Dead} \cup (E \ {x})]
  <2>1. \A e \in Buckets(cap) : e # b => t[e] # x
    BY <1>1
  <2>2. \A e \in Buckets(cap) : u[e] \in {Free, Dead} \cup (E \ {x})
    BY <1>1, <1>2, <2>1
  <2>3. u = [e \in Buckets(cap) |-> u[e]]
    BY <1>1 DEF IsPut
  <2> HIDE DEF x
  <2> QED BY <2>2, <2>3
<1>4. \A y \in E : y # Free /\ y # Dead /\ y[1] \in Keys
  BY EntriesDiffer DEF IsMap
<1>5. \A e \in Buckets(cap) : t[e] # Free => u[e] # Free
  BY <1>2, EntriesDiffer
<1>6. ASSUME NEW y \in E PROVE \E e \in Buckets(cap) : t[e] = y /\ Reached(u, cap, y[1], e)
  <2>1. PICK e \in Buckets(cap) : t[e] = y /\ Reached(t, cap, y[1], e)
    BY <1>1
  <2>2. Reached(u, cap, y[1], e)
    BY <1>1, <1>4, <1>5, <2>1, StillReached
  <2> QED BY <2>1, <2>2
<1>7. \A y \in E \ {x} : \E e \in Buckets(cap) : u[e] = y /\ Reached(u, cap, y[1], e)
  BY <1>2, <1>6
<1>8. \A d, e \in Buckets(cap) : u[d] \in E \ {x} /\ u[d] = u[e] => d = e
  <2> SUFFICES ASSUME NEW d \in Buckets(cap), NEW e \in Buckets(cap), u[d] \in E, u[d] = u[e] PROVE d = e
    OBVIOUS
  <2>1. d # b /\ e # b
    BY <1>2, <1>4
  <2> QED BY <1>1, <1>2, <2>1
<1>9. Stores(u, cap, E \ {x})
  BY <1>1, <1>3, <1>7, <1>8 DEF Stores
<1>10. OneMoreTomb(u, t, cap, b)
  BY <1>2, <1>4 DEF OneMoreTomb, TombsIn
<1>11. Reached(u, cap, x[1], b)
  <2>1. PICK e \in Buckets(cap) : t[e] = x /\ Reached(u, cap, x[1], e)
    BY <1>6
  <2>2. e = b
    BY <1>1, <2>1
  <2> QED BY <2>1, <2>2
<1> QED BY <1>9, <1>10, <1>11

\* The result of a search: the bucket of the key, or an empty one for it.
IsFind(b, t, cap, E, k) ==
  /\ b \in Buckets(cap) /\ Reached(t, cap, k, b)
  /\ IF t[b] = Free THEN \A x \in E : x[1] # k ELSE t[b] \in E /\ t[b][1] = k

LEMMA FindIs ==
  ASSUME NEW cap, NEW t, NEW E, Stores(t, cap, E), IsMap(E), NEW k \in Keys, \E b \in Buckets(cap) : t[b] = Free
  PROVE  IsFind(Find(t, cap, k), t, cap, E, k) /\ (Has(t, cap, k) <=> t[Find(t, cap, k)] # Free)
<1> DEFINE hits == Hits(t, cap, k)
           m == First(hits)
           b == Find(t, cap, k)
<1>1. /\ cap \in Nat /\ cap # 0 /\ t \in [Buckets(cap) -> {Free, Dead} \cup E]
      /\ \A x \in E : \E e \in Buckets(cap) : t[e] = x /\ Reached(t, cap, x[1], e)
  BY DEF Stores
<1>2. /\ \A d \in Buckets(cap) : Probe(cap, k, d) \in Buckets(cap)
      /\ \A e \in Buckets(cap) : \E d \in Buckets(cap) : Probe(cap, k, d) = e
  BY <1>1, ProbeIs
<1>3. hits = {d \in Buckets(cap) : Ends(t[Probe(cap, k, d)], k)}
  BY DEF Hits, Buckets
<1>4. hits # {}
  BY <1>2, <1>3 DEF Ends
<1>5. b = Probe(cap, k, m)
  BY <1>4 DEF Find
<1> HIDE DEF b
<1>6. hits \in SUBSET Nat
  BY <1>3 DEF Buckets
<1> HIDE DEF hits
<1>7. m \in hits /\ \A d \in hits : m <= d
  BY <1>4, <1>6, FirstIs
<1> HIDE DEF m
<1>8. m \in Buckets(cap) /\ b \in Buckets(cap) /\ Ends(t[b], k)
  BY <1>2, <1>3, <1>5, <1>7
<1>9. \A e \in 0 .. m - 1 : t[Probe(cap, k, e)] # Free
  <2> SUFFICES ASSUME NEW e \in 0 .. m - 1 PROVE t[Probe(cap, k, e)] # Free
    OBVIOUS
  <2>1. e \in Buckets(cap) /\ e < m /\ m \in Int /\ e \in Int
    BY <1>1, <1>8 DEF Buckets
  <2>2. e \notin hits
    BY <1>7, <2>1
  <2> QED BY <1>3, <2>1, <2>2 DEF Ends
<1>10. Reached(t, cap, k, b)
  BY <1>5, <1>8, <1>9 DEF Reached
<1>11. \A x \in E : x \in Keys \X Values /\ x # Free /\ x # Dead /\ IsEntry(x)
  BY EntriesDiffer DEF IsMap
<1>12. ASSUME NEW x \in E, x[1] = k PROVE t[b] # Free
  <2>1. PICK d \in Buckets(cap) : t[Probe(cap, k, d)] = x /\ \A e \in 0 .. d - 1 : t[Probe(cap, k, e)] # Free
    BY <1>1, <1>12 DEF Reached
  <2>2. d \in hits
    BY <1>3, <1>11, <1>12, <2>1 DEF Ends
  <2>3. m <= d /\ m \in Nat /\ d \in Nat
    BY <1>6, <1>7, <2>2
  <2>4. m = d \/ m \in 0 .. d - 1
    BY <2>3
  <2> QED BY <1>5, <1>11, <2>1, <2>4
<1>13. t[b] # Free => t[b] \in E /\ t[b][1] = k
  <2>1. t[b] \in {Free, Dead} \cup E
    BY <1>1, <1>8
  <2> QED BY <1>8, <2>1 DEF Ends
<1>14. IsFind(b, t, cap, E, k)
  BY <1>8, <1>10, <1>12, <1>13 DEF IsFind
<1>15. b # Nowhere
  BY <1>1, <1>8 DEF Nowhere, Buckets
<1>16. Has(t, cap, k) <=> t[b] # Free
  BY <1>11, <1>13, <1>15 DEF Has, IsEntry, b
<1> QED BY <1>14, <1>16 DEF b

\* A new value for a key.
LEMMA ReplaceStores ==
  ASSUME NEW cap, NEW t, NEW E, Stores(t, cap, E), IsMap(E), NEW b \in Buckets(cap), t[b] \in E,
         NEW x \in Keys \X Values, x[1] = t[b][1], NEW u, IsPut(u, t, b, x)
  PROVE  Stores(u, cap, (E \ {t[b]}) \cup {x}) /\ SameTombs(u, t, cap)
<1> DEFINE w == [t EXCEPT ![b] = Dead]
           y == t[b]
           M == E \ {y}
<1>1. IsPut(w, t, b, Dead)
  BY DEF IsPut
<1>2. t \in [Buckets(cap) -> {Free, Dead} \cup E]
  BY DEF Stores
<1>3. IsPut(u, w, b, x) /\ w[b] = Dead
  BY <1>2 DEF IsPut
<1>4. x \notin M /\ IsMap(M \cup {x}) /\ Dead \notin M
  BY EntriesDiffer DEF IsMap
<1>5. u[b] = x /\ \A e \in Buckets(cap) : e # b => u[e] = t[e]
  BY <1>2 DEF IsPut
<1> HIDE DEF w
<1>6. Stores(w, cap, M) /\ Reached(w, cap, x[1], b)
  BY <1>1, BuryStores
<1> HIDE DEF M, y
<1>7. Stores(u, cap, M \cup {x})
  BY <1>3, <1>4, <1>6, PutStores
<1>8. SameTombs(u, t, cap)
  BY <1>2, <1>5, EntriesDiffer DEF SameTombs, TombsIn, IsMap
<1> QED BY <1>7, <1>8 DEF M, y

\* The buckets in use are those of the entries, and the tombstones.
LEMMA EntriesCounted ==
  ASSUME NEW cap, NEW t, NEW E, Stores(t, cap, E), IsMap(E)
  PROVE  /\ IsFiniteSet(E) /\ Cardinality(EntriesIn(t, cap)) = Cardinality(E) /\ Cardinality(E) \in Nat
         /\ IsFiniteSet(TombsIn(t, cap)) /\ Cardinality(TombsIn(t, cap)) \in Nat
         /\ Cardinality(E) + Cardinality(TombsIn(t, cap)) < cap => \E b \in Buckets(cap) : t[b] = Free
<1> DEFINE S == EntriesIn(t, cap)
           D == TombsIn(t, cap)
           f == [b \in S |-> t[b]]
<1>1. /\ cap \in Nat /\ t \in [Buckets(cap) -> {Free, Dead} \cup E]
      /\ \A x \in E : \E b \in Buckets(cap) : t[b] = x
      /\ \A b, e \in Buckets(cap) : t[b] \in E /\ t[b] = t[e] => b = e
  BY DEF Stores
<1>2. \A x \in E : IsEntry(x)
  BY EntriesDiffer DEF IsMap
<1>3. IsFiniteSet(Buckets(cap)) /\ Cardinality(Buckets(cap)) = cap
  BY <1>1, FS_Interval DEF Buckets
<1>4. IsFiniteSet(S) /\ IsFiniteSet(D)
  <2>1. S \subseteq Buckets(cap) /\ D \subseteq Buckets(cap)
    BY DEF EntriesIn, TombsIn
  <2> QED BY <1>3, <2>1, FS_Subset
<1>5. f \in [S -> E] /\ \A b, e \in S : f[b] = f[e] => b = e
  BY <1>1 DEF EntriesIn, IsEntry
<1>6. \A x \in E : \E b \in S : f[b] = x
  BY <1>1, <1>2 DEF EntriesIn
<1> HIDE DEF S, f
<1>7. f \in Injection(S, E)
  BY <1>5, Fun_IsInj
<1>8. f \in Surjection(S, E)
  BY <1>5, <1>6, Fun_IsSurj
<1>9. IsFiniteSet(E) /\ Cardinality(E) <= Cardinality(S)
  BY <1>4, <1>8, FS_Surjection
<1>10. Cardinality(S) <= Cardinality(E)
  BY <1>7, <1>9, FS_Injection
<1>11. Cardinality(S) \in Nat /\ Cardinality(E) \in Nat /\ Cardinality(D) \in Nat
  BY <1>4, <1>9, FS_CardinalityType
<1>12. Cardinality(S) = Cardinality(E)
  BY <1>9, <1>10, <1>11
<1>13. ASSUME Cardinality(E) + Cardinality(D) < cap PROVE \E b \in Buckets(cap) : t[b] = Free
  <2>1. SUFFICES ASSUME ~\E b \in Buckets(cap) : t[b] = Free PROVE FALSE
    OBVIOUS
  <2>2. S \cup D = Buckets(cap)
    BY <2>1 DEF S, EntriesIn, TombsIn, IsEntry
  <2>3. S \cap D = {}
    BY DEF S, EntriesIn, TombsIn, IsEntry
  <2> HIDE DEF D
  <2>4. Cardinality(S \cup D) = Cardinality(S) + Cardinality(D) - Cardinality(S \cap D)
    BY <1>4, FS_Union
  <2>5. Cardinality(S \cap D) = 0
    BY <2>3, FS_EmptySet
  <2> QED BY <1>1, <1>3, <1>11, <1>12, <1>13, <2>2, <2>4, <2>5
<1> QED BY <1>4, <1>9, <1>11, <1>12, <1>13 DEF S

LEMMA TableLenIs ==
  ASSUME NEW n \in Nat, n < 2 ^ 30
  PROVE  TableLen(n) \in Nat /\ TableLen(n) > n
<1> DEFINE Powers == {2 ^ e : e \in 0 .. 30}
<1>1. \E p \in Powers : p > n /\ p \div 2 <= n
  BY PowerAbove
<1>2. \A p \in Powers : p \in Nat
  BY PowersAreNat
<1>3. TableLen(n) = CHOOSE p \in Powers : p > n /\ p \div 2 <= n
  BY DEF TableLen
<1> HIDE DEF Powers
<1> QED BY <1>1, <1>2, <1>3

LEMMA EmptyStores ==
  ASSUME NEW cap \in Nat, cap # 0
  PROVE  Stores(Empty(cap), cap, {}) /\ NoTombs(Empty(cap), cap)
BY EntriesDiffer DEF Empty, Stores, NoTombs, TombsIn, Buckets

\* janet_table_rehash: the new table has the same entries, and no tombstones.
LEMMA RehashedStores ==
  ASSUME NEW cap, NEW t, NEW E, Stores(t, cap, E), IsMap(E), NEW size \in Nat, Cardinality(E) < size
  PROVE  Stores(Rehashed(t, cap, size), size, E) /\ NoTombs(Rehashed(t, cap, size), size)
<1> DEFINE a == Empty(size)
           S == [Buckets(size) -> {Free, Dead} \cup E]
           F == [b \in 1 .. cap |-> [u \in S |-> Reentered(u, size, t[b - 1])]]
           upTo[b \in 0 .. cap] == IF b = 0 THEN a ELSE Reentered(upTo[b - 1], size, t[b - 1])
<1>1. /\ cap \in Nat /\ cap # 0 /\ t \in [Buckets(cap) -> {Free, Dead} \cup E]
      /\ \A x \in E : \E b \in Buckets(cap) : t[b] = x
      /\ \A b, e \in Buckets(cap) : t[b] \in E /\ t[b] = t[e] => b = e
  BY DEF Stores
<1>2. Rehashed(t, cap, size) = upTo[cap]
  BY DEF Rehashed
<1>3. IsFiniteSet(E) /\ Cardinality(E) \in Nat /\ size # 0
  BY EntriesCounted
<1>4. Stores(a, size, {}) /\ NoTombs(a, size)
  BY <1>3, EmptyStores
<1>5. a \in S
  BY DEF Empty, Buckets
<1>6. \A b \in 1 .. cap : t[b - 1] \in {Free, Dead} \cup E
  <2> TAKE b \in 1 .. cap
  <2>1. b - 1 \in Buckets(cap)
    BY <1>1 DEF Buckets
  <2> QED BY <1>1, <2>1
<1> HIDE DEF a
<1>7. \A u \in S, b \in 1 .. cap : Reentered(u, size, t[b - 1]) \in S
  <2> SUFFICES ASSUME NEW u \in S, NEW b \in 1 .. cap PROVE Reentered(u, size, t[b - 1]) \in S
    OBVIOUS
  <2> QED BY <1>6 DEF Reentered
<1>8. F \in [1 .. cap -> [S -> S]]
  <2> HIDE DEF S
  <2> QED BY <1>7
<1> HIDE DEF S
<1>9. PICK g : g \in [0 .. cap -> S] /\ g[0] = a /\ \A b \in 1 .. cap : g[b] = F[b][g[b - 1]]
  <2> HIDE DEF F, upTo
  <2>1. \E g : IsRun(g, S, cap, a, F)
    BY <1>1, <1>5, <1>8, RunExists
  <2> QED BY <2>1 DEF IsRun
<1>10. \A b \in 1 .. cap : g[b] = Reentered(g[b - 1], size, t[b - 1])
  <2> TAKE b \in 1 .. cap
  <2>1. g[b - 1] \in S
    BY <1>1, <1>9
  <2> QED BY <1>9, <2>1
<1>11. g = [b \in 0 .. cap |-> IF b = 0 THEN a ELSE Reentered(g[b - 1], size, t[b - 1])]
  <2> HIDE DEF F
  <2> QED BY <1>1, <1>9, <1>10
<1>12. upTo = [b \in 0 .. cap |-> IF b = 0 THEN a ELSE Reentered(upTo[b - 1], size, t[b - 1])]
  <2> HIDE DEF F
  <2> QED BY <1>11
<1> HIDE DEF upTo, F
<1>13. upTo[0] = a /\ \A b \in 1 .. cap : upTo[b] = Reentered(upTo[b - 1], size, t[b - 1])
  BY <1>1, <1>12
<1> DEFINE Seen(b) == {t[e] : e \in 0 .. b - 1} \cap E
           T == {b \in Nat : b <= cap => Stores(upTo[b], size, Seen(b)) /\ NoTombs(upTo[b], size)}
<1>14. 0 \in T
  <2>1. Seen(0) = {}
    OBVIOUS
  <2> HIDE DEF Seen
  <2> QED BY <1>4, <1>13, <2>1
<1>15. \A b \in Nat : b \in T => b + 1 \in T
  <2> SUFFICES ASSUME NEW b \in Nat, b \in T, b + 1 <= cap
               PROVE  Stores(upTo[b + 1], size, Seen(b + 1)) /\ NoTombs(upTo[b + 1], size)
    <3> HIDE DEF Seen
    <3> QED OBVIOUS
  <2>1. b + 1 \in 1 .. cap /\ (b + 1) - 1 = b /\ b \in Buckets(cap)
    BY <1>1 DEF Buckets
  <2> DEFINE u == upTo[b]
             x == t[b]
             M == Seen(b)
  <2>2. Stores(u, size, M) /\ NoTombs(u, size)
    BY <1>1
  <2>3. upTo[b + 1] = Reentered(u, size, x)
    BY <1>13, <2>1
  <2>4. x \in {Free, Dead} \cup E
    BY <1>1, <2>1
  <2>5. Seen(b + 1) = M \cup ({x} \cap E)
    <3>1. \A e : e \in 0 .. (b + 1) - 1 <=> e \in 0 .. b - 1 \/ e = b
      OBVIOUS
    <3> QED BY <3>1
  <2>6. M \subseteq E /\ (x \in E => x \notin M)
    <3>1. \A e \in 0 .. b - 1 : e \in Buckets(cap) /\ e # b
      BY <1>1, <2>1 DEF Buckets
    <3> QED BY <1>1, <2>1, <3>1
  <2> HIDE DEF M, u, x
  <2>7. \A y \in E : y \in Keys \X Values /\ IsEntry(y) /\ y[1] \in Keys
    BY EntriesDiffer DEF IsMap
  <2>8. CASE x \notin E
    <3>1. ~IsEntry(x)
      BY <2>4, <2>8 DEF IsEntry
    <3>2. upTo[b + 1] = u /\ Seen(b + 1) = M
      BY <2>3, <2>5, <2>8, <3>1 DEF Reentered
    <3> QED BY <2>2, <3>2
  <2>9. CASE x \in E
    <3> DEFINE p == Find(u, size, x[1])
               w == [u EXCEPT ![p] = x]
    <3>1. upTo[b + 1] = w /\ Seen(b + 1) = M \cup {x}
      BY <2>3, <2>5, <2>7, <2>9 DEF Reentered
    <3> HIDE DEF Seen
    <3>2. IsMap(M) /\ IsMap(M \cup {x})
      BY <2>6, <2>9 DEF IsMap
    <3>3. \E e \in Buckets(size) : u[e] = Free
      <4>1. IsFiniteSet(M) /\ Cardinality(M) <= Cardinality(E) /\ Cardinality(M) \in Nat
        BY <1>3, <2>6, FS_Subset, FS_CardinalityType
      <4>2. Cardinality(TombsIn(u, size)) = 0
        BY <2>2, FS_EmptySet DEF NoTombs
      <4>3. Cardinality(M) + Cardinality(TombsIn(u, size)) < size
        BY <1>3, <4>1, <4>2
      <4> QED BY <2>2, <3>2, <4>3, EntriesCounted
    <3>4. IsFind(p, u, size, M, x[1])
      BY <2>2, <2>7, <2>9, <3>2, <3>3, FindIs
    <3> HIDE DEF p
    <3>5. p \in Buckets(size) /\ Reached(u, size, x[1], p) /\ u[p] = Free
      <4>1. \A y \in M : y[1] # x[1]
        BY <2>6, <2>9 DEF IsMap
      <4> QED BY <3>4, <4>1 DEF IsFind
    <3>6. u[p] \notin M
      BY <3>2, <3>5, EntriesDiffer DEF IsMap
    <3>7. IsPut(w, u, p, x)
      BY DEF IsPut
    <3> HIDE DEF w
    <3>8. Stores(w, size, M \cup {x}) /\ (u[p] = Free => SameTombs(w, u, size))
      BY <2>2, <2>6, <2>7, <2>9, <3>2, <3>5, <3>6, <3>7, PutStores
    <3> QED BY <2>2, <3>1, <3>5, <3>8 DEF SameTombs, NoTombs
  <2> QED BY <2>8, <2>9
<1> HIDE DEF T
<1>16. cap \in T
  BY <1>1, <1>14, <1>15, SetInduction
<1>17. Seen(cap) = E
  <2>1. \A x \in E : \E e \in 0 .. cap - 1 : t[e] = x
    BY <1>1 DEF Buckets
  <2> QED BY <2>1
<1> HIDE DEF Seen
<1> QED BY <1>1, <1>2, <1>16, <1>17 DEF T

PutEntries(p) == {<<k, p[k]>> : k \in {j \in Keys : p[j] # None}}
IsWithout(S, T, x) == S = T \ {x}
KeysUpTo(t, b) == {t[e][1] : e \in {i \in 0 .. b : IsEntry(t[i])}}

IsTable(t, cap, n, d, p) ==
  /\ p \in [Keys -> Values \cup {None}] /\ Stores(t, cap, PutEntries(p))
  /\ n = Cardinality(PutEntries(p)) /\ d = Cardinality(TombsIn(t, cap)) /\ 2 * (n + d) <= cap

\* What a walk that has come to the key w has seen.
IsWalk(t, cap, p, w, s) ==
  IF w = None THEN s = {} ELSE w \in Keys /\ p[w] # None /\ s = KeysUpTo(t, Find(t, cap, w))

TableInv ==
  /\ IsTable(buckets, room, count, deleted, put) /\ IsWalk(buckets, room, put, walk, seen)
  /\ weak \in BOOLEAN /\ (weak => walk = None) /\ twice = FALSE

LEMMA EntriesMap ==
  ASSUME NEW p \in [Keys -> Values \cup {None}]
  PROVE  /\ IsMap(PutEntries(p))
         /\ \A x \in PutEntries(p) : x \in Keys \X Values /\ x = <<x[1], p[x[1]]>> /\ p[x[1]] # None
         /\ \A k \in Keys : p[k] # None => <<k, p[k]>> \in PutEntries(p) /\ p[k] \in Values
<1>1. \A k \in Keys : p[k] # None => p[k] \in Values /\ <<k, p[k]>> \in PutEntries(p)
  BY DEF PutEntries
<1>2. ASSUME NEW x \in PutEntries(p) PROVE x \in Keys \X Values /\ x = <<x[1], p[x[1]]>> /\ p[x[1]] # None
  <2>1. PICK k \in Keys : p[k] # None /\ x = <<k, p[k]>>
    BY DEF PutEntries
  <2>2. x[1] = k /\ p[k] \in Values
    BY <1>1, <2>1
  <2> QED BY <2>1, <2>2
<1>3. IsMap(PutEntries(p))
  <2>1. PutEntries(p) \subseteq Keys \X Values
    BY <1>2
  <2>2. \A x, y \in PutEntries(p) : x[1] = y[1] => x = y
    BY <1>2
  <2> QED BY <2>1, <2>2 DEF IsMap
<1> QED BY <1>1, <1>2, <1>3

LEMMA EntriesPut ==
  ASSUME NEW p \in [Keys -> Values \cup {None}], NEW k \in Keys, NEW v \in Values, NEW q, IsPut(q, p, k, v)
  PROVE  /\ q \in [Keys -> Values \cup {None}]
         /\ PutEntries(q) = (PutEntries(p) \ {<<k, p[k]>>}) \cup {<<k, v>>}
<1>1. q \in [Keys -> Values \cup {None}] /\ q[k] = v /\ v # None /\ \A j \in Keys : j # k => q[j] = p[j]
  BY DEF IsPut
<1>2. ASSUME NEW x \in PutEntries(q) PROVE x \in (PutEntries(p) \ {<<k, p[k]>>}) \cup {<<k, v>>}
  <2>1. PICK j \in Keys : q[j] # None /\ x = <<j, q[j]>>
    BY DEF PutEntries
  <2>2. j # k => <<j, p[j]>> \in PutEntries(p) /\ <<j, p[j]>> # <<k, p[k]>>
    BY <1>1, <2>1 DEF PutEntries
  <2> QED BY <1>1, <2>1, <2>2
<1>3. ASSUME NEW x \in (PutEntries(p) \ {<<k, p[k]>>}) \cup {<<k, v>>} PROVE x \in PutEntries(q)
  <2>1. CASE x = <<k, v>>
    BY <1>1, <2>1 DEF PutEntries
  <2>2. CASE x # <<k, v>>
    <3>1. x \in PutEntries(p) /\ x # <<k, p[k]>>
      BY <1>3, <2>2
    <3>2. PICK j \in Keys : p[j] # None /\ x = <<j, p[j]>>
      BY <3>1 DEF PutEntries
    <3>3. q[j] = p[j]
      BY <1>1, <3>1, <3>2
    <3> QED BY <3>2, <3>3 DEF PutEntries
  <2> QED BY <2>1, <2>2
<1>4. PutEntries(q) = (PutEntries(p) \ {<<k, p[k]>>}) \cup {<<k, v>>}
  BY <1>2, <1>3
<1> QED BY <1>1, <1>4

LEMMA EntriesRemoved ==
  ASSUME NEW p \in [Keys -> Values \cup {None}], NEW k \in Keys, NEW q, IsPut(q, p, k, None)
  PROVE  q \in [Keys -> Values \cup {None}] /\ IsWithout(PutEntries(q), PutEntries(p), <<k, p[k]>>)
<1>1. q \in [Keys -> Values \cup {None}] /\ q[k] = None /\ \A j \in Keys : j # k => q[j] = p[j]
  BY DEF IsPut
<1>2. ASSUME NEW x \in PutEntries(q) PROVE x \in PutEntries(p) \ {<<k, p[k]>>}
  <2>1. PICK j \in Keys : q[j] # None /\ x = <<j, q[j]>>
    BY DEF PutEntries
  <2>2. j # k
    BY <1>1, <2>1
  <2>3. <<j, p[j]>> \in PutEntries(p) /\ <<j, p[j]>> # <<k, p[k]>>
    BY <1>1, <2>1, <2>2 DEF PutEntries
  <2> QED BY <1>1, <2>1, <2>2, <2>3
<1>3. ASSUME NEW x \in PutEntries(p) \ {<<k, p[k]>>} PROVE x \in PutEntries(q)
  <2>1. PICK j \in Keys : p[j] # None /\ x = <<j, p[j]>>
    BY DEF PutEntries
  <2>2. q[j] = p[j]
    BY <1>1, <1>3, <2>1
  <2> QED BY <2>1, <2>2 DEF PutEntries
<1>4. PutEntries(q) = PutEntries(p) \ {<<k, p[k]>>}
  BY <1>2, <1>3
<1> QED BY <1>1, <1>4 DEF IsWithout

LEMMA NoMoreThanKeys ==
  ASSUME NEW E, IsMap(E)
  PROVE  IsFiniteSet(E) /\ Cardinality(E) <= Cardinality(Keys)
<1> DEFINE f == [x \in E |-> x[1]]
<1>1. f \in [E -> Keys] /\ \A x, y \in E : f[x] = f[y] => x = y
  BY DEF IsMap
<1> HIDE DEF f
<1>2. f \in Injection(E, Keys)
  BY <1>1, Fun_IsInj
<1> QED BY <1>2, FS_Injection

LEMMA TableHasRoom ==
  ASSUME NEW t, NEW cap, NEW n, NEW d, NEW p, IsTable(t, cap, n, d, p)
  PROVE  /\ cap \in Nat /\ cap # 0 /\ n \in Nat /\ d \in Nat /\ IsMap(PutEntries(p)) /\ IsFiniteSet(PutEntries(p))
         /\ IsFiniteSet(TombsIn(t, cap)) /\ \E b \in Buckets(cap) : t[b] = Free
<1> DEFINE E == PutEntries(p)
<1>1. IsMap(E) /\ Stores(t, cap, E) /\ cap \in Nat /\ cap # 0
  BY EntriesMap DEF IsTable, Stores
<1>2. n = Cardinality(E) /\ d = Cardinality(TombsIn(t, cap)) /\ 2 * (n + d) <= cap
  BY DEF IsTable
<1> HIDE DEF E
<1>3. /\ IsFiniteSet(E) /\ n \in Nat /\ IsFiniteSet(TombsIn(t, cap)) /\ d \in Nat
      /\ n + d < cap => \E b \in Buckets(cap) : t[b] = Free
  BY <1>1, <1>2, EntriesCounted
<1>4. n + d < cap
  BY <1>1, <1>2, <1>3
<1> QED BY <1>1, <1>3, <1>4 DEF E

\* What janet_dict_find finds in a table of the map p.
Finds(t, cap, p, k) ==
  LET b == Find(t, cap, k) IN
  /\ b \in Buckets(cap) /\ (Has(t, cap, k) <=> p[k] # None)
  /\ p[k] # None => t[b] = <<k, p[k]>> /\ <<k, p[k]>> \in PutEntries(p)
  /\ p[k] = None => t[b] = Free /\ Reached(t, cap, k, b)

LEMMA TableFinds ==
  ASSUME NEW t, NEW cap, NEW n, NEW d, NEW p, IsTable(t, cap, n, d, p), NEW k \in Keys
  PROVE  Finds(t, cap, p, k)
<1> DEFINE E == PutEntries(p)
           b == Find(t, cap, k)
<1>1. Stores(t, cap, E) /\ p \in [Keys -> Values \cup {None}]
  BY DEF IsTable
<1>2. /\ IsMap(E) /\ \A x \in E : x \in Keys \X Values /\ x = <<x[1], p[x[1]]>> /\ p[x[1]] # None
      /\ \A j \in Keys : p[j] # None => <<j, p[j]>> \in E /\ p[j] \in Values
  BY <1>1, EntriesMap
<1> HIDE DEF E
<1>3. IsFind(b, t, cap, E, k) /\ (Has(t, cap, k) <=> t[b] # Free)
  BY <1>1, <1>2, TableHasRoom, FindIs
<1> HIDE DEF b
<1>4. b \in Buckets(cap) /\ Reached(t, cap, k, b)
  BY <1>3 DEF IsFind
<1>5. CASE t[b] = Free
  <2>1. \A x \in E : x[1] # k
    BY <1>3, <1>5 DEF IsFind
  <2>2. p[k] = None
    BY <1>2, <2>1
  <2> QED BY <1>3, <1>4, <1>5, <2>2 DEF b, Finds
<1>6. CASE t[b] # Free
  <2>1. t[b] \in E /\ t[b][1] = k
    BY <1>3, <1>6 DEF IsFind
  <2>2. t[b] = <<k, p[k]>> /\ p[k] # None
    BY <1>2, <2>1
  <2> QED BY <1>3, <1>4, <1>6, <2>1, <2>2 DEF b, E, Finds
<1> QED BY <1>5, <1>6

\* A removed entry leaves a tombstone.
LEMMA BuriedKeeps ==
  ASSUME NEW t, NEW cap, NEW n, NEW d, NEW p, IsTable(t, cap, n, d, p), NEW b \in Buckets(cap), t[b] \in PutEntries(p),
         NEW u, IsPut(u, t, b, Dead), NEW q, IsPut(q, p, t[b][1], None)
  PROVE  IsTable(u, cap, n - 1, d + 1, q)
<1> DEFINE E == PutEntries(p)
<1>1. /\ Stores(t, cap, E) /\ p \in [Keys -> Values \cup {None}] /\ n = Cardinality(E)
      /\ d = Cardinality(TombsIn(t, cap)) /\ 2 * (n + d) <= cap
  BY DEF IsTable
<1>2. IsMap(E) /\ t[b] = <<t[b][1], p[t[b][1]]>> /\ t[b][1] \in Keys
  BY <1>1, EntriesMap
<1>3. q \in [Keys -> Values \cup {None}] /\ PutEntries(q) = E \ {t[b]}
  <2>1. q \in [Keys -> Values \cup {None}] /\ IsWithout(PutEntries(q), PutEntries(p), <<t[b][1], p[t[b][1]]>>)
    BY <1>1, <1>2, EntriesRemoved
  <2> QED BY <1>2, <2>1 DEF IsWithout
<1>4. n \in Nat /\ d \in Nat /\ IsFiniteSet(E) /\ IsFiniteSet(TombsIn(t, cap)) /\ cap \in Nat
  BY TableHasRoom
<1> HIDE DEF E
<1>5. Stores(u, cap, E \ {t[b]}) /\ OneMoreTomb(u, t, cap, b)
  <2>1. t[b] \in E
    BY DEF E
  <2> QED BY <1>1, <1>2, <2>1, BuryStores
<1>6. Cardinality(E \ {t[b]}) = n - 1
  BY <1>1, <1>4, FS_RemoveElement DEF E
<1>7. Cardinality(TombsIn(u, cap)) = d + 1
  BY <1>1, <1>4, <1>5, FS_AddElement DEF OneMoreTomb
<1>8. 2 * ((n - 1) + (d + 1)) <= cap
  BY <1>1, <1>4
<1> QED BY <1>3, <1>5, <1>6, <1>7, <1>8 DEF IsTable

LEMMA TableInit == InitTable => TableInv
<1> HAVE InitTable
<1> DEFINE E == PutEntries(put)
<1>1. PICK n \in {0, 1} : room = TableLen(n)
  BY DEF InitTable
<1>2. room \in Nat /\ room # 0
  <2>1. n \in Nat /\ n < 2 ^ 30
    <3>1. 1 < 2 ^ 30
      BY SMT
    <3> QED BY <3>1
  <2>2. TableLen(n) \in Nat /\ TableLen(n) > n
    BY <2>1, TableLenIs
  <2> QED BY <1>1, <2>1, <2>2
<1>3. /\ buckets = Empty(room) /\ count = 0 /\ deleted = 0 /\ put = [k \in Keys |-> None] /\ walk = None /\ seen = {}
      /\ twice = FALSE /\ weak \in BOOLEAN
  BY DEF InitTable
<1>4. Stores(buckets, room, {}) /\ TombsIn(buckets, room) = {}
  BY <1>2, <1>3, EmptyStores DEF NoTombs
<1>5. E = {} /\ put \in [Keys -> Values \cup {None}]
  BY <1>3 DEF PutEntries
<1>6. Cardinality({}) = 0
  BY FS_EmptySet
<1>7. IsTable(buckets, room, count, deleted, put)
  BY <1>2, <1>3, <1>4, <1>5, <1>6 DEF IsTable
<1>8. IsWalk(buckets, room, put, walk, seen)
  BY <1>3 DEF IsWalk
<1> QED BY <1>3, <1>7, <1>8 DEF TableInv

\* janet_table_put into the bucket of the key, or into an empty one.
LEMMA PutKeeps ==
  ASSUME NEW t, NEW cap, NEW n, NEW d, NEW p, IsTable(t, cap, n, d, p), NEW k \in Keys, NEW v \in Values,
         NEW u, IsPut(u, t, Find(t, cap, k), <<k, v>>), NEW q, IsPut(q, p, k, v),
         NEW m, m = (IF Has(t, cap, k) THEN n ELSE n + 1), 2 * (m + d) <= cap
  PROVE  IsTable(u, cap, m, d, q)
<1> DEFINE b == Find(t, cap, k)
           x == <<k, v>>
           y == <<k, p[k]>>
           E == PutEntries(p)
<1>1. /\ Stores(t, cap, E) /\ p \in [Keys -> Values \cup {None}] /\ n = Cardinality(E)
      /\ d = Cardinality(TombsIn(t, cap))
  BY DEF IsTable
<1>2. /\ b \in Buckets(cap) /\ (Has(t, cap, k) <=> p[k] # None)
      /\ p[k] # None => t[b] = y /\ y \in E
      /\ p[k] = None => t[b] = Free /\ Reached(t, cap, k, b)
  <2>1. Finds(t, cap, p, k)
    BY TableFinds
  <2> QED BY <2>1 DEF Finds
<1>3. q \in [Keys -> Values \cup {None}] /\ PutEntries(q) = (E \ {y}) \cup {x}
  BY <1>1, EntriesPut
<1>4. n \in Nat /\ IsMap(E) /\ IsFiniteSet(E)
  BY TableHasRoom
<1>5. /\ IsMap(PutEntries(q)) /\ x \in Keys \X Values /\ x[1] = k /\ y[1] = k
      /\ \A z \in E : z # Free /\ z = <<z[1], p[z[1]]>> /\ p[z[1]] # None
  BY <1>1, <1>3, EntriesMap, EntriesDiffer
<1>6. IsPut(u, t, b, x)
  OBVIOUS
<1>7. y[1] = k
  OBVIOUS
<1> HIDE DEF E, b, x, y
<1>8. CASE p[k] # None
  <2>1. t[b] \in E /\ x[1] = t[b][1]
    BY <1>2, <1>5, <1>8
  <2>2. Stores(u, cap, (E \ {t[b]}) \cup {x}) /\ SameTombs(u, t, cap)
    BY <1>1, <1>2, <1>4, <1>5, <1>6, <2>1, ReplaceStores
  <2>3. Stores(u, cap, PutEntries(q)) /\ TombsIn(u, cap) = TombsIn(t, cap)
    BY <1>2, <1>3, <1>8, <2>2 DEF SameTombs
  <2>4. x \notin E \ {y}
    BY <1>2, <1>4, <1>5, <1>7, <1>8 DEF IsMap
  <2>5. IsFiniteSet(E \ {y}) /\ Cardinality(E \ {y}) = n - 1
    BY <1>1, <1>2, <1>4, <1>8, FS_RemoveElement
  <2>6. Cardinality((E \ {y}) \cup {x}) = (n - 1) + 1
    BY <2>4, <2>5, FS_AddElement
  <2>7. Cardinality(PutEntries(q)) = m
    BY <1>2, <1>3, <1>4, <1>8, <2>6
  <2> QED BY <1>1, <1>3, <2>3, <2>7 DEF IsTable
<1>9. CASE p[k] = None
  <2>1. y \notin E /\ x \notin E
    BY <1>5, <1>9
  <2>2. PutEntries(q) = E \cup {x}
    BY <1>3, <2>1
  <2>3. t[b] = Free /\ t[b] \notin E /\ Reached(t, cap, x[1], b) /\ IsMap(E \cup {x})
    BY <1>2, <1>5, <1>9, <2>2
  <2>4. Stores(u, cap, E \cup {x}) /\ SameTombs(u, t, cap)
    BY <1>1, <1>2, <1>5, <1>6, <2>1, <2>3, PutStores
  <2>5. Cardinality(E \cup {x}) = n + 1
    BY <1>1, <1>4, <2>1, FS_AddElement
  <2>6. Cardinality(PutEntries(q)) = m
    BY <1>2, <1>9, <2>2, <2>5
  <2>7. Stores(u, cap, PutEntries(q)) /\ TombsIn(u, cap) = TombsIn(t, cap)
    BY <2>2, <2>4 DEF SameTombs
  <2> QED BY <1>1, <1>3, <2>6, <2>7 DEF IsTable
<1> QED BY <1>8, <1>9

LEMMA PutStep ==
  ASSUME TableInv, NEW k \in Keys, NEW v \in Values, Put(k, v)
  PROVE  TableInv'
<1>1. IsTable(buckets, room, count, deleted, put) /\ weak \in BOOLEAN /\ twice = FALSE
  BY DEF TableInv
<1>2. IsPut(put', put, k, v) /\ walk' = None /\ seen' = {} /\ twice' = twice /\ weak' = weak
  BY DEF Put, IsPut
<1>3. /\ room \in Nat /\ room # 0 /\ count \in Nat /\ deleted \in Nat /\ IsMap(PutEntries(put))
      /\ Stores(buckets, room, PutEntries(put)) /\ count = Cardinality(PutEntries(put)) /\ 2 * (count + deleted) <= room
      /\ put \in [Keys -> Values \cup {None}]
  BY <1>1, TableHasRoom DEF IsTable
<1>4. /\ Find(buckets, room, k) \in Buckets(room) /\ (Has(buckets, room, k) <=> put[k] # None)
      /\ put[k] = None => buckets[Find(buckets, room, k)] = Free
  <2>1. Finds(buckets, room, put, k)
    BY <1>1, TableFinds
  <2> QED BY <2>1 DEF Finds
<1>5. IsTable(buckets', room', count', deleted', put')
  <2>1. CASE Has(buckets, room, k)
    <3>1. /\ IsPut(buckets', buckets, Find(buckets, room, k), <<k, v>>)
          /\ room' = room /\ count' = count /\ deleted' = deleted
      BY <2>1 DEF Put, IsPut
    <3>2. IsTable(buckets', room, count, deleted, put')
      BY <1>1, <1>2, <1>3, <2>1, <3>1, PutKeeps
    <3> QED BY <3>1, <3>2
  <2>2. CASE ~Has(buckets, room, k) /\ IsFull
    <3> DEFINE size == TableLen(2 * count + 2)
               t == Rehashed(buckets, room, size)
    <3>1. /\ IsPut(buckets', t, Find(t, size, k), <<k, v>>) /\ room' = size /\ count' = count + 1
          /\ deleted' = IF t[Find(t, size, k)] = Dead THEN 0 - 1 ELSE 0
      BY <2>2 DEF Put, IsPut
    <3>2. size \in Nat /\ size > 2 * count + 2
      <4>1. count + 1 <= Cardinality(Keys)
        <5> DEFINE F == PutEntries(put')
        <5>1. /\ put' \in [Keys -> Values \cup {None}] /\ F = (PutEntries(put) \ {<<k, put[k]>>}) \cup {<<k, v>>}
          BY <1>2, <1>3, EntriesPut
        <5>2. IsMap(F)
          BY <5>1, EntriesMap
        <5>3. /\ <<k, put[k]>> \notin PutEntries(put) /\ <<k, v>> \notin PutEntries(put)
          <6>1. put[k] = None
            BY <1>4, <2>2
          <6>2. \A x \in PutEntries(put) : put[x[1]] # None
            BY <1>3, EntriesMap
          <6> QED BY <6>1, <6>2
        <5>4. F = PutEntries(put) \cup {<<k, v>>}
          BY <5>1, <5>3
        <5> HIDE DEF F
        <5>5. IsFiniteSet(F) /\ Cardinality(F) <= Cardinality(Keys)
          BY <5>2, NoMoreThanKeys
        <5>6. Cardinality(F) = count + 1
          BY <1>1, <1>3, <5>3, <5>4, TableHasRoom, FS_AddElement
        <5> QED BY <5>5, <5>6
      <4>2. Cardinality(Keys) \in Nat
        BY FS_CardinalityType
      <4>3. 2 * count + 2 \in Nat /\ 2 * count + 2 < 2 ^ 30
        BY <1>3, <4>1, <4>2
      <4> QED BY <4>3, TableLenIs
    <3> HIDE DEF size
    <3>3. Stores(t, size, PutEntries(put)) /\ NoTombs(t, size)
      BY <1>3, <3>2, RehashedStores
    <3>4. Cardinality(TombsIn(t, size)) = 0
      BY <3>3, FS_EmptySet DEF NoTombs
    <3> HIDE DEF t
    <3>5. IsTable(t, size, count, 0, put)
      BY <1>3, <3>2, <3>3, <3>4 DEF IsTable
    <3>6. ~Has(t, size, k) /\ t[Find(t, size, k)] = Free
      <4>1. Finds(t, size, put, k)
        BY <3>5, TableFinds
      <4> QED BY <1>4, <2>2, <4>1 DEF Finds
    <3>7. deleted' = 0 /\ 2 * ((count + 1) + 0) <= size
      BY <1>3, <3>1, <3>2, <3>6, EntriesDiffer
    <3>8. IsTable(buckets', size, count + 1, 0, put')
      BY <1>2, <3>1, <3>5, <3>6, <3>7, PutKeeps
    <3> QED BY <3>1, <3>7, <3>8
  <2>3. CASE ~Has(buckets, room, k) /\ ~IsFull
    <3>1. Find(buckets, room, k) # Nowhere
      BY <1>3, <1>4 DEF Nowhere, Buckets
    <3>2. /\ IsPut(buckets', buckets, Find(buckets, room, k), <<k, v>>) /\ room' = room /\ count' = count + 1
          /\ deleted' = IF buckets[Find(buckets, room, k)] = Dead THEN deleted - 1 ELSE deleted
      BY <2>3, <3>1 DEF Put, IsPut
    <3>3. deleted' = deleted
      BY <1>4, <2>3, <3>2, EntriesDiffer
    <3>4. 2 * ((count + 1) + deleted) <= room
      BY <1>3, <2>3 DEF IsFull
    <3>5. IsTable(buckets', room, count + 1, deleted, put')
      BY <1>1, <1>2, <2>3, <3>2, <3>4, PutKeeps
    <3> QED BY <3>2, <3>3, <3>5
  <2> QED BY <2>1, <2>2, <2>3
<1>6. IsWalk(buckets', room', put', walk', seen')
  BY <1>2 DEF IsWalk
<1> QED BY <1>1, <1>2, <1>5, <1>6 DEF TableInv

LEMMA RemoveStep ==
  ASSUME TableInv, NEW k \in Keys, Remove(k)
  PROVE  TableInv'
<1> DEFINE b == Find(buckets, room, k)
<1>1. IsTable(buckets, room, count, deleted, put) /\ weak \in BOOLEAN /\ twice = FALSE
  BY DEF TableInv
<1>2. /\ Has(buckets, room, k) /\ IsPut(buckets', buckets, b, Dead) /\ IsPut(put', put, k, None)
      /\ count' = count - 1 /\ deleted' = deleted + 1 /\ room' = room
      /\ walk' = None /\ seen' = {} /\ twice' = twice /\ weak' = weak
  BY DEF Remove, Buried, Graves, IsPut
<1>3. b \in Buckets(room) /\ buckets[b] = <<k, put[k]>> /\ buckets[b] \in PutEntries(put)
  <2>1. Finds(buckets, room, put, k)
    BY <1>1, TableFinds
  <2> QED BY <1>2, <2>1 DEF Finds
<1>4. buckets[b][1] = k
  BY <1>3
<1> HIDE DEF b
<1>5. IsTable(buckets', room, count - 1, deleted + 1, put')
  BY <1>1, <1>2, <1>3, <1>4, BuriedKeeps
<1>6. IsWalk(buckets', room', put', walk', seen')
  BY <1>2 DEF IsWalk
<1> QED BY <1>1, <1>2, <1>5, <1>6 DEF TableInv

LEMMA ClearStep ==
  ASSUME TableInv, Clear
  PROVE  TableInv'
<1>1. IsTable(buckets, room, count, deleted, put) /\ weak \in BOOLEAN /\ twice = FALSE
  BY DEF TableInv
<1>2. /\ buckets' = Empty(room) /\ put' = [k \in Keys |-> None] /\ count' = 0 /\ deleted' = 0 /\ room' = room
      /\ walk' = None /\ seen' = {} /\ twice' = twice /\ weak' = weak
  BY DEF Clear
<1>3. room \in Nat /\ room # 0
  BY <1>1, TableHasRoom
<1>4. Stores(Empty(room), room, {}) /\ TombsIn(Empty(room), room) = {}
  BY <1>3, EmptyStores DEF NoTombs
<1> DEFINE p == [k \in Keys |-> None]
<1>5. PutEntries(p) = {} /\ p \in [Keys -> Values \cup {None}]
  BY DEF PutEntries
<1> HIDE DEF p
<1>6. Cardinality({}) = 0
  BY FS_EmptySet
<1>7. IsTable(Empty(room), room, 0, 0, p)
  BY <1>3, <1>4, <1>5, <1>6 DEF IsTable
<1>8. IsTable(buckets', room', count', deleted', put')
  BY <1>2, <1>7 DEF p
<1>9. IsWalk(buckets', room', put', walk', seen')
  BY <1>2 DEF IsWalk
<1> QED BY <1>1, <1>2, <1>8, <1>9 DEF TableInv

LEMMA SweptStep ==
  ASSUME TableInv, NEW b \in DOMAIN buckets, Swept(b)
  PROVE  TableInv'
<1>1. IsTable(buckets, room, count, deleted, put) /\ weak \in BOOLEAN /\ twice = FALSE /\ (weak => walk = None)
      /\ IsWalk(buckets, room, put, walk, seen)
  BY DEF TableInv
<1>2. /\ weak /\ IsEntry(buckets[b]) /\ IsPut(buckets', buckets, b, Dead) /\ IsPut(put', put, buckets[b][1], None)
      /\ count' = count - 1 /\ deleted' = deleted + 1 /\ room' = room
      /\ walk' = walk /\ seen' = seen /\ twice' = twice /\ weak' = weak
  BY DEF Swept, Buried, Graves, IsPut
<1>3. b \in Buckets(room) /\ buckets[b] \in PutEntries(put)
  BY <1>1, <1>2 DEF IsTable, Stores, IsEntry
<1>4. IsTable(buckets', room, count - 1, deleted + 1, put')
  BY <1>1, <1>2, <1>3, BuriedKeeps
<1>5. IsWalk(buckets', room', put', walk', seen')
  BY <1>1, <1>2 DEF IsWalk
<1> QED BY <1>1, <1>2, <1>4, <1>5 DEF TableInv

\* The entries up to a bucket, which janet_next has come to or looks from.
LEMMA NextStep ==
  ASSUME TableInv, NextKey
  PROVE  TableInv' /\ SeesAll
<1> DEFINE from == IF walk = None THEN 0 ELSE After(walk)
           rest == {b \in from .. room - 1 : IsEntry(buckets[b])}
           m == First(rest)
           k == buckets[m][1]
           E == PutEntries(put)
<1>1. /\ IsTable(buckets, room, count, deleted, put) /\ IsWalk(buckets, room, put, walk, seen)
      /\ weak \in BOOLEAN /\ twice = FALSE
  BY DEF TableInv
<1>2. /\ ~weak /\ UNCHANGED <<buckets, room, count, deleted, weak, put>>
      /\ IF rest = {} THEN walk' = None /\ seen' = {} /\ UNCHANGED twice
         ELSE walk' = k /\ seen' = seen \cup {k} /\ twice' = (twice \/ k \in seen)
  BY DEF NextKey
<1>3. /\ Stores(buckets, room, E) /\ put \in [Keys -> Values \cup {None}] /\ room \in Nat
      /\ buckets \in [Buckets(room) -> {Free, Dead} \cup E]
      /\ \A b, e \in Buckets(room) : buckets[b] \in E /\ buckets[b] = buckets[e] => b = e
  BY <1>1 DEF IsTable, Stores
<1>4. /\ IsMap(E) /\ \A x \in E : x \in Keys \X Values /\ x = <<x[1], put[x[1]]>> /\ put[x[1]] # None
      /\ \A x \in E : IsEntry(x) /\ x[1] \in Keys
  BY <1>3, EntriesMap, EntriesDiffer DEF IsMap
<1>5. \A b \in Buckets(room) : IsEntry(buckets[b]) => buckets[b] \in E
  BY <1>3 DEF IsEntry
<1> HIDE DEF E
<1>6. ASSUME NEW j \in Keys
      PROVE  /\ Find(buckets, room, j) \in Buckets(room) /\ (Has(buckets, room, j) <=> put[j] # None)
             /\ put[j] # None => buckets[Find(buckets, room, j)] = <<j, put[j]>> /\ <<j, put[j]>> \in E
  <2>1. Finds(buckets, room, put, j)
    BY <1>1, TableFinds
  <2> QED BY <2>1 DEF Finds, E
<1>7. \A b \in Buckets(room) : b \in Nat
  BY <1>3 DEF Buckets
<1>8. from \in Nat /\ (walk # None => walk \in Keys /\ put[walk] # None /\ from = Find(buckets, room, walk) + 1)
  <2>1. CASE walk = None
    BY <2>1
  <2>2. CASE walk # None
    <3>1. walk \in Keys /\ put[walk] # None
      BY <1>1, <2>2 DEF IsWalk
    <3>2. Find(buckets, room, walk) \in Buckets(room)
      BY <1>6, <3>1
    <3>3. Find(buckets, room, walk) \in Nat
      BY <1>7, <3>2
    <3> QED BY <2>2, <3>1, <3>3 DEF After
  <2> QED BY <2>1, <2>2
<1>9. seen = {buckets[e][1] : e \in {i \in 0 .. from - 1 : IsEntry(buckets[i])}}
  <2>1. CASE walk = None
    <3>1. seen = {} /\ from = 0
      BY <1>1, <2>1 DEF IsWalk
    <3>2. 0 .. from - 1 = {}
      BY <3>1
    <3> QED BY <3>1, <3>2
  <2>2. CASE walk # None
    <3>1. seen = KeysUpTo(buckets, Find(buckets, room, walk))
      BY <1>1, <2>2 DEF IsWalk
    <3>2. Find(buckets, room, walk) \in Buckets(room)
      BY <1>6, <1>8, <2>2
    <3>3. Find(buckets, room, walk) \in Nat
      BY <1>7, <3>2
    <3>4. from - 1 = Find(buckets, room, walk)
      BY <1>8, <2>2, <3>3
    <3> HIDE DEF from
    <3> QED BY <3>1, <3>4 DEF KeysUpTo
  <2> QED BY <2>1, <2>2
<1>10. walk = None \/ from <= room
  <2>1. walk # None => Find(buckets, room, walk) \in 0 .. room - 1
    BY <1>6, <1>8 DEF Buckets
  <2> QED BY <1>3, <1>8, <2>1
<1>11. \A b \in 0 .. from - 1 : b \in Buckets(room)
  <2>1. walk = None => from = 0
    OBVIOUS
  <2> HIDE DEF from
  <2> QED BY <1>3, <1>8, <1>10, <2>1 DEF Buckets
<1> HIDE DEF from
<1>12. CASE rest = {}
  <2>1. seen = {j \in Keys : Has(buckets, room, j)}
    <3>1. ASSUME NEW j \in seen PROVE j \in Keys /\ Has(buckets, room, j)
      <4>1. PICK e \in 0 .. from - 1 : IsEntry(buckets[e]) /\ j = buckets[e][1]
        BY <1>9
      <4>2. buckets[e] \in E
        BY <1>5, <1>11, <4>1
      <4>3. j \in Keys /\ put[j] # None
        BY <1>4, <4>1, <4>2
      <4> QED BY <1>6, <4>3
    <3>2. ASSUME NEW j \in Keys, Has(buckets, room, j) PROVE j \in seen
      <4> DEFINE b == Find(buckets, room, j)
      <4>1. b \in Buckets(room) /\ buckets[b] \in E /\ buckets[b][1] = j
        <5>1. put[j] # None
          BY <1>6, <3>2
        <5>2. buckets[b] = <<j, put[j]>>
          BY <1>6, <5>1
        <5> QED BY <1>6, <5>1, <5>2
      <4> HIDE DEF b
      <4>2. IsEntry(buckets[b]) /\ b \notin from .. room - 1
        BY <1>4, <1>12, <4>1
      <4>3. b \in 0 .. from - 1
        BY <1>3, <1>8, <4>1, <4>2 DEF Buckets
      <4> QED BY <1>9, <4>1, <4>2, <4>3
    <3> QED BY <3>1, <3>2
  <2>2. SeesAll
    BY <2>1 DEF SeesAll
  <2>3. TableInv'
    BY <1>1, <1>2, <1>12 DEF TableInv, IsWalk
  <2> QED BY <2>2, <2>3
<1>13. CASE rest # {}
  <2>1. rest \in SUBSET Nat
    BY <1>3, <1>8
  <2>2. m \in rest /\ \A b \in rest : m <= b
    BY <1>13, <2>1, FirstIs
  <2> HIDE DEF m
  <2>3. m \in Buckets(room) /\ from <= m /\ IsEntry(buckets[m]) /\ m \in Nat
    BY <1>3, <1>8, <2>2 DEF Buckets
  <2>4. buckets[m] \in E /\ k \in Keys /\ put[k] # None
    BY <1>4, <1>5, <2>3
  <2>5. \A b \in from .. m - 1 : ~IsEntry(buckets[b])
    <3> SUFFICES ASSUME NEW b \in from .. m - 1, IsEntry(buckets[b]) PROVE FALSE
      OBVIOUS
    <3>1. b \in rest /\ b < m
      BY <1>3, <1>8, <2>3 DEF Buckets
    <3> QED BY <1>8, <2>2, <2>3, <3>1
  <2> HIDE DEF rest
  <2>6. Find(buckets, room, k) = m
    <3>1. buckets[m] = <<k, put[k]>>
      BY <1>4, <2>4
    <3>2. buckets[Find(buckets, room, k)] = buckets[m] /\ Find(buckets, room, k) \in Buckets(room)
      BY <1>6, <2>4, <3>1
    <3> HIDE DEF k
    <3> QED BY <1>3, <2>3, <2>4, <3>2
  <2>7. k \notin seen
    <3> SUFFICES ASSUME k \in seen PROVE FALSE
      OBVIOUS
    <3>1. PICK e \in 0 .. from - 1 : IsEntry(buckets[e]) /\ buckets[e][1] = k
      BY <1>9
    <3>2. buckets[e] \in E /\ e \in Buckets(room)
      BY <1>5, <1>11, <3>1
    <3>3. buckets[e] = buckets[m]
      BY <1>4, <2>4, <3>1, <3>2 DEF IsMap
    <3>4. e = m
      BY <1>3, <2>3, <2>4, <3>2, <3>3
    <3> QED BY <1>8, <2>3, <3>4
  <2>8. seen \cup {k} = KeysUpTo(buckets, m)
    <3>1. ASSUME NEW j \in seen \cup {k} PROVE j \in KeysUpTo(buckets, m)
      <4>1. CASE j = k
        <5>1. m \in 0 .. m
          BY <2>3
        <5> QED BY <2>3, <4>1, <5>1 DEF KeysUpTo
      <4>2. CASE j # k
        <5>1. PICK e \in 0 .. from - 1 : IsEntry(buckets[e]) /\ buckets[e][1] = j
          BY <1>9, <3>1, <4>2
        <5>2. e \in 0 .. m
          BY <1>8, <2>3, <5>1
        <5> QED BY <5>1, <5>2 DEF KeysUpTo
      <4> QED BY <4>1, <4>2
    <3>2. ASSUME NEW j \in KeysUpTo(buckets, m) PROVE j \in seen \cup {k}
      <4>1. PICK e \in 0 .. m : IsEntry(buckets[e]) /\ buckets[e][1] = j
        BY <3>2 DEF KeysUpTo
      <4>2. e = m \/ e \in 0 .. from - 1
        BY <1>8, <2>3, <2>5, <4>1
      <4> QED BY <1>9, <4>1, <4>2
    <3> QED BY <3>1, <3>2
  <2>9. walk' = k /\ seen' = KeysUpTo(buckets, m) /\ twice' = FALSE
    BY <1>1, <1>2, <1>13, <2>7, <2>8
  <2>10. k # None
    BY <2>4
  <2>11. IsWalk(buckets, room, put, k, KeysUpTo(buckets, m))
    BY <2>4, <2>6, <2>10 DEF IsWalk
  <2>12. TableInv'
    <3>1. IsTable(buckets', room', count', deleted', put')
      BY <1>1, <1>2
    <3>2. IsWalk(buckets', room', put', walk', seen')
      BY <1>2, <2>9, <2>11
    <3> QED BY <1>1, <1>2, <2>9, <3>1, <3>2 DEF TableInv
  <2>13. SeesAll
    BY <2>9, <2>10 DEF SeesAll
  <2> QED BY <2>12, <2>13
<1> QED BY <1>12, <1>13

LEMMA TableNext == TableInv /\ [NextTable]_tablevars => TableInv' /\ [SeesAll]_tablevars
<1> SUFFICES ASSUME TableInv, [NextTable]_tablevars PROVE TableInv' /\ [SeesAll]_tablevars
  OBVIOUS
<1>1. CASE NextKey
  BY <1>1, NextStep
<1>2. CASE ~NextKey
  <2>1. SeesAll
    BY <1>2 DEF SeesAll
  <2>2. TableInv'
    <3>1. CASE \E k \in Keys : Remove(k)
      BY <3>1, RemoveStep
    <3>2. CASE \E k \in Keys, v \in Values : Put(k, v)
      BY <3>2, PutStep
    <3>3. CASE Clear
      BY <3>3, ClearStep
    <3>4. CASE \E b \in DOMAIN buckets : Swept(b)
      BY <3>4, SweptStep
    <3>5. CASE UNCHANGED tablevars
      BY <3>5 DEF tablevars, TableInv, IsTable, IsWalk
    <3> QED BY <1>2, <3>1, <3>2, <3>3, <3>4, <3>5 DEF NextTable
  <2> QED BY <2>1, <2>2
<1> QED BY <1>1, <1>2

TableSafe == IsDict /\ CountsAreRight /\ HalfIsEmpty /\ OneBucketPerKey /\ SeenOnce

LEMMA TableImplies == TableInv => TableSafe
<1> HAVE TableInv
<1> DEFINE E == PutEntries(put)
<1>1. IsTable(buckets, room, count, deleted, put)
  BY DEF TableInv
<1>2. /\ Stores(buckets, room, E) /\ put \in [Keys -> Values \cup {None}]
      /\ count = Cardinality(E) /\ deleted = Cardinality(TombsIn(buckets, room)) /\ 2 * (count + deleted) <= room
  BY <1>1 DEF IsTable
<1>3. DOMAIN buckets = Buckets(room) /\ \A b \in Buckets(room) : buckets[b] \in {Free, Dead} \cup E
  BY <1>2 DEF Stores
<1>4. /\ IsMap(E) /\ \A x \in E : x \in Keys \X Values /\ x = <<x[1], put[x[1]]>> /\ put[x[1]] # None
  BY <1>2, EntriesMap
<1>5. IsDict
  <2>1. ASSUME NEW k \in Keys
        PROVE  (IF Has(buckets, room, k) THEN buckets[Find(buckets, room, k)][2] ELSE None) = put[k]
    <3>1. Finds(buckets, room, put, k)
      BY <1>1, TableFinds
    <3> QED BY <3>1 DEF Finds
  <2>2. put = [k \in Keys |-> put[k]]
    BY <1>2
  <2> QED BY <2>1, <2>2 DEF IsDict, TableContents
<1> HIDE DEF E
<1>6. CountsAreRight
  <2>1. Cardinality(EntriesIn(buckets, room)) = Cardinality(E)
    BY <1>2, <1>4, EntriesCounted
  <2> QED BY <1>2, <1>3, <2>1 DEF CountsAreRight, EntriesIn, TombsIn
<1>7. OneBucketPerKey
  <2> SUFFICES ASSUME NEW b \in Buckets(room), NEW c \in Buckets(room), IsEntry(buckets[b]), IsEntry(buckets[c]),
                      buckets[b][1] = buckets[c][1]
               PROVE  b = c
    BY <1>3 DEF OneBucketPerKey
  <2>1. buckets[b] \in E /\ buckets[c] \in E
    BY <1>3 DEF IsEntry
  <2>2. buckets[b] = buckets[c]
    BY <1>4, <2>1 DEF IsMap
  <2> QED BY <1>2, <2>1, <2>2 DEF Stores
<1>8. HalfIsEmpty /\ SeenOnce
  BY <1>2 DEF HalfIsEmpty, SeenOnce, TableInv
<1> QED BY <1>5, <1>6, <1>7, <1>8 DEF TableSafe

(* Whatever is put, removed, swept and rehashed, a table answers as the map  *)
(* of what was put, counts its entries and tombstones right and stays half   *)
(* empty, and a walk with next sees every key once.                          *)
THEOREM TablesAreDicts == TableSpec => TableIsDict
<1>1. TableSpec => []TableInv /\ WalkSeesAll
  BY TableInit, TableNext, PTL DEF TableSpec, WalkSeesAll
<1>2. TableSafe => IsDict /\ CountsAreRight /\ HalfIsEmpty /\ OneBucketPerKey /\ SeenOnce
  BY DEF TableSafe
<1> QED BY <1>1, <1>2, TableImplies, PTL DEF TableIsDict

HIDE TableAssumption

-----------------------------------------------------------------------------
(* Structs.  Buckets that have an entry are sorted along the runs: what is  *)
(* met on the way from a key's home goes before the key.  That, and an empty *)
(* bucket, leave one arrangement of the entries.                             *)

LEMMA StructCapIs ==
  ASSUME NEW n \in Nat, 2 * n < 2 ^ 30
  PROVE  StructCap(2 * n) \in Nat /\ StructCap(2 * n) > n
<1> DEFINE Powers == {2 ^ e : e \in 0 .. 30}
<1>1. 2 * n \in Nat /\ 2 * n >= n
  OBVIOUS
<1>2. \E p \in Powers : p > 2 * n /\ p \div 2 <= 2 * n
  BY <1>1, PowerAbove
<1>3. \A p \in Powers : p \in Nat
  BY PowersAreNat
<1> HIDE DEF Powers
<1>4. StructCap(2 * n) \in Powers /\ StructCap(2 * n) > 2 * n
  <2>1. StructCap(2 * n) = CHOOSE p \in Powers : p > 2 * n /\ p \div 2 <= 2 * n
    BY DEF StructCap, Powers
  <2> QED BY <1>2, <2>1
<1> QED BY <1>1, <1>3, <1>4

USE StructAssumption

Entry == StructKeys \X StructValues
IsStruct(t, c) == t \in [Buckets(c) -> {Unfilled} \cup Entry]
EntriesOf(t, c) == {t[b] : b \in Buckets(c)} \ {Unfilled}
HasEmpty(t, c) == \E b \in Buckets(c) : t[b] = Unfilled
NotIn(k, t, c) == \A b \in Buckets(c) : t[b][1] # k

\* What is met on the way from k's home at distance d goes before k.
Ahead(t, c, k, d) ==
  /\ t[Place(k, d, c)] # Unfilled
  /\ Before(t[Place(k, d, c)][1], FromHome(Place(k, d, c), t[Place(k, d, c)][1], c), k, d)
AllAhead(t, c, k, dist) == \A d \in 0 .. dist - 1 : Ahead(t, c, k, d)

\* Runs are sorted.
RunsAreSorted(t, c) ==
  \A b \in Buckets(c) : t[b] # Unfilled => AllAhead(t, c, t[b][1], FromHome(b, t[b][1], c))

LEMMA EntryIs ==
  ASSUME NEW e \in Entry
  PROVE  e # Unfilled /\ e[1] \in StructKeys /\ e[2] \in StructValues /\ e[1] # Nil /\ e[2] # Nil /\ e = <<e[1], e[2]>>
BY DEF Entry, Unfilled

LEMMA BucketIs ==
  ASSUME NEW c, NEW t, IsStruct(t, c), NEW b \in Buckets(c)
  PROVE  /\ t[b] # Unfilled => t[b] \in Entry /\ t[b][1] \in StructKeys /\ t[b][1] # Nil
         /\ t[b] = Unfilled => t[b][1] = Nil
<1>1. t[b] \in {Unfilled} \cup Entry
  BY DEF IsStruct
<1>2. Unfilled[1] = Nil
  BY DEF Unfilled
<1> QED BY <1>1, <1>2, EntryIs

LEMMA BeforeIsOrder ==
  ASSUME NEW k \in StructKeys, NEW l \in StructKeys, NEW d \in Int, NEW e \in Int
  PROVE  /\ Before(k, d, l, e) => ~Before(l, e, k, d)
         /\ k # l => Before(k, d, l, e) \/ Before(l, e, k, d)
         /\ Before(k, d, k, e) => d > e
<1>1. KeyHash[k] \in Int /\ KeyHash[l] \in Int /\ Rank[k] \in Int /\ Rank[l] \in Int
  OBVIOUS
<1>2. k # l => Rank[k] # Rank[l]
  OBVIOUS
<1> QED BY <1>1, <1>2 DEF Before

LEMMA BeforeIsTransitive ==
  ASSUME NEW k \in StructKeys, NEW l \in StructKeys, NEW m \in StructKeys, NEW d \in Int, NEW e \in Int, NEW f \in Int,
         Before(k, d, l, e), Before(l, e, m, f)
  PROVE  Before(k, d, m, f)
<1>1. /\ KeyHash[k] \in Int /\ KeyHash[l] \in Int /\ KeyHash[m] \in Int
      /\ Rank[k] \in Int /\ Rank[l] \in Int /\ Rank[m] \in Int
  OBVIOUS
<1> QED BY <1>1 DEF Before

LEMMA PlaceIs ==
  ASSUME NEW c \in Nat, c # 0, NEW k \in StructKeys
  PROVE  /\ Home(k, c) \in Buckets(c)
         /\ \A d \in Buckets(c) : Place(k, d, c) \in Buckets(c) /\ FromHome(Place(k, d, c), k, c) = d
         /\ \A b \in Buckets(c) : FromHome(b, k, c) \in Buckets(c) /\ Place(k, FromHome(b, k, c), c) = b
         /\ \A d \in Buckets(c) : d + 1 < c => Following(Place(k, d, c), c) = Place(k, d + 1, c)
<1>1. Home(k, c) \in 0 .. c - 1
  <2>1. KeyHash[k] \in Int
    OBVIOUS
  <2> QED BY <2>1 DEF Home
<1> QED BY <1>1 DEF Buckets, Place, FromHome, Following

LEMMA KeyOnce ==
  ASSUME NEW c \in Nat, c # 0, NEW t, IsStruct(t, c), RunsAreSorted(t, c),
         NEW a \in Buckets(c), NEW b \in Buckets(c), t[a] # Unfilled, t[a][1] = t[b][1]
  PROVE  a = b
<1> DEFINE k == t[a][1]
           da == FromHome(a, k, c)
           db == FromHome(b, k, c)
<1>1. k \in StructKeys /\ t[b] # Unfilled
  BY BucketIs
<1>2. /\ da \in Buckets(c) /\ Place(k, da, c) = a
      /\ db \in Buckets(c) /\ Place(k, db, c) = b
  BY <1>1, PlaceIs
<1>3. da \in Int /\ db \in Int
  BY <1>2 DEF Buckets
<1>4. ~(da < db)
  <2>1. SUFFICES ASSUME da < db PROVE FALSE
    OBVIOUS
  <2>2. da \in 0 .. db - 1
    BY <1>2, <2>1 DEF Buckets
  <2>3. Ahead(t, c, k, da)
    BY <1>1, <2>2 DEF RunsAreSorted, AllAhead
  <2>4. Before(k, da, k, da)
    BY <1>2, <2>3 DEF Ahead
  <2> QED BY <1>1, <1>3, <2>4, BeforeIsOrder
<1>5. ~(db < da)
  <2>1. SUFFICES ASSUME db < da PROVE FALSE
    OBVIOUS
  <2>2. db \in 0 .. da - 1
    BY <1>2, <2>1 DEF Buckets
  <2>3. Ahead(t, c, k, db)
    BY <1>1, <2>2 DEF RunsAreSorted, AllAhead
  <2>4. Before(k, db, k, db)
    BY <1>2, <2>3 DEF Ahead
  <2> QED BY <1>1, <1>3, <2>4, BeforeIsOrder
<1>6. da = db
  BY <1>3, <1>4, <1>5
<1> QED BY <1>2, <1>6

\* Where a put stops or carries another key on, the key is not further on.
LEMMA KeyAbsent ==
  ASSUME NEW c \in Nat, c # 0, NEW t, IsStruct(t, c), RunsAreSorted(t, c), NEW k \in StructKeys, NEW d \in Buckets(c),
         AllAhead(t, c, k, d), t[Place(k, d, c)][1] # k,
         ~Ahead(t, c, k, d)
  PROVE  NotIn(k, t, c)
<1> SUFFICES ASSUME NEW b \in Buckets(c), t[b][1] = k PROVE FALSE
  BY DEF NotIn
<1>1. t[b] # Unfilled
  BY BucketIs, k # Nil
<1> DEFINE e == FromHome(b, k, c)
<1>2. e \in Buckets(c) /\ Place(k, e, c) = b
  BY PlaceIs
<1>3. e \in Int /\ d \in Int
  BY <1>2 DEF Buckets
<1>4. CASE e < d
  <2>1. e \in 0 .. d - 1
    BY <1>2, <1>4 DEF Buckets
  <2>2. Ahead(t, c, k, e)
    BY <2>1 DEF AllAhead
  <2>3. Before(k, e, k, e)
    BY <1>2, <2>2 DEF Ahead
  <2> QED BY <1>3, <2>3, BeforeIsOrder
<1>5. CASE e = d
  BY <1>2, <1>5
<1>6. CASE d < e
  <2>1. d \in 0 .. e - 1
    BY <1>2, <1>6 DEF Buckets
  <2>2. Ahead(t, c, k, d)
    BY <1>1, <2>1 DEF RunsAreSorted, AllAhead
  <2> QED BY <2>2
<1> QED BY <1>3, <1>4, <1>5, <1>6

\* A bucket may be filled, or given to the same key or one that goes before.
GoesTo(t, c, i, x) ==
  \/ t[i] = Unfilled
  \/ t[i][1] = x[1]
  \/ Before(x[1], FromHome(i, x[1], c), t[i][1], FromHome(i, t[i][1], c))

LEMMA AheadStays ==
  ASSUME NEW c \in Nat, c # 0, NEW t, IsStruct(t, c), NEW u, NEW i \in Buckets(c), NEW x \in Entry,
         IsPut(u, t, i, x), GoesTo(t, c, i, x),
         NEW k \in StructKeys, NEW d \in Buckets(c), Ahead(t, c, k, d)
  PROVE  Ahead(u, c, k, d)
<1> DEFINE p == Place(k, d, c)
<1>1. p \in Buckets(c) /\ FromHome(p, k, c) = d
  BY PlaceIs
<1>2. t[p] # Unfilled /\ Before(t[p][1], FromHome(p, t[p][1], c), k, d)
  BY DEF Ahead
<1>3. CASE p # i
  <2>1. u[p] = t[p]
    BY <1>1, <1>3 DEF IsPut, IsStruct
  <2> QED BY <1>2, <2>1 DEF Ahead
<1>4. CASE p = i
  <2>1. u[p] = x /\ x # Unfilled /\ x[1] \in StructKeys
    BY <1>1, <1>4, EntryIs DEF IsPut, IsStruct
  <2>2. CASE t[p][1] = x[1]
    BY <1>2, <2>1, <2>2 DEF Ahead
  <2>3. CASE Before(x[1], FromHome(p, x[1], c), t[p][1], FromHome(p, t[p][1], c))
    <3>1. t[p][1] \in StructKeys
      BY <1>1, <1>2, BucketIs
    <3>2. FromHome(p, x[1], c) \in Buckets(c) /\ FromHome(p, t[p][1], c) \in Buckets(c)
      BY <1>1, <2>1, <3>1, PlaceIs
    <3>3. FromHome(p, x[1], c) \in Int /\ FromHome(p, t[p][1], c) \in Int /\ d \in Int
      BY <3>2 DEF Buckets
    <3>4. Before(x[1], FromHome(p, x[1], c), k, d)
      BY <1>2, <2>1, <2>3, <3>1, <3>3, BeforeIsTransitive
    <3> QED BY <2>1, <3>4 DEF Ahead
  <2> QED BY <1>2, <1>4, <2>2, <2>3 DEF GoesTo
<1> QED BY <1>3, <1>4

LEMMA SortedStays ==
  ASSUME NEW c \in Nat, c # 0, NEW t, IsStruct(t, c), RunsAreSorted(t, c), NEW u, NEW i \in Buckets(c), NEW x \in Entry,
         IsPut(u, t, i, x), GoesTo(t, c, i, x), AllAhead(t, c, x[1], FromHome(i, x[1], c))
  PROVE  IsStruct(u, c) /\ RunsAreSorted(u, c)
<1>1. IsStruct(u, c)
  BY DEF IsPut, IsStruct
<1>2. x[1] \in StructKeys /\ u[i] = x
  BY EntryIs DEF IsPut, IsStruct
<1>3. ASSUME NEW b \in Buckets(c), u[b] # Unfilled, NEW d \in 0 .. FromHome(b, u[b][1], c) - 1
      PROVE  Ahead(u, c, u[b][1], d)
  <2>1. u[b][1] \in StructKeys
    BY <1>1, <1>3, BucketIs
  <2>2. FromHome(b, u[b][1], c) \in Buckets(c)
    BY <2>1, PlaceIs
  <2>3. d \in Buckets(c)
    BY <1>3, <2>2 DEF Buckets
  <2>4. Ahead(t, c, u[b][1], d)
    <3>1. CASE b = i
      BY <1>2, <1>3, <3>1 DEF AllAhead
    <3>2. CASE b # i
      <4>1. u[b] = t[b]
        BY <3>2 DEF IsPut, IsStruct
      <4> QED BY <1>3, <4>1 DEF RunsAreSorted, AllAhead
    <3> QED BY <3>1, <3>2
  <2> QED BY <2>1, <2>3, <2>4, AheadStays
<1>4. RunsAreSorted(u, c)
  BY <1>3 DEF RunsAreSorted, AllAhead
<1> QED BY <1>1, <1>4

-----------------------------------------------------------------------------
\* The loops of a put: c buckets, t and kv as the put finds them.
Carrying(c) ==
  [st : [Buckets(c) -> {Unfilled} \cup Entry], kv : Entry, i : Buckets(c), dist : Nat, new : {0, 1}, ended : BOOLEAN]

SameRoom(t, u, c) == \A b \in Buckets(c) : t[b] = Unfilled <=> u[b] = Unfilled
Walked(s, c, k) == \A j \in 0 .. FromHome(s.i, k, c) - 1 : s.st[Place(k, j, c)] # Unfilled

\* Nothing is put yet, or the new key is, and another one carried on.
StillWhole(s, c, t, kv) ==
  \/ s.st = t /\ s.kv = kv
  \/ /\ NotIn(kv[1], t, c) /\ NotIn(s.kv[1], s.st, c)
     /\ EntriesOf(s.st, c) \cup {s.kv} = EntriesOf(t, c) \cup {kv}

OnTheWay(s, c, t, kv) ==
  /\ RunsAreSorted(s.st, c) /\ AllAhead(s.st, c, s.kv[1], s.dist)
  /\ s.dist \in Buckets(c) /\ s.i = Place(s.kv[1], s.dist, c)
  /\ SameRoom(s.st, t, c) /\ Walked(s, c, kv[1]) /\ StillWhole(s, c, t, kv) /\ s.new = 0

\* What a put has done: another entry, or another value, or nothing.
HasPut(u, new, c, t, kv, replace) ==
  \/ new = 1 /\ NotIn(kv[1], t, c) /\ EntriesOf(u, c) = EntriesOf(t, c) \cup {kv}
  \/ /\ new = 0
     /\ \E o \in EntriesOf(t, c) : /\ o[1] = kv[1]
                                   /\ EntriesOf(u, c) = IF replace THEN (EntriesOf(t, c) \ {o}) \cup {kv}
                                                        ELSE EntriesOf(t, c)

CarriesOn(s, c, t, kv, replace) ==
  IF s.ended THEN RunsAreSorted(s.st, c) /\ HasPut(s.st, s.new, c, t, kv, replace) ELSE OnTheWay(s, c, t, kv)

\* A key that has all buckets ahead of it finds no room.
LEMMA NotAllAhead ==
  ASSUME NEW c \in Nat, c # 0, NEW t, IsStruct(t, c), HasEmpty(t, c), NEW k \in StructKeys, NEW d \in Buckets(c),
         AllAhead(t, c, k, d + 1)
  PROVE  d + 1 \in Buckets(c)
<1>1. SUFFICES ASSUME d + 1 = c PROVE FALSE
  BY DEF Buckets
<1>2. PICK b \in Buckets(c) : t[b] = Unfilled
  BY DEF HasEmpty
<1>3. FromHome(b, k, c) \in Buckets(c) /\ Place(k, FromHome(b, k, c), c) = b
  BY PlaceIs
<1>4. FromHome(b, k, c) \in 0 .. (d + 1) - 1
  BY <1>1, <1>3 DEF Buckets
<1>5. Ahead(t, c, k, FromHome(b, k, c))
  BY <1>4 DEF AllAhead
<1> QED BY <1>2, <1>3, <1>5 DEF Ahead

\* And neither do the loops come round.
LEMMA MovesOn ==
  ASSUME NEW c \in Nat, c # 0, NEW u, IsStruct(u, c), HasEmpty(u, c), NEW k \in StructKeys, NEW i \in Buckets(c),
         \A j \in 0 .. FromHome(i, k, c) : u[Place(k, j, c)] # Unfilled
  PROVE  Following(i, c) \in Buckets(c) /\ FromHome(Following(i, c), k, c) = FromHome(i, k, c) + 1
<1> DEFINE f == FromHome(i, k, c)
<1>1. f \in Buckets(c) /\ Place(k, f, c) = i
  BY PlaceIs
<1>2. PICK b \in Buckets(c) : u[b] = Unfilled
  BY DEF HasEmpty
<1>3. FromHome(b, k, c) \in Buckets(c) /\ Place(k, FromHome(b, k, c), c) = b
  BY PlaceIs
<1>4. FromHome(b, k, c) \notin 0 .. f
  BY <1>2, <1>3
<1> HIDE DEF f
<1>5. f + 1 < c
  BY <1>1, <1>3, <1>4 DEF Buckets
<1>6. Following(i, c) = Place(k, f + 1, c)
  BY <1>1, <1>5, PlaceIs
<1>7. f + 1 \in Buckets(c)
  BY <1>1, <1>5 DEF Buckets
<1>8. Place(k, f + 1, c) \in Buckets(c) /\ FromHome(Place(k, f + 1, c), k, c) = f + 1
  BY <1>7, PlaceIs
<1> QED BY <1>6, <1>8 DEF f

LEMMA CarryKeeps ==
  ASSUME NEW c \in Nat, c # 0, NEW t, IsStruct(t, c), RunsAreSorted(t, c), HasEmpty(t, c), NEW kv \in Entry,
         NEW replace \in BOOLEAN, NEW s \in Carrying(c), CarriesOn(s, c, t, kv, replace)
  PROVE  /\ Carry(s, c, replace) \in Carrying(c) /\ CarriesOn(Carry(s, c, replace), c, t, kv, replace)
         /\ s.ended => Carry(s, c, replace).ended
         /\ \/ Carry(s, c, replace).ended
            \/ FromHome(Carry(s, c, replace).i, kv[1], c) = FromHome(s.i, kv[1], c) + 1
<1> DEFINE r == Carry(s, c, replace)
           u == s.st
           k == s.kv[1]
           o == u[s.i]
           other == FromHome(s.i, o[1], c)
           on == Following(s.i, c)
<1>1. CASE s.ended
  <2>1. r = s
    BY <1>1 DEF Carry
  <2> QED BY <1>1, <2>1
<1>2. CASE ~s.ended
  <2>1. /\ IsStruct(u, c) /\ s.i \in Buckets(c) /\ s.kv \in Entry /\ s.dist \in Nat /\ s.new \in {0, 1}
        /\ s = [st |-> u, kv |-> s.kv, i |-> s.i, dist |-> s.dist, new |-> s.new, ended |-> s.ended]
    BY DEF Carrying, IsStruct
  <2>2. OnTheWay(s, c, t, kv)
    BY <1>2 DEF CarriesOn
  <2>3. /\ RunsAreSorted(u, c) /\ AllAhead(u, c, k, s.dist) /\ s.dist \in Buckets(c) /\ s.i = Place(k, s.dist, c)
        /\ SameRoom(u, t, c) /\ Walked(s, c, kv[1]) /\ StillWhole(s, c, t, kv) /\ s.new = 0
    BY <2>2 DEF OnTheWay
  <2>4. HasEmpty(u, c)
    BY <2>3 DEF SameRoom, HasEmpty
  <2>5. k \in StructKeys /\ k # Nil /\ kv[1] \in StructKeys /\ s.kv # Unfilled
    BY <2>1, EntryIs
  <2>6. FromHome(s.i, k, c) = s.dist
    BY <2>3, <2>5, PlaceIs
  <2>7. CASE o = Unfilled
    <3>1. r = [st |-> [u EXCEPT ![s.i] = s.kv], kv |-> s.kv, i |-> s.i, dist |-> s.dist, new |-> 1, ended |-> TRUE]
      BY <1>2, <2>1, <2>7 DEF Carry
    <3> DEFINE w == [u EXCEPT ![s.i] = s.kv]
    <3>2. IsPut(w, u, s.i, s.kv) /\ GoesTo(u, c, s.i, s.kv)
      BY <2>7 DEF IsPut, GoesTo
    <3>3. IsStruct(w, c) /\ RunsAreSorted(w, c)
      <4> HIDE DEF w, u
      <4> QED BY <2>1, <2>3, <2>6, <3>2, SortedStays
    <3>4. NotIn(kv[1], t, c) /\ EntriesOf(w, c) = EntriesOf(t, c) \cup {kv}
      <4>1. EntriesOf(w, c) = EntriesOf(u, c) \cup {s.kv}
        <5>1. w[s.i] = s.kv /\ \A b \in Buckets(c) : b # s.i => w[b] = u[b]
          BY <2>1 DEF IsStruct
        <5> HIDE DEF w, u
        <5>2. u[s.i] = Unfilled
          BY <2>7 DEF o
        <5> QED BY <2>1, <2>5, <5>1, <5>2 DEF EntriesOf
      <4>2. CASE u = t /\ s.kv = kv
        <5>1. t[Place(k, s.dist, c)] = Unfilled
          BY <2>3, <2>7, <4>2
        <5>2. t[Place(k, s.dist, c)][1] # k /\ ~Ahead(t, c, k, s.dist)
          BY <2>1, <2>3, <2>5, <5>1, <4>2, BucketIs DEF Ahead
        <5>3. NotIn(k, t, c)
          BY <2>3, <2>5, <4>2, <5>2, KeyAbsent
        <5> QED BY <4>1, <4>2, <5>3
      <4>3. CASE NotIn(kv[1], t, c) /\ EntriesOf(u, c) \cup {s.kv} = EntriesOf(t, c) \cup {kv}
        BY <4>1, <4>3
      <4> QED BY <2>3, <4>2, <4>3 DEF StillWhole
    <3>5. r \in Carrying(c)
      <4> HIDE DEF w
      <4> QED BY <2>1, <3>1, <3>3 DEF Carrying, IsStruct, w
    <3>6. r.ended /\ r.st = w /\ r.new = 1
      BY <3>1
    <3> HIDE DEF r, w
    <3> QED BY <3>3, <3>4, <3>5, <3>6 DEF CarriesOn, HasPut, r
  <2>8. CASE o # Unfilled /\ o[1] = k
    <3> DEFINE x == IF replace THEN s.kv ELSE o
    <3>1. r = [st |-> [u EXCEPT ![s.i] = x], kv |-> s.kv, i |-> s.i, dist |-> s.dist, new |-> s.new, ended |-> TRUE]
      BY <1>2, <2>1, <2>8 DEF Carry
    <3> DEFINE w == [u EXCEPT ![s.i] = x]
    <3>2. u = t /\ s.kv = kv
      <4>1. ~NotIn(k, u, c)
        BY <2>1, <2>8 DEF NotIn
      <4> QED BY <2>3, <4>1 DEF StillWhole
    <3>3. o \in Entry /\ x \in Entry /\ x[1] = k
      BY <2>1, <2>8, BucketIs
    <3>4. IsPut(w, u, s.i, x) /\ GoesTo(u, c, s.i, x)
      BY <2>8, <3>3 DEF IsPut, GoesTo
    <3>5. IsStruct(w, c) /\ RunsAreSorted(w, c)
      <4> HIDE DEF w, u, x
      <4> QED BY <2>1, <2>3, <2>6, <3>3, <3>4, SortedStays
    <3>6. /\ o \in EntriesOf(t, c) /\ o[1] = kv[1]
          /\ EntriesOf(w, c) = IF replace THEN (EntriesOf(t, c) \ {o}) \cup {kv} ELSE EntriesOf(t, c)
      <4>1. w[s.i] = x /\ \A b \in Buckets(c) : b # s.i => w[b] = u[b]
        BY <2>1 DEF IsStruct
      <4>2. \A b \in Buckets(c) : b # s.i => u[b] # o
        <5>1. \A b \in Buckets(c) : u[b] = o => b = s.i
          BY <2>1, <2>3, <2>8, KeyOnce
        <5> QED BY <5>1
      <4>3. o \in EntriesOf(u, c)
        BY <2>1, <2>8 DEF EntriesOf
      <4> HIDE DEF w, u, x
      <4>4. u[s.i] = o /\ x # Unfilled
        BY <3>3, EntryIs DEF u
      <4>5. EntriesOf(w, c) = (EntriesOf(u, c) \ {o}) \cup {x}
        BY <2>1, <4>1, <4>2, <4>4 DEF EntriesOf
      <4>6. x = IF replace THEN kv ELSE o
        BY <3>2 DEF x
      <4>7. o[1] = kv[1]
        BY <2>8, <3>2
      <4> HIDE DEF o
      <4>8. CASE replace
        BY <3>2, <4>3, <4>5, <4>6, <4>7, <4>8
      <4>9. CASE ~replace
        <5>1. (EntriesOf(u, c) \ {o}) \cup {o} = EntriesOf(u, c)
          BY <4>3
        <5> QED BY <3>2, <4>3, <4>5, <4>6, <4>7, <4>9, <5>1
      <4> QED BY <4>8, <4>9
    <3>7. r \in Carrying(c)
      <4> HIDE DEF w
      <4> QED BY <2>1, <3>1, <3>5 DEF Carrying, IsStruct, w
    <3>8. r.ended /\ r.st = w /\ r.new = 0
      BY <2>3, <3>1
    <3> HIDE DEF r, w
    <3> QED BY <3>5, <3>6, <3>7, <3>8 DEF CarriesOn, HasPut, r
  <2>9. CASE o # Unfilled /\ o[1] # k
    <3>1. o \in Entry /\ o[1] \in StructKeys
      BY <2>1, <2>9, BucketIs
    <3>2. other \in Buckets(c) /\ Place(o[1], other, c) = s.i
      BY <2>1, <3>1, PlaceIs
    <3>3. other \in Int /\ s.dist \in Int
      BY <2>3, <3>2 DEF Buckets
    <3>4. \A j \in 0 .. FromHome(s.i, kv[1], c) : u[Place(kv[1], j, c)] # Unfilled
      <4>1. FromHome(s.i, kv[1], c) \in Buckets(c) /\ Place(kv[1], FromHome(s.i, kv[1], c), c) = s.i
        BY <2>1, <2>5, PlaceIs
      <4> SUFFICES ASSUME NEW j \in 0 .. FromHome(s.i, kv[1], c) PROVE u[Place(kv[1], j, c)] # Unfilled
        OBVIOUS
      <4>2. CASE j = FromHome(s.i, kv[1], c)
        BY <2>9, <4>1, <4>2
      <4>3. CASE j # FromHome(s.i, kv[1], c)
        <5> DEFINE f == FromHome(s.i, kv[1], c)
        <5>1. f \in Nat /\ j \in 0 .. f
          BY <4>1 DEF Buckets
        <5> HIDE DEF f
        <5>2. j # f
          BY <4>3 DEF f
        <5>3. j \in 0 .. f - 1
          BY <5>1, <5>2
        <5> QED BY <2>3, <5>3 DEF Walked, f
      <4> QED BY <4>2, <4>3
    <3>5. on \in Buckets(c) /\ FromHome(on, kv[1], c) = FromHome(s.i, kv[1], c) + 1
      BY <2>1, <2>4, <2>5, <3>4, MovesOn
    <3>6. CASE Before(k, s.dist, o[1], other)
      <4>1. r = [st |-> [u EXCEPT ![s.i] = s.kv], kv |-> o, i |-> on, dist |-> other + 1, new |-> s.new, ended |-> s.ended]
        BY <1>2, <2>1, <2>9, <3>6 DEF Carry
      <4> DEFINE w == [u EXCEPT ![s.i] = s.kv]
      <4>2. IsPut(w, u, s.i, s.kv) /\ GoesTo(u, c, s.i, s.kv)
        BY <2>6, <3>6 DEF IsPut, GoesTo
      <4>3. /\ w[s.i] = s.kv /\ \A b \in Buckets(c) : b # s.i => w[b] = u[b]
        BY <2>1 DEF IsStruct
      <4> HIDE DEF w, r
      <4>4. IsStruct(w, c) /\ RunsAreSorted(w, c)
        BY <2>1, <2>3, <2>6, <4>2, SortedStays
      <4>5. SameRoom(w, u, c) /\ SameRoom(w, t, c) /\ HasEmpty(w, c)
        <5>1. SameRoom(w, u, c)
          BY <2>1, <2>5, <2>9, <4>3 DEF SameRoom
        <5> QED BY <2>3, <2>4, <5>1 DEF SameRoom, HasEmpty
      <4>6. AllAhead(w, c, o[1], other + 1)
        <5> SUFFICES ASSUME NEW d \in 0 .. (other + 1) - 1 PROVE Ahead(w, c, o[1], d)
          BY DEF AllAhead
        <5>1. d \in Buckets(c)
          <6> HIDE DEF other
          <6> QED BY <3>2 DEF Buckets
        <5>2. CASE d = other
          <6>1. w[Place(o[1], d, c)] = s.kv /\ Place(o[1], d, c) = s.i
            BY <3>2, <4>3, <5>2
          <6> QED BY <2>5, <2>6, <3>6, <5>2, <6>1 DEF Ahead
        <5>3. CASE d # other
          <6>1. d \in 0 .. other - 1
            <7> HIDE DEF other
            <7> QED BY <3>2, <5>3 DEF Buckets
          <6>2. Ahead(u, c, o[1], d)
            BY <2>1, <2>3, <2>9, <6>1 DEF RunsAreSorted, AllAhead
          <6> QED BY <2>1, <3>1, <4>2, <5>1, <6>2, AheadStays
        <5> QED BY <5>2, <5>3
      <4>7. other + 1 \in Buckets(c)
        <5> HIDE DEF other
        <5> QED BY <3>1, <3>2, <4>4, <4>5, <4>6, NotAllAhead
      <4>8. on = Place(o[1], other + 1, c)
        <5>1. other + 1 < c
          BY <4>7 DEF Buckets
        <5> QED BY <3>1, <3>2, <5>1, PlaceIs
      <4>9. Walked(r, c, kv[1])
        <5> SUFFICES ASSUME NEW j \in 0 .. FromHome(on, kv[1], c) - 1 PROVE w[Place(kv[1], j, c)] # Unfilled
          BY <4>1 DEF Walked, w
        <5> DEFINE f == FromHome(s.i, kv[1], c)
        <5>1. f \in Nat /\ f \in Buckets(c)
          BY <2>1, <2>5, PlaceIs DEF Buckets
        <5>2. j \in 0 .. (f + 1) - 1
          BY <3>5
        <5> HIDE DEF f
        <5>3. j \in 0 .. f /\ j \in Buckets(c)
          BY <5>1, <5>2 DEF Buckets
        <5>4. u[Place(kv[1], j, c)] # Unfilled
          BY <3>4, <5>3 DEF f
        <5>5. Place(kv[1], j, c) \in Buckets(c)
          BY <2>5, <5>3, PlaceIs
        <5> QED BY <4>5, <5>4, <5>5 DEF SameRoom
      <4>10. NotIn(kv[1], t, c) /\ EntriesOf(u, c) \cup {s.kv} = EntriesOf(t, c) \cup {kv} /\ NotIn(k, u, c)
        <5>1. CASE u = t /\ s.kv = kv
          <6>1. ~Ahead(t, c, k, s.dist)
            <7>1. SUFFICES ASSUME Ahead(t, c, k, s.dist) PROVE FALSE
              OBVIOUS
            <7>2. Before(o[1], other, k, s.dist)
              BY <2>3, <5>1, <7>1 DEF Ahead
            <7> QED BY <2>5, <3>1, <3>3, <3>6, <7>2, BeforeIsOrder
          <6>2. t[Place(k, s.dist, c)][1] # k
            BY <2>3, <2>9, <5>1
          <6>3. NotIn(k, t, c)
            BY <2>3, <2>5, <5>1, <6>1, <6>2, KeyAbsent
          <6> QED BY <5>1, <6>3
        <5>2. CASE NotIn(kv[1], t, c) /\ NotIn(k, u, c) /\ EntriesOf(u, c) \cup {s.kv} = EntriesOf(t, c) \cup {kv}
          BY <5>2
        <5> QED BY <2>3, <5>1, <5>2 DEF StillWhole
      <4>11. \A b \in Buckets(c) : b # s.i => u[b][1] # o[1]
        BY <2>1, <2>3, <2>9, KeyOnce
      <4>12. NotIn(o[1], w, c)
        BY <2>9, <4>3, <4>11 DEF NotIn
      <4>13. EntriesOf(w, c) \cup {o} = EntriesOf(t, c) \cup {kv}
        <5>1. EntriesOf(w, c) = (EntriesOf(u, c) \ {o}) \cup {s.kv}
          <6>1. \A b \in Buckets(c) : b # s.i => u[b] # o
            BY <4>11
          <6>2. u[s.i] = o
            OBVIOUS
          <6> HIDE DEF u, o
          <6> QED BY <2>1, <2>5, <4>3, <6>1, <6>2 DEF EntriesOf
        <5>2. o \in EntriesOf(u, c)
          BY <2>1, <2>9 DEF EntriesOf
        <5> HIDE DEF u, o
        <5> QED BY <4>10, <5>1, <5>2
      <4>14. StillWhole(r, c, t, kv)
        BY <4>1, <4>10, <4>12, <4>13 DEF StillWhole, w
      <4>15. /\ r.st = w /\ r.kv = o /\ r.i = on /\ r.dist = other + 1 /\ r.new = 0 /\ ~r.ended
        BY <1>2, <2>3, <4>1 DEF w
      <4>16. OnTheWay(r, c, t, kv)
        BY <4>4, <4>5, <4>6, <4>7, <4>8, <4>9, <4>14, <4>15 DEF OnTheWay
      <4>17. r \in Carrying(c)
        <5>1. other + 1 \in Nat /\ s.new \in {0, 1} /\ s.ended \in BOOLEAN
          <6>1. s.ended \in BOOLEAN
            BY DEF Carrying
          <6> QED BY <2>1, <4>7, <6>1 DEF Buckets
        <5>2. r = [st |-> w, kv |-> o, i |-> on, dist |-> other + 1, new |-> s.new, ended |-> s.ended]
          BY <4>1 DEF w
        <5> HIDE DEF other, on, o
        <5> QED BY <3>1, <3>5, <4>4, <5>1, <5>2 DEF Carrying, IsStruct
      <4> QED BY <1>2, <3>5, <4>15, <4>16, <4>17 DEF CarriesOn, r
    <3>7. CASE ~Before(k, s.dist, o[1], other)
      <4>1. r = [st |-> u, kv |-> s.kv, i |-> on, dist |-> s.dist + 1, new |-> s.new, ended |-> s.ended]
        BY <1>2, <2>1, <2>9, <3>7 DEF Carry
      <4> HIDE DEF r
      <4>2. Before(o[1], other, k, s.dist)
        BY <2>5, <2>9, <3>1, <3>3, <3>7, BeforeIsOrder
      <4>3. Ahead(u, c, k, s.dist)
        BY <2>3, <2>9, <4>2 DEF Ahead
      <4>4. AllAhead(u, c, k, s.dist + 1)
        <5>1. \A d \in 0 .. (s.dist + 1) - 1 : d = s.dist \/ d \in 0 .. s.dist - 1
          BY <3>3
        <5> QED BY <2>3, <4>3, <5>1 DEF AllAhead
      <4>5. s.dist + 1 \in Buckets(c)
        BY <2>1, <2>3, <2>4, <2>5, <4>4, NotAllAhead
      <4>6. on = Place(k, s.dist + 1, c)
        <5>1. s.dist + 1 < c
          BY <4>5 DEF Buckets
        <5> QED BY <2>3, <2>5, <5>1, PlaceIs
      <4>7. r.st = u /\ r.kv = s.kv /\ r.i = on /\ r.dist = s.dist + 1 /\ r.new = 0 /\ ~r.ended
        BY <1>2, <2>3, <4>1
      <4>8. Walked(r, c, kv[1])
        <5> SUFFICES ASSUME NEW j \in 0 .. FromHome(on, kv[1], c) - 1 PROVE u[Place(kv[1], j, c)] # Unfilled
          BY <4>7 DEF Walked
        <5> DEFINE f == FromHome(s.i, kv[1], c)
        <5>1. f \in Nat /\ f \in Buckets(c)
          BY <2>1, <2>5, PlaceIs DEF Buckets
        <5>2. j \in 0 .. (f + 1) - 1
          BY <3>5
        <5> HIDE DEF f
        <5>3. j \in 0 .. f
          BY <5>1, <5>2
        <5> QED BY <3>4, <5>3 DEF f
      <4>9. StillWhole(r, c, t, kv)
        BY <2>3, <4>7 DEF StillWhole
      <4>10. OnTheWay(r, c, t, kv)
        BY <2>3, <4>4, <4>5, <4>6, <4>7, <4>8, <4>9 DEF OnTheWay
      <4>11. r \in Carrying(c)
        <5>1. s.dist + 1 \in Nat /\ s.new \in {0, 1} /\ s.ended \in BOOLEAN
          BY <2>1 DEF Carrying
        <5> HIDE DEF on, u
        <5>2. r = [st |-> u, kv |-> s.kv, i |-> on, dist |-> s.dist + 1, new |-> s.new, ended |-> s.ended]
          BY <4>1
        <5> QED BY <2>1, <3>5, <5>1, <5>2 DEF Carrying, IsStruct
      <4> QED BY <1>2, <3>5, <4>7, <4>10, <4>11 DEF CarriesOn, r
    <3> QED BY <3>6, <3>7
  <2> QED BY <2>7, <2>8, <2>9
<1> QED BY <1>1, <1>2 DEF Carrying

LEMMA CarriedPuts ==
  ASSUME NEW c \in Nat, c # 0, NEW t, IsStruct(t, c), RunsAreSorted(t, c), HasEmpty(t, c), NEW kv \in Entry,
         NEW replace \in BOOLEAN
  PROVE  /\ IsStruct(Carried(t, kv, replace).st, c) /\ RunsAreSorted(Carried(t, kv, replace).st, c)
         /\ Carried(t, kv, replace).new \in {0, 1}
         /\ HasPut(Carried(t, kv, replace).st, Carried(t, kv, replace).new, c, t, kv, replace)
<1> DEFINE S == {s \in Carrying(c) : CarriesOn(s, c, t, kv, replace)}
           F == [n \in 1 .. c |-> [s \in S |-> Carry(s, c, replace)]]
           a == [st |-> t, kv |-> kv, i |-> Place(kv[1], 0, c), dist |-> 0, new |-> 0, ended |-> FALSE]
           round[n \in 0 .. c] == IF n = 0 THEN a ELSE Carry(round[n - 1], c, replace)
<1>1. Size(t) = c
  <2>1. DOMAIN t = 0 .. c - 1 /\ 0 \in Int /\ c - 1 \in Int
    BY DEF IsStruct, Buckets
  <2>2. Cardinality(0 .. c - 1) = c
    BY <2>1, FS_Interval
  <2> QED BY <2>1, <2>2 DEF Size
<1>2. Carried(t, kv, replace) = round[c]
  BY <1>1 DEF Carried
<1>3. kv[1] \in StructKeys
  BY EntryIs
<1>4. 0 \in Buckets(c) /\ Place(kv[1], 0, c) \in Buckets(c) /\ FromHome(Place(kv[1], 0, c), kv[1], c) = 0
  <2>1. 0 \in Buckets(c)
    BY DEF Buckets
  <2> QED BY <1>3, <2>1, PlaceIs
<1>5. a \in S
  <2>1. a \in Carrying(c)
    BY <1>4 DEF Carrying, IsStruct
  <2>2. OnTheWay(a, c, t, kv)
    BY <1>4 DEF OnTheWay, AllAhead, SameRoom, Walked, StillWhole
  <2> QED BY <2>1, <2>2 DEF CarriesOn
<1>6. \A s \in S : Carry(s, c, replace) \in S
  BY CarryKeeps
<1>7. F \in [1 .. c -> [S -> S]]
  BY <1>6
<1>8. round[0] = a /\ \A n \in 1 .. c : round[n] = Carry(round[n - 1], c, replace)
  <2> HIDE DEF a
  <2>1. round = [n \in 0 .. c |-> IF n = 0 THEN a ELSE Carry(round[n - 1], c, replace)]
    <3> DEFINE H == [n \in 1 .. c |-> [s \in S |-> Carry(s, c, replace)]]
    <3>1. PICK g : IsRun(g, S, c, a, H)
      <4>1. H \in [1 .. c -> [S -> S]]
        BY <1>6
      <4> HIDE DEF H, S
      <4> QED BY <1>5, <4>1, RunExists
    <3>2. g = [n \in 0 .. c |-> IF n = 0 THEN a ELSE Carry(g[n - 1], c, replace)]
      <4>1. g \in [0 .. c -> S] /\ g[0] = a
        BY <3>1 DEF IsRun
      <4>2. ASSUME NEW n \in 1 .. c PROVE g[n] = Carry(g[n - 1], c, replace)
        <5>1. g[n] = H[n][g[n - 1]]
          BY <3>1 DEF IsRun
        <5>2. g[n - 1] \in S
          BY <4>1
        <5> HIDE DEF S
        <5> QED BY <5>1, <5>2
      <4>3. \A n \in 0 .. c : n = 0 \/ n \in 1 .. c
        OBVIOUS
      <4>4. \A n \in 0 .. c : g[n] = IF n = 0 THEN a ELSE Carry(g[n - 1], c, replace)
        BY <4>1, <4>2, <4>3
      <4> HIDE DEF S, H
      <4> QED BY <4>1, <4>4
    <3>3. \E h : h = [n \in 0 .. c |-> IF n = 0 THEN a ELSE Carry(h[n - 1], c, replace)]
      BY <3>2
    <3>4. round = CHOOSE h : h = [n \in 0 .. c |-> IF n = 0 THEN a ELSE Carry(h[n - 1], c, replace)]
      BY DEF round
    <3> HIDE DEF round
    <3> QED BY <3>3, <3>4
  <2> HIDE DEF round
  <2>2. round[0] = a
    BY <2>1
  <2>3. \A n \in 1 .. c : n \in 0 .. c /\ n # 0
    OBVIOUS
  <2> QED BY <2>1, <2>2, <2>3
<1> HIDE DEF round, a
<1>9. \A n \in 0 .. c : round[n] \in S
  <2>1. \A n \in 1 .. c : round[n - 1] \in S => round[n] = F[n][round[n - 1]]
    BY <1>8
  <2>2. IsLoop(round, S, c, a, F)
    BY <1>8, <2>1 DEF IsLoop
  <2> HIDE DEF F, S
  <2>3. StaysIn(round, S, c)
    BY <1>5, <1>7, <2>2, RunStays
  <2> QED BY <2>3 DEF StaysIn
<1> HIDE DEF F
<1> DEFINE T == {n \in Nat : n <= c => round[n].ended \/ FromHome(round[n].i, kv[1], c) = n}
<1>10. 0 \in T
  BY <1>4, <1>8 DEF a
<1>11. \A n \in Nat : n \in T => n + 1 \in T
  <2> SUFFICES ASSUME NEW n \in Nat, n \in T, n + 1 <= c
               PROVE  round[n + 1].ended \/ FromHome(round[n + 1].i, kv[1], c) = n + 1
    OBVIOUS
  <2>1. n \in 0 .. c /\ n + 1 \in 1 .. c /\ (n + 1) - 1 = n
    OBVIOUS
  <2>2. round[n] \in S /\ round[n + 1] = Carry(round[n], c, replace)
    BY <1>8, <1>9, <2>1
  <2>3. /\ round[n].ended => round[n + 1].ended
        /\ round[n + 1].ended \/ FromHome(round[n + 1].i, kv[1], c) = FromHome(round[n].i, kv[1], c) + 1
    BY <2>2, CarryKeeps
  <2>4. round[n].ended \/ FromHome(round[n].i, kv[1], c) = n
    OBVIOUS
  <2> QED BY <2>3, <2>4
<1> HIDE DEF T
<1>12. c \in T
  BY <1>10, <1>11, SetInduction
<1>13. c \in 0 .. c /\ round[c] \in Carrying(c) /\ CarriesOn(round[c], c, t, kv, replace)
  BY <1>9
<1>14. round[c].ended
  <2>1. round[c].i \in Buckets(c)
    BY <1>13 DEF Carrying
  <2>2. FromHome(round[c].i, kv[1], c) \in Buckets(c)
    BY <1>3, <2>1, PlaceIs
  <2>3. FromHome(round[c].i, kv[1], c) # c
    BY <2>2 DEF Buckets
  <2> QED BY <1>12, <2>3 DEF T
<1>15. RunsAreSorted(round[c].st, c) /\ HasPut(round[c].st, round[c].new, c, t, kv, replace)
  BY <1>13, <1>14 DEF CarriesOn
<1>16. IsStruct(round[c].st, c) /\ round[c].new \in {0, 1}
  BY <1>13 DEF Carrying, IsStruct
<1> QED BY <1>2, <1>15, <1>16

-----------------------------------------------------------------------------
\* The entries are counted by the buckets they fill.
LEMMA EntriesFinite ==
  ASSUME NEW c \in Nat, NEW t, IsStruct(t, c)
  PROVE  IsFiniteSet(EntriesOf(t, c)) /\ Cardinality(EntriesOf(t, c)) \in Nat
<1> DEFINE R == {t[b] : b \in Buckets(c)}
<1>1. IsFiniteSet(Buckets(c))
  <2>1. 0 \in Int /\ c - 1 \in Int
    OBVIOUS
  <2> QED BY <2>1, FS_Interval DEF Buckets
<1>2. t \in Surjection(Buckets(c), R)
  BY DEF IsStruct, Surjection
<1> HIDE DEF R
<1>3. IsFiniteSet(R)
  BY <1>1, <1>2, FS_Surjection
<1>4. EntriesOf(t, c) \in SUBSET R
  BY DEF EntriesOf, R
<1>5. IsFiniteSet(EntriesOf(t, c))
  BY <1>3, <1>4, FS_Subset
<1> QED BY <1>5, FS_CardinalityType

LEMMA FewLeaveRoom ==
  ASSUME NEW c \in Nat, c # 0, NEW t, IsStruct(t, c), RunsAreSorted(t, c), Cardinality(EntriesOf(t, c)) < c
  PROVE  HasEmpty(t, c)
<1>1. SUFFICES ASSUME \A b \in Buckets(c) : t[b] # Unfilled PROVE FALSE
  BY DEF HasEmpty
<1>2. t \in [Buckets(c) -> EntriesOf(t, c)]
  BY <1>1 DEF IsStruct, EntriesOf
<1>3. \A a, b \in Buckets(c) : t[a] = t[b] => a = b
  BY <1>1, KeyOnce
<1>4. t \in Injection(Buckets(c), EntriesOf(t, c))
  BY <1>2, <1>3 DEF Injection, IsInjective
<1>5. Cardinality(Buckets(c)) <= Cardinality(EntriesOf(t, c))
  BY <1>4, EntriesFinite, FS_Injection
<1>6. Cardinality(Buckets(c)) = c
  <2>1. 0 \in Int /\ c - 1 \in Int
    OBVIOUS
  <2> QED BY <2>1, FS_Interval DEF Buckets
<1> QED BY <1>5, <1>6, EntriesFinite

\* At most one entry for a key.
OneForEach(E) == \A x, y \in E : x[1] = y[1] => x = y

LEMMA EntriesAreMap ==
  ASSUME NEW c \in Nat, c # 0, NEW t, IsStruct(t, c), RunsAreSorted(t, c)
  PROVE  OneForEach(EntriesOf(t, c)) /\ EntriesOf(t, c) \subseteq Entry
<1>1. ASSUME NEW x \in EntriesOf(t, c), NEW y \in EntriesOf(t, c), x[1] = y[1] PROVE x = y
  <2>1. PICK a \in Buckets(c) : x = t[a] /\ t[a] # Unfilled
    BY DEF EntriesOf
  <2>2. PICK b \in Buckets(c) : y = t[b]
    BY DEF EntriesOf
  <2> QED BY <1>1, <2>1, <2>2, KeyOnce
<1>2. EntriesOf(t, c) \subseteq Entry
  BY BucketIs DEF EntriesOf
<1> QED BY <1>1, <1>2 DEF OneForEach

\* A struct in the making, and its count.
IsMade(s, c) ==
  /\ s = [st |-> s.st, made |-> s.made]
  /\ IsStruct(s.st, c) /\ RunsAreSorted(s.st, c) /\ s.made = Cardinality(EntriesOf(s.st, c))

\* The entries after a put.
NowHas(E, F, kv, replace) ==
  IF \E o \in F : o[1] = kv[1]
  THEN E = IF replace THEN {o \in F : o[1] # kv[1]} \cup {kv} ELSE F
  ELSE E = F \cup {kv}

LEMMA SameCount ==
  ASSUME NEW F, IsFiniteSet(F), NEW o \in F, NEW x, x \notin F \ {o}
  PROVE  Cardinality((F \ {o}) \cup {x}) = Cardinality(F)
<1> DEFINE G == F \ {o}
<1>1. IsFiniteSet(G) /\ Cardinality(G) = Cardinality(F) - 1
  BY FS_RemoveElement
<1>2. Cardinality(F) \in Nat
  BY FS_CardinalityType
<1> HIDE DEF G
<1>3. Cardinality(G \cup {x}) = Cardinality(G) + 1
  BY <1>1, FS_AddElement DEF G
<1> QED BY <1>1, <1>2, <1>3 DEF G

LEMMA PutExtPuts ==
  ASSUME NEW c \in Nat, c # 0, NEW n \in Nat, n < c, NEW s, IsMade(s, c), s.made <= n,
         NEW kv \in Entry, NEW replace \in BOOLEAN, s.made # n
  PROVE  /\ IsMade(PutExt(s, n, kv, replace), c)
         /\ PutExt(s, n, kv, replace).made \in {s.made, s.made + 1}
         /\ NowHas(EntriesOf(PutExt(s, n, kv, replace).st, c), EntriesOf(s.st, c), kv, replace)
<1> DEFINE r == Carried(s.st, kv, replace)
           E == EntriesOf(r.st, c)
           F == EntriesOf(s.st, c)
<1>1. PutExt(s, n, kv, replace) = [st |-> r.st, made |-> s.made + r.new]
  <2>1. Nil \notin {kv[1], kv[2]}
    BY EntryIs
  <2> QED BY <2>1 DEF PutExt
<1>2. IsStruct(s.st, c) /\ RunsAreSorted(s.st, c) /\ s.made = Cardinality(F)
  BY DEF IsMade
<1>3. IsFiniteSet(F) /\ s.made \in Nat
  BY <1>2, EntriesFinite
<1>4. HasEmpty(s.st, c)
  BY <1>2, <1>3, FewLeaveRoom
<1>5. /\ IsStruct(r.st, c) /\ RunsAreSorted(r.st, c) /\ r.new \in {0, 1} /\ HasPut(r.st, r.new, c, s.st, kv, replace)
  BY <1>2, <1>4, CarriedPuts
<1>6. OneForEach(F) /\ F \subseteq Entry
  BY <1>2, EntriesAreMap
<1> HIDE DEF r, F, E
<1>7. CASE r.new = 1 /\ NotIn(kv[1], s.st, c) /\ E = F \cup {kv}
  <2>1. \A o \in F : o[1] # kv[1]
    BY <1>7 DEF NotIn, F, EntriesOf
  <2>2. Cardinality(E) = Cardinality(F) + 1
    <3>1. kv \notin F
      BY <2>1
    <3> QED BY <1>3, <1>7, <3>1, FS_AddElement
  <2>3. s.made + r.new = Cardinality(E) /\ s.made + r.new \in {s.made, s.made + 1}
    BY <1>2, <1>3, <1>7, <2>2
  <2>4. NowHas(E, F, kv, replace)
    BY <1>7, <2>1 DEF NowHas
  <2> QED BY <1>1, <1>5, <2>3, <2>4 DEF IsMade, E, F
<1>8. CASE /\ r.new = 0
           /\ \E o \in F : o[1] = kv[1] /\ E = IF replace THEN (F \ {o}) \cup {kv} ELSE F
  <2>1. PICK o \in F : o[1] = kv[1] /\ E = IF replace THEN (F \ {o}) \cup {kv} ELSE F
    BY <1>8
  <2>2. F \ {o} = {x \in F : x[1] # kv[1]}
    BY <1>6, <2>1 DEF OneForEach
  <2>3. kv \notin F \ {o}
    BY <2>2
  <2>4. Cardinality(E) = Cardinality(F)
    BY <1>3, <2>1, <2>3, SameCount
  <2>5. s.made + r.new = Cardinality(E) /\ s.made + r.new \in {s.made, s.made + 1}
    BY <1>2, <1>3, <1>8, <2>4
  <2>6. NowHas(E, F, kv, replace)
    BY <2>1, <2>2 DEF NowHas
  <2> QED BY <1>1, <1>5, <2>5, <2>6 DEF IsMade, E, F
<1> QED BY <1>5, <1>7, <1>8 DEF HasPut, E, F

-----------------------------------------------------------------------------
\* Entries put into a new struct are its entries.
NewIs(n) == [st |-> NewStruct(n), made |-> 0]

LEMMA NewIsEmpty ==
  ASSUME NEW n \in Nat, StructCap(2 * n) \in Nat
  PROVE  /\ IsMade(NewIs(n), StructCap(2 * n))
         /\ EntriesOf(NewStruct(n), StructCap(2 * n)) = {}
<1> DEFINE c == StructCap(2 * n)
           t == NewStruct(n)
<1>1. t \in [Buckets(c) -> {Unfilled}]
  BY DEF NewStruct, Buckets
<1> HIDE DEF c, t
<1>2. \A b \in Buckets(c) : t[b] = Unfilled
  BY <1>1
<1>3. IsStruct(t, c)
  BY <1>1 DEF IsStruct
<1>4. RunsAreSorted(t, c) /\ EntriesOf(t, c) = {}
  BY <1>2 DEF RunsAreSorted, EntriesOf
<1>5. Cardinality(EntriesOf(t, c)) = 0
  BY <1>4, FS_EmptySet
<1> QED BY <1>3, <1>4, <1>5 DEF IsMade, NewIs, c, t

\* Enough room for the entries G was announced.
Announced(n, c, G) == /\ n \in Nat /\ c \in Nat /\ n < c /\ c = StructCap(2 * n)
                      /\ IsFiniteSet(G) /\ G \subseteq Entry /\ OneForEach(G) /\ Cardinality(G) = n

MayPut(n, c, G, s, kv) ==
  Announced(n, c, G) /\ IsMade(s, c) /\ EntriesOf(s.st, c) \subseteq G /\ kv \in G \cup {Unfilled}

HasAlso(r, s, c, kv) == IsMade(r, c) /\ EntriesOf(r.st, c) = (EntriesOf(s.st, c) \cup {kv}) \ {Unfilled}

LEMMA PutOfAnnounced ==
  ASSUME NEW n, NEW c, NEW G, NEW s, NEW kv, MayPut(n, c, G, s, kv)
  PROVE  HasAlso(PutExt(s, n, kv, TRUE), s, c, kv)
<1> DEFINE E == EntriesOf(s.st, c)
           r == PutExt(s, n, kv, TRUE)
<1> USE DEF MayPut, HasAlso
<1>1. n \in Nat /\ c \in Nat /\ n < c /\ c # 0 /\ IsFiniteSet(G) /\ G \subseteq Entry /\ OneForEach(G) /\ Cardinality(G) = n
  BY DEF Announced
<1>2. /\ IsFiniteSet(E) /\ Cardinality(E) \in Nat /\ s.made = Cardinality(E) /\ Cardinality(E) <= n
      /\ Cardinality(E) = n => E = G
  <2>1. IsFiniteSet(E) /\ Cardinality(E) \in Nat /\ s.made = Cardinality(E)
    BY <1>1, EntriesFinite DEF IsMade
  <2>2. E \in SUBSET G
    OBVIOUS
  <2> HIDE DEF E
  <2> QED BY <1>1, <2>1, <2>2, FS_Subset
<1>3. Unfilled \notin E
  BY DEF EntriesOf
<1>4. CASE kv = Unfilled
  <2>1. r = s
    BY <1>4 DEF PutExt, Unfilled
  <2>2. E = (E \cup {kv}) \ {Unfilled}
    BY <1>3, <1>4
  <2> QED BY <2>1, <2>2
<1>5. CASE kv \in G /\ s.made = n
  <2>1. r = s
    BY <1>5 DEF PutExt
  <2>2. E = (E \cup {kv}) \ {Unfilled}
    BY <1>2, <1>3, <1>5
  <2> QED BY <2>1, <2>2
<1>6. CASE kv \in G /\ s.made # n
  <2>1. kv \in Entry /\ kv # Unfilled
    BY <1>1, <1>6, EntryIs
  <2>2. IsMade(r, c) /\ NowHas(EntriesOf(r.st, c), E, kv, TRUE)
    BY <1>1, <1>2, <1>6, <2>1, PutExtPuts
  <2>3. \A o \in E : o[1] = kv[1] => o = kv
    BY <1>1, <1>6 DEF OneForEach
  <2>4. EntriesOf(r.st, c) = E \cup {kv}
    <3> HIDE DEF E, r
    <3>1. CASE \E o \in E : o[1] = kv[1]
      <4>1. kv \in E
        BY <2>3, <3>1
      <4>2. EntriesOf(r.st, c) = {o \in E : o[1] # kv[1]} \cup {kv}
        BY <2>2, <3>1 DEF NowHas
      <4>3. {o \in E : o[1] # kv[1]} \cup {kv} = E
        BY <2>3, <4>1
      <4> QED BY <4>1, <4>2, <4>3
    <3>2. CASE ~\E o \in E : o[1] = kv[1]
      BY <2>2, <3>2 DEF NowHas
    <3> QED BY <3>1, <3>2
  <2>5. E \cup {kv} = (E \cup {kv}) \ {Unfilled}
    BY <1>3, <2>1
  <2> QED BY <2>2, <2>4, <2>5
<1> QED BY <1>4, <1>5, <1>6

MayFill(n, c, G, m, kvs) == Announced(n, c, G) /\ m \in Nat /\ kvs \in [1 .. m -> G \cup {Unfilled}]

LEMMA FilledHas ==
  ASSUME NEW n, NEW c, NEW G, NEW m, NEW kvs, MayFill(n, c, G, m, kvs)
  PROVE  /\ IsStruct(Filled(n, kvs, m), c) /\ RunsAreSorted(Filled(n, kvs, m), c)
         /\ EntriesOf(Filled(n, kvs, m), c) = {kvs[i] : i \in 1 .. m} \ {Unfilled}
<1> DEFINE S == {s \in [st : [Buckets(c) -> {Unfilled} \cup Entry], made : Nat] :
                    IsMade(s, c) /\ EntriesOf(s.st, c) \subseteq G}
           F == [i \in 1 .. m |-> [s \in S |-> PutExt(s, n, kvs[i], TRUE)]]
           a == NewIs(n)
           fill[i \in 0 .. m] == IF i = 0 THEN a ELSE PutExt(fill[i - 1], n, kvs[i], TRUE)
<1> USE DEF MayFill
<1>1. n \in Nat /\ c \in Nat /\ n < c /\ c = StructCap(2 * n) /\ IsFiniteSet(G)
  BY DEF Announced
<1>2. Filled(n, kvs, m) = fill[m].st
  BY DEF Filled, NewIs
<1>3. \A s : IsMade(s, c) => s \in [st : [Buckets(c) -> {Unfilled} \cup Entry], made : Nat]
  BY <1>1, EntriesFinite DEF IsMade, IsStruct
<1>4. a \in S
  BY <1>1, <1>3, NewIsEmpty DEF NewIs
<1>5. ASSUME NEW i \in 1 .. m, NEW s \in S
      PROVE  /\ PutExt(s, n, kvs[i], TRUE) \in S
             /\ EntriesOf(PutExt(s, n, kvs[i], TRUE).st, c) = (EntriesOf(s.st, c) \cup {kvs[i]}) \ {Unfilled}
  <2>1. kvs[i] \in G \cup {Unfilled} /\ IsMade(s, c) /\ EntriesOf(s.st, c) \subseteq G
    OBVIOUS
  <2>2. /\ IsMade(PutExt(s, n, kvs[i], TRUE), c)
        /\ EntriesOf(PutExt(s, n, kvs[i], TRUE).st, c) = (EntriesOf(s.st, c) \cup {kvs[i]}) \ {Unfilled}
    <3>1. MayPut(n, c, G, s, kvs[i])
      BY <2>1 DEF MayPut
    <3>2. HasAlso(PutExt(s, n, kvs[i], TRUE), s, c, kvs[i])
      <4> HIDE DEF S, F, fill, MayFill
      <4> QED BY <3>1, PutOfAnnounced
    <3> QED BY <3>2 DEF HasAlso
  <2>3. (EntriesOf(s.st, c) \cup {kvs[i]}) \ {Unfilled} \subseteq G
    BY <2>1
  <2> QED BY <1>3, <2>2, <2>3
<1>6. F \in [1 .. m -> [S -> S]]
  BY <1>5
<1>7. fill[0] = a /\ \A i \in 1 .. m : fill[i] = PutExt(fill[i - 1], n, kvs[i], TRUE)
  <2> HIDE DEF a
  <2>1. fill = [i \in 0 .. m |-> IF i = 0 THEN a ELSE PutExt(fill[i - 1], n, kvs[i], TRUE)]
    <3>1. PICK g : IsRun(g, S, m, a, F)
      <4> HIDE DEF F, S
      <4> QED BY <1>4, <1>6, RunExists
    <3>2. g = [i \in 0 .. m |-> IF i = 0 THEN a ELSE PutExt(g[i - 1], n, kvs[i], TRUE)]
      <4>1. g \in [0 .. m -> S] /\ g[0] = a
        BY <3>1 DEF IsRun
      <4>2. ASSUME NEW i \in 1 .. m PROVE g[i] = PutExt(g[i - 1], n, kvs[i], TRUE)
        <5>1. g[i] = F[i][g[i - 1]]
          BY <3>1 DEF IsRun
        <5>2. g[i - 1] \in S
          BY <4>1
        <5> HIDE DEF S
        <5> QED BY <5>1, <5>2
      <4>3. \A i \in 0 .. m : i = 0 \/ i \in 1 .. m
        OBVIOUS
      <4>4. \A i \in 0 .. m : g[i] = IF i = 0 THEN a ELSE PutExt(g[i - 1], n, kvs[i], TRUE)
        BY <4>1, <4>2, <4>3
      <4> HIDE DEF S, F
      <4> QED BY <4>1, <4>4
    <3>3. \E h : h = [i \in 0 .. m |-> IF i = 0 THEN a ELSE PutExt(h[i - 1], n, kvs[i], TRUE)]
      BY <3>2
    <3>4. fill = CHOOSE h : h = [i \in 0 .. m |-> IF i = 0 THEN a ELSE PutExt(h[i - 1], n, kvs[i], TRUE)]
      BY DEF fill
    <3> HIDE DEF fill
    <3> QED BY <3>3, <3>4
  <2> HIDE DEF fill
  <2>2. fill[0] = a
    BY <2>1
  <2>3. \A i \in 1 .. m : i \in 0 .. m /\ i # 0
    OBVIOUS
  <2> QED BY <2>1, <2>2, <2>3
<1> HIDE DEF fill
<1>8. \A i \in 0 .. m : fill[i] \in S
  <2>1. \A i \in 1 .. m : fill[i - 1] \in S => fill[i] = F[i][fill[i - 1]]
    BY <1>7
  <2>2. IsLoop(fill, S, m, a, F)
    BY <1>7, <2>1 DEF IsLoop
  <2> HIDE DEF F, S
  <2>3. StaysIn(fill, S, m)
    BY <1>4, <1>6, <2>2, RunStays
  <2> QED BY <2>3 DEF StaysIn
<1> HIDE DEF F, S
<1> DEFINE T == {i \in Nat : i <= m => EntriesOf(fill[i].st, c) = {kvs[j] : j \in 1 .. i} \ {Unfilled}}
<1>9. 0 \in T
  <2>1. EntriesOf(fill[0].st, c) = {}
    BY <1>1, <1>7, NewIsEmpty DEF NewIs
  <2>2. {kvs[j] : j \in 1 .. 0} = {}
    OBVIOUS
  <2> QED BY <2>1, <2>2
<1>10. ASSUME NEW i \in Nat, i \in T, i + 1 <= m PROVE i + 1 \in T
  <2>1. i \in 0 .. m /\ i + 1 \in 1 .. m /\ (i + 1) - 1 = i /\ i <= m /\ i + 1 \in Nat
    BY <1>10
  <2>2. EntriesOf(fill[i].st, c) = {kvs[j] : j \in 1 .. i} \ {Unfilled}
    BY <1>10, <2>1
  <2>3. fill[i] \in S /\ fill[i + 1] = PutExt(fill[i], n, kvs[i + 1], TRUE)
    BY <1>7, <1>8, <2>1
  <2>4. EntriesOf(fill[i + 1].st, c) = (EntriesOf(fill[i].st, c) \cup {kvs[i + 1]}) \ {Unfilled}
    BY <1>5, <2>1, <2>3
  <2>5. {kvs[j] : j \in 1 .. i + 1} = {kvs[j] : j \in 1 .. i} \cup {kvs[i + 1]}
    <3>1. \A j \in 1 .. i + 1 : j \in 1 .. i \/ j = i + 1
      OBVIOUS
    <3>2. 1 .. i \subseteq 1 .. i + 1 /\ i + 1 \in 1 .. i + 1
      OBVIOUS
    <3> QED BY <3>1, <3>2
  <2>6. EntriesOf(fill[i + 1].st, c) = {kvs[j] : j \in 1 .. i + 1} \ {Unfilled}
    <3> HIDE DEF T
    <3> QED BY <2>2, <2>4, <2>5
  <2> QED BY <2>1, <2>6
<1>11. \A i \in Nat : i \in T => i + 1 \in T
  <2>1. \A i \in Nat : ~(i + 1 <= m) => i + 1 \in T
    OBVIOUS
  <2> QED BY <1>10, <2>1
<1> HIDE DEF T
<1>12. m \in T
  BY <1>9, <1>11, SetInduction
<1>13. EntriesOf(fill[m].st, c) = {kvs[j] : j \in 1 .. m} \ {Unfilled}
  BY <1>12 DEF T
<1>14. IsStruct(fill[m].st, c) /\ RunsAreSorted(fill[m].st, c)
  <2>1. fill[m] \in S
    BY <1>8
  <2> QED BY <2>1 DEF S, IsMade
<1> QED BY <1>2, <1>13, <1>14

-----------------------------------------------------------------------------
\* How far b is from e, going round.
Span(e, b, c) == IF b >= e THEN b - e ELSE b + c - e

LEMMA SpanIs ==
  ASSUME NEW c \in Nat, c # 0, NEW k \in StructKeys, NEW d \in Nat, NEW g \in Nat, NEW f \in Nat, d < g, g < f, f < c
  PROVE  /\ Span(Place(k, f, c), Place(k, d, c), c) < Span(Place(k, f, c), Place(k, g, c), c)
         /\ Span(Place(k, f, c), Place(k, d, c), c) \in Nat
<1>1. Home(k, c) \in 0 .. c - 1
  BY PlaceIs DEF Buckets
<1> QED BY <1>1 DEF Place, Span

TwoStructs(t, u, c) ==
  /\ IsStruct(t, c) /\ RunsAreSorted(t, c) /\ HasEmpty(t, c)
  /\ IsStruct(u, c) /\ RunsAreSorted(u, c) /\ HasEmpty(u, c)
  /\ EntriesOf(t, c) = EntriesOf(u, c)

\* The keys of u that are farther from home in u than in t: from an empty
\* bucket on, there is no first.
Farther(t, u, c, e, n) ==
  \E a, b \in Buckets(c) : /\ t[a] # Unfilled /\ u[b] = t[a] /\ n = Span(e, b, c)
                           /\ FromHome(a, t[a][1], c) < FromHome(b, t[a][1], c)

LEMMA NoneFarther ==
  ASSUME NEW c \in Nat, c # 0, NEW t, NEW u, TwoStructs(t, u, c),
         NEW a \in Buckets(c), NEW b \in Buckets(c), t[a] # Unfilled, u[b] = t[a]
  PROVE  ~(FromHome(a, t[a][1], c) < FromHome(b, t[a][1], c))
<1>1. /\ IsStruct(t, c) /\ RunsAreSorted(t, c) /\ IsStruct(u, c) /\ RunsAreSorted(u, c)
      /\ EntriesOf(t, c) = EntriesOf(u, c)
  BY DEF TwoStructs
<1>2. PICK e \in Buckets(c) : u[e] = Unfilled
  BY DEF TwoStructs, HasEmpty
<1> DEFINE Bad == {n \in Nat : Farther(t, u, c, e, n)}
<1>3. ASSUME NEW x \in Buckets(c), NEW y \in Buckets(c), t[x] # Unfilled, u[y] = t[x],
             FromHome(x, t[x][1], c) < FromHome(y, t[x][1], c)
      PROVE  /\ Span(e, x, c) \in Nat /\ Span(e, x, c) < Span(e, y, c)
             /\ Ahead(u, c, t[x][1], FromHome(x, t[x][1], c))
  <2> DEFINE k == t[x][1]
             d == FromHome(x, k, c)
             g == FromHome(y, k, c)
             f == FromHome(e, k, c)
  <2>1. k \in StructKeys /\ u[y] # Unfilled /\ u[y][1] = k
    BY <1>1, <1>3, BucketIs
  <2>2. /\ d \in Buckets(c) /\ g \in Buckets(c) /\ f \in Buckets(c)
        /\ Place(k, d, c) = x /\ Place(k, g, c) = y /\ Place(k, f, c) = e
    BY <1>2, <2>1, PlaceIs
  <2>3. d < g
    BY <1>3
  <2> HIDE DEF k, d, g, f
  <2>4. AllAhead(u, c, k, g)
    BY <1>1, <2>1 DEF RunsAreSorted, g
  <2>5. d \in 0 .. g - 1
    BY <2>2, <2>3 DEF Buckets
  <2>6. Ahead(u, c, k, d)
    BY <2>4, <2>5 DEF AllAhead
  <2>7. g < f
    <3>1. f # g
      BY <1>2, <2>1, <2>2
    <3>2. f \notin 0 .. g - 1
      <4>1. SUFFICES ASSUME f \in 0 .. g - 1 PROVE FALSE
        OBVIOUS
      <4>2. Ahead(u, c, k, f)
        BY <2>4, <4>1 DEF AllAhead
      <4> QED BY <1>2, <2>2, <4>2 DEF Ahead
    <3> QED BY <2>2, <3>1, <3>2 DEF Buckets
  <2>8. d \in Nat /\ g \in Nat /\ f \in Nat /\ f < c
    BY <2>2 DEF Buckets
  <2>9. Span(e, x, c) \in Nat /\ Span(e, x, c) < Span(e, y, c)
    BY <2>1, <2>2, <2>3, <2>7, <2>8, SpanIs
  <2> QED BY <2>6, <2>9 DEF k, d
<1>4. SUFFICES ASSUME FromHome(a, t[a][1], c) < FromHome(b, t[a][1], c) PROVE FALSE
  OBVIOUS
<1>5. Span(e, b, c) \in Bad
  <2>1. Span(e, b, c) \in Nat
    BY <1>2 DEF Span, Buckets
  <2> QED BY <1>4, <2>1 DEF Farther
<1>6. PICK n \in Bad : \A m \in Bad : n <= m
  <2>1. Bad \in SUBSET Nat /\ Bad # {}
    BY <1>5
  <2> HIDE DEF Bad
  <2> QED BY <2>1, LeastExists
<1>7. PICK x, y \in Buckets(c) : /\ t[x] # Unfilled /\ u[y] = t[x] /\ n = Span(e, y, c)
                                 /\ FromHome(x, t[x][1], c) < FromHome(y, t[x][1], c)
  BY <1>6 DEF Farther
<1> DEFINE k == t[x][1]
           d == FromHome(x, k, c)
           z == u[x][1]
           dz == FromHome(x, z, c)
<1>8. Span(e, x, c) \in Nat /\ Span(e, x, c) < n /\ Ahead(u, c, k, d)
  BY <1>3, <1>7
<1>9. k \in StructKeys /\ d \in Buckets(c) /\ Place(k, d, c) = x
  <2>1. k \in StructKeys
    BY <1>1, <1>7, BucketIs
  <2> QED BY <2>1, PlaceIs
<1>10. u[x] # Unfilled /\ Before(z, dz, k, d)
  BY <1>8, <1>9 DEF Ahead
<1>11. z \in StructKeys /\ dz \in Buckets(c) /\ Place(z, dz, c) = x
  <2>1. z \in StructKeys
    BY <1>1, <1>10, BucketIs
  <2> QED BY <2>1, PlaceIs
<1>12. d \in Int /\ dz \in Int
  BY <1>9, <1>11 DEF Buckets
<1>13. PICK w \in Buckets(c) : t[w] = u[x]
  <2>1. u[x] \in EntriesOf(t, c)
    BY <1>1, <1>10 DEF EntriesOf
  <2> QED BY <2>1 DEF EntriesOf
<1>14. t[w] # Unfilled /\ t[w][1] = z
  BY <1>10, <1>13
<1>15. FromHome(w, z, c) \in Buckets(c) /\ Place(z, FromHome(w, z, c), c) = w
  BY <1>11, PlaceIs
<1>16. ~(FromHome(w, z, c) < dz)
  <2>1. SUFFICES ASSUME FromHome(w, z, c) < dz PROVE FALSE
    OBVIOUS
  <2>2. Span(e, x, c) \in Bad
    BY <1>8, <1>13, <1>14, <2>1 DEF Farther
  <2>3. n \in Nat /\ n <= Span(e, x, c)
    BY <1>6, <2>2
  <2> HIDE DEF Bad
  <2> QED BY <1>8, <2>3
<1>17. FromHome(w, z, c) # dz
  <2>1. SUFFICES ASSUME w = x PROVE FALSE
    BY <1>11, <1>15
  <2>2. z = k
    BY <1>13, <2>1
  <2>3. Before(k, d, k, d)
    BY <1>10, <2>2
  <2> QED BY <1>9, <1>12, <2>3, BeforeIsOrder
<1>18. dz \in 0 .. FromHome(w, z, c) - 1
  <2> DEFINE fw == FromHome(w, z, c)
  <2>1. fw \in Buckets(c) /\ ~(fw < dz) /\ fw # dz
    BY <1>15, <1>16, <1>17
  <2> HIDE DEF fw, dz
  <2>2. dz \in 0 .. fw - 1
    BY <1>11, <2>1 DEF Buckets
  <2> QED BY <2>2 DEF fw
<1>19. Ahead(t, c, z, dz)
  BY <1>1, <1>14, <1>18 DEF RunsAreSorted, AllAhead
<1>20. Before(k, d, z, dz)
  BY <1>11, <1>19 DEF Ahead
<1> QED BY <1>9, <1>10, <1>11, <1>12, <1>20, BeforeIsOrder

LEMMA SameBucket ==
  ASSUME NEW c \in Nat, c # 0, NEW t, NEW u, TwoStructs(t, u, c), NEW a \in Buckets(c), t[a] # Unfilled
  PROVE  u[a] = t[a]
<1>1. PICK b \in Buckets(c) : u[b] = t[a]
  <2>1. t[a] \in EntriesOf(u, c)
    BY DEF TwoStructs, EntriesOf
  <2> QED BY <2>1 DEF EntriesOf
<1> DEFINE k == t[a][1]
<1>2. k \in StructKeys
  BY BucketIs DEF TwoStructs
<1>3. TwoStructs(u, t, c)
  BY DEF TwoStructs
<1>4. ~(FromHome(a, k, c) < FromHome(b, k, c)) /\ ~(FromHome(b, k, c) < FromHome(a, k, c))
  BY <1>1, <1>3, NoneFarther
<1>5. /\ FromHome(a, k, c) \in Buckets(c) /\ FromHome(b, k, c) \in Buckets(c)
      /\ Place(k, FromHome(a, k, c), c) = a /\ Place(k, FromHome(b, k, c), c) = b
  BY <1>2, PlaceIs
<1>6. FromHome(a, k, c) \in Int /\ FromHome(b, k, c) \in Int
  BY <1>5 DEF Buckets
<1>7. FromHome(a, k, c) = FromHome(b, k, c)
  BY <1>4, <1>6
<1> QED BY <1>1, <1>5, <1>7

\* Two structs of a size with the same entries, and an empty bucket each,
\* have the same buckets.
LEMMA SameEntriesAreSame ==
  ASSUME NEW c \in Nat, c # 0, NEW t, NEW u, TwoStructs(t, u, c)
  PROVE  t = u
<1>1. TwoStructs(u, t, c)
  BY DEF TwoStructs
<1>2. \A a \in Buckets(c) : t[a] # Unfilled => u[a] = t[a]
  BY SameBucket
<1>3. \A a \in Buckets(c) : u[a] # Unfilled => t[a] = u[a]
  BY <1>1, SameBucket
<1>4. \A a \in Buckets(c) : t[a] = u[a]
  BY <1>2, <1>3
<1> QED BY <1>4 DEF TwoStructs, IsStruct

-----------------------------------------------------------------------------
LEMMA GetFinds ==
  ASSUME NEW c \in Nat, c # 0, NEW t, IsStruct(t, c), RunsAreSorted(t, c), NEW k \in StructKeys
  PROVE  /\ \A b \in Buckets(c) : t[b][1] = k => StructGet(t, k) = t[b][2]
         /\ NotIn(k, t, c) => StructGet(t, k) = Nil
<1> DEFINE D == Distances(t, k)
           m == CHOOSE d \in D : \A e \in D : d <= e
<1>1. Size(t) = c
  <2>1. DOMAIN t = 0 .. c - 1 /\ 0 \in Int /\ c - 1 \in Int
    BY DEF IsStruct, Buckets
  <2>2. Cardinality(0 .. c - 1) = c
    BY <2>1, FS_Interval
  <2> QED BY <2>1, <2>2 DEF Size
<1>2. D = {d \in Buckets(c) : t[Place(k, d, c)][1] \in {Nil, k}}
  BY <1>1 DEF Distances, Buckets
<1>3. StructGet(t, k) = IF D = {} THEN Nil ELSE t[Place(k, m, c)][2]
  BY <1>1 DEF StructGet
<1> HIDE DEF D
<1>4. D # {} => m \in D /\ \A e \in D : m <= e
  <2>1. D \in SUBSET Nat
    BY <1>2 DEF Buckets
  <2>2. D # {} => \E d \in D : \A e \in D : d <= e
    BY <2>1, LeastExists
  <2> QED BY <2>2
<1> HIDE DEF m
<1>5. ASSUME NEW b \in Buckets(c), t[b][1] = k PROVE StructGet(t, k) = t[b][2]
  <2> DEFINE d == FromHome(b, k, c)
  <2>1. d \in Buckets(c) /\ Place(k, d, c) = b
    BY PlaceIs
  <2>2. t[b] # Unfilled
    BY <1>5, EntryIs, BucketIs
  <2>3. d \in D
    BY <1>2, <1>5, <2>1
  <2>4. m \in D /\ m <= d /\ m \in Buckets(c)
    BY <1>2, <1>4, <2>3
  <2>5. ~(m < d)
    <3>1. SUFFICES ASSUME m < d PROVE FALSE
      OBVIOUS
    <3>2. m \in 0 .. d - 1
      <4> HIDE DEF d
      <4> QED BY <2>1, <2>4, <3>1 DEF Buckets
    <3>3. Ahead(t, c, k, m)
      BY <1>5, <2>2, <3>2 DEF RunsAreSorted, AllAhead
    <3>4. Place(k, m, c) \in Buckets(c) /\ FromHome(Place(k, m, c), k, c) = m
      BY <2>4, PlaceIs
    <3>5. t[Place(k, m, c)][1] = k
      <4>1. t[Place(k, m, c)][1] # Nil
        BY <3>3, <3>4, BucketIs DEF Ahead
      <4> QED BY <1>2, <2>4, <4>1
    <3>6. Before(k, m, k, m) /\ m \in Int
      BY <2>4, <3>3, <3>4, <3>5 DEF Ahead, Buckets
    <3> QED BY <3>6, BeforeIsOrder
  <2>6. m = d
    <3> HIDE DEF d
    <3> QED BY <2>1, <2>4, <2>5 DEF Buckets
  <2> QED BY <1>3, <2>1, <2>3, <2>6
<1>6. ASSUME NotIn(k, t, c) PROVE StructGet(t, k) = Nil
  <2>1. CASE D = {}
    BY <1>3, <2>1
  <2>2. CASE D # {}
    <3>1. m \in Buckets(c) /\ t[Place(k, m, c)][1] \in {Nil, k}
      BY <1>2, <1>4, <2>2
    <3>2. Place(k, m, c) \in Buckets(c)
      BY <3>1, PlaceIs
    <3>3. t[Place(k, m, c)][1] = Nil
      BY <1>6, <3>1, <3>2 DEF NotIn
    <3>4. t[Place(k, m, c)] = Unfilled
      BY <3>2, <3>3, BucketIs
    <3> QED BY <1>3, <2>2, <3>4 DEF Unfilled
  <2> QED BY <2>1, <2>2
<1> QED BY <1>5, <1>6

\* The entries of the map that was put.
ToHave == {<<k, contents[k]>> : k \in Given}

Announcing == IF done THEN made ELSE length
StructInv ==
  /\ length \in 0 .. MaxLength /\ given \in 0 .. length /\ made \in 0 .. given /\ done \in BOOLEAN
  /\ contents \in [StructKeys -> StructValues \cup {Nil}]
  /\ IsMade([st |-> st, made |-> made], StructCap(2 * Announcing)) /\ EntriesOf(st, StructCap(2 * Announcing)) = ToHave

\* A struct of n entries has more buckets than that.
LEMMA Capacity ==
  ASSUME NEW n \in 0 .. MaxLength
  PROVE  n \in Nat /\ StructCap(2 * n) \in Nat /\ StructCap(2 * n) > n /\ StructCap(2 * n) # 0
<1>1. n \in Nat /\ 2 * n < 2 ^ 30
  <2> DEFINE big == 2 ^ 30
  <2>1. MaxLength \in Nat /\ 2 * MaxLength < big /\ big \in Int
    OBVIOUS
  <2> HIDE DEF big
  <2>2. n \in Nat /\ 2 * n < big
    BY <2>1
  <2> QED BY <2>2 DEF big
<1>2. StructCap(2 * n) \in Nat /\ StructCap(2 * n) > n
  BY <1>1, StructCapIs
<1> QED BY <1>1, <1>2

LEMMA InitStructInv == InitStruct => StructInv
<1> SUFFICES ASSUME InitStruct PROVE StructInv
  OBVIOUS
<1>1. length \in 0 .. MaxLength /\ st = NewStruct(length) /\ given = 0 /\ made = 0 /\ done = FALSE
  BY DEF InitStruct
<1>2. length \in Nat /\ StructCap(2 * length) \in Nat
  BY <1>1, Capacity
<1>3. contents = [k \in StructKeys |-> Nil]
  BY DEF InitStruct
<1>4. ToHave = {}
  BY <1>3 DEF ToHave, Given
<1>5. given \in 0 .. length /\ made \in 0 .. given
  BY <1>1, <1>2
<1>6. Announcing = length
  BY <1>1 DEF Announcing
<1>7. /\ IsMade([st |-> st, made |-> made], StructCap(2 * length))
      /\ EntriesOf(st, StructCap(2 * length)) = ToHave
  BY <1>1, <1>2, <1>4, NewIsEmpty DEF NewIs
<1> QED BY <1>1, <1>3, <1>5, <1>6, <1>7 DEF StructInv

LEMMA ToHaveIs ==
  ASSUME contents \in [StructKeys -> StructValues \cup {Nil}]
  PROVE  /\ \A e : e \in ToHave <=> \E k \in StructKeys : contents[k] # Nil /\ e = <<k, contents[k]>>
         /\ ToHave \subseteq Entry
         /\ \A k \in StructKeys : (\E o \in ToHave : o[1] = k) <=> contents[k] # Nil
<1>1. \A e : e \in ToHave <=> \E k \in StructKeys : contents[k] # Nil /\ e = <<k, contents[k]>>
  BY DEF ToHave, Given
<1>2. \A k \in StructKeys : contents[k] # Nil => contents[k] \in StructValues
  OBVIOUS
<1>3. ToHave \subseteq Entry
  BY <1>1, <1>2 DEF Entry
<1>4. ASSUME NEW k \in StructKeys PROVE (\E o \in ToHave : o[1] = k) <=> contents[k] # Nil
  <2>1. ASSUME NEW o \in ToHave, o[1] = k PROVE contents[k] # Nil
    <3>1. PICK l \in StructKeys : contents[l] # Nil /\ o = <<l, contents[l]>>
      BY <1>1
    <3>2. l = k
      BY <2>1, <3>1
    <3> QED BY <3>1, <3>2
  <2>2. ASSUME contents[k] # Nil PROVE \E o \in ToHave : o[1] = k
    <3>1. <<k, contents[k]>> \in ToHave
      BY <1>1, <2>2
    <3>2. <<k, contents[k]>>[1] = k
      OBVIOUS
    <3> QED BY <3>1, <3>2
  <2> QED BY <2>1, <2>2
<1> QED BY <1>1, <1>3, <1>4

LEMMA StructPutKeeps ==
  ASSUME StructInv, NEW k \in StructKeys, NEW v \in StructValues \cup {Nil}, NEW replace \in BOOLEAN,
         StructPut(k, v, replace)
  PROVE  StructInv'
<1> DEFINE s == [st |-> st, made |-> made]
           c == StructCap(2 * length)
           r == PutExt(s, length, <<k, v>>, replace)
<1>1. /\ ~done /\ given < length /\ st' = r.st /\ made' = r.made /\ given' = given + 1
      /\ length' = length /\ done' = done
  BY DEF StructPut
<1>2. contents' = IF v = Nil \/ (~replace /\ contents[k] # Nil) THEN contents ELSE [contents EXCEPT ![k] = v]
  BY DEF StructPut
<1>3. /\ length \in 0 .. MaxLength /\ given \in 0 .. length /\ made \in 0 .. given
      /\ contents \in [StructKeys -> StructValues \cup {Nil}] /\ done \in BOOLEAN
  BY DEF StructInv
<1>4. IsMade(s, c) /\ EntriesOf(st, c) = ToHave
  BY <1>1 DEF StructInv, Announcing
<1>5. length \in Nat /\ c \in Nat /\ length < c /\ c # 0
  BY <1>3, Capacity
<1>6. Announcing' = length /\ StructCap(2 * Announcing)' = c
  BY <1>1 DEF Announcing
<1>7. contents' \in [StructKeys -> StructValues \cup {Nil}]
  BY <1>2, <1>3
<1>8. given' \in 0 .. length /\ made # length /\ made <= length
  BY <1>1, <1>3, <1>5
<1>9. /\ IsMade(r, c) /\ r.made \in {made, made + 1} /\ EntriesOf(r.st, c) = ToHave'
  <2>1. CASE v = Nil
    <3>1. r = s
      BY <2>1 DEF PutExt
    <3>2. contents' = contents
      BY <1>2, <2>1
    <3>3. ToHave' = ToHave
      BY <3>2 DEF ToHave, Given
    <3> HIDE DEF c
    <3> QED BY <1>4, <3>1, <3>3
  <2>2. CASE v # Nil
    <3> DEFINE kv == <<k, v>>
    <3>1. kv \in Entry /\ kv[1] = k /\ v \in StructValues
      BY <2>2 DEF Entry
    <3> HIDE DEF kv, c, r
    <3>2. s.made = made /\ s.st = st
      OBVIOUS
    <3> HIDE DEF s
    <3>3. /\ IsMade(r, c) /\ r.made \in {made, made + 1}
          /\ NowHas(EntriesOf(r.st, c), ToHave, kv, replace)
      BY <1>4, <1>5, <1>8, <3>1, <3>2, PutExtPuts DEF r, kv
    <3>4. EntriesOf(r.st, c) = ToHave'
      <4> DEFINE E == EntriesOf(r.st, c)
      <4>1. NowHas(E, ToHave, kv, replace)
        BY <3>3
      <4> HIDE DEF E
      <4>2. \A e : e \in ToHave <=> \E l \in StructKeys : contents[l] # Nil /\ e = <<l, contents[l]>>
        BY <1>3, ToHaveIs
      <4>3. \A e : e \in ToHave' <=> \E l \in StructKeys : contents'[l] # Nil /\ e = <<l, contents'[l]>>
        BY DEF ToHave, Given
      <4>4. (\E o \in ToHave : o[1] = k) <=> contents[k] # Nil
        BY <1>3, ToHaveIs
      <4>5. CASE contents[k] # Nil /\ ~replace
        <5>1. E = ToHave
          BY <3>1, <4>1, <4>4, <4>5 DEF NowHas
        <5>2. contents' = contents
          BY <1>2, <4>5
        <5>3. ToHave' = ToHave
          BY <5>2 DEF ToHave, Given
        <5> QED BY <5>1, <5>3 DEF E
      <4>6. CASE contents[k] = Nil \/ replace
        <5>1. contents' = [contents EXCEPT ![k] = v]
          BY <1>2, <2>2, <4>6
        <5>2. contents'[k] = v /\ \A l \in StructKeys : l # k => contents'[l] = contents[l]
          BY <1>3, <5>1
        <5>3. ToHave' = {o \in ToHave : o[1] # k} \cup {kv}
          <6> HIDE DEF ToHave
          <6>1. \A e : e \in {o \in ToHave : o[1] # k} <=> \E l \in StructKeys \ {k} : contents[l] # Nil /\ e = <<l, contents[l]>>
            BY <4>2
          <6>2. \A e : e \in ToHave' <=> \/ e = <<k, v>>
                                         \/ \E l \in StructKeys \ {k} : contents[l] # Nil /\ e = <<l, contents[l]>>
            BY <2>2, <4>3, <5>2
          <6> QED BY <6>1, <6>2 DEF kv
        <5>4. E = {o \in ToHave : o[1] # k} \cup {kv}
          <6>1. CASE contents[k] # Nil
            BY <3>1, <4>1, <4>4, <4>6, <6>1 DEF NowHas
          <6>2. CASE contents[k] = Nil
            <7>1. \A o \in ToHave : o[1] # k
              BY <4>4, <6>2
            <7>2. E = ToHave \cup {kv}
              BY <3>1, <4>1, <7>1 DEF NowHas
            <7> QED BY <7>1, <7>2
          <6> QED BY <6>1, <6>2
        <5> QED BY <5>3, <5>4 DEF E
      <4> QED BY <4>5, <4>6
    <3> QED BY <3>3, <3>4
  <2> QED BY <2>1, <2>2
<1>10. made' \in 0 .. given'
  BY <1>1, <1>3, <1>9
<1>11. r = [st |-> st', made |-> made']
  BY <1>1, <1>9 DEF IsMade
<1> HIDE DEF c, r
<1>12. IsMade([st |-> st', made |-> made'], c) /\ EntriesOf(st', c) = ToHave'
  BY <1>1, <1>9, <1>11
<1>13. done' \in BOOLEAN /\ length' \in 0 .. MaxLength /\ given' \in 0 .. length'
  BY <1>1, <1>3, <1>8
<1> QED BY <1>6, <1>7, <1>10, <1>12, <1>13 DEF StructInv

LEMMA StructEndKeeps ==
  ASSUME StructInv, StructEnd
  PROVE  StructInv'
<1> DEFINE c == StructCap(2 * length)
           e == StructCap(2 * made)
           kvs == [i \in 1 .. c |-> st[i - 1]]
<1>1. /\ ~done /\ done' = TRUE /\ st' = Finished(st, length, made)
      /\ length' = length /\ given' = given /\ made' = made /\ contents' = contents
  BY DEF StructEnd
<1>2. /\ length \in 0 .. MaxLength /\ given \in 0 .. length /\ made \in 0 .. given
      /\ contents \in [StructKeys -> StructValues \cup {Nil}]
      /\ IsMade([st |-> st, made |-> made], c) /\ EntriesOf(st, c) = ToHave
  BY <1>1 DEF StructInv, Announcing
<1>3. IsStruct(st, c) /\ RunsAreSorted(st, c) /\ made = Cardinality(EntriesOf(st, c))
  BY <1>2 DEF IsMade
<1>4. made \in 0 .. MaxLength
  BY <1>2
<1>5. c \in Nat /\ c # 0 /\ e \in Nat /\ made \in Nat /\ made < e /\ e # 0
  BY <1>2, <1>4, Capacity
<1>6. StructCap(2 * Announcing)' = e /\ ToHave' = ToHave
  BY <1>1 DEF Announcing, ToHave, Given
<1>7. IsStruct(st', e) /\ RunsAreSorted(st', e) /\ EntriesOf(st', e) = ToHave
  <2>1. CASE made = length
    BY <1>1, <1>2, <1>3, <2>1 DEF Finished
  <2>2. CASE made # length
    <3>1. Size(st) = c
      <4>1. DOMAIN st = 0 .. c - 1 /\ 0 \in Int /\ c - 1 \in Int
        BY <1>3, <1>5 DEF IsStruct, Buckets
      <4>2. Cardinality(0 .. c - 1) = c
        <5> HIDE DEF c
        <5> QED BY <1>5, <4>1, FS_Interval
      <4> QED BY <4>1, <4>2 DEF Size
    <3>2. st' = Filled(made, kvs, c)
      BY <1>1, <2>2, <3>1 DEF Finished
    <3> DEFINE G == EntriesOf(st, c)
    <3>3. Announced(made, e, G)
      <4>1. IsFiniteSet(G) /\ G \subseteq Entry /\ OneForEach(G)
        <5> HIDE DEF c
        <5> QED BY <1>3, <1>5, EntriesFinite, EntriesAreMap
      <4> QED BY <1>3, <1>5, <4>1 DEF Announced
    <3>4. kvs \in [1 .. c -> G \cup {Unfilled}]
      <4>1. \A b \in Buckets(c) : st[b] \in G \cup {Unfilled}
        BY DEF EntriesOf
      <4>2. \A i \in 1 .. c : i - 1 \in Buckets(c)
        <5> HIDE DEF c
        <5> QED BY <1>5 DEF Buckets
      <4> HIDE DEF c, G
      <4> QED BY <4>1, <4>2
    <3>5. {kvs[i] : i \in 1 .. c} \ {Unfilled} = G
      <4>1. \A b \in Buckets(c) : b + 1 \in 1 .. c /\ (b + 1) - 1 = b
        <5> HIDE DEF c
        <5> QED BY <1>5 DEF Buckets
      <4>2. \A i \in 1 .. c : i - 1 \in Buckets(c)
        <5> HIDE DEF c
        <5> QED BY <1>5 DEF Buckets
      <4>3. \A b \in Buckets(c) : kvs[b + 1] = st[b]
        BY <4>1
      <4>4. \A i \in 1 .. c : kvs[i] = st[i - 1]
        OBVIOUS
      <4> HIDE DEF kvs, c
      <4> QED BY <4>1, <4>2, <4>3, <4>4 DEF EntriesOf
    <3> HIDE DEF kvs, c, e, G
    <3>6. IsStruct(st', e) /\ RunsAreSorted(st', e) /\ EntriesOf(st', e) = G
      <4>1. MayFill(made, e, G, c, kvs)
        BY <1>5, <3>3, <3>4 DEF MayFill
      <4> QED BY <3>2, <3>5, <4>1, FilledHas
    <3> QED BY <1>2, <3>6 DEF G
  <2> QED BY <2>1, <2>2
<1> HIDE DEF c, e
<1>8. IsMade([st |-> st', made |-> made'], e)
  BY <1>1, <1>2, <1>3, <1>7 DEF IsMade
<1> QED BY <1>1, <1>2, <1>6, <1>7, <1>8 DEF StructInv

LEMMA CountGiven ==
  ASSUME contents \in [StructKeys -> StructValues \cup {Nil}], IsFiniteSet(ToHave)
  PROVE  IsFiniteSet(Given) /\ Cardinality(Given) = Cardinality(ToHave)
<1> DEFINE f == [x \in ToHave |-> x[1]]
<1>1. f \in [ToHave -> Given] /\ \A x \in ToHave : f[x] = x[1]
  BY DEF ToHave
<1>2. \A x, y \in ToHave : f[x] = f[y] => x = y
  BY DEF ToHave
<1>3. \A k \in Given : \E x \in ToHave : f[x] = k
  <2> TAKE k \in Given
  <2>1. <<k, contents[k]>> \in ToHave
    BY DEF ToHave
  <2>2. f[<<k, contents[k]>>] = k
    BY <2>1
  <2> QED BY <2>1, <2>2
<1> HIDE DEF f
<1>4. f \in Bijection(ToHave, Given)
  BY <1>1, <1>2, <1>3 DEF Bijection, Injection, IsInjective, Surjection
<1>5. ExistsBijection(ToHave, Given)
  BY <1>4 DEF ExistsBijection
<1> QED BY <1>5, FS_Bijection

LEMMA ListedIs ==
  ASSUME IsFiniteSet(Given)
  PROVE  /\ Cardinality(Given) \in Nat /\ Listed \in [1 .. Cardinality(Given) -> ToHave]
         /\ {Listed[i] : i \in 1 .. Cardinality(Given)} = ToHave
<1> DEFINE n == Cardinality(Given)
           keys == CHOOSE f \in [1 .. n -> Given] : \A k \in Given : \E i \in 1 .. n : f[i] = k
<1>1. n \in Nat
  BY FS_CardinalityType
<1>2. ExistsBijection(1 .. n, Given)
  BY FS_CardinalityType
<1> HIDE DEF n
<1>3. \E f \in [1 .. n -> Given] : \A k \in Given : \E i \in 1 .. n : f[i] = k
  BY <1>2 DEF ExistsBijection, Bijection, Surjection
<1>4. keys \in [1 .. n -> Given] /\ \A k \in Given : \E i \in 1 .. n : keys[i] = k
  BY <1>3
<1>5. Listed = [i \in 1 .. n |-> <<keys[i], contents[keys[i]]>>]
  BY DEF Listed, n
<1> HIDE DEF keys
<1>6. Listed \in [1 .. n -> ToHave] /\ {Listed[i] : i \in 1 .. n} = ToHave
  BY <1>4, <1>5 DEF ToHave
<1> QED BY <1>1, <1>6 DEF n

LEMMA StructsHold == StructInv => StructsCompare
<1> SUFFICES ASSUME StructInv PROVE StructsCompare
  OBVIOUS
<1> DEFINE c == StructCap(2 * Announcing)
<1>1. /\ contents \in [StructKeys -> StructValues \cup {Nil}] /\ Announcing \in 0 .. MaxLength /\ made <= Announcing
      /\ IsMade([st |-> st, made |-> made], c) /\ EntriesOf(st, c) = ToHave
  <2>1. length \in 0 .. MaxLength /\ given \in 0 .. length /\ made \in 0 .. given /\ MaxLength \in Nat
    BY DEF StructInv
  <2>2. made \in 0 .. MaxLength /\ made <= length
    BY <2>1
  <2>3. made <= made
    BY <2>1
  <2> QED BY <2>1, <2>2, <2>3 DEF StructInv, Announcing
<1>2. IsStruct(st, c) /\ RunsAreSorted(st, c) /\ made = Cardinality(ToHave)
  BY <1>1 DEF IsMade
<1>3. Announcing \in Nat /\ c \in Nat /\ Announcing < c /\ c # 0
  BY <1>1, Capacity
<1> HIDE DEF c
<1>4. FindsWhatWasPut
  <2> SUFFICES ASSUME NEW k \in StructKeys PROVE StructGet(st, k) = contents[k]
    BY DEF FindsWhatWasPut
  <2>1. CASE contents[k] # Nil
    <3>1. <<k, contents[k]>> \in EntriesOf(st, c)
      BY <1>1, <2>1 DEF ToHave, Given
    <3>2. PICK b \in Buckets(c) : st[b] = <<k, contents[k]>>
      BY <3>1 DEF EntriesOf
    <3> QED BY <1>2, <1>3, <3>2, GetFinds
  <2>2. CASE contents[k] = Nil
    <3>1. NotIn(k, st, c)
      <4> SUFFICES ASSUME NEW b \in Buckets(c), st[b][1] = k PROVE FALSE
        BY DEF NotIn
      <4>1. st[b] # Unfilled
        BY <1>2, BucketIs
      <4>2. st[b] \in ToHave
        BY <1>1, <4>1 DEF EntriesOf
      <4> QED BY <1>1, <2>2, <4>2, ToHaveIs
    <3> QED BY <1>2, <1>3, <2>2, <3>1, GetFinds
  <2> QED BY <2>1, <2>2
<1>5. SameEntriesSameBuckets
  <2> SUFFICES ASSUME done PROVE st = Canonical
    BY DEF SameEntriesSameBuckets
  <2>1. IsFiniteSet(ToHave)
    BY <1>1, <1>2, <1>3, EntriesFinite
  <2>2. IsFiniteSet(Given) /\ Cardinality(Given) = made
    BY <1>1, <1>2, <2>1, CountGiven
  <2>3. Announcing = made
    BY DEF Announcing
  <2>4. Announced(made, c, ToHave)
    <3>1. ToHave \subseteq Entry /\ OneForEach(ToHave)
      BY <1>1, <1>2, <1>3, EntriesAreMap
    <3>2. c = StructCap(2 * made)
      BY <2>3 DEF c
    <3> QED BY <1>2, <1>3, <2>1, <2>3, <3>1, <3>2 DEF Announced
  <2>5. made \in Nat /\ Listed \in [1 .. made -> ToHave \cup {Unfilled}] /\ {Listed[i] : i \in 1 .. made} = ToHave
    BY <2>2, ListedIs
  <2>6. Canonical = Filled(made, Listed, made)
    BY <2>2 DEF Canonical
  <2>7. IsStruct(Canonical, c) /\ RunsAreSorted(Canonical, c) /\ EntriesOf(Canonical, c) = ToHave \ {Unfilled}
    <3>1. MayFill(made, c, ToHave, made, Listed)
      BY <2>4, <2>5 DEF MayFill
    <3> QED BY <2>5, <2>6, <3>1, FilledHas
  <2>8. ToHave \ {Unfilled} = ToHave
    BY <1>1 DEF EntriesOf
  <2>9. Cardinality(ToHave) < c
    BY <1>2, <1>3, <2>3
  <2>10. HasEmpty(st, c) /\ HasEmpty(Canonical, c)
    BY <1>1, <1>2, <1>3, <2>7, <2>8, <2>9, FewLeaveRoom
  <2>11. TwoStructs(st, Canonical, c)
    BY <1>1, <1>2, <2>7, <2>8, <2>10 DEF TwoStructs
  <2> QED BY <1>3, <2>11, SameEntriesAreSame
<1> QED BY <1>4, <1>5 DEF StructsCompare

(* Structs of any keys, hashes and values, put in any order, with or without *)
(* replacing, twice or with nil: what was put is found, while the struct is  *)
(* made and after, and those with the same entries have the same buckets.    *)
THEOREM StructsAreEqual == StructSpec => []StructsCompare
<1>1. InitStruct => StructInv
  BY InitStructInv
<1>2. StructInv /\ [NextStruct]_structvars => StructInv'
  <2> SUFFICES ASSUME StructInv, [NextStruct]_structvars PROVE StructInv'
    OBVIOUS
  <2>1. CASE UNCHANGED structvars
    BY <2>1 DEF structvars, StructInv, Announcing, ToHave, Given
  <2>2. CASE StructEnd
    BY <2>2, StructEndKeeps
  <2>3. CASE \E k \in StructKeys, v \in StructValues \cup {Nil}, replace \in BOOLEAN : StructPut(k, v, replace)
    BY <2>3, StructPutKeeps
  <2> QED BY <2>1, <2>2, <2>3 DEF NextStruct
<1>3. StructInv => StructsCompare
  BY StructsHold
<1> QED BY <1>1, <1>2, <1>3, PTL DEF StructSpec

HIDE StructAssumption

-----------------------------------------------------------------------------
(* The cache of symbols. *)

LEMMA CacheLenIs ==
  ASSUME NEW n \in Nat, n < 2 ^ 30
  PROVE  CacheLen(n) \in Nat /\ CacheLen(n) > n
<1> DEFINE Powers == {2 ^ e : e \in 0 .. 30}
<1>1. \E p \in Powers : p > n /\ p \div 2 <= n
  BY PowerAbove
<1>2. \A p \in Powers : p \in Nat
  BY PowersAreNat
<1> HIDE DEF Powers
<1>3. CacheLen(n) \in Powers /\ CacheLen(n) > n
  <2>1. CacheLen(n) = CHOOSE p \in Powers : p > n /\ p \div 2 <= n
    BY DEF CacheLen, Powers
  <2> QED BY <1>1, <2>1
<1> QED BY <1>2, <1>3

USE SymbolAssumption

\* A search for n would come to bucket b.
Placed(c, cap, n, b) ==
  \E d \in Buckets(cap) : BucketAt(c, n, d) = b /\ \A e \in 0 .. d - 1 : c[BucketAt(c, n, e)] # Vacant

\* A cache with the symbols of L.
Holds(c, cap, L) ==
  /\ cap \in Nat /\ cap # 0 /\ c \in [Buckets(cap) -> {Vacant, Deleted} \cup L]
  /\ \A s \in L : \E b \in Buckets(cap) : c[b] = s /\ Placed(c, cap, s[1], b)
  /\ \A b, e \in Buckets(cap) : c[b] \in L /\ c[b] = c[e] => b = e

Unique(L) == L \subseteq Names \X Nat /\ \A s, t \in L : s[1] = t[1] => s = t

NotVacant(c, cap) == {b \in Buckets(cap) : c[b] # Vacant}
\* One more bucket in use.
Fills(u, c, cap, b) == NotVacant(u, cap) = NotVacant(c, cap) \cup {b}

NoGraves(c, cap) == \A b \in Buckets(cap) : c[b] # Deleted

LEMMA SymbolsDiffer ==
  /\ Vacant # Deleted
  /\ \A s \in Names \X Nat : s # Vacant /\ s # Deleted /\ IsSymbol(s) /\ s[1] \in Names
<1>1. \A s \in Names \X Nat : Len(s) = 2
  OBVIOUS
<1>2. Len(<<"vacant">>) = 1 /\ Len(<<"deleted">>) = 1
  OBVIOUS
<1>3. ASSUME NEW s \in Names \X Nat PROVE s # Vacant /\ s # Deleted
  <2>1. Len(s) = 2
    BY <1>1
  <2>2. s # <<"vacant">>
    <3>1. s = <<"vacant">> => Len(s) = Len(<<"vacant">>)
      OBVIOUS
    <3> QED BY <1>2, <2>1, <3>1
  <2>3. s # <<"deleted">>
    <3>1. s = <<"deleted">> => Len(s) = Len(<<"deleted">>)
      OBVIOUS
    <3> QED BY <1>2, <2>1, <3>1
  <2> QED BY <2>2, <2>3 DEF Vacant, Deleted
<1>4. Vacant # Deleted
  BY DEF Vacant, Deleted
<1> QED BY <1>3, <1>4 DEF IsSymbol

LEMMA CapIs ==
  ASSUME NEW cap \in Nat, NEW S, NEW c \in [Buckets(cap) -> S]
  PROVE  CacheCap(c) = cap
<1>1. Cardinality(0 .. cap - 1) = IF 0 > cap - 1 THEN 0 ELSE (cap - 1) - 0 + 1
  BY FS_Interval
<1>2. DOMAIN c = 0 .. cap - 1
  BY DEF Buckets
<1> QED BY <1>1, <1>2 DEF CacheCap

\* A search goes over all buckets once.
LEMMA BucketAtIs ==
  ASSUME NEW cap \in Nat, cap # 0, NEW c, CacheCap(c) = cap, NEW n \in Names
  PROVE  /\ \A d \in Buckets(cap) : BucketAt(c, n, d) \in Buckets(cap)
         /\ \A b \in Buckets(cap) : \E d \in Buckets(cap) : BucketAt(c, n, d) = b
         /\ \A d, e \in Buckets(cap) : BucketAt(c, n, d) = BucketAt(c, n, e) => d = e
<1> DEFINE i == StringHash[n] % cap
<1>1. i \in 0 .. cap - 1
  <2>1. StringHash[n] \in Nat
    OBVIOUS
  <2> QED BY <2>1
<1>2. \A d : BucketAt(c, n, d) = IF i + d < cap THEN i + d ELSE i + d - cap
  BY DEF BucketAt
<1> HIDE DEF i
<1>3. \A d \in Buckets(cap) : BucketAt(c, n, d) \in Buckets(cap)
  BY <1>1, <1>2 DEF Buckets
<1>4. ASSUME NEW b \in Buckets(cap) PROVE \E d \in Buckets(cap) : BucketAt(c, n, d) = b
  <2> DEFINE d == IF b >= i THEN b - i ELSE b - i + cap
  <2>1. d \in Buckets(cap)
    BY <1>1 DEF Buckets
  <2>2. IF i + d < cap THEN i + d = b ELSE i + d - cap = b
    BY <1>1 DEF Buckets
  <2> HIDE DEF d
  <2>3. BucketAt(c, n, d) = b
    BY <1>2, <2>2
  <2> QED BY <2>1, <2>3
<1>5. \A d, e \in Buckets(cap) : BucketAt(c, n, d) = BucketAt(c, n, e) => d = e
  BY <1>1, <1>2 DEF Buckets
<1> QED BY <1>3, <1>4, <1>5

LEMMA NearestIs ==
  ASSUME NEW S \in SUBSET Nat, S # {}
  PROVE  Nearest(S) \in S /\ \A e \in S : Nearest(S) <= e
<1>1. \E d \in S : \A e \in S : d <= e
  BY LeastExists
<1> QED BY <1>1 DEF Nearest

LEMMA StillPlaced ==
  ASSUME NEW cap \in Nat, NEW c, NEW u, CacheCap(c) = cap, CacheCap(u) = cap, cap # 0,
         NEW n \in Names, NEW b, Placed(c, cap, n, b),
         \A e \in Buckets(cap) : c[e] # Vacant => u[e] # Vacant
  PROVE  Placed(u, cap, n, b)
<1>1. PICK d \in Buckets(cap) : BucketAt(c, n, d) = b /\ \A e \in 0 .. d - 1 : c[BucketAt(c, n, e)] # Vacant
  BY DEF Placed
<1>2. \A e : BucketAt(u, n, e) = BucketAt(c, n, e)
  BY DEF BucketAt
<1>3. \A e \in 0 .. d - 1 : BucketAt(c, n, e) \in Buckets(cap)
  <2>1. \A e \in 0 .. d - 1 : e \in Buckets(cap)
    BY <1>1 DEF Buckets
  <2> QED BY <2>1, BucketAtIs
<1> QED BY <1>1, <1>2, <1>3 DEF Placed

LEMMA PutHolds ==
  ASSUME NEW cap, NEW c, NEW L, NEW s \in Names \X Nat, Holds(c, cap, L), Unique(L \cup {s}), s \notin L,
         NEW b \in Buckets(cap), c[b] \notin L, Placed(c, cap, s[1], b),
         NEW u, IsPut(u, c, b, s)
  PROVE  /\ Holds(u, cap, L \cup {s})
         /\ Fills(u, c, cap, b)
         /\ NoGraves(c, cap) => NoGraves(u, cap)
<1>1. /\ cap \in Nat /\ cap # 0 /\ c \in [Buckets(cap) -> {Vacant, Deleted} \cup L]
      /\ \A t \in L : \E e \in Buckets(cap) : c[e] = t /\ Placed(c, cap, t[1], e)
      /\ \A d, e \in Buckets(cap) : c[d] \in L /\ c[d] = c[e] => d = e
  BY DEF Holds
<1>2. u \in [Buckets(cap) -> {Vacant, Deleted} \cup (L \cup {s})] /\ u[b] = s /\ \A e \in Buckets(cap) : e # b => u[e] = c[e]
  BY <1>1 DEF IsPut
<1>3. CacheCap(c) = cap /\ CacheCap(u) = cap
  BY <1>1, <1>2, CapIs
<1>4. s # Vacant /\ s # Deleted /\ s[1] \in Names /\ \A t \in L : t[1] \in Names
  BY SymbolsDiffer DEF Unique
<1>5. \A e \in Buckets(cap) : c[e] # Vacant => u[e] # Vacant
  BY <1>2, <1>4
<1>6. ASSUME NEW t \in L \cup {s} PROVE \E e \in Buckets(cap) : u[e] = t /\ Placed(u, cap, t[1], e)
  <2>1. CASE t = s
    BY <1>1, <1>2, <1>3, <1>4, <1>5, <2>1, StillPlaced
  <2>2. CASE t \in L
    <3>1. PICK e \in Buckets(cap) : c[e] = t /\ Placed(c, cap, t[1], e)
      BY <1>1, <2>2
    <3>2. u[e] = t
      BY <1>2, <2>2, <3>1
    <3>3. Placed(u, cap, t[1], e)
      BY <1>1, <1>3, <1>4, <1>5, <2>2, <3>1, StillPlaced
    <3> QED BY <3>2, <3>3
  <2> QED BY <2>1, <2>2
<1>7. ASSUME NEW d \in Buckets(cap), NEW e \in Buckets(cap), u[d] \in L \cup {s}, u[d] = u[e] PROVE d = e
  <2>1. CASE d = b \/ e = b
    <3>1. \A k \in Buckets(cap) : k # b => u[k] # s
      <4> TAKE k \in Buckets(cap)
      <4>1. c[k] # s
        BY <1>1, <1>4
      <4> QED BY <1>2, <4>1
    <3> QED BY <1>2, <1>7, <2>1, <3>1
  <2>2. CASE d # b /\ e # b
    <3>1. u[d] = c[d] /\ u[e] = c[e] /\ c[d] # s
      BY <1>1, <1>2, <1>4, <2>2
    <3> QED BY <1>1, <1>7, <3>1
  <2> QED BY <2>1, <2>2
<1>8. Holds(u, cap, L \cup {s})
  BY <1>1, <1>2, <1>6, <1>7 DEF Holds
<1>9. Fills(u, c, cap, b)
  BY <1>2, <1>4 DEF Fills, NotVacant
<1>10. NoGraves(c, cap) => NoGraves(u, cap)
  BY <1>2, <1>4 DEF NoGraves
<1> QED BY <1>8, <1>9, <1>10

LEMMA BuryHolds ==
  ASSUME NEW cap, NEW c, NEW L, Holds(c, cap, L), Unique(L), NEW b \in Buckets(cap), c[b] \in L,
         NEW u, IsPut(u, c, b, Deleted)
  PROVE  /\ Holds(u, cap, L \ {c[b]})
         /\ NotVacant(u, cap) = NotVacant(c, cap)
<1> DEFINE s == c[b]
<1>1. /\ cap \in Nat /\ cap # 0 /\ c \in [Buckets(cap) -> {Vacant, Deleted} \cup L]
      /\ \A t \in L : \E e \in Buckets(cap) : c[e] = t /\ Placed(c, cap, t[1], e)
      /\ \A d, e \in Buckets(cap) : c[d] \in L /\ c[d] = c[e] => d = e
  BY DEF Holds
<1>2. u[b] = Deleted /\ \A e \in Buckets(cap) : e # b => u[e] = c[e]
  BY <1>1 DEF IsPut
<1>3. u \in [Buckets(cap) -> {Vacant, Deleted} \cup (L \ {s})]
  <2>1. \A e \in Buckets(cap) : e # b => c[e] # s
    BY <1>1
  <2>2. \A e \in Buckets(cap) : u[e] \in {Vacant, Deleted} \cup (L \ {s})
    BY <1>1, <1>2, <2>1
  <2>3. u = [e \in Buckets(cap) |-> u[e]]
    BY <1>1 DEF IsPut
  <2> HIDE DEF s
  <2> QED BY <2>2, <2>3
<1>4. \A t \in L : t # Vacant /\ t # Deleted /\ t[1] \in Names
  BY SymbolsDiffer DEF Unique
<1>5. CacheCap(c) = cap /\ CacheCap(u) = cap
  BY <1>1, <1>3, CapIs
<1>6. \A e \in Buckets(cap) : c[e] # Vacant => u[e] # Vacant
  BY <1>2, SymbolsDiffer
<1>7. ASSUME NEW t \in L \ {s} PROVE \E e \in Buckets(cap) : u[e] = t /\ Placed(u, cap, t[1], e)
  <2>1. PICK e \in Buckets(cap) : c[e] = t /\ Placed(c, cap, t[1], e)
    BY <1>1
  <2>2. u[e] = t
    BY <1>2, <2>1
  <2>3. Placed(u, cap, t[1], e)
    BY <1>1, <1>4, <1>5, <1>6, <2>1, StillPlaced
  <2> QED BY <2>2, <2>3
<1>8. \A d, e \in Buckets(cap) : u[d] \in L \ {s} /\ u[d] = u[e] => d = e
  <2> SUFFICES ASSUME NEW d \in Buckets(cap), NEW e \in Buckets(cap), u[d] \in L, u[d] = u[e] PROVE d = e
    OBVIOUS
  <2>1. d # b /\ e # b
    BY <1>2, <1>4
  <2> QED BY <1>1, <1>2, <2>1
<1>9. Holds(u, cap, L \ {s})
  BY <1>1, <1>3, <1>7, <1>8 DEF Holds
<1>10. NotVacant(u, cap) = NotVacant(c, cap)
  BY <1>2, <1>4, SymbolsDiffer DEF NotVacant
<1> QED BY <1>9, <1>10

LEMMA PutBack ==
  ASSUME NEW cap, NEW u, NEW L, NEW s \in L, Unique(L), Holds(u, cap, L \ {s}), NEW to \in Buckets(cap), u[to] = Deleted,
         Placed(u, cap, s[1], to), NEW w, IsPut(w, u, to, s)
  PROVE  Holds(w, cap, L) /\ NotVacant(w, cap) = NotVacant(u, cap)
<1>1. (L \ {s}) \cup {s} = L
  OBVIOUS
<1>2. s \in Names \X Nat /\ u[to] \notin L \ {s}
  BY SymbolsDiffer DEF Unique
<1>3. Holds(w, cap, (L \ {s}) \cup {s}) /\ Fills(w, u, cap, to)
  <2>1. ASSUME NEW M, Holds(u, cap, M), Unique(M \cup {s}), s \notin M, u[to] \notin M
        PROVE  Holds(w, cap, M \cup {s}) /\ Fills(w, u, cap, to)
    BY <1>2, <2>1, PutHolds
  <2>2. Unique((L \ {s}) \cup {s}) /\ s \notin L \ {s}
    BY <1>1
  <2> QED BY <1>2, <2>1, <2>2
<1>4. to \in NotVacant(u, cap)
  BY SymbolsDiffer DEF NotVacant
<1> QED BY <1>1, <1>3, <1>4 DEF Fills

LEMMA MovedHolds ==
  ASSUME NEW cap, NEW c, NEW L, Holds(c, cap, L), Unique(L), NEW b \in Buckets(cap), c[b] \in L,
         NEW to \in Buckets(cap), c[to] = Deleted, Placed(c, cap, c[b][1], to)
  PROVE  /\ Holds(Moved(c, b, to), cap, L) /\ NotVacant(Moved(c, b, to), cap) = NotVacant(c, cap)
         /\ Moved(c, b, to)[to] = c[b]
<1> DEFINE u == [c EXCEPT ![b] = Deleted]
           s == c[b]
           w == [u EXCEPT ![to] = s]
<1>1. Holds(u, cap, L \ {s}) /\ NotVacant(u, cap) = NotVacant(c, cap)
  <2>1. IsPut(u, c, b, Deleted)
    BY DEF IsPut
  <2> HIDE DEF u
  <2> QED BY <2>1, BuryHolds
<1>2. cap \in Nat /\ cap # 0 /\ c \in [Buckets(cap) -> {Vacant, Deleted} \cup L]
  BY DEF Holds
<1>3. s \in Names \X Nat /\ s[1] \in Names /\ s # Vacant /\ s # Deleted
  BY SymbolsDiffer DEF Unique
<1>4. to # b
  BY <1>3
<1>5. Moved(c, b, to) = w
  BY <1>2, <1>4 DEF Moved
<1>6. u[to] = Deleted /\ u \in [Buckets(cap) -> {Vacant, Deleted} \cup L] /\ u[b] = Deleted /\ \A e \in Buckets(cap) : e # b => u[e] = c[e]
  BY <1>2, <1>4
<1>7. w[to] = s
  BY <1>2
<1> HIDE DEF u
<1>8. Placed(u, cap, s[1], to)
  <2>1. CacheCap(c) = cap /\ CacheCap(u) = cap
    BY <1>2, <1>6, CapIs
  <2>2. \A e \in Buckets(cap) : c[e] # Vacant => u[e] # Vacant
    BY <1>6, SymbolsDiffer
  <2> HIDE DEF s
  <2> QED BY <1>2, <1>3, <2>1, <2>2, StillPlaced DEF s
<1>9. IsPut(w, u, to, s) /\ s \in L
  BY DEF IsPut
<1> HIDE DEF w, s
<1>10. Holds(w, cap, L) /\ NotVacant(w, cap) = NotVacant(u, cap)
  BY <1>1, <1>6, <1>8, <1>9, PutBack
<1> QED BY <1>1, <1>5, <1>7, <1>10 DEF s

\* The result of a search: the symbol, in its bucket, or a bucket for it.
WasFound(r, c, cap, L, n) ==
  /\ Holds(r.cache, cap, L) /\ NotVacant(r.cache, cap) = NotVacant(c, cap)
  /\ r.bucket \in Buckets(cap) /\ r.cache[r.bucket] \in L /\ r.cache[r.bucket][1] = n

HasRoom(c, cap, L, n, b) ==
  b \in Buckets(cap) /\ c[b] \notin L /\ Placed(c, cap, n, b) /\ (NoGraves(c, cap) => c[b] = Vacant)

WasNotFound(r, c, cap, L, n) ==
  /\ r.cache = c /\ \A s \in L : s[1] # n
  /\ (\E b \in Buckets(cap) : c[b] = Vacant) => HasRoom(c, cap, L, n, r.bucket)

IsSearch(r, c, cap, L, n) ==
  /\ r.found \in BOOLEAN
  /\ r.found => WasFound(r, c, cap, L, n)
  /\ ~r.found => WasNotFound(r, c, cap, L, n)

LEMMA FindMemIs ==
  ASSUME NEW cap, NEW c, NEW L, Holds(c, cap, L), Unique(L), NEW n \in Names
  PROVE  IsSearch(FindMem(c, n), c, cap, L, n)
<1> DEFINE r == FindMem(c, n)
           at(d) == BucketAt(c, n, d)
           stops == StopsOf(c, n)
           end == EndOf(c, stops)
           graves == GravesOf(c, n, end)
           place == RoomOf(c, n, graves, end)
           g == Nearest(graves)
<1>1. /\ cap \in Nat /\ cap # 0 /\ c \in [Buckets(cap) -> {Vacant, Deleted} \cup L]
      /\ \A s \in L : \E b \in Buckets(cap) : c[b] = s /\ Placed(c, cap, s[1], b)
  BY DEF Holds
<1>2. CacheCap(c) = cap
  BY <1>1, CapIs
<1>3. /\ \A d \in Buckets(cap) : at(d) \in Buckets(cap)
      /\ \A b \in Buckets(cap) : \E d \in Buckets(cap) : at(d) = b
  BY <1>1, <1>2, BucketAtIs
<1>4. r = IF stops # {} /\ IsSymbol(c[at(end)])
          THEN [cache |-> IF graves = {} THEN c ELSE Moved(c, at(end), place), bucket |-> place, found |-> TRUE]
          ELSE [cache |-> c, bucket |-> place, found |-> FALSE]
  BY DEF FindMem
<1> HIDE DEF r, at, stops, end, graves, place, g
<1>5. stops = {d \in Buckets(cap) : Stops(c[at(d)], n)}
  BY <1>2 DEF Buckets, stops, StopsOf, at
<1>6. stops # {} => end \in stops /\ \A d \in stops : end <= d
  <2> HAVE stops # {}
  <2>1. stops \in SUBSET Nat
    BY <1>5 DEF Buckets
  <2>2. end = Nearest(stops)
    BY DEF end, EndOf
  <2> QED BY <2>1, <2>2, NearestIs
<1>7. stops = {} => end = cap
  BY <1>2 DEF end, EndOf
<1>8. \A d \in graves : d \in 0 .. end - 1 /\ c[at(d)] = Deleted
  BY DEF graves, GravesOf, at
<1>9. graves # {} => g \in graves
  <2> HAVE graves # {}
  <2>1. graves \in SUBSET Nat
    BY <1>8
  <2> QED BY <2>1, NearestIs DEF g
<1>10. place = IF graves # {} THEN at(g) ELSE IF end < cap THEN at(end) ELSE NoBucket
  BY <1>2 DEF place, RoomOf, g, at
<1>11. \A s \in L : s \in Names \X Nat /\ s # Vacant /\ s # Deleted /\ IsSymbol(s)
  BY SymbolsDiffer DEF Unique
<1>12. end \in Nat /\ end <= cap
  BY <1>1, <1>5, <1>6, <1>7 DEF Buckets
<1>13. \A d \in Buckets(cap) : d < end => c[at(d)] # Vacant
  <2> SUFFICES ASSUME NEW d \in Buckets(cap), d < end PROVE c[at(d)] # Vacant
    OBVIOUS
  <2>1. d \notin stops
    <3>1. d \in Nat /\ stops \in SUBSET Nat
      BY <1>5 DEF Buckets
    <3> QED BY <1>6, <1>12, <3>1
  <2> QED BY <1>5, <2>1 DEF Stops
<1>14. \A d \in Buckets(cap) : d <= end => Placed(c, cap, n, at(d))
  <2> SUFFICES ASSUME NEW d \in Buckets(cap), d <= end PROVE Placed(c, cap, n, at(d))
    OBVIOUS
  <2>1. \A e \in 0 .. d - 1 : e \in Buckets(cap) /\ e < end
    BY <1>1, <1>12 DEF Buckets
  <2>2. \A e \in 0 .. d - 1 : c[BucketAt(c, n, e)] # Vacant
    BY <1>13, <2>1 DEF at
  <2> QED BY <2>2 DEF Placed, at
<1>15. graves # {} => g \in Buckets(cap) /\ g < end /\ place = at(g) /\ c[place] = Deleted
  <2> HAVE graves # {}
  <2>1. g \in 0 .. end - 1 /\ c[at(g)] = Deleted
    BY <1>8, <1>9
  <2>2. place = at(g)
    BY <1>10
  <2> QED BY <1>1, <1>12, <2>1, <2>2 DEF Buckets
<1>16. graves # {} => place \in Buckets(cap) /\ Placed(c, cap, n, place)
  <2> HAVE graves # {}
  <2>1. g \in Buckets(cap) /\ g <= end /\ place = at(g)
    BY <1>12, <1>15 DEF Buckets
  <2> QED BY <2>1, <1>3, <1>14
<1>17. graves = {} /\ stops # {} => end \in Buckets(cap) /\ place = at(end)
  BY <1>1, <1>5, <1>6, <1>10 DEF Buckets
<1>18. ASSUME NEW s \in L, s[1] = n PROVE stops # {} /\ IsSymbol(c[at(end)])
  <2>1. PICK d \in Buckets(cap) : c[at(d)] = s /\ \A e \in 0 .. d - 1 : c[at(e)] # Vacant
    BY <1>1, <1>18 DEF Placed, at
  <2>2. Stops(c[at(d)], n)
    BY <1>11, <1>18, <2>1 DEF Stops
  <2>3. d \in stops
    BY <1>5, <2>1, <2>2
  <2>4. end \in Buckets(cap) /\ end <= d /\ Stops(c[at(end)], n)
    BY <1>5, <1>6, <2>3
  <2>5. c[at(end)] # Vacant
    BY <1>11, <2>1, <2>4 DEF Buckets
  <2> QED BY <2>3, <2>4, <2>5 DEF Stops, IsSymbol
<1>19. CASE stops # {} /\ IsSymbol(c[at(end)])
  <2>1. end \in Buckets(cap) /\ Stops(c[at(end)], n) /\ at(end) \in Buckets(cap)
    BY <1>3, <1>5, <1>6, <1>19
  <2>2. c[at(end)] \in L /\ c[at(end)][1] = n
    <3>1. c[at(end)] \in {Vacant, Deleted} \cup L
      BY <1>1, <2>1
    <3> QED BY <1>19, <2>1, <3>1 DEF IsSymbol, Stops
  <2>3. r.found = TRUE /\ r.bucket = place /\ r.cache = IF graves = {} THEN c ELSE Moved(c, at(end), place)
    BY <1>4, <1>19
  <2>4. CASE graves = {}
    <3>1. r.cache = c /\ r.bucket = at(end)
      BY <1>17, <1>19, <2>3, <2>4
    <3>2. WasFound(r, c, cap, L, n)
      BY <2>1, <2>2, <3>1 DEF WasFound
    <3> QED BY <2>3, <3>2 DEF IsSearch, r
  <2>5. CASE graves # {}
    <3>1. Placed(c, cap, c[at(end)][1], place) /\ place \in Buckets(cap) /\ c[place] = Deleted
      BY <1>15, <1>16, <2>2, <2>5
    <3>2. r.cache = Moved(c, at(end), place)
      BY <2>3, <2>5
    <3>3. /\ Holds(Moved(c, at(end), place), cap, L) /\ NotVacant(Moved(c, at(end), place), cap) = NotVacant(c, cap)
          /\ Moved(c, at(end), place)[place] = c[at(end)]
      BY <2>1, <2>2, <3>1, MovedHolds
    <3>4. WasFound(r, c, cap, L, n)
      BY <2>2, <2>3, <3>1, <3>2, <3>3 DEF WasFound
    <3> QED BY <2>3, <3>4 DEF IsSearch, r
  <2> QED BY <2>4, <2>5
<1>20. CASE ~(stops # {} /\ IsSymbol(c[at(end)]))
  <2>1. r.found = FALSE /\ r.bucket = place /\ r.cache = c
    BY <1>4, <1>20
  <2>2. \A s \in L : s[1] # n
    BY <1>18, <1>20
  <2>3. ASSUME NEW b \in Buckets(cap), c[b] = Vacant PROVE HasRoom(c, cap, L, n, place)
    <3>1. PICK d \in Buckets(cap) : at(d) = b
      BY <1>3
    <3>2. end \in Buckets(cap) /\ Stops(c[at(end)], n)
      <4>1. d \in stops
        BY <1>5, <2>3, <3>1 DEF Stops
      <4> QED BY <1>5, <1>6, <4>1
    <3>3. stops # {} /\ c[at(end)] = Vacant
      <4>1. stops # {}
        BY <1>5, <2>3, <3>1 DEF Stops
      <4> QED BY <1>20, <3>2, <4>1 DEF Stops, IsSymbol
    <3>4. CASE graves # {}
      <4>1. c[place] = Deleted /\ c[place] \notin L /\ ~NoGraves(c, cap)
        BY <1>11, <1>15, <1>16, <3>4 DEF NoGraves
      <4> QED BY <1>16, <3>4, <4>1 DEF HasRoom
    <3>5. CASE graves = {}
      <4>1. place = at(end) /\ place \in Buckets(cap)
        BY <1>3, <1>17, <3>2, <3>3, <3>5
      <4>2. Placed(c, cap, n, place)
        BY <1>12, <1>14, <3>2, <4>1
      <4>3. c[place] = Vacant /\ c[place] \notin L
        BY <1>11, <3>3, <4>1
      <4> QED BY <4>1, <4>2, <4>3 DEF HasRoom
    <3> QED BY <3>4, <3>5
  <2>4. WasNotFound(r, c, cap, L, n)
    BY <2>1, <2>2, <2>3 DEF WasNotFound
  <2> QED BY <2>1, <2>4 DEF IsSearch, r
<1> QED BY <1>19, <1>20

LEMMA VacantExists ==
  ASSUME NEW cap \in Nat, NEW c, NEW m \in Nat, m < cap, Cardinality(NotVacant(c, cap)) <= m
  PROVE  \E b \in Buckets(cap) : c[b] = Vacant
<1>1. Cardinality(0 .. cap - 1) = IF 0 > cap - 1 THEN 0 ELSE (cap - 1) - 0 + 1
  BY FS_Interval
<1>2. SUFFICES ASSUME ~\E b \in Buckets(cap) : c[b] = Vacant PROVE FALSE
  OBVIOUS
<1>3. NotVacant(c, cap) = 0 .. cap - 1
  BY <1>2 DEF NotVacant, Buckets
<1> QED BY <1>1, <1>3

LEMMA NotVacantIsFinite ==
  ASSUME NEW cap \in Nat, NEW c
  PROVE  IsFiniteSet(NotVacant(c, cap)) /\ Cardinality(NotVacant(c, cap)) \in Nat
<1>1. IsFiniteSet(0 .. cap - 1)
  BY FS_Interval
<1>2. NotVacant(c, cap) \subseteq 0 .. cap - 1
  BY DEF NotVacant, Buckets
<1>3. IsFiniteSet(NotVacant(c, cap))
  BY <1>1, <1>2, FS_Subset
<1> QED BY <1>3, FS_CardinalityType

\* Without tombstones the buckets in use are the symbols.
LEMMA NoMoreThanLive ==
  ASSUME NEW cap, NEW c, NEW L, Holds(c, cap, L), NoGraves(c, cap), IsFiniteSet(L)
  PROVE  Cardinality(NotVacant(c, cap)) <= Cardinality(L)
<1> DEFINE S == NotVacant(c, cap)
           f == [b \in S |-> c[b]]
<1>1. \A b \in S : b \in Buckets(cap) /\ c[b] \in L
  BY DEF NotVacant, NoGraves, Holds
<1>2. \A b, e \in S : c[b] = c[e] => b = e
  BY <1>1 DEF Holds
<1>3. f \in Injection(S, L)
  <2> HIDE DEF S
  <2> QED BY <1>1, <1>2, Fun_IsInj
<1> HIDE DEF S, f
<1>4. Cardinality(S) <= Cardinality(L)
  BY <1>3, FS_Injection
<1> QED BY <1>4 DEF S

LEMMA NewHolds ==
  ASSUME NEW cap \in Nat, cap # 0
  PROVE  Holds(NewCache(cap), cap, {}) /\ NoGraves(NewCache(cap), cap)
BY SymbolsDiffer DEF NewCache, Holds, NoGraves, Buckets

\* janet_cache_resize: the new cache has the same symbols, and no tombstones.
LEMMA ResizedHolds ==
  ASSUME NEW cap, NEW c, NEW L, Holds(c, cap, L), Unique(L), IsFiniteSet(L),
         NEW to \in Nat, Cardinality(L) < to
  PROVE  Holds(CacheResized(c, to), to, L) /\ NoGraves(CacheResized(c, to), to)
<1> DEFINE a == NewCache(to)
           S == [Buckets(to) -> {Vacant, Deleted} \cup L]
           F == [b \in 1 .. cap |-> [u \in S |-> Copied(u, c[b - 1])]]
           upTo[b \in 0 .. cap] == IF b = 0 THEN a ELSE Copied(upTo[b - 1], c[b - 1])
<1>1. /\ cap \in Nat /\ cap # 0 /\ c \in [Buckets(cap) -> {Vacant, Deleted} \cup L]
      /\ \A s \in L : \E b \in Buckets(cap) : c[b] = s
      /\ \A b, e \in Buckets(cap) : c[b] \in L /\ c[b] = c[e] => b = e
  BY DEF Holds
<1>2. CacheResized(c, to) = upTo[cap]
  <2>1. CacheCap(c) = cap
    BY <1>1, CapIs
  <2> QED BY <2>1 DEF CacheResized
<1>3. to # 0 /\ Cardinality(L) \in Nat
  BY FS_CardinalityType
<1>4. Holds(a, to, {}) /\ NoGraves(a, to)
  BY <1>3, NewHolds
<1>5. a \in S
  BY DEF NewCache, Buckets
<1>6. \A b \in 1 .. cap : b - 1 \in Buckets(cap) /\ c[b - 1] \in {Vacant, Deleted} \cup L
  <2> TAKE b \in 1 .. cap
  <2>1. b - 1 \in Buckets(cap)
    BY <1>1 DEF Buckets
  <2> QED BY <1>1, <2>1
<1> HIDE DEF a
<1>7. \A u \in S, b \in 1 .. cap : Copied(u, c[b - 1]) \in S
  <2> SUFFICES ASSUME NEW u \in S, NEW b \in 1 .. cap PROVE Copied(u, c[b - 1]) \in S
    OBVIOUS
  <2> QED BY <1>6 DEF Copied
<1>8. F \in [1 .. cap -> [S -> S]]
  <2> HIDE DEF S
  <2> QED BY <1>7
<1> HIDE DEF S
<1>9. PICK g : g \in [0 .. cap -> S] /\ g[0] = a /\ \A b \in 1 .. cap : g[b] = F[b][g[b - 1]]
  <2> HIDE DEF F, upTo
  <2>1. \E g : IsRun(g, S, cap, a, F)
    BY <1>1, <1>5, <1>8, RunExists
  <2> QED BY <2>1 DEF IsRun
<1>10. \A b \in 1 .. cap : g[b] = Copied(g[b - 1], c[b - 1])
  <2> TAKE b \in 1 .. cap
  <2>1. g[b - 1] \in S
    BY <1>1, <1>9
  <2> QED BY <1>9, <2>1
<1>11. g = [b \in 0 .. cap |-> IF b = 0 THEN a ELSE Copied(g[b - 1], c[b - 1])]
  <2> HIDE DEF F
  <2> QED BY <1>1, <1>9, <1>10
<1>12. upTo = [b \in 0 .. cap |-> IF b = 0 THEN a ELSE Copied(upTo[b - 1], c[b - 1])]
  <2> HIDE DEF F
  <2> QED BY <1>11
<1> HIDE DEF upTo, F
<1>13. upTo[0] = a /\ \A b \in 1 .. cap : upTo[b] = Copied(upTo[b - 1], c[b - 1])
  BY <1>1, <1>12
<1> DEFINE Seen(b) == {c[e] : e \in 0 .. b - 1} \cap L
           T == {b \in Nat : b <= cap => Holds(upTo[b], to, Seen(b)) /\ NoGraves(upTo[b], to)}
<1>14. 0 \in T
  <2>1. Seen(0) = {}
    OBVIOUS
  <2> HIDE DEF Seen
  <2> QED BY <1>4, <1>13, <2>1
<1>15. \A b \in Nat : b \in T => b + 1 \in T
  <2> SUFFICES ASSUME NEW b \in Nat, b \in T, b + 1 <= cap
               PROVE  Holds(upTo[b + 1], to, Seen(b + 1)) /\ NoGraves(upTo[b + 1], to)
    <3> HIDE DEF Seen
    <3> QED OBVIOUS
  <2>1. b + 1 \in 1 .. cap /\ (b + 1) - 1 = b /\ b \in Buckets(cap)
    BY <1>1 DEF Buckets
  <2> DEFINE u == upTo[b]
             x == c[b]
             M == Seen(b)
  <2>2. Holds(u, to, M) /\ NoGraves(u, to)
    BY <1>1
  <2>3. upTo[b + 1] = Copied(u, x)
    BY <1>13, <2>1
  <2>4. x \in {Vacant, Deleted} \cup L
    BY <1>1, <2>1
  <2>5. Seen(b + 1) = M \cup ({x} \cap L)
    <3>1. \A e : e \in 0 .. (b + 1) - 1 <=> e \in 0 .. b - 1 \/ e = b
      OBVIOUS
    <3> QED BY <3>1
  <2>6. M \subseteq L /\ (x \in L => x \notin M)
    <3>1. \A e \in 0 .. b - 1 : e \in Buckets(cap) /\ e # b
      BY <1>1, <2>1 DEF Buckets
    <3> QED BY <1>1, <2>1, <3>1
  <2> HIDE DEF M, u, x
  <2>7. \A s \in L : s \in Names \X Nat /\ IsSymbol(s) /\ s[1] \in Names
    BY SymbolsDiffer DEF Unique
  <2>8. CASE x \notin L
    <3>1. ~IsSymbol(x)
      BY <2>4, <2>8 DEF IsSymbol
    <3>2. upTo[b + 1] = u /\ Seen(b + 1) = M
      BY <2>3, <2>5, <2>8, <3>1 DEF Copied
    <3> QED BY <2>2, <3>2
  <2>9. CASE x \in L
    <3> DEFINE r == FindMem(u, x[1])
               w == [u EXCEPT ![r.bucket] = x]
    <3>1. upTo[b + 1] = w /\ Seen(b + 1) = M \cup {x}
      BY <2>3, <2>5, <2>7, <2>9 DEF Copied
    <3> HIDE DEF Seen
    <3>2. Unique(M) /\ Unique(M \cup {x})
      BY <2>6, <2>9 DEF Unique
    <3>3. IsSearch(r, u, to, M, x[1])
      BY <2>2, <2>7, <2>9, <3>2, FindMemIs
    <3>4. \E e \in Buckets(to) : u[e] = Vacant
      <4>1. IsFiniteSet(M) /\ Cardinality(M) <= Cardinality(L)
        BY <2>6, FS_Subset
      <4>2. Cardinality(NotVacant(u, to)) <= Cardinality(M)
        BY <2>2, <4>1, NoMoreThanLive
      <4>3. Cardinality(NotVacant(u, to)) \in Nat /\ Cardinality(M) \in Nat
        BY <4>1, NotVacantIsFinite, FS_CardinalityType
      <4>4. Cardinality(NotVacant(u, to)) <= Cardinality(L)
        BY <1>3, <4>1, <4>2, <4>3
      <4> QED BY <1>3, <4>4, VacantExists
    <3> HIDE DEF r
    <3>5. ~r.found
      <4>1. \A s \in M : s[1] # x[1]
        BY <2>6, <2>9 DEF Unique
      <4> QED BY <3>3, <4>1 DEF IsSearch, WasFound
    <3>6. HasRoom(u, to, M, x[1], r.bucket)
      BY <3>3, <3>4, <3>5 DEF IsSearch, WasNotFound
    <3>7. r.bucket \in Buckets(to) /\ u[r.bucket] \notin M /\ Placed(u, to, x[1], r.bucket)
      BY <3>6 DEF HasRoom
    <3>8. IsPut(w, u, r.bucket, x)
      BY DEF IsPut
    <3> HIDE DEF w
    <3>9. /\ Holds(w, to, M \cup {x})
          /\ NoGraves(u, to) => NoGraves(w, to)
      BY <2>2, <2>6, <2>7, <2>9, <3>2, <3>7, <3>8, PutHolds
    <3> QED BY <2>2, <3>1, <3>9
  <2> QED BY <2>8, <2>9
<1> HIDE DEF T
<1>16. cap \in T
  BY <1>1, <1>14, <1>15, SetInduction
<1>17. Seen(cap) = L
  <2>1. \A s \in L : \E e \in 0 .. cap - 1 : c[e] = s
    BY <1>1 DEF Buckets
  <2> QED BY <2>1
<1> HIDE DEF Seen
<1> QED BY <1>1, <1>2, <1>16, <1>17 DEF T

CacheInv(c, n, d, L) ==
  LET cap == CacheCap(c) IN
  /\ Holds(c, cap, L) /\ cap >= 4
  /\ Cardinality(NotVacant(c, cap)) <= n + d /\ 2 * (n + d) <= cap + 2

LiveInv(L, n, d, f) ==
  /\ Unique(L) /\ IsFiniteSet(L) /\ \E s \in L : s[1] = Core
  /\ n = Cardinality(L) /\ n # 0 /\ n <= f /\ d \in Nat /\ f \in Nat /\ f <= MaxSymbols + 1

SymbolInv ==
  /\ CacheInv(cache, cache_count, cache_deleted, live) /\ LiveInv(live, cache_count, cache_deleted, fresh)
  /\ gensym_counter \in Nat \ {0}

LEMMA HoldsCap ==
  ASSUME NEW cap, NEW c, NEW L, Holds(c, cap, L)
  PROVE  CacheCap(c) = cap
BY CapIs DEF Holds

\* janet_symcache_put keeps a cache in order, and puts the new symbol in it.
LEMMA AddedKeeps ==
  ASSUME CacheInv(cache, cache_count, cache_deleted, live), LiveInv(live, cache_count, cache_deleted, fresh),
         NEW r, NEW n \in Names, Holds(r.cache, CacheCap(cache), live),
         NotVacant(r.cache, CacheCap(cache)) = NotVacant(cache, CacheCap(cache)),
         \A s \in live : s[1] # n, HasRoom(r.cache, CacheCap(cache), live, n, r.bucket), Added(r, n)
  PROVE  CacheInv(cache', cache_count', cache_deleted', live') /\ LiveInv(live', cache_count', cache_deleted', fresh')
<1> DEFINE cap == CacheCap(cache)
           s == <<n, fresh>>
           L == live \cup {s}
           c == IF CacheIsFull(r.cache) THEN CacheResized(r.cache, CacheLen(2 * cache_count + 1)) ELSE r.cache
           b == IF CacheIsFull(r.cache) THEN FindMem(c, n).bucket ELSE r.bucket
           d == IF CacheIsFull(r.cache) THEN 0 ELSE cache_deleted
<1>1. /\ fresh <= MaxSymbols /\ IsPut(cache', c, b, s)
      /\ cache_count' = cache_count + 1 /\ cache_deleted' = d /\ live' = L /\ fresh' = fresh + 1
  BY DEF Added, IsPut
<1>2. /\ Unique(live) /\ IsFiniteSet(live) /\ \E t \in live : t[1] = Core
      /\ cache_count = Cardinality(live) /\ cache_count # 0 /\ cache_count <= fresh /\ cache_deleted \in Nat
      /\ fresh \in Nat /\ fresh <= MaxSymbols + 1
  BY DEF LiveInv
<1>3. /\ Holds(cache, cap, live) /\ cap >= 4 /\ Cardinality(NotVacant(cache, cap)) <= cache_count + cache_deleted
      /\ 2 * (cache_count + cache_deleted) <= cap + 2
  BY DEF CacheInv
<1>4. cap \in Nat /\ cache_count \in Nat
  BY <1>2, <1>3, FS_CardinalityType DEF Holds
<1>5. s \in Names \X Nat /\ s[1] = n /\ s \notin live
  BY <1>2
<1>6. Unique(L)
  BY <1>2, <1>5 DEF Unique
<1>7. LiveInv(L, cache_count + 1, d, fresh + 1)
  <2>1. IsFiniteSet(L) /\ Cardinality(L) = cache_count + 1
    BY <1>2, <1>5, FS_AddElement
  <2>2. \E t \in L : t[1] = Core
    BY <1>2
  <2>3. d \in Nat
    BY <1>2
  <2> HIDE DEF L, d
  <2>4. fresh + 1 \in Nat /\ cache_count + 1 # 0 /\ cache_count + 1 <= fresh + 1 /\ fresh + 1 <= MaxSymbols + 1
    BY <1>1, <1>2, <1>4
  <2> QED BY <1>6, <2>1, <2>2, <2>3, <2>4 DEF LiveInv
<1> HIDE DEF cap, s, L, b, c
<1>8. CacheCap(r.cache) = cap
  BY HoldsCap DEF cap
<1>9. ASSUME NEW to, to >= 4, to \in Nat, Holds(c, to, live), HasRoom(c, to, live, n, b),
             2 * (cache_count + d) <= to, Cardinality(NotVacant(c, to)) <= cache_count + d
      PROVE  CacheInv(cache', cache_count + 1, d, L)
  <2>1. b \in Buckets(to) /\ c[b] \notin live /\ Placed(c, to, s[1], b)
    BY <1>5, <1>9 DEF HasRoom
  <2>2. /\ Holds(cache', to, L) /\ Fills(cache', c, to, b)
        /\ NoGraves(c, to) => NoGraves(cache', to)
    BY <1>1, <1>5, <1>6, <1>9, <2>1, PutHolds DEF L
  <2>3. Cardinality(NotVacant(cache', to)) <= (cache_count + 1) + d
    <3>1. IsFiniteSet(NotVacant(c, to)) /\ Cardinality(NotVacant(c, to)) \in Nat
      BY <1>9, NotVacantIsFinite
    <3>2. NotVacant(cache', to) = NotVacant(c, to) \cup {b}
      BY <2>2 DEF Fills
    <3>3. Cardinality(NotVacant(c, to) \cup {b}) <= Cardinality(NotVacant(c, to)) + 1
      BY <3>1, OneMore
    <3>4. Cardinality(NotVacant(cache', to)) \in Nat /\ d \in Nat
      BY <1>2, <1>9, NotVacantIsFinite
    <3> HIDE DEF d
    <3> QED BY <1>4, <1>9, <3>1, <3>2, <3>3, <3>4
  <2>4. CacheCap(cache') = to
    BY <2>2, HoldsCap
  <2>5. 2 * ((cache_count + 1) + d) <= to + 2
    <3>1. d \in Nat
      BY <1>2
    <3> HIDE DEF d
    <3> QED BY <1>4, <1>9, <3>1
  <2> QED BY <1>9, <2>2, <2>3, <2>4, <2>5 DEF CacheInv
<1>10. CASE ~CacheIsFull(r.cache)
  <2>1. c = r.cache /\ b = r.bucket /\ d = cache_deleted
    BY <1>10 DEF c, b
  <2>2. 2 * (cache_count + cache_deleted) <= cap
    BY <1>2, <1>4, <1>8, <1>10 DEF CacheIsFull
  <2>3. Holds(c, cap, live) /\ HasRoom(c, cap, live, n, b) /\ NotVacant(c, cap) = NotVacant(cache, cap)
    BY <2>1 DEF cap
  <2>4. CacheInv(cache', cache_count + 1, d, L)
    BY <1>3, <1>4, <1>9, <2>1, <2>2, <2>3
  <2> QED BY <1>1, <1>7, <2>4
<1>11. CASE CacheIsFull(r.cache)
  <2> DEFINE to == CacheLen(2 * cache_count + 1)
  <2>1. c = CacheResized(r.cache, to) /\ b = FindMem(c, n).bucket /\ d = 0
    BY <1>11 DEF c, b
  <2>2. to \in Nat /\ to > 2 * cache_count + 1
    <3>1. 2 * cache_count + 1 \in Nat /\ 2 * cache_count + 1 < 2 ^ 30
      BY <1>1, <1>2, <1>4
    <3> QED BY <3>1, CacheLenIs
  <2> HIDE DEF to
  <2>3. to >= 4 /\ Cardinality(live) < to /\ 2 * (cache_count + d) <= to
    BY <1>2, <1>4, <2>1, <2>2
  <2>4. Holds(c, to, live) /\ NoGraves(c, to)
    BY <1>2, <1>4, <2>1, <2>2, <2>3, ResizedHolds
  <2>5. Cardinality(NotVacant(c, to)) <= cache_count + d
    BY <1>2, <1>4, <2>1, <2>4, NoMoreThanLive
  <2>6. \E e \in Buckets(to) : c[e] = Vacant
    BY <1>2, <1>4, <2>1, <2>2, <2>3, <2>5, VacantExists
  <2>7. IsSearch(FindMem(c, n), c, to, live, n)
    BY <1>2, <2>4, FindMemIs
  <2>8. ~FindMem(c, n).found
    BY <2>7 DEF IsSearch, WasFound
  <2>9. HasRoom(c, to, live, n, b)
    BY <2>1, <2>6, <2>7, <2>8 DEF IsSearch, WasNotFound
  <2>10. CacheInv(cache', cache_count + 1, d, L)
    BY <1>9, <2>2, <2>3, <2>4, <2>5, <2>9
  <2> QED BY <1>1, <1>7, <2>10
<1> QED BY <1>10, <1>11

\* A search leaves the cache in order, whatever it moves.
LEMMA SearchKeeps ==
  ASSUME NEW cap, NEW c, NEW L, Holds(c, cap, L), Unique(L), NEW n \in Names
  PROVE  Holds(FindMem(c, n).cache, cap, L) /\ NotVacant(FindMem(c, n).cache, cap) = NotVacant(c, cap)
<1>1. IsSearch(FindMem(c, n), c, cap, L, n)
  BY FindMemIs
<1> QED BY <1>1 DEF IsSearch, WasFound, WasNotFound

LEMMA InvVacant ==
  ASSUME NEW n, NEW d, NEW f, NEW L, NEW c, CacheInv(c, n, d, L), LiveInv(L, n, d, f),
         NEW u, NotVacant(u, CacheCap(c)) = NotVacant(c, CacheCap(c))
  PROVE  \E b \in Buckets(CacheCap(c)) : u[b] = Vacant
<1>1. CacheCap(c) \in Nat /\ n \in Nat /\ d \in Nat
  BY FS_CardinalityType DEF CacheInv, LiveInv, Holds
<1>2. n + d \in Nat /\ n + d < CacheCap(c) /\ Cardinality(NotVacant(c, CacheCap(c))) <= n + d
  BY <1>1 DEF CacheInv
<1>3. Cardinality(NotVacant(u, CacheCap(c))) <= n + d
  BY <1>2
<1> QED BY <1>1, <1>2, <1>3, VacantExists

LEMMA SymbolStep ==
  ASSUME SymbolInv, NEW n \in Names, Symbol(n)
  PROVE  SymbolInv'
<1> DEFINE r == FindMem(cache, n)
           cap == CacheCap(cache)
<1>1. Holds(cache, cap, live) /\ Unique(live)
  BY DEF SymbolInv, CacheInv, LiveInv
<1>2. IsSearch(r, cache, cap, live, n)
  BY <1>1, FindMemIs
<1>3. gensym_counter' \in Nat \ {0}
  BY DEF SymbolInv, Symbol
<1>4. CASE r.found
  <2>1. cache' = r.cache /\ UNCHANGED <<cache_count, cache_deleted, live, fresh>>
    BY <1>4 DEF Symbol
  <2> HIDE DEF r
  <2>2. Holds(r.cache, cap, live) /\ NotVacant(r.cache, cap) = NotVacant(cache, cap)
    BY <1>2, <1>4 DEF IsSearch, WasFound
  <2>3. CacheCap(r.cache) = cap
    BY <2>2, HoldsCap
  <2>4. CacheInv(r.cache, cache_count, cache_deleted, live)
    BY <2>2, <2>3 DEF CacheInv, SymbolInv
  <2> QED BY <1>3, <2>1, <2>4 DEF SymbolInv
<1>5. CASE ~r.found
  <2>1. Added(r, n)
    BY <1>5 DEF Symbol
  <2> HIDE DEF r
  <2>2. \E b \in Buckets(cap) : cache[b] = Vacant
    BY InvVacant DEF SymbolInv
  <2>3. r.cache = cache /\ (\A s \in live : s[1] # n) /\ HasRoom(r.cache, cap, live, n, r.bucket)
    BY <1>2, <1>5, <2>2 DEF IsSearch, WasNotFound
  <2>4. CacheInv(cache', cache_count', cache_deleted', live') /\ LiveInv(live', cache_count', cache_deleted', fresh')
    BY <1>1, <2>1, <2>3, AddedKeeps DEF SymbolInv
  <2> QED BY <1>3, <2>4 DEF SymbolInv
<1> QED BY <1>4, <1>5

LEMMA DeinitStep ==
  ASSUME SymbolInv, NEW s \in live, Deinit(s)
  PROVE  SymbolInv'
<1> DEFINE r == FindMem(cache, s[1])
           cap == CacheCap(cache)
           L == live \ {s}
<1>1. Holds(cache, cap, live) /\ Unique(live) /\ s \in Names \X Nat /\ s[1] \in Names
  BY SymbolsDiffer DEF SymbolInv, CacheInv, LiveInv, Unique
<1>2. IsSearch(r, cache, cap, live, s[1])
  BY <1>1, FindMemIs
<1>3. gensym_counter' \in Nat \ {0} /\ live' = L /\ fresh' = fresh /\ s[1] # Core
  BY DEF SymbolInv, Deinit
<1>4. r.found
  BY <1>2 DEF IsSearch, WasNotFound
<1>5. IsPut(cache', r.cache, r.bucket, Deleted) /\ cache_count' = cache_count - 1 /\ cache_deleted' = cache_deleted + 1
  BY <1>4 DEF Deinit, IsPut
<1> HIDE DEF r
<1>6. /\ Holds(r.cache, cap, live) /\ NotVacant(r.cache, cap) = NotVacant(cache, cap)
      /\ r.bucket \in Buckets(cap) /\ r.cache[r.bucket] \in live /\ r.cache[r.bucket][1] = s[1]
  BY <1>2, <1>4 DEF IsSearch, WasFound
<1>7. r.cache[r.bucket] = s
  BY <1>1, <1>6 DEF Unique
<1>8. Holds(cache', cap, L) /\ NotVacant(cache', cap) = NotVacant(cache, cap)
  <2>1. Holds(cache', cap, live \ {r.cache[r.bucket]}) /\ NotVacant(cache', cap) = NotVacant(r.cache, cap)
    BY <1>1, <1>5, <1>6, BuryHolds
  <2> QED BY <1>6, <1>7, <2>1
<1>9. CacheCap(cache') = cap
  BY <1>8, HoldsCap
<1>10. /\ IsFiniteSet(live) /\ cache_count = Cardinality(live) /\ cache_deleted \in Nat /\ fresh \in Nat
       /\ cache_count <= fresh /\ fresh <= MaxSymbols + 1 /\ \E t \in live : t[1] = Core
  BY DEF SymbolInv, LiveInv
<1>11. IsFiniteSet(L) /\ Cardinality(L) = cache_count - 1
  BY <1>10, FS_RemoveElement
<1>12. \E t \in L : t[1] = Core
  BY <1>3, <1>10
<1>13. Cardinality(L) # 0
  BY <1>11, <1>12, FS_EmptySet
<1>14. Unique(L)
  BY <1>1 DEF Unique
<1> HIDE DEF L
<1>15. LiveInv(L, cache_count - 1, cache_deleted + 1, fresh)
  <2>1. cache_count \in Nat
    BY <1>10, FS_CardinalityType
  <2> QED BY <1>10, <1>11, <1>12, <1>13, <1>14, <2>1 DEF LiveInv
<1>16. CacheInv(cache', cache_count - 1, cache_deleted + 1, L)
  <2>1. cache_count \in Nat /\ (cache_count - 1) + (cache_deleted + 1) = cache_count + cache_deleted
    BY <1>10, FS_CardinalityType
  <2>2. /\ cap >= 4 /\ Cardinality(NotVacant(cache, cap)) <= cache_count + cache_deleted
        /\ 2 * (cache_count + cache_deleted) <= cap + 2
    BY DEF SymbolInv, CacheInv
  <2> QED BY <1>8, <1>9, <2>1, <2>2 DEF CacheInv
<1> QED BY <1>3, <1>5, <1>15, <1>16 DEF SymbolInv

\* janet_symbol_gen's loop keeps the cache in order.
LEMMA SearchedKeeps ==
  ASSUME SymbolInv, Len(Generated) # 0
  PROVE  \A k \in 0 .. Len(Generated) :
           /\ Holds(Searched[k], CacheCap(cache), live)
           /\ NotVacant(Searched[k], CacheCap(cache)) = NotVacant(cache, CacheCap(cache))
<1> DEFINE cap == CacheCap(cache)
           n == Len(Generated)
           S == {u \in [Buckets(cap) -> {Vacant, Deleted} \cup live] :
                   Holds(u, cap, live) /\ NotVacant(u, cap) = NotVacant(cache, cap)}
           F == [k \in 1 .. n |-> [u \in S |-> FindMem(u, NameAfter(k)).cache]]
           round[k \in 0 .. n] == IF k = 0 THEN cache ELSE FindMem(round[k - 1], NameAfter(k)).cache
<1>1. Searched = round
  BY DEF Searched
<1>2. n \in Nat
  OBVIOUS
<1>3. Holds(cache, cap, live) /\ Unique(live) /\ cache \in S
  BY DEF SymbolInv, CacheInv, LiveInv, Holds
<1>4. \A k \in 1 .. n : NameAfter(k) \in Names
  <2> TAKE k \in 1 .. n
  <2>1. gensym_counter + k - 2 \in Nat \/ gensym_counter + k - 2 = -1
    BY DEF SymbolInv
  <2>2. (gensym_counter + k - 2) % n \in 0 .. n - 1
    BY <1>2, <2>1
  <2>3. CounterAfter(k) \in 1 .. n
    BY <1>2, <2>2 DEF CounterAfter
  <2> QED BY <2>3 DEF NameAfter
<1> HIDE DEF n
<1>5. \A k \in 1 .. n, u \in S : FindMem(u, NameAfter(k)).cache \in S
  <2> SUFFICES ASSUME NEW k \in 1 .. n, NEW u \in S PROVE FindMem(u, NameAfter(k)).cache \in S
    OBVIOUS
  <2>1. /\ Holds(FindMem(u, NameAfter(k)).cache, cap, live)
        /\ NotVacant(FindMem(u, NameAfter(k)).cache, cap) = NotVacant(u, cap)
    <3>1. Holds(u, cap, live) /\ NameAfter(k) \in Names
      BY <1>4
    <3> QED BY <1>3, <3>1, SearchKeeps
  <2>2. FindMem(u, NameAfter(k)).cache \in [Buckets(cap) -> {Vacant, Deleted} \cup live]
    BY <2>1 DEF Holds
  <2> QED BY <2>1, <2>2
<1>6. F \in [1 .. n -> [S -> S]]
  <2> HIDE DEF S
  <2> QED BY <1>5
<1> HIDE DEF S
<1>7. PICK g : g \in [0 .. n -> S] /\ g[0] = cache /\ \A k \in 1 .. n : g[k] = F[k][g[k - 1]]
  <2> HIDE DEF F, round
  <2>1. \E g : IsRun(g, S, n, cache, F)
    BY <1>2, <1>3, <1>6, RunExists
  <2> QED BY <2>1 DEF IsRun
<1>8. \A k \in 1 .. n : g[k] = FindMem(g[k - 1], NameAfter(k)).cache
  <2> TAKE k \in 1 .. n
  <2>1. g[k - 1] \in S
    BY <1>2, <1>7
  <2> QED BY <1>7, <2>1
<1>9. g = [k \in 0 .. n |-> IF k = 0 THEN cache ELSE FindMem(g[k - 1], NameAfter(k)).cache]
  <2> HIDE DEF F
  <2> QED BY <1>2, <1>7, <1>8
<1>10. round = [k \in 0 .. n |-> IF k = 0 THEN cache ELSE FindMem(round[k - 1], NameAfter(k)).cache]
  <2> HIDE DEF F
  <2> QED BY <1>9
<1> HIDE DEF round
<1>11. round[0] = cache /\ \A k \in 1 .. n : round[k] = FindMem(round[k - 1], NameAfter(k)).cache
  BY <1>2, <1>10
<1>12. \A k \in 0 .. n : round[k] \in S
  <2>1. \A k \in 1 .. n : round[k - 1] \in S => round[k] = F[k][round[k - 1]]
    BY <1>11
  <2>2. IsLoop(round, S, n, cache, F)
    BY <1>11, <2>1 DEF IsLoop
  <2> HIDE DEF F
  <2>3. StaysIn(round, S, n)
    BY <1>2, <1>3, <1>6, <2>2, RunStays
  <2> QED BY <2>3 DEF StaysIn
<1> QED BY <1>1, <1>12 DEF S, n

LEMMA GensymStep ==
  ASSUME SymbolInv, Gensym
  PROVE  SymbolInv'
<1> DEFINE U == Untaken(Searched)
           k == Nearest(U)
           u == Searched[k - 1]
           n == NameAfter(k)
           r == FindMem(u, n)
           cap == CacheCap(cache)
<1>1. U # {} /\ gensym_counter' = CounterAfter(k) /\ Added(r, n)
  BY DEF Gensym
<1>2. U \in SUBSET Nat /\ \A i \in U : i \in 1 .. Len(Generated) /\ ~FindMem(Searched[i - 1], NameAfter(i)).found
  BY DEF Untaken
<1> HIDE DEF U
<1>3. k \in U
  BY <1>1, <1>2, NearestIs
<1> HIDE DEF k
<1>4. k \in 1 .. Len(Generated) /\ ~r.found /\ Len(Generated) \in Nat /\ Len(Generated) # 0 /\ k - 1 \in 0 .. Len(Generated)
  BY <1>2, <1>3
<1>5. CounterAfter(k) \in 1 .. Len(Generated)
  <2>1. (gensym_counter + k - 2) % Len(Generated) \in 0 .. Len(Generated) - 1
    BY <1>4 DEF SymbolInv
  <2> QED BY <1>4, <2>1 DEF CounterAfter
<1>6. n \in Names
  BY <1>5 DEF NameAfter
<1>7. Holds(u, cap, live) /\ NotVacant(u, cap) = NotVacant(cache, cap) /\ Unique(live)
  BY <1>4, SearchedKeeps DEF SymbolInv, LiveInv
<1> HIDE DEF u, n
<1>8. IsSearch(r, u, cap, live, n)
  BY <1>6, <1>7, FindMemIs
<1> HIDE DEF r
<1>9. \E b \in Buckets(cap) : u[b] = Vacant
  BY <1>7, InvVacant DEF SymbolInv
<1>10. r.cache = u /\ (\A s \in live : s[1] # n) /\ HasRoom(u, cap, live, n, r.bucket)
  BY <1>4, <1>8, <1>9 DEF IsSearch, WasNotFound
<1>11. CacheInv(cache', cache_count', cache_deleted', live') /\ LiveInv(live', cache_count', cache_deleted', fresh')
  BY <1>1, <1>6, <1>7, <1>10, AddedKeeps DEF SymbolInv
<1>12. gensym_counter' \in Nat \ {0}
  BY <1>1, <1>4, <1>5
<1> QED BY <1>11, <1>12 DEF SymbolInv

LEMMA SymbolInit == InitSymbols => SymbolInv
<1> HAVE InitSymbols
<1> DEFINE s == <<Core, 0>>
           b == StringHash[Core] % Capacity0
           c == NewCache(Capacity0)
           M == {}
           L == M \cup {s}
<1>1. /\ cache_count = 1 /\ cache_deleted = 0 /\ gensym_counter = 1 /\ live = {s} /\ fresh = 1
      /\ IsPut(cache, c, b, s)
  BY DEF InitSymbols, IsPut
<1>2. Capacity0 \in Nat /\ Capacity0 # 0 /\ Capacity0 >= 4 /\ MaxSymbols \in Nat
  OBVIOUS
<1>3. Holds(c, Capacity0, M) /\ NoGraves(c, Capacity0)
  BY <1>2, NewHolds
<1>4. CacheCap(c) = Capacity0
  BY <1>3, HoldsCap
<1>5. s \in Names \X Nat /\ s[1] = Core
  OBVIOUS
<1>6. b \in Buckets(Capacity0)
  <2>1. StringHash[Core] \in Nat
    OBVIOUS
  <2> QED BY <1>2, <2>1 DEF Buckets
<1>7. Placed(c, Capacity0, Core, b)
  <2>1. BucketAt(c, Core, 0) = b
    BY <1>2, <1>4, <1>6 DEF BucketAt, Buckets
  <2>2. 0 \in Buckets(Capacity0) /\ \A e \in 0 .. 0 - 1 : FALSE
    BY <1>2 DEF Buckets
  <2> QED BY <2>1, <2>2 DEF Placed
<1>8. live = L
  BY <1>1
<1>9. Unique(L)
  BY <1>5 DEF Unique
<1>10. s \notin M /\ c[b] \notin M
  OBVIOUS
<1>11. Cardinality(M) = 0 /\ IsFiniteSet(M)
  BY FS_EmptySet
<1> HIDE DEF c, b, s, M
<1>12. Holds(cache, Capacity0, L) /\ Fills(cache, c, Capacity0, b)
  BY <1>1, <1>3, <1>5, <1>6, <1>7, <1>9, <1>10, PutHolds
<1>13. CacheCap(cache) = Capacity0
  BY <1>12, HoldsCap
<1>14. Cardinality(NotVacant(c, Capacity0)) <= 0 /\ IsFiniteSet(NotVacant(c, Capacity0))
  BY <1>2, <1>3, <1>11, NoMoreThanLive, NotVacantIsFinite
<1>15. Cardinality(NotVacant(cache, Capacity0)) <= 1 + 0
  <2>1. NotVacant(cache, Capacity0) = NotVacant(c, Capacity0) \cup {b}
    BY <1>12 DEF Fills
  <2>2. Cardinality(NotVacant(c, Capacity0) \cup {b}) <= Cardinality(NotVacant(c, Capacity0)) + 1
    BY <1>14, OneMore
  <2>3. Cardinality(NotVacant(c, Capacity0)) \in Nat /\ Cardinality(NotVacant(cache, Capacity0)) \in Nat
    BY <1>2, NotVacantIsFinite
  <2> QED BY <1>14, <2>1, <2>2, <2>3
<1>16. IsFiniteSet(live) /\ Cardinality(live) = 1
  BY <1>1, FS_Singleton
<1>17. CacheInv(cache, 1, 0, L)
  BY <1>2, <1>12, <1>13, <1>15 DEF CacheInv
<1>18. LiveInv(live, 1, 0, 1)
  <2>1. Unique(live) /\ s \in live /\ s[1] = Core
    BY <1>1, <1>5, <1>8, <1>9
  <2> HIDE DEF L
  <2>2. 1 <= MaxSymbols + 1
    BY <1>2
  <2> QED BY <1>16, <2>1, <2>2 DEF LiveInv
<1> HIDE DEF L
<1>19. CacheInv(cache, 1, 0, live) /\ gensym_counter \in Nat \ {0}
  <2>1. CacheInv(cache, 1, 0, live)
    BY <1>8, <1>17, Zenon
  <2> QED BY <1>1, <2>1
<1> QED BY <1>1, <1>18, <1>19 DEF SymbolInv

LEMMA SymbolNext == SymbolInv /\ [NextSymbols]_symvars => SymbolInv'
<1> SUFFICES ASSUME SymbolInv, [NextSymbols]_symvars PROVE SymbolInv'
  OBVIOUS
<1>1. CASE Gensym
  BY <1>1, GensymStep
<1>2. CASE \E n \in Names : Symbol(n)
  BY <1>2, SymbolStep
<1>3. CASE \E s \in live : Deinit(s)
  BY <1>3, DeinitStep
<1>4. CASE UNCHANGED symvars
  BY <1>4 DEF symvars, SymbolInv
<1> QED BY <1>1, <1>2, <1>3, <1>4 DEF NextSymbols

LEMMA SymbolImplies == SymbolInv => SymbolsAreUnique
<1> HAVE SymbolInv
<1> DEFINE cap == CacheCap(cache)
<1>1. Holds(cache, cap, live) /\ Unique(live) /\ DOMAIN cache = Buckets(cap)
  BY DEF SymbolInv, CacheInv, LiveInv, Holds
<1>2. OneSymbolPerName
  BY <1>1 DEF OneSymbolPerName, Unique
<1>3. OneBucketPerSymbol
  <2> SUFFICES ASSUME NEW b \in Buckets(cap), NEW c \in Buckets(cap), IsSymbol(cache[b]), cache[b] = cache[c] PROVE b = c
    BY <1>1 DEF OneBucketPerSymbol
  <2>1. cache[b] \in live
    BY <1>1 DEF Holds, IsSymbol
  <2> QED BY <1>1, <2>1 DEF Holds
<1>4. SearchEnds
  <2>1. \E b \in Buckets(cap) : cache[b] = Vacant
    BY InvVacant DEF SymbolInv
  <2> QED BY <1>1, <2>1 DEF SearchEnds
<1> QED BY <1>2, <1>3, <1>4 DEF SymbolsAreUnique

(* Through collisions, collections, moves and resizes there is one symbol    *)
(* for each name, in one bucket of the cache, and every search for one ends. *)
THEOREM SymbolsStayUnique == SymbolSpec => []SymbolsAreUnique
BY SymbolInit, SymbolNext, SymbolImplies, PTL DEF SymbolSpec
=============================================================================
