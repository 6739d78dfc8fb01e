--------------------------- MODULE ValueRoundTrip ---------------------------
(***************************************************************************)
(* A value's way into the VM and out of it: makeRaw builds a Janet value   *)
(* of a Swift one (JanetValue+Raw.swift), init(raw:) copies it back        *)
(* (JanetValue.swift).  The two sides do not agree on which keys are the   *)
(* same: Swift compares text by canonical equivalence, arrays and tables   *)
(* by contents, and knows nil as a key and as a value; Janet compares text *)
(* by bytes, arrays and tables by identity, and drops what is nil.         *)
(*                                                                         *)
(* A value is a record [kind, atom, kids]; the kids of a dictionary are    *)
(* keys and values in turn, in the order the dictionary goes through them. *)
(* There is no sharing, so containers in different places are different.   *)
(***************************************************************************)
EXTENDS Naturals, Sequences, SequencesExt

CONSTANTS Given,       \* Swift values that are defined
          Found,       \* Janet values that are evaluated
          Letters(_),  \* the text an atom is, up to canonical equivalence
          Repaired(_), \* the text that bytes are decoded to
          MaxNest      \* maxValueNestingDepth

VARIABLES side,     \* where the value is: "swift", "vm" or "refused"
          val,      \* the value, there
          trip,     \* define and eval calls made
          start     \* history: the value that came out of the VM last, or Given
tripvars == <<side, val, trip, start>>

Lists == {"tuple", "array"}
Dicts == {"struct", "table"}
Containers == Lists \cup Dicts
NaN(v) == v.kind = "number" /\ v.atom = "nan"
Entries(v) == {<<v.kids[2 * i - 1], v.kids[2 * i]>> : i \in 1 .. Len(v.kids) \div 2}

(* JanetValue's ==, synthesised from its cases.                              *)
RECURSIVE SwiftEqual(_, _)
SwiftEqual(v, w) ==
  /\ v.kind = w.kind
  /\ Letters(v.atom) = Letters(w.atom) /\ ~NaN(v)
  /\ Len(v.kids) = Len(w.kids)
  /\ IF v.kind \in Dicts
     THEN \A e \in Entries(v) : \E g \in Entries(w) : SwiftEqual(e[1], g[1]) /\ SwiftEqual(e[2], g[2])
     ELSE \A i \in DOMAIN v.kids : SwiftEqual(v.kids[i], w.kids[i])

(* janet_equals of values in different places.                               *)
RECURSIVE JanetEqual(_, _)
JanetEqual(x, y) ==
  /\ x.kind = y.kind /\ x.kind \notin {"array", "table"}
  /\ x.atom = y.atom /\ ~NaN(x)
  /\ Len(x.kids) = Len(y.kids)
  /\ IF x.kind = "struct"
     THEN \A e \in Entries(x) : \E g \in Entries(y) : JanetEqual(e[1], g[1]) /\ JanetEqual(e[2], g[2])
     ELSE \A i \in DOMAIN x.kids : JanetEqual(x.kids[i], y.kids[i])

\* A dictionary's kids with key |-> value put in; a key that is there stays.
Put(kids, Equal(_, _), key, value) ==
  LET at == {i \in DOMAIN kids : i % 2 = 1 /\ Equal(kids[i], key)}
  IN IF at = {} THEN kids \o <<key, value>> ELSE [kids EXCEPT ![1 + CHOOSE i \in at : TRUE] = value]
Without(kids, Equal(_, _), key) ==
  LET Keep(i) == ~Equal(kids[IF i % 2 = 1 THEN i ELSE i - 1], key)
  IN [j \in DOMAIN SelectSeq([i \in DOMAIN kids |-> i], Keep) |-> kids[SelectSeq([i \in DOMAIN kids |-> i], Keep)[j]]]

(* janet_struct_put and janet_table_put.                                     *)
JanetPut(kind, kids, key, value) ==
  IF key.kind = "nil" \/ NaN(key) THEN kids
  ELSE IF value.kind = "nil" THEN IF kind = "table" THEN Without(kids, JanetEqual, key) ELSE kids
  ELSE Put(kids, JanetEqual, key, value)

\* Pairs of n kids, first to last or last to first: a bucket order.
Order(n, forward) == [i \in 1 .. n \div 2 |-> IF forward THEN i ELSE (n \div 2) + 1 - i]

RECURSIVE Raw(_, _)
Raw(v, forward) ==
  LET kids == [i \in DOMAIN v.kids |-> Raw(v.kids[i], forward)]
  IN [v EXCEPT !.kids =
        IF v.kind \in Dicts
        THEN FoldLeft(LAMBDA k, i : JanetPut(v.kind, k, kids[2 * i - 1], kids[2 * i]), <<>>, Order(Len(kids), forward))
        ELSE kids]

(* Of a function nothing is left but the name of its type.                   *)
RECURSIVE Copy(_, _)
Copy(x, forward) ==
  LET kids == [i \in DOMAIN x.kids |-> Copy(x.kids[i], forward)]
  IN [x EXCEPT !.atom = IF x.kind = "function" THEN "function" ELSE Repaired(@),
               !.kind = IF @ = "function" THEN "unsupported" ELSE @,
               !.kids =
        IF x.kind \in Dicts
        THEN FoldLeft(LAMBDA k, i : Put(k, SwiftEqual, kids[2 * i - 1], kids[2 * i]), <<>>, Order(Len(kids), forward))
        ELSE kids]

\* Mutant: one level more goes in.
NestThrows_After(depth) == depth + 1 > MaxNest + 1

(* nest compares the depth before it counts, CopyPath.enter after.           *)
NestThrows(depth) == depth >= MaxNest
EnterThrows(depth) == depth + 1 > MaxNest

\* How many containers each container is in: the depths the recursion gets to.
RECURSIVE Depths(_, _)
Depths(v, depth) ==
  IF v.kind \in Containers THEN {depth} \cup UNION {Depths(v.kids[i], depth + 1) : i \in DOMAIN v.kids} ELSE {}

RECURSIVE HasUnsupported(_)
HasUnsupported(v) == v.kind = "unsupported" \/ \E i \in DOMAIN v.kids : HasUnsupported(v.kids[i])

-----------------------------------------------------------------------------
InitTrip ==
  /\ trip = 0
  /\ \/ side = "swift" /\ val \in Given
     \/ side = "vm" /\ val \in Found
  /\ start = val

\* JanetVM.define; a value with an unsupported part traps.
Define(forward) ==
  /\ side = "swift" /\ trip < 3 /\ ~HasUnsupported(val)
  /\ trip' = trip + 1 /\ start' = val
  /\ IF \E d \in Depths(val, 0) : NestThrows(d) THEN side' = "refused" /\ UNCHANGED val
     ELSE side' = "vm" /\ val' = Raw(val, forward)

\* JanetVM.eval of what the VM has.
EvalValue(forward) ==
  /\ side = "vm" /\ trip < 3
  /\ trip' = trip + 1 /\ UNCHANGED start
  /\ IF \E d \in Depths(val, 0) : EnterThrows(d) THEN side' = "refused" /\ UNCHANGED val
     ELSE side' = "swift" /\ val' = Copy(val, forward)

NextTrip == \E forward \in BOOLEAN : Define(forward) \/ EvalValue(forward)

-----------------------------------------------------------------------------
(* v is w, but for entries that are nil on either side, and for entries      *)
(* whose keys that makes the same: of these there is one, or none if one of  *)
(* them is a table's entry for nil.                                          *)
SameKey(e, g) == JanetEqual(Raw(e[1], TRUE), Raw(g[1], TRUE))
RECURSIVE Keeps(_, _)
Keeps(v, w) ==
  /\ v.kind = w.kind /\ v.atom = w.atom
  /\ IF v.kind \in Dicts
     THEN LET kept == {e \in Entries(w) : e[1].kind # "nil" /\ ~NaN(e[1]) /\ e[2].kind # "nil"}
              Removed(g) == v.kind = "table" /\ \E e \in Entries(w) : e[2].kind = "nil" /\ SameKey(e, g)
          IN /\ \A e \in Entries(v) : \E g \in kept : Keeps(e[1], g[1]) /\ Keeps(e[2], g[2])
             /\ \A g \in kept : Removed(g) \/ \E e \in Entries(v) : Keeps(e[1], g[1])
     ELSE Len(v.kids) = Len(w.kids) /\ \A i \in DOMAIN v.kids : Keeps(v.kids[i], w.kids[i])

RECURSIVE Exactly(_, _)
Exactly(v, w) ==
  /\ v.kind = w.kind /\ v.atom = w.atom /\ Len(v.kids) = Len(w.kids)
  /\ IF v.kind \in Dicts
     THEN \A e \in Entries(v) : \E g \in Entries(w) : Exactly(e[1], g[1]) /\ Exactly(e[2], g[2])
     ELSE \A i \in DOMAIN v.kids : Exactly(v.kids[i], w.kids[i])

(* What define accepts eval gives back, less the nil entries, and at no      *)
(* depth does one refuse what the other lets through; what came out of the   *)
(* VM once goes in and comes out unchanged.                                  *)
RoundTrips ==
  /\ side = "refused" => trip = 1
  /\ side = "swift" /\ trip = 2 => Keeps(val, start)
  /\ side = "swift" /\ trip = 3 => Exactly(val, start)
=============================================================================
