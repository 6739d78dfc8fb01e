--------------------------- MODULE StructureProofs ---------------------------
(* Loops over arrays, and three structures that use them: the ring buffer    *)
(* implements Deque, the heap of timeouts keeps the first first, and the     *)
(* collector drops what is dead; each for every value of its constants.      *)
EXTENDS JanetQueue, TimeoutHeap, GC, FiniteSetTheorems, FunctionTheorems,
        SequenceTheorems, WellFoundedInduction, TLAPS

(* Numbers, loops and arrays of buckets. *)

LEMMA LeastExists ==
  ASSUME NEW S \in SUBSET Nat, S # {}
  PROVE  \E m \in S : \A n \in S : m <= n
<1>1. PICK m \in S : \A n \in S : <<n, m>> \notin OpToRel(<, Nat)
  BY NatLessThanWellFounded, WFMin
<1>2. \A n \in S : m <= n
  <2> TAKE n \in S
  <2>1. ~(n < m)
    BY <1>1 DEF OpToRel
  <2> QED BY <2>1
<1> QED BY <1>2
LEMMA SetInduction ==
  ASSUME NEW S, 0 \in S, \A n \in Nat : n \in S => n + 1 \in S
  PROVE  Nat \subseteq S
<1>1. SUFFICES ASSUME Nat \ S # {} PROVE FALSE
  OBVIOUS
<1>2. PICK m \in Nat \ S : \A n \in Nat \ S : m <= n
  BY <1>1, LeastExists
<1>3. m - 1 \in Nat /\ (m - 1) + 1 = m
  BY <1>2
<1> QED BY <1>2, <1>3

\* Every sequence of steps within S can be taken.
IsRun(g, S, n, a, F) == g \in [0 .. n -> S] /\ g[0] = a /\ \A i \in 1 .. n : g[i] = F[i][g[i - 1]]

LEMMA RunExists ==
  ASSUME NEW S, NEW n \in Nat, NEW a \in S, NEW F, F \in [1 .. n -> [S -> S]]
  PROVE  \E g : IsRun(g, S, n, a, F)
<1> DEFINE T == {k \in Nat : k <= n => \E g \in [0 .. k -> S] : g[0] = a /\ \A i \in 1 .. k : g[i] = F[i][g[i - 1]]}
<1>1. 0 \in T
  <2> DEFINE h == [i \in 0 .. 0 |-> a]
  <2>1. h \in [0 .. 0 -> S] /\ h[0] = a
    OBVIOUS
  <2> HIDE DEF h
  <2>2. 1 .. 0 = {}
    OBVIOUS
  <2>3. \E g \in [0 .. 0 -> S] : g[0] = a /\ \A i \in 1 .. 0 : g[i] = F[i][g[i - 1]]
    BY <2>1, <2>2
  <2> QED BY <2>3
<1>2. ASSUME NEW k \in Nat, k \in T, k + 1 <= n PROVE k + 1 \in T
  <2>1. PICK g \in [0 .. k -> S] : g[0] = a /\ \A i \in 1 .. k : g[i] = F[i][g[i - 1]]
    BY <1>2
  <2> DEFINE h == [i \in 0 .. k + 1 |-> IF i \in 0 .. k THEN g[i] ELSE F[k + 1][g[k]]]
  <2>2. F[k + 1][g[k]] \in S
    <3>1. k + 1 \in 1 .. n /\ g[k] \in S
      BY <1>2, <2>1
    <3> QED BY <3>1
  <2>3. h \in [0 .. k + 1 -> S]
    BY <2>1, <2>2
  <2>4. h[k + 1] = F[k + 1][g[k]] /\ \A i \in 0 .. k : h[i] = g[i]
    BY <1>2
  <2> HIDE DEF h
  <2>5. h[0] = a /\ \A i \in 1 .. k + 1 : h[i] = F[i][h[i - 1]]
    <3>1. ASSUME NEW i \in 1 .. k PROVE h[i] = F[i][h[i - 1]]
      <4>1. i - 1 \in 0 .. k /\ i \in 0 .. k
        BY <1>2
      <4> QED BY <2>1, <2>4, <4>1
    <3>2. h[k + 1] = F[k + 1][h[(k + 1) - 1]]
      BY <1>2, <2>4
    <3>3. 0 \in 0 .. k
      BY <1>2
    <3>4. h[0] = a
      BY <2>1, <2>4, <3>3
    <3>5. \A i \in 1 .. k + 1 : i \in 1 .. k \/ i = k + 1
      BY <1>2
    <3> QED BY <3>1, <3>2, <3>4, <3>5
  <2> QED BY <1>2, <2>3, <2>5
<1>3. \A k \in Nat : k \in T => k + 1 \in T
  <2>1. \A k \in Nat : ~(k + 1 <= n) => k + 1 \in T
    OBVIOUS
  <2> QED BY <1>2, <2>1
<1> HIDE DEF T
<1>4. n \in T
  BY <1>1, <1>3, SetInduction
<1> QED BY <1>4 DEF T, IsRun

\* A loop whose rounds stay within S: it is some run of the steps of F.
IsLoop(h, S, n, a, F) == h[0] = a /\ \A i \in 1 .. n : h[i - 1] \in S => h[i] = F[i][h[i - 1]]
StaysIn(h, S, n) == \A i \in 0 .. n : h[i] \in S

LEMMA RunStays ==
  ASSUME NEW S, NEW n \in Nat, NEW a \in S, NEW F, F \in [1 .. n -> [S -> S]], NEW h, IsLoop(h, S, n, a, F)
  PROVE  StaysIn(h, S, n)
<1> USE DEF IsLoop, StaysIn
<1> DEFINE T == {i \in Nat : i <= n => h[i] \in S}
<1>1. 0 \in T
  OBVIOUS
<1>2. \A i \in Nat : i \in T => i + 1 \in T
  <2> SUFFICES ASSUME NEW i \in Nat, i \in T, i + 1 <= n PROVE h[i + 1] \in S
    OBVIOUS
  <2>1. i + 1 \in 1 .. n /\ (i + 1) - 1 = i /\ h[i] \in S
    OBVIOUS
  <2>2. h[i + 1] = F[i + 1][h[i]]
    BY <2>1
  <2> QED BY <2>1, <2>2
<1> HIDE DEF T
<1>3. Nat \subseteq T
  BY <1>1, <1>2, SetInduction
<1> QED BY <1>3 DEF T

-----------------------------------------------------------------------------
(* The ring buffer.  The invariant is TypeOK with NoJunk: nothing else       *)
(* relates the offsets.                                                      *)

USE QueueAssumption

IInv == TypeOK /\ NoJunk

(* A function on 1 .. n is the sequence that has its elements.               *)
LEMMA IsAppend ==
  ASSUME NEW S, NEW s \in Seq(S), NEW x \in S, NEW T, NEW t \in [1 .. Len(s) + 1 -> T],
         \A i \in 1 .. Len(s) : t[i] = s[i], t[Len(s) + 1] = x
  PROVE  t = Append(s, x)
<1> DEFINE a == Append(s, x)
<1>1. a \in Seq(S) /\ Len(a) = Len(s) + 1 /\ Len(s) \in Nat
  BY AppendProperties, LenProperties
<1>2. \A i \in 1 .. Len(s) + 1 : t[i] = a[i]
  <2>1. \A i \in 1 .. Len(s) : a[i] = s[i]
    BY AppendProperties
  <2>2. a[Len(s) + 1] = x
    BY AppendProperties
  <2> QED BY <1>1, <2>1, <2>2
<1>3. a \in [1 .. Len(s) + 1 -> S]
  BY <1>1, LenProperties
<1> HIDE DEF a
<1>4. QED BY <1>2, <1>3 DEF a

LEMMA IsCons ==
  ASSUME NEW S, NEW s \in Seq(S), NEW x \in S, NEW T, NEW t \in [1 .. Len(s) + 1 -> T],
         t[1] = x, \A i \in 1 .. Len(s) : t[i + 1] = s[i]
  PROVE  t = <<x>> \o s
<1> DEFINE a == <<x>> \o s
<1>1. a \in Seq(S) /\ Len(a) = Len(s) + 1 /\ Len(s) \in Nat
  BY ConcatProperties, LenProperties
<1>2. a[1] = x /\ \A i \in 1 .. Len(s) : a[i + 1] = s[i]
  <2>1. <<x>> \in Seq(S) /\ Len(<<x>>) = 1 /\ <<x>>[1] = x
    OBVIOUS
  <2>2. \A i \in 1 .. 1 + Len(s) : a[i] = IF i <= 1 THEN <<x>>[i] ELSE s[i - 1]
    BY <2>1, ConcatProperties
  <2> HIDE DEF a
  <2>3. a[1] = x
    BY <1>1, <2>1, <2>2
  <2>4. ASSUME NEW i \in 1 .. Len(s) PROVE a[i + 1] = s[i]
    <3>1. i + 1 \in 1 .. 1 + Len(s) /\ ~(i + 1 <= 1) /\ (i + 1) - 1 = i
      BY <1>1
    <3> QED BY <2>2, <3>1
  <2> QED BY <2>3, <2>4
<1>3. a \in [1 .. Len(s) + 1 -> S]
  BY <1>1, LenProperties
<1> HIDE DEF a
<1>4. \A i \in 1 .. Len(s) + 1 : t[i] = a[i]
  <2> TAKE i \in 1 .. Len(s) + 1
  <2>1. CASE i = 1
    BY <1>2, <2>1
  <2>2. CASE i # 1
    <3>1. i - 1 \in 1 .. Len(s) /\ (i - 1) + 1 = i
      BY <1>1, <2>2
    <3>2. t[(i - 1) + 1] = s[i - 1] /\ a[(i - 1) + 1] = s[i - 1]
      BY <1>2, <3>1
    <3> QED BY <3>1, <3>2
  <2> QED BY <2>1, <2>2
<1> QED BY <1>3, <1>4 DEF a

LEMMA IsTail ==
  ASSUME NEW S, NEW s \in Seq(S), s # <<>>, NEW T, NEW t \in [1 .. Len(s) - 1 -> T],
         \A i \in 1 .. Len(s) - 1 : t[i] = s[i + 1]
  PROVE  t = Tail(s)
<1> DEFINE a == Tail(s)
<1>1. a \in Seq(S) /\ Len(a) = Len(s) - 1 /\ Len(s) \in Nat
      /\ \A i \in 1 .. Len(s) - 1 : a[i] = s[i + 1]
  BY HeadTailProperties, LenProperties
<1>2. a \in [1 .. Len(s) - 1 -> S]
  BY <1>1, LenProperties
<1> HIDE DEF a
<1> QED BY <1>1, <1>2 DEF a

LEMMA CountFacts ==
  ASSUME TypeOK
  PROVE  /\ Count(head, tail, capacity) \in Nat
         /\ capacity > 0 => Count(head, tail, capacity) < capacity
         /\ (Count(head, tail, capacity) = 0) <=> (head = tail)
         /\ \A i \in 0 .. Count(head, tail, capacity) - 1 : At(i) \in 0 .. capacity - 1
BY DEF TypeOK, Count, At

LEMMA GrowthFacts ==
  ASSUME TypeOK, ~Refused
  PROVE  /\ Cap \in 1 .. MaxCapacity
         /\ Front \in 0 .. Cap - 1 /\ tail \in 0 .. Cap - 1
         /\ Count(Front, tail, Cap) = Count(head, tail, capacity)
         /\ Count(head, tail, capacity) + 1 < Cap
         /\ Cells \in [0 .. Cap - 1 -> Items \cup {Junk}]
<1>1. CASE ~MustGrow
  BY <1>1 DEF TypeOK, MustGrow, Cap, Front, Cells, Count
<1>2. CASE MustGrow
  <2>1. /\ NewCapacity \in 1 .. MaxCapacity /\ NewCapacity >= capacity
        /\ Count(head, tail, capacity) + 1 < NewCapacity
        /\ head \in Nat /\ tail \in Nat /\ capacity \in Nat /\ MaxCapacity \in Nat
        /\ capacity > 0 => head < capacity /\ tail < capacity
        /\ capacity = 0 => head = 0 /\ tail = 0
    BY <1>2 DEF TypeOK, Refused, MustGrow, NewCapacity, Count
  <2>2. /\ NewHead \in 0 .. NewCapacity - 1 /\ tail \in 0 .. NewCapacity - 1
        /\ Count(NewHead, tail, NewCapacity) = Count(head, tail, capacity)
    BY <2>1 DEF NewHead, Wraps, Count
  <2>3. Resized \in [0 .. NewCapacity - 1 -> Items \cup {Junk}]
    BY <2>1 DEF TypeOK, Resized, NewHead, Wraps
  <2> QED BY <1>2, <2>1, <2>2, <2>3 DEF Cap, Front, Cells
<1> QED BY <1>1, <1>2

(* Growing the buffer keeps its contents: cell i from the front is the same  *)
(* item before and after.                                                    *)
LEMMA GrowthKeeps ==
  ASSUME TypeOK, ~Refused, NEW i \in 0 .. Count(head, tail, capacity) - 1
  PROVE  Cells[IF Front + i < Cap THEN Front + i ELSE Front + i - Cap] = data[At(i)]
<1>1. CASE ~MustGrow
  BY <1>1 DEF Cap, Front, Cells, At
<1>2. CASE MustGrow /\ ~Wraps
  <2>1. /\ NewCapacity \in Nat /\ NewCapacity >= capacity /\ capacity \in Nat
        /\ head \in Nat /\ head + i < capacity /\ i \in Nat
        /\ Cap = NewCapacity /\ Front = head /\ Cells = Resized
    BY <1>2 DEF TypeOK, Refused, MustGrow, Wraps, NewCapacity, NewHead, Count, Cap, Front, Cells
  <2>2. head + i \in 0 .. NewCapacity - 1 /\ head + i < Cap
    BY <2>1
  <2>3. Resized[head + i] = data[head + i]
    BY <1>2, <2>1, <2>2 DEF Resized
  <2> QED BY <2>1, <2>2, <2>3 DEF At
<1>3. CASE MustGrow /\ Wraps
  <2>1. /\ NewCapacity \in Nat /\ NewCapacity >= capacity /\ capacity \in Nat
        /\ head \in 0 .. capacity - 1 /\ tail \in 0 .. head - 1
        /\ NewHead = head + NewCapacity - capacity
        /\ i \in 0 .. tail + capacity - head - 1
        /\ Cap = NewCapacity /\ Front = NewHead /\ Cells = Resized
    BY <1>3 DEF TypeOK, Refused, MustGrow, Wraps, NewCapacity, NewHead, Count, Cap, Front, Cells
  <2>2. CASE head + i < capacity
    <3>1. /\ NewHead + i \in 0 .. NewCapacity - 1 /\ NewHead + i < Cap
          /\ NewHead + i \in NewHead .. NewHead + (capacity - head) - 1
          /\ NewHead + i - (NewHead - head) = head + i
      BY <2>1, <2>2
    <3>2. Resized[NewHead + i] = data[head + i]
      BY <1>3, <2>1, <3>1 DEF Resized
    <3> QED BY <2>1, <2>2, <3>1, <3>2 DEF At
  <2>3. CASE ~(head + i < capacity)
    <3> DEFINE j == head + i - capacity
    <3>1. /\ j \in 0 .. NewCapacity - 1 /\ j < capacity /\ ~(Front + i < Cap)
          /\ j \notin NewHead .. NewHead + (capacity - head) - 1
          /\ Front + i - Cap = j
      BY <2>1, <2>3
    <3>2. Resized[j] = data[j]
      BY <3>1 DEF Resized
    <3> QED BY <2>1, <2>3, <3>1, <3>2 DEF At
  <2> QED BY <2>2, <2>3
<1> QED BY <1>1, <1>2, <1>3

(* The contents a push adds to: those of the buffer it has made room in.     *)
LEMMA GrownContents ==
  ASSUME TypeOK, ~Refused
  PROVE  Contents = [i \in 1 .. Count(Front, tail, Cap) |->
                       Cells[IF Front + (i - 1) < Cap THEN Front + (i - 1) ELSE Front + (i - 1) - Cap]]
<1>1. Count(Front, tail, Cap) = Count(head, tail, capacity)
  BY GrowthFacts
<1>2. \A i \in 1 .. Count(head, tail, capacity) :
        Cells[IF Front + (i - 1) < Cap THEN Front + (i - 1) ELSE Front + (i - 1) - Cap] = data[At(i - 1)]
  <2> TAKE i \in 1 .. Count(head, tail, capacity)
  <2>1. i - 1 \in 0 .. Count(head, tail, capacity) - 1
    BY CountFacts
  <2> HIDE DEF Contents
  <2> QED BY <2>1, GrowthKeeps
<1> QED BY <1>1, <1>2 DEF Contents

-----------------------------------------------------------------------------
(* Each operation does to the contents what Deque says.                      *)
LEMMA PushAppends ==
  ASSUME IInv, NEW x \in Items, Push(x)
  PROVE  TypeOK' /\ Contents' = Append(Contents, x) /\ Len(Contents) < MaxCapacity - 1
<1> DEFINE n == Count(head, tail, capacity)
<1> USE DEF IInv
<1>1. /\ Cap \in 1 .. MaxCapacity /\ Front \in 0 .. Cap - 1 /\ tail \in 0 .. Cap - 1
      /\ Count(Front, tail, Cap) = n /\ n + 1 < Cap /\ n \in Nat
      /\ Cells \in [0 .. Cap - 1 -> Items \cup {Junk}] /\ ~Refused
  BY GrowthFacts, CountFacts DEF Push
<1>2. /\ data' = [Cells EXCEPT ![tail] = x] /\ head' = Front /\ capacity' = Cap
      /\ tail' = IF tail + 1 < Cap THEN tail + 1 ELSE 0
  BY DEF Push
<1>3. TypeOK'
  BY <1>1, <1>2 DEF TypeOK
<1>4. Count(head', tail', capacity') = n + 1
  BY <1>1, <1>2 DEF Count
<1> DEFINE Cell(i) == IF Front + (i - 1) < Cap THEN Front + (i - 1) ELSE Front + (i - 1) - Cap
<1>5. Contents' = [i \in 1 .. n + 1 |-> data'[Cell(i)]]
  BY <1>2, <1>4 DEF Contents, At
<1>6. Contents = [i \in 1 .. n |-> Cells[Cell(i)]]
  BY <1>1, GrownContents
<1>7. \A i \in 1 .. n : Cell(i) # tail /\ Cell(i) \in 0 .. Cap - 1
  BY <1>1 DEF Count
<1>8. Cell(n + 1) = tail
  BY <1>1 DEF Count
<1>9. Contents \in Seq(Items) /\ Len(Contents) = n
  <2>1. \A i \in 1 .. n : Contents[i] \in Items
    BY <1>6 DEF NoJunk
  <2> QED BY <1>1, <1>6, <2>1
<1>10. \A i \in 1 .. n : Contents'[i] = Contents[i]
  <2> TAKE i \in 1 .. n
  <2>1. data'[Cell(i)] = Cells[Cell(i)]
    BY <1>1, <1>2, <1>7
  <2> QED BY <1>1, <1>5, <1>6, <2>1
<1>11. Contents'[n + 1] = x
  <2>1. Contents'[n + 1] = data'[Cell(n + 1)]
    <3> HIDE DEF n, Cell
    <3> QED BY <1>1, <1>5
  <2> QED BY <1>1, <1>2, <1>8, <2>1
<1>12. Contents' \in [1 .. n + 1 -> Items \cup {Junk}]
  <2>1. \A i \in 1 .. n + 1 : Cell(i) \in 0 .. Cap - 1
    BY <1>1
  <2>2. data' \in [0 .. Cap - 1 -> Items \cup {Junk}]
    BY <1>1, <1>2
  <2> HIDE DEF n, Cell
  <2> QED BY <1>5, <2>1, <2>2
<1>13. Contents' = Append(Contents, x)
  <2> HIDE DEF n
  <2> QED BY <1>9, <1>10, <1>11, <1>12, IsAppend
<1> QED BY <1>1, <1>3, <1>9, <1>13

LEMMA PushHeadPrepends ==
  ASSUME IInv, NEW x \in Items, PushHead(x)
  PROVE  TypeOK' /\ Contents' = <<x>> \o Contents /\ Len(Contents) < MaxCapacity - 1
<1> DEFINE n == Count(head, tail, capacity)
<1> USE DEF IInv
<1>1. /\ Cap \in 1 .. MaxCapacity /\ Front \in 0 .. Cap - 1 /\ tail \in 0 .. Cap - 1
      /\ Count(Front, tail, Cap) = n /\ n + 1 < Cap /\ n \in Nat
      /\ Cells \in [0 .. Cap - 1 -> Items \cup {Junk}] /\ ~Refused
  BY GrowthFacts, CountFacts DEF PushHead
<1>2. /\ data' = [Cells EXCEPT ![head'] = x] /\ capacity' = Cap /\ tail' = tail
      /\ head' = IF Front - 1 < 0 THEN Front - 1 + Cap ELSE Front - 1
  BY DEF PushHead
<1>3. head' \in 0 .. Cap - 1
  BY <1>1, <1>2
<1>20. TypeOK'
  BY <1>1, <1>2, <1>3 DEF TypeOK
<1>4. Count(head', tail', capacity') = n + 1
  BY <1>1, <1>2 DEF Count
<1> DEFINE Cell(i) == IF Front + (i - 1) < Cap THEN Front + (i - 1) ELSE Front + (i - 1) - Cap
<1> DEFINE New(i) == IF head' + (i - 1) < Cap THEN head' + (i - 1) ELSE head' + (i - 1) - Cap
<1>5. Contents' = [i \in 1 .. n + 1 |-> data'[New(i)]]
  BY <1>2, <1>4 DEF Contents, At
<1>6. Contents = [i \in 1 .. n |-> Cells[Cell(i)]]
  BY <1>1, GrownContents
<1>7. \A i \in 1 .. n : Cell(i) # head' /\ Cell(i) \in 0 .. Cap - 1 /\ New(i + 1) = Cell(i)
  BY <1>1, <1>2 DEF Count
<1>8. New(1) = head'
  <2>1. \A c \in Nat, h \in Nat : h < c => (IF h + (1 - 1) < c THEN h + (1 - 1) ELSE h + (1 - 1) - c) = h
    OBVIOUS
  <2>2. Cap \in Nat /\ head' \in Nat /\ head' < Cap
    BY <1>1, <1>3
  <2> QED BY <2>1, <2>2
<1>9. Contents \in Seq(Items) /\ Len(Contents) = n
  <2>1. \A i \in 1 .. n : Contents[i] \in Items
    BY <1>6 DEF NoJunk
  <2> QED BY <1>1, <1>6, <2>1
<1>10. \A i \in 1 .. n : Contents'[i + 1] = Contents[i]
  <2> TAKE i \in 1 .. n
  <2>1. data'[New(i + 1)] = Cells[Cell(i)]
    BY <1>1, <1>2, <1>7
  <2> HIDE DEF n, New, Cell
  <2> QED BY <1>1, <1>5, <1>6, <2>1
<1>11. Contents'[1] = x
  <2>1. Contents'[1] = data'[New(1)]
    <3> HIDE DEF n, New
    <3> QED BY <1>1, <1>5
  <2> QED BY <1>1, <1>2, <1>3, <1>8, <2>1
<1>12. Contents' \in [1 .. n + 1 -> Items \cup {Junk}]
  <2>1. \A i \in 1 .. n + 1 : New(i) \in 0 .. Cap - 1
    <3>1. \A c \in Nat, h \in Nat : h < c => \A i \in 1 .. c :
            (IF h + (i - 1) < c THEN h + (i - 1) ELSE h + (i - 1) - c) \in 0 .. c - 1
      OBVIOUS
    <3>2. Cap \in Nat /\ head' \in Nat /\ head' < Cap /\ \A i \in 1 .. n + 1 : i \in 1 .. Cap
      BY <1>1, <1>3
    <3> QED BY <3>1, <3>2
  <2>2. data' \in [0 .. Cap - 1 -> Items \cup {Junk}]
    BY <1>1, <1>2
  <2> HIDE DEF n, New
  <2> QED BY <1>5, <2>1, <2>2
<1>13. Contents' = <<x>> \o Contents
  <2> HIDE DEF n
  <2> QED BY <1>9, <1>10, <1>11, <1>12, IsCons
<1> QED BY <1>1, <1>9, <1>13, <1>20

LEMMA PopBeheads ==
  ASSUME IInv, Pop
  PROVE  TypeOK' /\ Contents # <<>> /\ Contents' = Tail(Contents) /\ Contents \in Seq(Items)
<1> DEFINE n == Count(head, tail, capacity)
<1> USE DEF IInv
<1>1. n \in Nat \ {0} /\ n < capacity /\ head \in 0 .. capacity - 1 /\ tail \in 0 .. capacity - 1
      /\ capacity \in Nat
  BY CountFacts DEF Pop, TypeOK
<1>2. /\ data' = data /\ tail' = tail /\ capacity' = capacity
      /\ head' = IF head + 1 < capacity THEN head + 1 ELSE 0
  BY DEF Pop
<1>3. TypeOK'
  BY <1>1, <1>2 DEF TypeOK
<1>4. Count(head', tail', capacity') = n - 1
  BY <1>1, <1>2 DEF Count, Pop
<1>5. \A i \in 1 .. n - 1 : At(i - 1)' = At(i)
  BY <1>1, <1>2 DEF At
<1>6. Contents' = [i \in 1 .. n - 1 |-> data[At(i)]]
  BY <1>2, <1>4, <1>5 DEF Contents
<1>7. Contents = [i \in 1 .. n |-> data[At(i - 1)]]
  BY DEF Contents
<1>8. Contents \in Seq(Items) /\ Len(Contents) = n /\ Contents # <<>>
  <2>1. \A i \in 1 .. n : Contents[i] \in Items
    BY <1>7 DEF NoJunk
  <2> HIDE DEF n
  <2> QED BY <1>1, <1>7, <2>1
<1>9. \A i \in 1 .. n - 1 : Contents'[i] = Contents[i + 1]
  <2> TAKE i \in 1 .. n - 1
  <2>1. (i + 1) - 1 = i /\ i + 1 \in 1 .. n
    BY <1>1
  <2> HIDE DEF n
  <2> QED BY <1>6, <1>7, <2>1
<1>10. Contents' \in [1 .. n - 1 -> Items]
  <2>1. \A i \in 1 .. n - 1 : i + 1 \in 1 .. n
    BY <1>1
  <2>2. \A i \in 1 .. n - 1 : Contents'[i] \in Items
    BY <1>7, <1>9, <2>1 DEF NoJunk
  <2> HIDE DEF n
  <2> QED BY <1>6, <2>2
<1>11. Contents' = Tail(Contents)
  <2> HIDE DEF n
  <2> QED BY <1>1, <1>8, <1>9, <1>10, IsTail
<1> QED BY <1>3, <1>8, <1>11

-----------------------------------------------------------------------------
LEMMA InvInit == Init => IInv
<1> SUFFICES ASSUME Init PROVE IInv
  OBVIOUS
<1>1. TypeOK
  BY DEF Init, TypeOK
<1>2. Count(head, tail, capacity) = 0
  BY DEF Init, Count
<1> QED BY <1>1, <1>2 DEF NoJunk, Contents, IInv

LEMMA InSeq == ASSUME IInv PROVE Contents \in Seq(Items) /\ Len(Contents) = Count(head, tail, capacity)
<1>1. Count(head, tail, capacity) \in Nat
  BY CountFacts DEF IInv
<1>2. \A i \in 1 .. Count(head, tail, capacity) : Contents[i] \in Items
  BY DEF IInv, NoJunk, Contents
<1> QED BY <1>1, <1>2 DEF Contents

(* A step keeps the invariant and is a step of Deque, or nothing changes.    *)
LEMMA StepIsDeque ==
  ASSUME IInv, [Next]_vars
  PROVE  IInv' /\ [AbstractQueue!Next]_Contents
<1>1. CASE \E x \in Items : Push(x)
  <2> PICK x \in Items : Push(x)
    BY <1>1
  <2>1. TypeOK' /\ Contents' = Append(Contents, x) /\ Len(Contents) < MaxCapacity - 1
    BY PushAppends
  <2>2. Contents' \in Seq(Items)
    BY <2>1, InSeq, AppendProperties
  <2>3. NoJunk'
    BY <2>2, ElementOfSeq, LenProperties DEF NoJunk
  <2> QED BY <2>1, <2>3 DEF IInv, AbstractQueue!Next, AbstractQueue!PushTail
<1>2. CASE \E x \in Items : PushHead(x)
  <2> PICK x \in Items : PushHead(x)
    BY <1>2
  <2>1. TypeOK' /\ Contents' = <<x>> \o Contents /\ Len(Contents) < MaxCapacity - 1
    BY PushHeadPrepends
  <2>2. Contents' \in Seq(Items)
    BY <2>1, InSeq, ConcatProperties
  <2>3. NoJunk'
    BY <2>2, ElementOfSeq, LenProperties DEF NoJunk
  <2> QED BY <2>1, <2>3 DEF IInv, AbstractQueue!Next, AbstractQueue!PushHead
<1>3. CASE Pop
  <2>1. TypeOK' /\ Contents # <<>> /\ Contents' = Tail(Contents) /\ Contents \in Seq(Items)
    BY <1>3, PopBeheads
  <2>2. Contents' \in Seq(Items)
    BY <2>1, HeadTailProperties
  <2>3. NoJunk'
    BY <2>2, ElementOfSeq, LenProperties DEF NoJunk
  <2> QED BY <2>1, <2>3 DEF IInv, AbstractQueue!Next, AbstractQueue!Pop
<1>4. CASE UNCHANGED vars
  <2>1. Contents' = Contents /\ TypeOK' /\ NoJunk'
    BY <1>4 DEF vars, IInv, TypeOK, NoJunk, Contents, Count, At
  <2> QED BY <2>1 DEF IInv
<1> QED BY <1>1, <1>2, <1>3, <1>4 DEF Next

(* The offsets stay inside the buffer and no cell in use is undefined.       *)
THEOREM Invariance == Spec => []IInv
<1>1. Init => IInv
  BY InvInit
<1>2. IInv /\ [Next]_vars => IInv'
  BY StepIsDeque
<1> QED BY <1>1, <1>2, PTL DEF Spec

(* Offsets stay inside data and the capacity inside its bound.               *)
THEOREM TypeCorrect == Spec => []TypeOK
<1>1. IInv => TypeOK
  BY DEF IInv
<1> QED BY <1>1, Invariance, PTL

(* No item between head and tail is lost to a growth or a wrap.              *)
THEOREM NoJunkHolds == Spec => []NoJunk
<1>1. IInv => NoJunk
  BY DEF IInv
<1> QED BY <1>1, Invariance, PTL

(* The cells janet_ev_mark goes over are those of the queue's items.         *)
THEOREM MarksAllHolds == Spec => []MarksAll
<1>1. IInv => MarksAll
  <2> SUFFICES ASSUME TypeOK PROVE MarksAll
    BY DEF IInv
  <2> DEFINE n == Count(head, tail, capacity)
  <2>1. DOMAIN Contents = 1 .. n /\ n \in Nat
    BY CountFacts DEF Contents
  <2>2. \A i \in 1 .. n : At(i - 1) \in Marked
    BY DEF TypeOK, Count, At, Marked
  <2>3. \A c \in Marked : \E i \in 1 .. n : c = At(i - 1)
    <3> TAKE c \in Marked
    <3> DEFINE i == IF c >= head THEN c - head + 1 ELSE c - head + capacity + 1
    <3>1. i \in 1 .. n /\ c = At(i - 1)
      BY DEF TypeOK, Count, At, Marked
    <3> QED BY <3>1
  <2> HIDE DEF n
  <2> QED BY <2>1, <2>2, <2>3 DEF MarksAll
<1> QED BY <1>1, Invariance, PTL

(* The ring buffer implements the double-ended queue.                        *)
THEOREM Refinement == Spec => ImplementsDeque
<1>1. Init => AbstractQueue!Init
  <2> SUFFICES ASSUME Init PROVE Contents = <<>>
    BY DEF AbstractQueue!Init
  <2>1. Count(head, tail, capacity) = 0
    BY DEF Init, Count
  <2> QED BY <2>1 DEF Contents
<1>2. IInv /\ [Next]_vars => [AbstractQueue!Next]_Contents
  BY StepIsDeque
<1> QED BY <1>1, <1>2, Invariance, PTL DEF Spec, ImplementsDeque, AbstractQueue!Spec

(* Both together, for every capacity.                                        *)
THEOREM QueueSoundHolds == Spec => QueueSound
  BY Refinement, MarksAllHolds, PTL DEF QueueSound

HIDE QueueAssumption

-----------------------------------------------------------------------------
(* The timeouts. *)

USE TimeoutAssumption

Elements(q, n) == {q[i] : i \in 0 .. n - 1}
Distinct(q, n) == \A i, j \in 0 .. n - 1 : q[i].name = q[j].name => i = j
IsHeap(q, n) == \A i \in 1 .. n - 1 : q[Parent(i)].when <= q[i].when

LEMMA ParentIs ==
  /\ \A i \in Nat : i # 0 => Parent(i) \in Nat /\ Parent(i) < i
  /\ \A i, j \in Nat : i # 0 => (Parent(i) = j <=> i = 2 * j + 1 \/ i = 2 * j + 2)
BY DEF Parent

LEMMA SwapKeeps ==
  ASSUME NEW n \in Nat, NEW q \in [0 .. n - 1 -> Timeouts], NEW i \in 0 .. n - 1, NEW j \in 0 .. n - 1, Distinct(q, n)
  PROVE  /\ Swapped(q, i, j) \in [0 .. n - 1 -> Timeouts]
         /\ Swapped(q, i, j)[i] = q[j] /\ Swapped(q, i, j)[j] = q[i]
         /\ \A k \in 0 .. n - 1 : k # i /\ k # j => Swapped(q, i, j)[k] = q[k]
         /\ Elements(Swapped(q, i, j), n) = Elements(q, n) /\ Distinct(Swapped(q, i, j), n)
<1> DEFINE r == Swapped(q, i, j)
<1>1. r \in [0 .. n - 1 -> Timeouts]
  BY DEF Swapped
<1>2. r[j] = q[i] /\ r[i] = q[j] /\ \A k \in 0 .. n - 1 : k # i /\ k # j => r[k] = q[k]
  BY DEF Swapped
<1> HIDE DEF r
<1>3. Elements(r, n) = Elements(q, n)
  <2>1. \A k \in 0 .. n - 1 : \E l \in 0 .. n - 1 : r[k] = q[l]
    BY <1>2
  <2>2. \A k \in 0 .. n - 1 : \E l \in 0 .. n - 1 : q[k] = r[l]
    BY <1>2
  <2>3. \A x : x \in Elements(r, n) <=> \E k \in 0 .. n - 1 : x = r[k]
    BY DEF Elements
  <2>4. \A x : x \in Elements(q, n) <=> \E k \in 0 .. n - 1 : x = q[k]
    BY DEF Elements
  <2>5. Elements(r, n) \subseteq Elements(q, n)
    BY <2>1, <2>3, <2>4
  <2>6. Elements(q, n) \subseteq Elements(r, n)
    BY <2>2, <2>3, <2>4
  <2> QED BY <2>5, <2>6
<1>4. Distinct(r, n)
  <2> SUFFICES ASSUME NEW k \in 0 .. n - 1, NEW l \in 0 .. n - 1, r[k].name = r[l].name PROVE k = l
    BY DEF Distinct
  <2> DEFINE to(m) == IF m = i THEN j ELSE IF m = j THEN i ELSE m
  <2>1. r[k] = q[to(k)] /\ r[l] = q[to(l)] /\ to(k) \in 0 .. n - 1 /\ to(l) \in 0 .. n - 1
    BY <1>2
  <2>2. to(k) = to(l)
    <3> HIDE DEF to
    <3> QED BY <2>1 DEF Distinct
  <2> QED BY <2>2
<1> QED BY <1>1, <1>2, <1>3, <1>4 DEF r

Rounds(n, E) ==
  {s \in [queue : [0 .. n - 1 -> Timeouts], index : Nat] :
     Elements(s.queue, n) = E /\ Distinct(s.queue, n) /\ (n # 0 => s.index < n)}

\* In order but for the one at index, which may be earlier than those above.
AlmostUp(s, n) ==
  /\ \A j \in 1 .. n - 1 : j # s.index => s.queue[Parent(j)].when <= s.queue[j].when
  /\ \A c \in 1 .. n - 1 : Parent(c) = s.index /\ s.index # 0 => s.queue[Parent(s.index)].when <= s.queue[c].when
UpDone(s) == s.index = 0 \/ s.queue[Parent(s.index)].when <= s.queue[s.index].when

LEMMA UpKeeps ==
  ASSUME NEW n \in Nat, n # 0, NEW E, NEW s \in Rounds(n, E), AlmostUp(s, n)
  PROVE  /\ Up(s) \in Rounds(n, E) /\ AlmostUp(Up(s), n)
         /\ IF UpDone(s) THEN Up(s) = s /\ IsHeap(s.queue, n) ELSE Up(s).index < s.index
<1> DEFINE q == s.queue
           i == s.index
           p == Parent(i)
           r == Swapped(q, i, p)
<1>1. q \in [0 .. n - 1 -> Timeouts] /\ i \in 0 .. n - 1 /\ Elements(q, n) = E /\ Distinct(q, n)
  BY DEF Rounds
<1>2. \A k \in 0 .. n - 1 : q[k].when \in Nat
  BY <1>1 DEF Timeouts
<1>3. \A j \in 1 .. n - 1 : Parent(j) \in 0 .. n - 1 /\ Parent(j) < j /\ j \in 0 .. n - 1
  BY ParentIs
<1>4. /\ \A j \in 1 .. n - 1 : j # i => q[Parent(j)].when <= q[j].when
      /\ \A c \in 1 .. n - 1 : Parent(c) = i /\ i # 0 => q[p].when <= q[c].when
  BY DEF AlmostUp
<1>5. CASE UpDone(s)
  <2>1. Up(s) = s
    BY <1>5 DEF Up, UpDone
  <2>2. IsHeap(q, n)
    BY <1>4, <1>5 DEF UpDone, IsHeap
  <2> QED BY <1>5, <2>1, <2>2
<1>6. CASE ~UpDone(s)
  <2>1. i # 0 /\ ~(q[p].when <= q[i].when) /\ Up(s) = [queue |-> r, index |-> p]
    BY <1>6 DEF Up, UpDone
  <2>2. i \in 1 .. n - 1 /\ p \in 0 .. n - 1 /\ p < i
    BY <1>1, <1>3, <2>1
  <2> HIDE DEF q, i, p
  <2>3. /\ r \in [0 .. n - 1 -> Timeouts] /\ r[i] = q[p] /\ r[p] = q[i]
        /\ \A k \in 0 .. n - 1 : k # i /\ k # p => r[k] = q[k]
        /\ Elements(r, n) = E /\ Distinct(r, n)
    <3>1. i \in 0 .. n - 1 /\ q \in [0 .. n - 1 -> Timeouts] /\ Distinct(q, n)
      BY <1>1
    <3> QED BY <1>1, <2>2, <3>1, SwapKeeps
  <2> HIDE DEF r
  <2>4. \A k \in 0 .. n - 1 : r[k].when \in Nat
    BY <2>3 DEF Timeouts
  <2>5. ASSUME NEW j \in 1 .. n - 1, j # p PROVE r[Parent(j)].when <= r[j].when
    <3>1. Parent(j) \in 0 .. n - 1 /\ Parent(j) < j /\ j \in 0 .. n - 1
      BY <1>3
    <3>2. CASE j = i
      <4>1. Parent(j) = p
        BY <3>2 DEF p
      <4> QED BY <1>2, <1>1, <2>1, <2>2, <2>3, <3>2, <4>1
    <3>3. CASE j # i
      <4>1. q[Parent(j)].when <= q[j].when /\ r[j] = q[j]
        BY <1>4, <2>3, <2>5, <3>1, <3>3
      <4>2. CASE Parent(j) = p
        BY <1>1, <1>2, <2>1, <2>2, <2>3, <3>1, <4>1, <4>2
      <4>3. CASE Parent(j) = i
        BY <1>4, <2>1, <2>3, <4>1, <4>3
      <4>4. CASE Parent(j) # p /\ Parent(j) # i
        BY <2>3, <3>1, <4>1, <4>4
      <4> QED BY <4>2, <4>3, <4>4
    <3> QED BY <3>2, <3>3
  <2>6. ASSUME NEW c \in 1 .. n - 1, Parent(c) = p, p # 0 PROVE r[Parent(p)].when <= r[c].when
    <3>1. p \in 1 .. n - 1 /\ p # i
      BY <1>1, <2>2, <2>6
    <3>2. Parent(p) \in 0 .. n - 1 /\ Parent(p) < p /\ c \in 0 .. n - 1
      BY <1>3, <3>1
    <3>3. q[Parent(p)].when <= q[p].when
      BY <1>4, <3>1
    <3>4. Parent(p) # p /\ Parent(p) # i
      BY <2>2, <3>1, <3>2
    <3>5. r[Parent(p)] = q[Parent(p)]
      BY <2>3, <3>2, <3>4
    <3>6. CASE c = i
      BY <2>3, <3>3, <3>5, <3>6
    <3>7. CASE c # i
      <4>1. q[p].when <= q[c].when
        BY <1>4, <2>6, <3>7
      <4>2. c # p
        BY <1>3, <2>2, <2>6
      <4>3. r[c] = q[c]
        BY <2>3, <3>2, <3>7, <4>2
      <4> QED BY <1>2, <2>2, <3>2, <3>3, <3>5, <4>1, <4>3
    <3> QED BY <3>6, <3>7
  <2>7. AlmostUp(Up(s), n)
    BY <2>1, <2>5, <2>6 DEF AlmostUp
  <2>8. Up(s) \in Rounds(n, E)
    BY <2>1, <2>2, <2>3 DEF Rounds
  <2> QED BY <1>6, <2>1, <2>2, <2>7, <2>8 DEF i
<1> QED BY <1>5, <1>6

\* add_timeout's loop ends with a heap of the same timeouts.
LEMMA SiftUpSorts ==
  ASSUME NEW i \in Nat, NEW q \in [0 .. i -> Timeouts], Distinct(q, i + 1),
         AlmostUp([queue |-> q, index |-> i], i + 1)
  PROVE  /\ SiftUp(q, i) \in [0 .. i -> Timeouts] /\ IsHeap(SiftUp(q, i), i + 1)
         /\ Elements(SiftUp(q, i), i + 1) = Elements(q, i + 1) /\ Distinct(SiftUp(q, i), i + 1)
<1> DEFINE n == i + 1
           E == Elements(q, n)
           a == [queue |-> q, index |-> i]
           S == {s \in Rounds(n, E) : AlmostUp(s, n)}
           F == [k \in 1 .. i |-> [s \in S |-> Up(s)]]
           round[k \in 0 .. i] == IF k = 0 THEN a ELSE Up(round[k - 1])
<1>1. SiftUp(q, i) = round[i].queue
  BY DEF SiftUp
<1>2. n \in Nat /\ n # 0 /\ n - 1 = i /\ i < n
  OBVIOUS
<1>3. a \in S
  BY <1>2 DEF Rounds
<1> HIDE DEF n, E, a
<1>4. \A s \in S : Up(s) \in S /\ IF UpDone(s) THEN Up(s) = s /\ IsHeap(s.queue, n) ELSE Up(s).index < s.index
  BY <1>2, UpKeeps
<1>5. F \in [1 .. i -> [S -> S]]
  BY <1>4
<1> HIDE DEF S
<1>6. PICK g : g \in [0 .. i -> S] /\ g[0] = a /\ \A k \in 1 .. i : g[k] = F[k][g[k - 1]]
  <2> HIDE DEF F, round
  <2>1. \E g : IsRun(g, S, i, a, F)
    BY <1>3, <1>5, RunExists
  <2> QED BY <2>1 DEF IsRun
<1>7. \A k \in 1 .. i : g[k] = Up(g[k - 1])
  <2> TAKE k \in 1 .. i
  <2>1. g[k - 1] \in S
    BY <1>6
  <2> QED BY <1>6, <2>1
<1>8. g = [k \in 0 .. i |-> IF k = 0 THEN a ELSE Up(g[k - 1])]
  <2> HIDE DEF F
  <2> QED BY <1>6, <1>7
<1>9. round = [k \in 0 .. i |-> IF k = 0 THEN a ELSE Up(round[k - 1])]
  <2> HIDE DEF F
  <2> QED BY <1>8
<1> HIDE DEF round
<1>10. round[0] = a /\ \A k \in 1 .. i : round[k] = Up(round[k - 1])
  BY <1>9
<1>11. \A k \in 0 .. i : round[k] \in S
  <2>1. \A k \in 1 .. i : round[k - 1] \in S => round[k] = F[k][round[k - 1]]
    BY <1>10
  <2>2. IsLoop(round, S, i, a, F)
    BY <1>10, <2>1 DEF IsLoop
  <2> HIDE DEF F
  <2>3. StaysIn(round, S, i)
    BY <1>3, <1>5, <2>2, RunStays
  <2> QED BY <2>3 DEF StaysIn
<1> HIDE DEF F
<1>12. \A k \in Nat : k + 1 <= i => k \in 0 .. i /\ k + 1 \in 1 .. i /\ k + 1 \in 0 .. i /\ (k + 1) - 1 = k
  OBVIOUS
<1> DEFINE T == {k \in Nat : k <= i => UpDone(round[k]) \/ round[k].index + k <= i}
<1>13. 0 \in T
  BY <1>10 DEF a
<1>14. \A k \in Nat : k \in T => k + 1 \in T
  <2> SUFFICES ASSUME NEW k \in Nat, k \in T, k + 1 <= i
               PROVE  UpDone(round[k + 1]) \/ round[k + 1].index + (k + 1) <= i
    OBVIOUS
  <2>1. k \in 0 .. i /\ k + 1 \in 1 .. i /\ k + 1 \in 0 .. i /\ (k + 1) - 1 = k
    BY <1>12
  <2>2. round[k] \in S /\ round[k + 1] \in S /\ round[k + 1] = Up(round[k])
    BY <1>10, <1>11, <2>1
  <2>3. round[k].index \in Nat /\ round[k + 1].index \in Nat
    BY <2>2 DEF S, Rounds
  <2>4. CASE UpDone(round[k])
    BY <1>4, <2>2, <2>4
  <2>5. CASE ~UpDone(round[k])
    <3>1. round[k + 1].index < round[k].index /\ round[k].index + k <= i
      BY <1>4, <2>2, <2>5
    <3> QED BY <2>3, <3>1
  <2> QED BY <2>4, <2>5
<1> HIDE DEF T
<1>15. i \in T
  BY <1>13, <1>14, SetInduction
<1>16. round[i] \in S /\ round[i].index \in Nat
  BY <1>11 DEF S, Rounds
<1>17. UpDone(round[i])
  BY <1>15, <1>16 DEF T, UpDone
<1>18. IsHeap(round[i].queue, n)
  BY <1>4, <1>16, <1>17
<1>19. /\ round[i].queue \in [0 .. n - 1 -> Timeouts] /\ Elements(round[i].queue, n) = E /\ Distinct(round[i].queue, n)
  BY <1>16 DEF S, Rounds
<1> QED BY <1>1, <1>2, <1>18, <1>19 DEF n, E

\* In order but for the one at index, which may be later than those below.
AlmostDown(s, n) ==
  /\ \A j \in 1 .. n - 1 : Parent(j) # s.index => s.queue[Parent(j)].when <= s.queue[j].when
  /\ \A c \in 1 .. n - 1 : Parent(c) = s.index /\ s.index # 0 => s.queue[Parent(s.index)].when <= s.queue[c].when
DownDone(s, n) == Smallest(s.queue, n, s.index) = s.index

LEMMA SmallestIs ==
  ASSUME NEW n \in Nat, NEW q \in [0 .. n - 1 -> Timeouts], NEW i \in Nat, n # 0 => i < n, NEW c, c = Smallest(q, n, i)
  PROVE  /\ c = i \/ (c \in 1 .. n - 1 /\ Parent(c) = i /\ i < c /\ q[c].when < q[i].when)
         /\ \A j \in 1 .. n - 1 : Parent(j) = i => q[c].when <= q[j].when
<1> DEFINE l == IF 2 * i + 1 < n /\ q[2 * i + 1].when < q[i].when THEN 2 * i + 1 ELSE i
<1>1. c = IF 2 * i + 2 < n /\ q[2 * i + 2].when < q[l].when THEN 2 * i + 2 ELSE l
  BY DEF Smallest
<1>2. \A k \in 0 .. n - 1 : q[k].when \in Nat
  BY DEF Timeouts
<1>3. /\ \A j \in 1 .. n - 1 : Parent(j) = i => j = 2 * i + 1 \/ j = 2 * i + 2
      /\ Parent(2 * i + 1) = i /\ Parent(2 * i + 2) = i
  BY ParentIs
<1>4. l = i \/ (l = 2 * i + 1 /\ 2 * i + 1 < n /\ q[l].when < q[i].when)
  OBVIOUS
<1>5. 2 * i + 1 < n => q[l].when <= q[2 * i + 1].when
  BY <1>2
<1> HIDE DEF l
<1>6. CASE n = 0
  BY <1>1, <1>4, <1>6
<1>7. CASE n # 0
  <2>1. i \in 0 .. n - 1 /\ l \in 0 .. n - 1 /\ (2 * i + 1 < n => 2 * i + 1 \in 0 .. n - 1) /\ (2 * i + 2 < n => 2 * i + 2 \in 0 .. n - 1)
    BY <1>4, <1>7
  <2>2. q[l].when \in Nat /\ q[i].when \in Nat /\ (2 * i + 1 < n => q[2 * i + 1].when \in Nat) /\ (2 * i + 2 < n => q[2 * i + 2].when \in Nat)
    BY <1>2, <2>1
  <2>3. CASE 2 * i + 2 < n /\ q[2 * i + 2].when < q[l].when
    <3>1. c = 2 * i + 2
      BY <1>1, <2>3
    <3>2. q[c].when < q[i].when
      BY <1>4, <2>2, <2>3, <3>1
    <3>3. 2 * i + 1 < n
      BY <2>3
    <3>4. q[c].when <= q[2 * i + 1].when
      BY <1>5, <2>2, <2>3, <3>1, <3>3
    <3>5. q[c].when <= q[2 * i + 2].when
      BY <2>2, <2>3, <3>1
    <3> QED BY <1>3, <2>3, <3>1, <3>2, <3>4, <3>5
  <2>4. CASE ~(2 * i + 2 < n /\ q[2 * i + 2].when < q[l].when)
    <3>1. c = l
      BY <1>1, <2>4
    <3>2. 2 * i + 2 < n => q[c].when <= q[2 * i + 2].when
      BY <2>2, <2>4, <3>1
    <3>3. \A j \in 1 .. n - 1 : Parent(j) = i => q[c].when <= q[j].when
      <4> SUFFICES ASSUME NEW j \in 1 .. n - 1, Parent(j) = i PROVE q[c].when <= q[j].when
        OBVIOUS
      <4>1. j = 2 * i + 1 \/ j = 2 * i + 2
        BY <1>3
      <4> QED BY <1>5, <3>1, <3>2, <4>1
    <3>4. c = i \/ (c \in 1 .. n - 1 /\ Parent(c) = i /\ i < c /\ q[c].when < q[i].when)
      BY <1>3, <1>4, <3>1
    <3> QED BY <3>3, <3>4
  <2> QED BY <2>3, <2>4
<1> QED BY <1>6, <1>7

LEMMA DownKeeps ==
  ASSUME NEW n \in Nat, NEW E, NEW s \in Rounds(n, E), AlmostDown(s, n)
  PROVE  /\ Down(s, n) \in Rounds(n, E) /\ AlmostDown(Down(s, n), n)
         /\ IF DownDone(s, n) THEN Down(s, n) = s /\ IsHeap(s.queue, n) ELSE Down(s, n).index > s.index /\ n # 0
<1> DEFINE q == s.queue
           i == s.index
           c == Smallest(q, n, i)
           r == Swapped(q, i, c)
<1>1. q \in [0 .. n - 1 -> Timeouts] /\ i \in Nat /\ (n # 0 => i < n) /\ Elements(q, n) = E /\ Distinct(q, n)
  BY DEF Rounds
<1>2. \A k \in 0 .. n - 1 : q[k].when \in Nat
  BY <1>1 DEF Timeouts
<1>3. \A j \in 1 .. n - 1 : Parent(j) \in 0 .. n - 1 /\ Parent(j) < j /\ j \in 0 .. n - 1
  BY ParentIs
<1>4. /\ \A j \in 1 .. n - 1 : Parent(j) # i => q[Parent(j)].when <= q[j].when
      /\ \A d \in 1 .. n - 1 : Parent(d) = i /\ i # 0 => q[Parent(i)].when <= q[d].when
  BY DEF AlmostDown
<1>5. /\ c = i \/ (c \in 1 .. n - 1 /\ Parent(c) = i /\ i < c /\ q[c].when < q[i].when)
      /\ \A j \in 1 .. n - 1 : Parent(j) = i => q[c].when <= q[j].when
  <2> HIDE DEF q, i
  <2> QED BY <1>1, SmallestIs
<1>6. DownDone(s, n) <=> c = i
  BY DEF DownDone
<1>7. CASE c = i
  <2>1. Down(s, n) = s
    BY <1>7 DEF Down
  <2>2. IsHeap(q, n)
    <3> HIDE DEF q, i, c
    <3> QED BY <1>4, <1>5, <1>7 DEF IsHeap
  <2> QED BY <1>6, <1>7, <2>1, <2>2
<1>8. CASE c # i
  <2>1. Down(s, n) = [queue |-> r, index |-> c]
    BY <1>8 DEF Down
  <2> HIDE DEF q, i, c
  <2>2. c \in 1 .. n - 1 /\ Parent(c) = i /\ i < c /\ q[c].when < q[i].when /\ n # 0 /\ i \in 0 .. n - 1 /\ c \in 0 .. n - 1
    BY <1>1, <1>5, <1>8
  <2>3. /\ r \in [0 .. n - 1 -> Timeouts] /\ r[i] = q[c] /\ r[c] = q[i]
        /\ \A k \in 0 .. n - 1 : k # i /\ k # c => r[k] = q[k]
        /\ Elements(r, n) = E /\ Distinct(r, n)
    BY <1>1, <2>2, SwapKeeps
  <2> HIDE DEF r
  <2>4. \A k \in 0 .. n - 1 : r[k].when \in Nat
    BY <2>3 DEF Timeouts
  <2>5. ASSUME NEW j \in 1 .. n - 1, Parent(j) # c PROVE r[Parent(j)].when <= r[j].when
    <3>1. Parent(j) \in 0 .. n - 1 /\ Parent(j) < j /\ j \in 0 .. n - 1
      BY <1>3
    <3>2. q[i].when \in Nat /\ q[c].when \in Nat /\ q[j].when \in Nat
      BY <1>2, <2>2, <3>1
    <3>3. CASE j = c
      <4>1. r[Parent(j)] = q[c] /\ r[j] = q[i]
        BY <2>2, <2>3, <3>3
      <4> QED BY <2>2, <3>2, <4>1
    <3>4. CASE j # c /\ Parent(j) = i
      <4>1. r[Parent(j)] = q[c] /\ r[j] = q[j]
        BY <2>3, <3>1, <3>4
      <4> QED BY <1>5, <3>4, <4>1
    <3>5. CASE j # c /\ Parent(j) # i
      <4>1. r[Parent(j)] = q[Parent(j)]
        BY <2>3, <2>5, <3>1, <3>5
      <4>2. CASE j = i
        <5>1. q[Parent(i)].when <= q[c].when
          BY <1>4, <2>2, <4>2
        <5> QED BY <2>3, <4>1, <4>2, <5>1
      <4>3. CASE j # i
        <5>1. r[j] = q[j]
          BY <2>3, <3>1, <3>5, <4>3
        <5> QED BY <1>4, <3>5, <4>1, <5>1
      <4> QED BY <4>2, <4>3
    <3> QED BY <3>3, <3>4, <3>5
  <2>6. ASSUME NEW d \in 1 .. n - 1, Parent(d) = c, c # 0 PROVE r[Parent(c)].when <= r[d].when
    <3>1. d \in 0 .. n - 1 /\ c < d /\ d # i /\ d # c
      BY <1>3, <2>2, <2>6
    <3>2. r[d] = q[d] /\ r[Parent(c)] = q[c]
      BY <2>2, <2>3, <3>1
    <3>3. q[c].when <= q[d].when
      BY <1>4, <2>2, <2>6
    <3> QED BY <3>2, <3>3
  <2>7. AlmostDown(Down(s, n), n)
    BY <2>1, <2>5, <2>6 DEF AlmostDown
  <2>8. Down(s, n) \in Rounds(n, E)
    BY <2>1, <2>2, <2>3 DEF Rounds
  <2>9. Down(s, n).index > s.index
    BY <2>1, <2>2 DEF i
  <2> QED BY <1>6, <1>8, <2>2, <2>7, <2>8, <2>9
<1> QED BY <1>7, <1>8

\* pop_timeout's loop, too.
LEMMA SiftDownSorts ==
  ASSUME NEW n \in Nat, NEW q \in [0 .. n - 1 -> Timeouts], Distinct(q, n), AlmostDown([queue |-> q, index |-> 0], n)
  PROVE  /\ SiftDown(q, n) \in [0 .. n - 1 -> Timeouts] /\ IsHeap(SiftDown(q, n), n)
         /\ Elements(SiftDown(q, n), n) = Elements(q, n) /\ Distinct(SiftDown(q, n), n)
<1> DEFINE E == Elements(q, n)
           a == [queue |-> q, index |-> 0]
           S == {s \in Rounds(n, E) : AlmostDown(s, n)}
           F == [k \in 1 .. n |-> [s \in S |-> Down(s, n)]]
           round[k \in 0 .. n] == IF k = 0 THEN a ELSE Down(round[k - 1], n)
<1>1. SiftDown(q, n) = round[n].queue
  BY DEF SiftDown
<1>2. a \in S
  BY DEF Rounds
<1> HIDE DEF E, a
<1>3. \A s \in S : Down(s, n) \in S /\ IF DownDone(s, n) THEN Down(s, n) = s /\ IsHeap(s.queue, n) ELSE Down(s, n).index > s.index /\ n # 0
  BY DownKeeps
<1>4. F \in [1 .. n -> [S -> S]]
  BY <1>3
<1> HIDE DEF S
<1>5. PICK g : g \in [0 .. n -> S] /\ g[0] = a /\ \A k \in 1 .. n : g[k] = F[k][g[k - 1]]
  <2> HIDE DEF F, round
  <2>1. \E g : IsRun(g, S, n, a, F)
    BY <1>2, <1>4, RunExists
  <2> QED BY <2>1 DEF IsRun
<1>6. \A k \in 1 .. n : g[k] = Down(g[k - 1], n)
  <2> TAKE k \in 1 .. n
  <2>1. g[k - 1] \in S
    BY <1>5
  <2> QED BY <1>5, <2>1
<1>7. g = [k \in 0 .. n |-> IF k = 0 THEN a ELSE Down(g[k - 1], n)]
  <2> HIDE DEF F
  <2> QED BY <1>5, <1>6
<1>8. round = [k \in 0 .. n |-> IF k = 0 THEN a ELSE Down(round[k - 1], n)]
  <2> HIDE DEF F
  <2> QED BY <1>7
<1> HIDE DEF round
<1>9. round[0] = a /\ \A k \in 1 .. n : round[k] = Down(round[k - 1], n)
  BY <1>8
<1>10. \A k \in 0 .. n : round[k] \in S
  <2>1. \A k \in 1 .. n : round[k - 1] \in S => round[k] = F[k][round[k - 1]]
    BY <1>9
  <2>2. IsLoop(round, S, n, a, F)
    BY <1>9, <2>1 DEF IsLoop
  <2> HIDE DEF F
  <2>3. StaysIn(round, S, n)
    BY <1>2, <1>4, <2>2, RunStays
  <2> QED BY <2>3 DEF StaysIn
<1> HIDE DEF F
<1> DEFINE T == {k \in Nat : k <= n => DownDone(round[k], n) \/ round[k].index >= k}
<1>11. 0 \in T
  BY <1>9 DEF a
<1>12. \A k \in Nat : k \in T => k + 1 \in T
  <2> SUFFICES ASSUME NEW k \in Nat, k \in T, k + 1 <= n
               PROVE  DownDone(round[k + 1], n) \/ round[k + 1].index >= k + 1
    OBVIOUS
  <2>1. k \in 0 .. n /\ k + 1 \in 1 .. n /\ k + 1 \in 0 .. n /\ (k + 1) - 1 = k
    OBVIOUS
  <2>2. round[k] \in S /\ round[k + 1] \in S /\ round[k + 1] = Down(round[k], n)
    BY <1>9, <1>10, <2>1
  <2>3. round[k].index \in Nat /\ round[k + 1].index \in Nat
    BY <2>2 DEF S, Rounds
  <2>4. CASE DownDone(round[k], n)
    BY <1>3, <2>2, <2>4
  <2>5. CASE ~DownDone(round[k], n)
    <3>1. round[k + 1].index > round[k].index /\ round[k].index >= k
      BY <1>3, <2>2, <2>5
    <3> QED BY <2>3, <3>1
  <2> QED BY <2>4, <2>5
<1> HIDE DEF T
<1>13. n \in T
  BY <1>11, <1>12, SetInduction
<1>14. round[n] \in S /\ round[n].index \in Nat /\ (n # 0 => round[n].index < n)
  BY <1>10 DEF S, Rounds
<1>15. DownDone(round[n], n)
  <2>1. DownDone(round[n], n) \/ round[n].index >= n
    BY <1>13 DEF T
  <2>2. CASE n = 0
    BY <1>3, <1>14, <2>2
  <2>3. CASE n # 0
    BY <1>14, <2>1, <2>3
  <2> QED BY <2>2, <2>3
<1>16. IsHeap(round[n].queue, n)
  BY <1>3, <1>14, <1>15
<1>17. /\ round[n].queue \in [0 .. n - 1 -> Timeouts] /\ Elements(round[n].queue, n) = E /\ Distinct(round[n].queue, n)
  BY <1>14 DEF S, Rounds
<1> QED BY <1>1, <1>16, <1>17 DEF E

TimeoutInv ==
  /\ tq_count \in 0 .. MaxTimeouts /\ tq \in [0 .. tq_count - 1 -> Timeouts]
  /\ IsHeap(tq, tq_count) /\ Distinct(tq, tq_count)

LEMMA HeapFirstIsEarliest ==
  ASSUME NEW n \in Nat, NEW q \in [0 .. n - 1 -> Timeouts], IsHeap(q, n)
  PROVE  \A i \in 1 .. n - 1 : q[0].when <= q[i].when
<1> DEFINE S == {i \in Nat : i \in 1 .. n - 1 /\ ~(q[0].when <= q[i].when)}
<1>1. SUFFICES ASSUME S # {} PROVE FALSE
  OBVIOUS
<1>2. PICK m \in S : \A k \in S : m <= k
  <2> HIDE DEF S
  <2>1. S \in SUBSET Nat
    BY DEF S
  <2> QED BY <1>1, <2>1, LeastExists
<1>3. m \in 1 .. n - 1 /\ ~(q[0].when <= q[m].when) /\ m \in Nat
  BY <1>2
<1>4. Parent(m) \in Nat /\ Parent(m) < m
  BY <1>3, ParentIs
<1>5. q[Parent(m)].when <= q[m].when
  BY <1>3 DEF IsHeap
<1>6. q[0].when \in Nat /\ q[m].when \in Nat /\ q[Parent(m)].when \in Nat
  <2>1. 0 \in 0 .. n - 1 /\ m \in 0 .. n - 1 /\ Parent(m) \in 0 .. n - 1
    BY <1>3, <1>4
  <2> QED BY <2>1 DEF Timeouts
<1>7. Parent(m) # 0
  BY <1>3, <1>5
<1>8. Parent(m) \in S
  BY <1>3, <1>4, <1>5, <1>6, <1>7
<1> QED BY <1>2, <1>3, <1>4, <1>8

\* There is a name that no timeout in the queue has.
LEMMA UnusedIs ==
  ASSUME TimeoutInv, tq_count < MaxTimeouts
  PROVE  Unused \in 1 .. MaxTimeouts /\ \A i \in 0 .. tq_count - 1 : tq[i].name # Unused
<1> DEFINE n == tq_count
           names == {t.name : t \in Queued}
           S == {k \in Nat : k \in 1 .. MaxTimeouts /\ k \notin names}
<1>1. n \in Nat /\ n < MaxTimeouts /\ tq \in [0 .. n - 1 -> Timeouts]
  BY DEF TimeoutInv
<1>2. names = {tq[i].name : i \in 0 .. n - 1}
  BY DEF Queued
<1> HIDE DEF n, names
<1>3. S # {}
  <2> SUFFICES ASSUME \A k \in 1 .. MaxTimeouts : k \in names PROVE FALSE
    OBVIOUS
  <2> DEFINE D == 0 .. n - 1
             f == [i \in D |-> tq[i].name]
             R == 1 .. MaxTimeouts
  <2>1. f \in Surjection(D, R)
    <3>1. f \in [D -> R]
      BY <1>1 DEF Timeouts
    <3>2. \A k \in R : \E i \in D : f[i] = k
      BY <1>2
    <3> HIDE DEF D, f, R
    <3> QED BY <3>1, <3>2 DEF Surjection
  <2>2. IsFiniteSet(D) /\ Cardinality(D) = n
    <3>1. IsFiniteSet(0 .. n - 1) /\ Cardinality(0 .. n - 1) = IF 0 > n - 1 THEN 0 ELSE (n - 1) - 0 + 1
      BY <1>1, FS_Interval
    <3> QED BY <1>1, <3>1
  <2>3. Cardinality(R) = MaxTimeouts
    <3>1. Cardinality(1 .. MaxTimeouts) = IF 1 > MaxTimeouts THEN 0 ELSE MaxTimeouts - 1 + 1
      BY FS_Interval
    <3> QED BY <1>1, <3>1
  <2> HIDE DEF D, f, R
  <2>4. Cardinality(R) <= Cardinality(D)
    BY <2>1, <2>2, FS_Surjection
  <2> QED BY <1>1, <2>2, <2>3, <2>4
<1> HIDE DEF S
<1>4. PICK m \in S : \A k \in S : m <= k
  BY <1>3, LeastExists DEF S
<1>5. m \in 1 .. MaxTimeouts /\ m \notin names /\ 1 .. m - 1 \subseteq names
  <2>1. m \in Nat /\ m \in 1 .. MaxTimeouts /\ m \notin names
    BY <1>4 DEF S
  <2>2. ASSUME NEW k \in 1 .. m - 1 PROVE k \in names
    <3>1. k \in Nat /\ k \in 1 .. MaxTimeouts /\ ~(m <= k)
      BY <2>1
    <3>2. k \notin S
      BY <1>4, <3>1
    <3> QED BY <3>1, <3>2 DEF S
  <2> QED BY <2>1, <2>2
<1>6. Unused = CHOOSE k \in 1 .. MaxTimeouts : k \notin names /\ 1 .. k - 1 \subseteq names
  BY DEF Unused, names
<1>7. Unused \in 1 .. MaxTimeouts /\ Unused \notin names
  BY <1>5, <1>6
<1> QED BY <1>2, <1>7 DEF n

LEMMA AddTimeoutKeeps ==
  ASSUME TimeoutInv, tq_count < MaxTimeouts, NEW when \in 0 .. MaxWhen, AddTimeout([name |-> Unused, when |-> when])
  PROVE  TimeoutInv' /\ OneStep
<1> DEFINE n == tq_count
           to == [name |-> Unused, when |-> when]
           q == [i \in 0 .. n |-> IF i = n THEN to ELSE tq[i]]
<1>1. /\ n \in Nat /\ n < MaxTimeouts /\ tq \in [0 .. n - 1 -> Timeouts] /\ IsHeap(tq, n) /\ Distinct(tq, n)
  BY DEF TimeoutInv
<1>2. to \in Timeouts /\ \A i \in 0 .. n - 1 : tq[i].name # to.name
  BY UnusedIs DEF Timeouts
<1>3. tq' = SiftUp(q, n) /\ tq_count' = n + 1
  BY DEF AddTimeout
<1>4. q \in [0 .. n -> Timeouts] /\ q[n] = to /\ \A i \in 0 .. n - 1 : q[i] = tq[i]
  BY <1>1, <1>2
<1>5. Elements(tq, n) = Queued
  BY DEF Elements, Queued
<1>6. Queued' = Elements(tq', n + 1)
  BY <1>3 DEF Elements, Queued
<1> HIDE DEF n, to, q
<1>7. Distinct(q, n + 1)
  <2> SUFFICES ASSUME NEW i \in 0 .. n, NEW j \in 0 .. n, q[i].name = q[j].name PROVE i = j
    BY <1>1 DEF Distinct
  <2>1. CASE i = n \/ j = n
    BY <1>1, <1>2, <1>4, <2>1
  <2>2. CASE i # n /\ j # n
    <3>1. i \in 0 .. n - 1 /\ j \in 0 .. n - 1
      BY <1>1, <2>2
    <3> QED BY <1>1, <1>4, <3>1 DEF Distinct
  <2> QED BY <2>1, <2>2
<1>8. AlmostUp([queue |-> q, index |-> n], n + 1)
  <2>1. \A j \in 1 .. n : Parent(j) \in 0 .. n - 1 /\ Parent(j) < j
    BY <1>1, ParentIs
  <2>2. ASSUME NEW j \in 1 .. n, j # n PROVE q[Parent(j)].when <= q[j].when
    <3>1. j \in 1 .. n - 1 /\ j \in 0 .. n - 1 /\ Parent(j) \in 0 .. n - 1
      BY <1>1, <2>1, <2>2
    <3> QED BY <1>1, <1>4, <3>1 DEF IsHeap
  <2>3. \A c \in 1 .. n : Parent(c) # n
    BY <1>1, <2>1
  <2>4. (n + 1) - 1 = n
    BY <1>1
  <2> QED BY <2>2, <2>3, <2>4 DEF AlmostUp
<1>9. /\ tq' \in [0 .. n -> Timeouts] /\ IsHeap(tq', n + 1)
      /\ Elements(tq', n + 1) = Elements(q, n + 1) /\ Distinct(tq', n + 1)
  BY <1>1, <1>3, <1>4, <1>7, <1>8, SiftUpSorts
<1>10. Elements(q, n + 1) = Elements(tq, n) \cup {to}
  <2>1. \A i : i \in 0 .. (n + 1) - 1 <=> i \in 0 .. n - 1 \/ i = n
    BY <1>1
  <2> QED BY <1>4, <2>1 DEF Elements
<1>11. TimeoutInv'
  BY <1>1, <1>3, <1>9 DEF TimeoutInv
<1>12. Queued' = Queued \cup {to} /\ ~(tq_count' < tq_count)
  BY <1>1, <1>3, <1>5, <1>6, <1>9, <1>10 DEF n
<1> QED BY <1>2, <1>11, <1>12 DEF OneStep

LEMMA PopTimeoutKeeps ==
  ASSUME TimeoutInv, PopTimeout
  PROVE  TimeoutInv' /\ OneStep
<1> DEFINE n == tq_count
           q == [i \in 0 .. n - 2 |-> IF i = 0 THEN tq[n - 1] ELSE tq[i]]
<1>1. /\ n \in Nat /\ n # 0 /\ n <= MaxTimeouts /\ tq \in [0 .. n - 1 -> Timeouts] /\ IsHeap(tq, n) /\ Distinct(tq, n)
      /\ n - 1 \in Nat /\ (n - 1) - 1 = n - 2
  BY DEF TimeoutInv, PopTimeout
<1>2. tq' = SiftDown(q, n - 1) /\ tq_count' = n - 1
  BY DEF PopTimeout, Popped
<1>3. /\ q \in [0 .. (n - 1) - 1 -> Timeouts]
      /\ n # 1 => q[0] = tq[n - 1]
      /\ \A i \in 1 .. n - 2 : q[i] = tq[i]
  BY <1>1
<1>4. Elements(tq, n) = Queued
  BY DEF Elements, Queued
<1>5. Queued' = Elements(tq', n - 1)
  BY <1>2 DEF Elements, Queued
<1> HIDE DEF n, q
<1>6. Distinct(q, n - 1)
  <2> SUFFICES ASSUME NEW i \in 0 .. n - 2, NEW j \in 0 .. n - 2, q[i].name = q[j].name PROVE i = j
    BY <1>1 DEF Distinct
  <2> DEFINE from(k) == IF k = 0 THEN n - 1 ELSE k
  <2>1. q[i] = tq[from(i)] /\ q[j] = tq[from(j)] /\ from(i) \in 0 .. n - 1 /\ from(j) \in 0 .. n - 1
    BY <1>1, <1>3
  <2>2. from(i) = from(j)
    <3> HIDE DEF from
    <3> QED BY <1>1, <2>1 DEF Distinct
  <2> QED BY <1>1, <2>2
<1>7. AlmostDown([queue |-> q, index |-> 0], n - 1)
  <2>1. ASSUME NEW j \in 1 .. n - 2, Parent(j) # 0 PROVE q[Parent(j)].when <= q[j].when
    <3>1. Parent(j) \in Nat /\ Parent(j) < j
      BY <1>1, ParentIs
    <3>2. Parent(j) \in 1 .. n - 2 /\ j \in 1 .. n - 1
      BY <1>1, <2>1, <3>1
    <3> QED BY <1>1, <1>3, <3>2 DEF IsHeap
  <2> QED BY <1>1, <2>1 DEF AlmostDown
<1>8. /\ tq' \in [0 .. (n - 1) - 1 -> Timeouts] /\ IsHeap(tq', n - 1)
      /\ Elements(tq', n - 1) = Elements(q, n - 1) /\ Distinct(tq', n - 1)
  BY <1>1, <1>2, <1>3, <1>6, <1>7, SiftDownSorts
<1>9. Elements(q, n - 1) = Elements(tq, n) \ {tq[0]}
  <2>1. \A x : x \in Elements(q, n - 1) <=> \E i \in 0 .. n - 2 : x = q[i]
    BY <1>1 DEF Elements
  <2>2. \A x : x \in Elements(tq, n) <=> \E i \in 0 .. n - 1 : x = tq[i]
    BY DEF Elements
  <2>3. \A i \in 1 .. n - 1 : tq[i] # tq[0]
    BY <1>1 DEF Distinct
  <2>4. ASSUME NEW i \in 0 .. n - 2 PROVE q[i] # tq[0] /\ \E j \in 0 .. n - 1 : q[i] = tq[j]
    <3>1. CASE i = 0
      <4>1. q[i] = tq[n - 1] /\ n - 1 \in 1 .. n - 1 /\ n - 1 \in 0 .. n - 1
        BY <1>1, <1>3, <3>1
      <4> QED BY <2>3, <4>1
    <3>2. CASE i # 0
      <4>1. i \in 1 .. n - 2 /\ i \in 1 .. n - 1 /\ i \in 0 .. n - 1
        BY <1>1, <3>2
      <4> QED BY <1>3, <2>3, <4>1
    <3> QED BY <3>1, <3>2
  <2>5. ASSUME NEW i \in 1 .. n - 1 PROVE \E j \in 0 .. n - 2 : tq[i] = q[j]
    <3>1. CASE i = n - 1
      <4>1. q[0] = tq[n - 1] /\ 0 \in 0 .. n - 2
        BY <1>1, <1>3, <3>1
      <4> QED BY <3>1, <4>1
    <3>2. CASE i # n - 1
      <4>1. i \in 1 .. n - 2 /\ i \in 0 .. n - 2
        BY <1>1, <3>2
      <4> QED BY <1>3, <4>1
    <3> QED BY <3>1, <3>2
  <2>6. \A i \in 0 .. n - 1 : i = 0 \/ i \in 1 .. n - 1
    BY <1>1
  <2>7. Elements(q, n - 1) \subseteq Elements(tq, n) \ {tq[0]}
    BY <2>1, <2>2, <2>4
  <2>8. Elements(tq, n) \ {tq[0]} \subseteq Elements(q, n - 1)
    BY <2>1, <2>2, <2>5, <2>6
  <2> QED BY <2>7, <2>8
<1>10. TimeoutInv'
  BY <1>1, <1>2, <1>8 DEF TimeoutInv
<1>11. Queued' = Queued \ {tq[0]} /\ tq_count' < tq_count
  BY <1>1, <1>2, <1>4, <1>5, <1>8, <1>9 DEF n
<1> QED BY <1>10, <1>11 DEF OneStep

(* The timeouts, for any number of them and any times: the one that          *)
(* peek_timeout shows is an earliest, and a step adds one or takes that one  *)
(* away, keeping the others.                                                 *)
THEOREM TimeoutsAreOrdered == TimeoutSpec => TimersInOrder
<1>1. InitTimeouts => TimeoutInv
  BY DEF InitTimeouts, TimeoutInv, IsHeap, Distinct
<1>2. TimeoutInv /\ [NextTimeouts]_tqvars => TimeoutInv' /\ (OneStep \/ UNCHANGED tqvars)
  <2> SUFFICES ASSUME TimeoutInv, [NextTimeouts]_tqvars PROVE TimeoutInv' /\ (OneStep \/ UNCHANGED tqvars)
    OBVIOUS
  <2>1. CASE UNCHANGED tqvars
    BY <2>1 DEF tqvars, TimeoutInv, IsHeap, Distinct
  <2>2. CASE NextTimeouts
    BY <2>2, AddTimeoutKeeps, PopTimeoutKeeps DEF NextTimeouts
  <2> QED BY <2>1, <2>2
<1>3. TimeoutInv => FirstIsEarliest /\ NoneTwice
  BY HeapFirstIsEarliest DEF TimeoutInv, FirstIsEarliest, NoneTwice, Distinct
<1> QED BY <1>1, <1>2, <1>3, PTL DEF TimeoutSpec, TimersInOrder

HIDE TimeoutAssumption

-----------------------------------------------------------------------------
(* The collector. *)

\* What is marked or is going to be.
Pending == (UNION {stack[i] : i \in DOMAIN stack}) \cup {roots[i] : i \in next + 1 .. Len(roots)}

\* The roots the program has put there.
Start == regs \cup {roots[i] : i \in 1 .. orig}

\* What the sweep has kept so far, and what it is going to keep.
Survivors ==
  marked \cup (IF pc \in {"blocks", "threaded"} THEN heap \cap Weak ELSE {})
         \cup (IF pc = "threaded" THEN heap \cap Plain ELSE {})

Sound(S) == regs \subseteq S /\ (\A i \in DOMAIN roots : roots[i] \in S) /\ \A o \in S : Refs(o) \subseteq S

ThreadedAreEmpty == \A o \in Threaded : entries[o] = {}

HeapIsSound == pc \in {"program", "mark", "weak refs"} => Sound(heap)

RootsAreThere ==
  /\ pc = "mark" => orig <= Len(roots)
  /\ pc = "weak refs" => orig = Len(roots)

MarksOnlyReachable ==
  pc = "mark" => \A S \in SUBSET Obj : Closed(S) /\ Start \subseteq S => marked \cup Pending \subseteq S

ForgetsNothing ==
  pc = "mark" => Start \subseteq marked \cup Pending /\ \A o \in marked : Kept(o) \subseteq marked \cup Pending

SweepKeeps == pc \in {"weak blocks", "blocks", "threaded"} => Survivors \subseteq heap /\ Sound(Survivors)

GCInv ==
  /\ GCTypeOK /\ ThreadedAreEmpty /\ HeapIsSound /\ RootsAreThere /\ MarksOnlyReachable /\ ForgetsNothing
  /\ MarksWhatIsReachable /\ SweepKeeps

USE GCAssumption

LEMMA SeqWithin ==
  ASSUME NEW T, NEW q \in Seq(T), NEW S, \A i \in DOMAIN q : q[i] \in S
  PROVE  q \in Seq(S)
<1>1. q \in [1 .. Len(q) -> S] /\ Len(q) \in Nat
  OBVIOUS
<1> QED BY <1>1

LEMMA SwapOutType ==
  ASSUME NEW S, NEW q \in Seq(S), NEW i \in DOMAIN q
  PROVE  SwapOut(q, i) \in Seq(S)
<1>1. Len(q) - 1 \in Nat /\ Len(q) \in DOMAIN q
  OBVIOUS
<1>2. \A k \in 1 .. Len(q) - 1 : (IF k = i THEN q[Len(q)] ELSE q[k]) \in S
  BY <1>1
<1>3. SwapOut(q, i) \in [1 .. Len(q) - 1 -> S]
  BY <1>2 DEF SwapOut
<1> QED BY <1>1, <1>3

LEMMA FirstAtIs ==
  ASSUME NEW T, NEW q \in Seq(T), NEW o, \E i \in DOMAIN q : q[i] = o
  PROVE  FirstAt(q, o) \in DOMAIN q
<1> DEFINE n == Len(q)
           S == {j \in Nat : j \in 1 .. n /\ q[j] = o}
<1>1. DOMAIN q = 1 .. n /\ n \in Nat
  OBVIOUS
<1> HIDE DEF n
<1>2. S # {}
  BY <1>1
<1> HIDE DEF S
<1>3. PICK m \in S : \A j \in S : m <= j
  BY <1>2, LeastExists DEF S
<1>4. m \in Nat /\ m \in 1 .. n /\ q[m] = o
  BY <1>3 DEF S
<1>5. \A j \in 1 .. m - 1 : q[j] # o
  <2> TAKE j \in 1 .. m - 1
  <2>1. j \in 1 .. n /\ j \in Nat /\ ~(m <= j)
    BY <1>1, <1>4
  <2>2. j \notin S
    BY <1>3, <2>1
  <2> QED BY <2>1, <2>2 DEF S
<1> QED BY <1>1, <1>4, <1>5 DEF FirstAt

\* The loop of janet_gcunrootall only takes roots away.
LEMMA UnrootedAllType ==
  ASSUME NEW S, NEW q \in Seq(S), NEW o
  PROVE  UnrootedAll(q, o) \in Seq(S)
<1> DEFINE n == Len(q)
           Q == Seq(S)
           F == [i \in 1 .. n |-> [u \in Q |-> IF i \in DOMAIN u /\ u[i] = o THEN SwapOut(u, i) ELSE u]]
           upTo[i \in 0 .. n] ==
             IF i = 0 THEN q
             ELSE IF i \in DOMAIN upTo[i - 1] /\ upTo[i - 1][i] = o THEN SwapOut(upTo[i - 1], i)
             ELSE upTo[i - 1]
<1>1. UnrootedAll(q, o) = upTo[n]
  BY DEF UnrootedAll
<1>2. n \in Nat /\ q \in Q
  OBVIOUS
<1>3. F \in [1 .. n -> [Q -> Q]]
  BY SwapOutType
<1> HIDE DEF Q
<1>4. PICK g : g \in [0 .. n -> Q] /\ g[0] = q /\ \A i \in 1 .. n : g[i] = F[i][g[i - 1]]
  <2> HIDE DEF n, upTo, F
  <2>1. \E g : IsRun(g, Q, n, q, F)
    BY <1>2, <1>3, RunExists
  <2> QED BY <2>1 DEF IsRun
<1>5. \A i \in 1 .. n : g[i] = IF i \in DOMAIN g[i - 1] /\ g[i - 1][i] = o THEN SwapOut(g[i - 1], i) ELSE g[i - 1]
  <2> TAKE i \in 1 .. n
  <2>1. g[i - 1] \in Q
    BY <1>2, <1>4
  <2> QED BY <1>4, <2>1
<1>6. g = [i \in 0 .. n |->
             IF i = 0 THEN q
             ELSE IF i \in DOMAIN g[i - 1] /\ g[i - 1][i] = o THEN SwapOut(g[i - 1], i)
             ELSE g[i - 1]]
  <2> HIDE DEF F, n
  <2> QED BY <1>2, <1>4, <1>5
<1>7. upTo = [i \in 0 .. n |->
             IF i = 0 THEN q
             ELSE IF i \in DOMAIN upTo[i - 1] /\ upTo[i - 1][i] = o THEN SwapOut(upTo[i - 1], i)
             ELSE upTo[i - 1]]
  <2> HIDE DEF n, F
  <2> QED BY <1>6
<1> HIDE DEF n, upTo, F
<1>8. upTo[0] \in Q
  BY <1>2, <1>7
<1>9. \A i \in 1 .. n : upTo[i - 1] \in Q => upTo[i] \in Q
  <2> TAKE i \in 1 .. n
  <2>1. upTo[i] = IF i \in DOMAIN upTo[i - 1] /\ upTo[i - 1][i] = o THEN SwapOut(upTo[i - 1], i) ELSE upTo[i - 1]
    BY <1>2, <1>7
  <2> QED BY <2>1, SwapOutType DEF Q
<1> DEFINE T == {i \in Nat : i <= n => upTo[i] \in Q}
<1>10. 0 \in T
  BY <1>8
<1>11. \A i \in Nat : i \in T => i + 1 \in T
  <2> SUFFICES ASSUME NEW i \in Nat, i \in T, i + 1 <= n PROVE upTo[i + 1] \in Q
    OBVIOUS
  <2>1. i + 1 \in 1 .. n /\ (i + 1) - 1 = i /\ upTo[i] \in Q
    BY <1>2
  <2> QED BY <1>9, <2>1
<1> HIDE DEF T
<1>12. Nat \subseteq T
  BY <1>10, <1>11, SetInduction
<1> QED BY <1>1, <1>2, <1>12 DEF T, Q
LEMMA KeptIs ==
  ASSUME GCTypeOK, NEW o \in Obj
  PROVE  /\ Kept(o) = StrongSides(o) \cup ProtoOf(o)
         /\ Kept(o) \subseteq Refs(o) /\ Kept(o) \subseteq Obj /\ StrongSides(o) \subseteq Obj /\ ProtoOf(o) \subseteq Obj
<1>1. proto[o] \in Obj \cup {NoProto} /\ entries[o] \subseteq Obj \X Obj
  BY DEF GCTypeOK
<1>2. \A p \in entries[o] : p[1] \in Obj /\ p[2] \in Obj
  BY <1>1
<1>3. Kind[o] \in {"plain", "weakk", "weakv", "weakkv", "threaded"}
  OBVIOUS
<1>4. ProtoOf(o) \subseteq Obj /\ \A y \in Obj : proto[o] = y <=> y \in ProtoOf(o)
  BY <1>1 DEF ProtoOf
<1>5. StrongSides(o) = {y \in Obj : \E p \in entries[o] :
                         \/ Kind[o] \in {"plain", "weakv"} /\ y = p[1]
                         \/ Kind[o] \in {"plain", "weakk"} /\ y = p[2]}
  <2>1. CASE Kind[o] = "plain"
    BY <1>2, <2>1 DEF StrongSides
  <2>2. CASE Kind[o] = "weakk"
    BY <1>2, <2>2 DEF StrongSides
  <2>3. CASE Kind[o] = "weakv"
    BY <1>2, <2>3 DEF StrongSides
  <2>4. CASE Kind[o] \in {"weakkv", "threaded"}
    BY <1>2, <2>4 DEF StrongSides
  <2> QED BY <1>3, <2>1, <2>2, <2>3, <2>4
<1>6. Kept(o) = StrongSides(o) \cup ProtoOf(o)
  BY <1>4, <1>5 DEF Kept
<1>7. StrongSides(o) \subseteq UNION {{p[1], p[2]} : p \in entries[o]}
  BY <1>5
<1>8. StrongSides(o) \subseteq Obj
  BY <1>5
<1>9. Kept(o) \subseteq Refs(o)
  <2> DEFINE u == UNION {{p[1], p[2]} : p \in entries[o]}
  <2>1. Refs(o) = u \cup ProtoOf(o)
    BY DEF Refs
  <2>2. StrongSides(o) \subseteq u
    BY <1>7
  <2> HIDE DEF u
  <2> QED BY <1>6, <2>1, <2>2
<1> QED BY <1>4, <1>6, <1>8, <1>9

\* Marking.
LEMMA StackWithTop ==
  ASSUME GCTypeOK, stack # <<>>, NEW s \in SUBSET Obj
  PROVE  /\ WithTop(s) \in Seq(SUBSET Obj) /\ Len(WithTop(s)) = Len(stack) /\ WithTop(s)[Len(stack)] = s
         /\ \A i \in 1 .. Len(stack) : i # Len(stack) => WithTop(s)[i] = stack[i]
         /\ Len(stack) \in DOMAIN stack /\ Top \in SUBSET Obj /\ Len(stack) \in Nat
<1>1. stack \in Seq(SUBSET Obj)
  BY DEF GCTypeOK
<1>2. Len(stack) \in Nat /\ Len(stack) # 0 /\ DOMAIN stack = 1 .. Len(stack)
  BY <1>1, EmptySeq
<1>3. Len(stack) \in DOMAIN stack /\ Top \in SUBSET Obj
  BY <1>1, <1>2 DEF Top
<1>4. WithTop(s) \in Seq(SUBSET Obj) /\ Len(WithTop(s)) = Len(stack)
  BY <1>1, <1>3 DEF WithTop
<1>5. WithTop(s) = [i \in 1 .. Len(stack) |-> IF i = Len(stack) THEN s ELSE stack[i]]
  BY <1>1, <1>2 DEF WithTop
<1>6. WithTop(s)[Len(stack)] = s
  <2> DEFINE n == Len(stack)
  <2>1. n \in Nat /\ n # 0
    BY <1>2
  <2>2. WithTop(s) = [i \in 1 .. n |-> IF i = n THEN s ELSE stack[i]]
    BY <1>5
  <2> HIDE DEF n
  <2>3. n \in 1 .. n
    BY <2>1
  <2>4. WithTop(s)[n] = s
    BY <2>2, <2>3
  <2> QED BY <2>4 DEF n
<1>7. \A i \in 1 .. Len(stack) : i # Len(stack) => WithTop(s)[i] = stack[i]
  BY <1>5
<1> QED BY <1>2, <1>3, <1>4, <1>6, <1>7

LEMMA MarkTypes ==
  ASSUME GCTypeOK, NEW o \in Obj, MarkOne(o)
  PROVE  GCTypeOK'
<1>1. stack # <<>> /\ roots \in Seq(Obj)
  BY DEF MarkOne, GCTypeOK
<1>2. \A s \in SUBSET Obj : WithTop(s) \in Seq(SUBSET Obj)
  BY <1>1, StackWithTop
<1>3. Top \in SUBSET Obj
  BY <1>1, StackWithTop
<1>4. Top \ {o} \in SUBSET Obj /\ (Top \ {o}) \cup ProtoOf(o) \in SUBSET Obj /\ StrongSides(o) \in SUBSET Obj
  BY <1>3, KeptIs
<1>5. stack' \in Seq(SUBSET Obj)
  <2>1. CASE stack' = WithTop(Top \ {o})
    BY <1>2, <1>4, <2>1
  <2>2. CASE stack' = Append(WithTop((Top \ {o}) \cup ProtoOf(o)), StrongSides(o))
    <3> DEFINE u == WithTop((Top \ {o}) \cup ProtoOf(o))
    <3>1. u \in Seq(SUBSET Obj)
      BY <1>2, <1>4
    <3> HIDE DEF u
    <3>2. Append(u, StrongSides(o)) \in Seq(SUBSET Obj)
      BY <1>4, <3>1, AppendProperties
    <3> QED BY <2>2, <3>2 DEF u
  <2> QED BY <2>1, <2>2 DEF MarkOne
<1>6. roots' \in Seq(Obj)
  BY <1>1 DEF MarkOne, Deeper
<1>7. marked' \subseteq Obj
  BY DEF MarkOne, GCTypeOK
<1> QED BY <1>5, <1>6, <1>7 DEF MarkOne, GCTypeOK, program

LEMMA TypesStep ==
  ASSUME GCTypeOK, RootsAreThere, [NextGC]_gcvars
  PROVE  GCTypeOK'
<1> USE DEF GCTypeOK
<1>1. CASE UNCHANGED gcvars
  BY <1>1 DEF gcvars
<1>2. ASSUME NEW o \in Obj, Alloc(o) PROVE GCTypeOK'
  BY <1>2 DEF Alloc, collector
<1>3. ASSUME NEW o \in Obj, Forget(o) PROVE GCTypeOK'
  BY <1>3 DEF Forget, collector
<1>4. ASSUME NEW o \in Obj, GcRoot(o) PROVE GCTypeOK'
  BY <1>4 DEF GcRoot, collector, program
<1>5. ASSUME NEW o \in Obj, GcUnroot(o) PROVE GCTypeOK'
  <2>1. roots \in Seq(Obj) /\ \E i \in DOMAIN roots : roots[i] = o
    BY <1>5 DEF GcUnroot
  <2>2. FirstAt(roots, o) \in DOMAIN roots
    BY <2>1, FirstAtIs
  <2>3. roots' \in Seq(Obj)
    BY <1>5, <2>2, SwapOutType DEF GcUnroot
  <2> QED BY <1>5, <2>3 DEF GcUnroot, collector, program
<1>6. ASSUME NEW o \in Obj, GcUnrootAll(o) PROVE GCTypeOK'
  <2>1. roots' \in Seq(Obj)
    BY <1>6, UnrootedAllType DEF GcUnrootAll
  <2> QED BY <1>6, <2>1 DEF GcUnrootAll, collector, program
<1>7. ASSUME NEW c \in Obj, NEW k \in Obj, NEW v \in Obj, Store(c, k, v) PROVE GCTypeOK'
  <2>1. entries' \in [Obj -> SUBSET (Obj \X Obj)]
    BY <1>7 DEF Store
  <2> QED BY <1>7, <2>1 DEF Store, collector
<1>8. ASSUME NEW c \in Obj, NEW v \in Obj, Load(c, v) PROVE GCTypeOK'
  BY <1>8 DEF Load, collector
<1>9. ASSUME NEW c \in Obj, NEW v \in Obj, SetProto(c, v) PROVE GCTypeOK'
  BY <1>9 DEF SetProto, collector
<1>10. CASE ClearMemory
  BY <1>10 DEF ClearMemory
<1>11. CASE Collect
  <2>1. stack' \in Seq(SUBSET Obj)
    BY <1>11 DEF Collect
  <2>2. orig' \in Nat /\ next' \in 0 .. orig'
    BY <1>11 DEF Collect
  <2> QED BY <1>11, <2>1, <2>2 DEF Collect, program
<1>12. ASSUME NEW o \in Obj, MarkOne(o) PROVE GCTypeOK'
  BY <1>12, MarkTypes
<1>13. CASE Return
  <2>1. Len(stack) - 1 \in 0 .. Len(stack)
    BY <1>13, EmptySeq DEF Return
  <2>2. stack' \in Seq(SUBSET Obj)
    BY <1>13, <2>1 DEF Return
  <2> QED BY <1>13, <2>2 DEF Return, program
<1>14. CASE NextRoot
  <2>1. next' \in 0 .. orig
    BY <1>14 DEF NextRoot
  <2>2. next + 1 \in DOMAIN roots
    BY <1>14 DEF NextRoot, RootsAreThere
  <2>3. stack' \in Seq(SUBSET Obj)
    BY <1>14, <2>2 DEF NextRoot
  <2> QED BY <1>14, <2>1, <2>3 DEF NextRoot, program
<1>15. CASE OverflowRoot
  <2>1. Len(roots) \in DOMAIN roots /\ Len(roots) - 1 \in 0 .. Len(roots)
    BY <1>15 DEF OverflowRoot
  <2>2. stack' \in Seq(SUBSET Obj) /\ roots' \in Seq(Obj)
    BY <1>15, <2>1 DEF OverflowRoot, PopRoot
  <2> QED BY <1>15, <2>2 DEF OverflowRoot, program
<1>16. CASE MarkDone
  BY <1>16 DEF MarkDone, program
<1>17. CASE Sweep
  <2>1. CASE SweepWeakRefs
    <3>1. entries' \in [Obj -> SUBSET (Obj \X Obj)]
      BY <2>1 DEF SweepWeakRefs
    <3> QED BY <2>1, <3>1 DEF SweepWeakRefs
  <2>2. ASSUME NEW l, NEW from, NEW to \in {"blocks", "threaded", "program"}, SweepBlocks(l, from, to) PROVE GCTypeOK'
    BY <2>2 DEF SweepBlocks
  <2> QED BY <1>17, <2>1, <2>2 DEF Sweep
<1> QED BY <1>1, <1>2, <1>3, <1>4, <1>5, <1>6, <1>7, <1>8, <1>9, <1>10, <1>11, <1>12, <1>13, <1>14, <1>15, <1>16, <1>17
        DEF NextGC, Program, MarkPhase
\* What the program does between collections.
LEMMA SameRefs ==
  ASSUME NEW x, entries'[x] = entries[x], proto'[x] = proto[x]
  PROVE  Refs(x)' = Refs(x)
BY DEF Refs, ProtoOf

LEMMA RefsIs ==
  ASSUME NEW x, NEW y
  PROVE  y \in Refs(x) <=> (\E p \in entries[x] : y = p[1] \/ y = p[2]) \/ (y = proto[x] /\ y # NoProto)
BY DEF Refs, ProtoOf

LEMMA ProgramKeeps ==
  ASSUME pc = "program", GCInv, GCTypeOK', Program
  PROVE  GCInv'
<1>1. GCTypeOK /\ ThreadedAreEmpty /\ Sound(heap)
  BY DEF GCInv, HeapIsSound
<1>2. /\ entries \in [Obj -> SUBSET (Obj \X Obj)] /\ proto \in [Obj -> Obj \cup {NoProto}]
      /\ heap \subseteq Obj /\ roots \in Seq(Obj)
  BY <1>1 DEF GCTypeOK
<1>3. /\ regs \subseteq heap /\ (\A i \in DOMAIN roots : roots[i] \in heap)
      /\ \A x \in heap : Refs(x) \subseteq heap
  BY <1>1 DEF Sound
<1>4. ASSUME pc' = "program", ThreadedAreEmpty', Sound(heap)' PROVE GCInv'
  BY <1>4 DEF GCInv, HeapIsSound, RootsAreThere, MarksOnlyReachable, ForgetsNothing, MarksWhatIsReachable, SweepKeeps
<1>5. ASSUME UNCHANGED <<heap, entries, proto, pc>>, regs' \subseteq heap, \A i \in DOMAIN roots' : roots'[i] \in heap
      PROVE  GCInv'
  <2>1. \A x : Refs(x)' = Refs(x)
    BY <1>5, SameRefs
  <2>2. Sound(heap)'
    BY <1>3, <1>5, <2>1 DEF Sound
  <2>3. ThreadedAreEmpty'
    BY <1>1, <1>5 DEF ThreadedAreEmpty
  <2> QED BY <1>4, <1>5, <2>2, <2>3
<1>6. ASSUME NEW o \in Obj, Alloc(o) PROVE GCInv'
  <2>1. \A x : x # o => Refs(x)' = Refs(x)
    BY <1>2, <1>6, SameRefs DEF Alloc
  <2>2. Refs(o)' = {}
    BY <1>2, <1>6 DEF Alloc, Refs, ProtoOf
  <2>3. Sound(heap)'
    BY <1>3, <1>6, <2>1, <2>2 DEF Sound, Alloc
  <2>4. ThreadedAreEmpty'
    BY <1>1, <1>2, <1>6 DEF ThreadedAreEmpty, Alloc, Threaded
  <2> QED BY <1>4, <1>6, <2>3, <2>4 DEF Alloc, collector
<1>7. ASSUME NEW o \in Obj, Forget(o) PROVE GCInv'
  BY <1>3, <1>5, <1>7 DEF Forget, collector
<1>8. ASSUME NEW o \in Obj, GcRoot(o) PROVE GCInv'
  <2>1. roots' = Append(roots, o) /\ o \in heap /\ UNCHANGED <<heap, entries, proto, pc, regs>>
    BY <1>3, <1>8 DEF GcRoot, program, collector
  <2>2. \A i \in DOMAIN roots' : roots'[i] \in heap
    BY <1>2, <1>3, <2>1
  <2> QED BY <1>3, <1>5, <2>1, <2>2
<1>9. ASSUME NEW o \in Obj, GcUnroot(o) PROVE GCInv'
  <2>1. roots \in Seq(heap) /\ \E i \in DOMAIN roots : roots[i] = o
    BY <1>2, <1>3, <1>9, SeqWithin DEF GcUnroot
  <2>2. roots' \in Seq(heap)
    BY <1>9, <2>1, FirstAtIs, SwapOutType DEF GcUnroot
  <2> QED BY <1>3, <1>5, <1>9, <2>2 DEF GcUnroot, program, collector
<1>10. ASSUME NEW o \in Obj, GcUnrootAll(o) PROVE GCInv'
  <2>1. roots \in Seq(heap)
    BY <1>2, <1>3, SeqWithin
  <2>2. roots' \in Seq(heap)
    BY <1>10, <2>1, UnrootedAllType DEF GcUnrootAll
  <2> QED BY <1>3, <1>5, <1>10, <2>2 DEF GcUnrootAll, program, collector
<1>11. ASSUME NEW c \in Obj, NEW k \in Obj, NEW v \in Obj, Store(c, k, v) PROVE GCInv'
  <2>1. /\ entries' = [entries EXCEPT ![c] = entries[c] \cup {<<k, v>>}]
        /\ {c, k, v} \subseteq regs /\ c \notin Threaded /\ UNCHANGED <<heap, proto, regs, roots, pc>>
    BY <1>11 DEF Store, collector
  <2>2. \A x : x # c => Refs(x)' = Refs(x)
    BY <1>2, <2>1, SameRefs
  <2>3. Refs(c)' \subseteq Refs(c) \cup {k, v}
    <3>1. entries'[c] = entries[c] \cup {<<k, v>>} /\ proto'[c] = proto[c]
      BY <1>2, <2>1
    <3> QED BY <3>1 DEF Refs, ProtoOf
  <2>4. Sound(heap)'
    BY <1>3, <2>1, <2>2, <2>3 DEF Sound
  <2>5. ThreadedAreEmpty'
    BY <1>1, <1>2, <2>1 DEF ThreadedAreEmpty, Threaded
  <2> QED BY <1>4, <2>1, <2>4, <2>5
<1>12. ASSUME NEW c \in Obj, NEW v \in Obj, Load(c, v) PROVE GCInv'
  <2>1. c \in regs /\ v \in Refs(c) /\ regs' = regs \cup {v} /\ UNCHANGED <<heap, entries, proto, roots, pc>>
    BY <1>12, RefsIs DEF Load, collector
  <2> QED BY <1>3, <1>5, <2>1
<1>13. ASSUME NEW c \in Obj, NEW v \in Obj, SetProto(c, v) PROVE GCInv'
  <2>1. /\ proto' = [proto EXCEPT ![c] = v]
        /\ {c, v} \subseteq regs /\ UNCHANGED <<heap, entries, regs, roots, pc>>
    BY <1>13 DEF SetProto, collector
  <2>2. \A x : x # c => Refs(x)' = Refs(x)
    BY <1>2, <2>1, SameRefs
  <2>3. Refs(c)' \subseteq Refs(c) \cup {v}
    <3>1. entries'[c] = entries[c] /\ proto'[c] = v
      BY <1>2, <2>1
    <3> QED BY <3>1 DEF Refs, ProtoOf
  <2>4. Sound(heap)'
    BY <1>3, <2>1, <2>2, <2>3 DEF Sound
  <2>5. ThreadedAreEmpty'
    BY <1>1, <2>1 DEF ThreadedAreEmpty
  <2> QED BY <1>4, <2>1, <2>4, <2>5
<1>14. CASE ClearMemory
  <2>1. pc' = "deinit" /\ entries' = entries
    BY <1>14 DEF ClearMemory
  <2>2. ThreadedAreEmpty'
    BY <1>1, <2>1 DEF ThreadedAreEmpty
  <2> QED BY <2>1, <2>2 DEF GCInv, HeapIsSound, RootsAreThere, MarksOnlyReachable, ForgetsNothing, MarksWhatIsReachable, SweepKeeps
<1> QED BY <1>6, <1>7, <1>8, <1>9, <1>10, <1>11, <1>12, <1>13, <1>14 DEF Program
\* A collection.
LEMMA PendingIs ==
  ASSUME NEW x
  PROVE  x \in Pending <=> \/ \E i \in DOMAIN stack : x \in stack[i]
                           \/ \E i \in next + 1 .. Len(roots) : x = roots[i]
BY DEF Pending

LEMMA StartIs ==
  ASSUME GCTypeOK, orig <= Len(roots)
  PROVE  /\ \A x : x \in Start <=> x \in regs \/ \E i \in 1 .. orig : x = roots[i]
         /\ \A i \in 1 .. orig : i \in DOMAIN roots
<1>1. roots \in Seq(Obj) /\ orig \in Nat
  BY DEF GCTypeOK
<1>2. DOMAIN roots = 1 .. Len(roots) /\ Len(roots) \in Nat
  BY <1>1
<1> QED BY <1>1, <1>2 DEF Start

LEMMA SameObjects ==
  ASSUME UNCHANGED program
  PROVE  /\ \A x : Refs(x)' = Refs(x) /\ Kept(x)' = Kept(x)
         /\ \A S : Closed(S)' <=> Closed(S)
         /\ ThreadedAreEmpty' <=> ThreadedAreEmpty
<1>1. entries' = entries /\ proto' = proto /\ heap' = heap /\ regs' = regs
  BY DEF program
<1>2. \A x : Refs(x)' = Refs(x) /\ Kept(x)' = Kept(x)
  BY <1>1 DEF Refs, ProtoOf, Kept
<1>3. \A S : Closed(S)' <=> Closed(S)
  BY <1>2 DEF Closed
<1> QED BY <1>1, <1>2, <1>3 DEF ThreadedAreEmpty

LEMMA HeapIsClosed ==
  ASSUME GCInv, pc \in {"program", "mark", "weak refs"}
  PROVE  Closed(heap) /\ regs \subseteq heap /\ heap \in SUBSET Obj /\ \A i \in DOMAIN roots : roots[i] \in heap
<1>1. GCTypeOK /\ Sound(heap)
  BY DEF GCInv, HeapIsSound
<1>2. heap \in SUBSET Obj
  BY <1>1 DEF GCTypeOK
<1>3. \A x \in heap : Kept(x) \subseteq heap
  BY <1>1, <1>2, KeptIs DEF Sound
<1> QED BY <1>1, <1>2, <1>3 DEF Sound, Closed

LEMMA CollectKeeps ==
  ASSUME GCInv, GCTypeOK', Collect
  PROVE  GCInv'
<1>1. /\ pc = "program" /\ pc' = "mark" /\ orig' = Len(roots) /\ next' = 0 /\ stack' = <<regs>> /\ marked' = {}
      /\ UNCHANGED program /\ roots' = roots
  BY DEF Collect
<1>2. GCTypeOK /\ ThreadedAreEmpty /\ Sound(heap)
  BY <1>1 DEF GCInv, HeapIsSound
<1>3. Len(roots) \in Nat
  <2>1. roots \in Seq(Obj)
    BY <1>2 DEF GCTypeOK
  <2> QED BY <2>1
<1>4. Sound(heap)'
  BY <1>1, <1>2, SameObjects DEF Sound, program
<1>5. Pending' = Start'
  <2>1. UNION {stack'[i] : i \in DOMAIN stack'} = regs
    BY <1>1
  <2>2. next' + 1 .. Len(roots') = 1 .. orig' /\ regs' = regs
    BY <1>1, <1>3 DEF program
  <2> QED BY <2>1, <2>2 DEF Pending, Start
<1>6. MarksOnlyReachable'
  BY <1>1, <1>5 DEF MarksOnlyReachable
<1>7. ForgetsNothing'
  BY <1>1, <1>5 DEF ForgetsNothing
<1>8. RootsAreThere'
  BY <1>1, <1>3 DEF RootsAreThere
<1> QED BY <1>1, <1>2, <1>4, <1>6, <1>7, <1>8, SameObjects DEF GCInv, HeapIsSound, MarksWhatIsReachable, SweepKeeps

\* What a step of the mark phase may do to what is pending.
LEMMA MarkPhaseKeeps ==
  ASSUME GCInv, GCTypeOK', pc = "mark", pc' = "mark", UNCHANGED <<program, orig>>,
         orig <= Len(roots'), \A i \in 1 .. orig : roots'[i] = roots[i],
         \A i \in DOMAIN roots' : roots'[i] \in marked \cup Pending \/ \E j \in DOMAIN roots : roots'[i] = roots[j],
         NEW new \in SUBSET Obj, new \subseteq Pending, marked' = marked \cup new,
         marked \cup Pending \subseteq marked' \cup Pending',
         \A x \in Pending' : x \in Pending \/ \E o \in new : x \in Kept(o),
         \A o \in new : Kept(o) \subseteq Pending'
  PROVE  GCInv'
<1>1. /\ GCTypeOK /\ ThreadedAreEmpty /\ Sound(heap) /\ orig <= Len(roots)
      /\ heap' = heap /\ regs' = regs /\ orig' = orig
  BY DEF GCInv, HeapIsSound, RootsAreThere, program
<1>2. Start' = Start
  BY <1>1 DEF Start
<1>3. \A S : Closed(S)' <=> Closed(S)
  BY SameObjects
<1>4. \A x : Refs(x)' = Refs(x) /\ Kept(x)' = Kept(x)
  BY SameObjects
<1>5. ThreadedAreEmpty'
  BY <1>1, SameObjects
<1>6. marked \cup Pending \subseteq heap
  <2>1. Closed(heap) /\ heap \in SUBSET Obj /\ regs \subseteq heap /\ \A i \in DOMAIN roots : roots[i] \in heap
    BY HeapIsClosed
  <2>2. Start \subseteq heap
    BY <1>1, <2>1, StartIs
  <2> QED BY <2>1, <2>2 DEF GCInv, MarksOnlyReachable
<1>7. Sound(heap)'
  BY <1>1, <1>4, <1>6 DEF Sound
<1>8. ASSUME NEW S \in SUBSET Obj, Closed(S), Start \subseteq S PROVE marked' \cup Pending' \subseteq S
  <2>1. marked \cup Pending \subseteq S
    BY <1>8 DEF GCInv, MarksOnlyReachable
  <2>2. \A o \in new : Kept(o) \subseteq S
    BY <1>8, <2>1 DEF Closed
  <2> QED BY <2>1, <2>2
<1>9. MarksOnlyReachable'
  BY <1>2, <1>3, <1>8 DEF MarksOnlyReachable
<1>10. Start' \subseteq marked' \cup Pending'
  BY <1>2 DEF GCInv, ForgetsNothing
<1>11. \A o \in marked' : Kept(o)' \subseteq marked' \cup Pending'
  <2>1. \A o \in marked : Kept(o) \subseteq marked \cup Pending
    BY DEF GCInv, ForgetsNothing
  <2> QED BY <1>4, <2>1
<1>12. ForgetsNothing'
  BY <1>10, <1>11 DEF ForgetsNothing
<1>13. RootsAreThere'
  BY <1>1 DEF RootsAreThere
<1> QED BY <1>5, <1>7, <1>9, <1>12, <1>13 DEF GCInv, HeapIsSound, MarksWhatIsReachable, SweepKeeps

LEMMA MarkOneKeeps ==
  ASSUME GCInv, GCTypeOK', NEW o \in Obj, MarkOne(o)
  PROVE  GCInv'
<1> DEFINE n == Len(stack)
<1>1. GCTypeOK /\ stack # <<>> /\ o \in Top /\ pc = "mark" /\ pc' = "mark" /\ UNCHANGED <<program, orig, next>>
  BY DEF MarkOne, GCInv
<1>2. /\ stack \in Seq(SUBSET Obj) /\ roots \in Seq(Obj) /\ orig \in Nat /\ next \in 0 .. orig /\ orig <= Len(roots)
      /\ Len(roots) \in Nat /\ marked \subseteq Obj
  BY <1>1 DEF GCTypeOK, GCInv, RootsAreThere
<1>3. n \in Nat /\ n \in DOMAIN stack /\ DOMAIN stack = 1 .. n /\ Top = stack[n] /\ Top \in SUBSET Obj
  BY <1>1, <1>2, StackWithTop DEF Top
<1>4. ASSUME NEW s \in SUBSET Obj
      PROVE  /\ WithTop(s) \in Seq(SUBSET Obj) /\ DOMAIN WithTop(s) = 1 .. n /\ Len(WithTop(s)) = n /\ WithTop(s)[n] = s
             /\ \A i \in 1 .. n : i # n => WithTop(s)[i] = stack[i]
  BY <1>1, StackWithTop
<1> HIDE DEF n
<1>5. o \in Pending
  BY <1>1, <1>3, PendingIs
<1>6. \A x : x \in Pending' <=> \/ \E i \in DOMAIN stack' : x \in stack'[i]
                                \/ \E i \in next + 1 .. Len(roots') : x = roots'[i]
  BY <1>1 DEF Pending
<1>7. CASE stack' = WithTop(Top \ {o})
  <2>1. DOMAIN stack' = 1 .. n /\ stack'[n] = Top \ {o} /\ \A i \in 1 .. n : i # n => stack'[i] = stack[i]
    BY <1>3, <1>4, <1>7
  <2>2. \A x : (\E i \in DOMAIN stack' : x \in stack'[i]) => \E i \in DOMAIN stack : x \in stack[i]
    BY <1>3, <2>1
  <2>3. \A x : (\E i \in DOMAIN stack : x \in stack[i]) => x = o \/ \E i \in DOMAIN stack' : x \in stack'[i]
    BY <1>3, <2>1
  <2>4. CASE roots' = Append(roots, o) /\ marked' = marked
    <3>1. Len(roots') = Len(roots) + 1 /\ roots'[Len(roots) + 1] = o /\ \A i \in 1 .. Len(roots) : roots'[i] = roots[i]
      BY <1>2, <2>4
    <3>2. DOMAIN roots' = 1 .. Len(roots) + 1 /\ DOMAIN roots = 1 .. Len(roots)
      BY <1>2, <2>4
    <3>3. \A x : x \in Pending' => x \in Pending
      <4> SUFFICES ASSUME NEW x, x \in Pending' PROVE x \in Pending
        OBVIOUS
      <4>1. CASE \E i \in DOMAIN stack' : x \in stack'[i]
        BY <2>2, <4>1, PendingIs
      <4>2. CASE \E i \in next + 1 .. Len(roots') : x = roots'[i]
        <5>1. PICK i \in next + 1 .. Len(roots) + 1 : x = roots'[i]
          BY <3>1, <4>2
        <5>2. CASE i = Len(roots) + 1
          BY <1>5, <3>1, <5>1, <5>2
        <5>3. CASE i # Len(roots) + 1
          <6>1. i \in 1 .. Len(roots) /\ i \in next + 1 .. Len(roots)
            BY <1>2, <5>3
          <6>2. x = roots[i]
            BY <3>1, <5>1, <6>1
          <6> QED BY <6>1, <6>2, PendingIs
        <5> QED BY <5>2, <5>3
      <4> QED BY <1>6, <4>1, <4>2
    <3>4. \A x : x \in Pending => x \in Pending'
      BY <1>2, <1>6, <2>3, <3>1, PendingIs
    <3>5. \A i \in DOMAIN roots' : roots'[i] \in marked \cup Pending \/ \E j \in DOMAIN roots : roots'[i] = roots[j]
      BY <1>2, <1>5, <3>1, <3>2
    <3>6. orig <= Len(roots') /\ \A i \in 1 .. orig : roots'[i] = roots[i]
      BY <1>2, <3>1
    <3>7. {} \in SUBSET Obj /\ {} \subseteq Pending /\ marked' = marked \cup {}
      BY <2>4
    <3> QED BY <1>1, <3>3, <3>4, <3>5, <3>6, <3>7, MarkPhaseKeeps
  <2>5. CASE roots' = roots /\ marked' = marked /\ o \in marked
    <3>1. \A x : x \in Pending' => x \in Pending
      BY <1>6, <2>2, <2>5, PendingIs
    <3>2. \A x : x \in Pending => x \in Pending' \/ x = o
      BY <1>6, <2>3, <2>5, PendingIs
    <3>3. {} \in SUBSET Obj /\ {} \subseteq Pending /\ marked' = marked \cup {}
      BY <2>5
    <3>4. \A i \in DOMAIN roots' : roots'[i] \in marked \cup Pending \/ \E j \in DOMAIN roots : roots'[i] = roots[j]
      BY <2>5
    <3>5. marked \cup Pending \subseteq marked' \cup Pending'
      BY <2>5, <3>2
    <3> QED BY <1>1, <1>2, <2>5, <3>1, <3>3, <3>4, <3>5, MarkPhaseKeeps
  <2>6. \/ roots' = Append(roots, o) /\ marked' = marked
        \/ roots' = roots /\ marked' = marked /\ o \in marked
        \/ stack' = Append(WithTop((Top \ {o}) \cup ProtoOf(o)), StrongSides(o))
    BY DEF MarkOne, Deeper
  <2>7. stack' # Append(WithTop((Top \ {o}) \cup ProtoOf(o)), StrongSides(o))
    <3>1. (Top \ {o}) \cup ProtoOf(o) \in SUBSET Obj
      BY <1>1, <1>3, KeptIs
    <3>2. Len(WithTop((Top \ {o}) \cup ProtoOf(o))) = n /\ WithTop((Top \ {o}) \cup ProtoOf(o)) \in Seq(SUBSET Obj)
      BY <1>4, <3>1
    <3>3. Len(Append(WithTop((Top \ {o}) \cup ProtoOf(o)), StrongSides(o))) = n + 1
      BY <3>2
    <3>4. Len(stack') = n
      BY <1>3, <1>4, <1>7
    <3> QED BY <1>3, <3>3, <3>4
  <2> QED BY <2>4, <2>5, <2>6, <2>7
<1>8. CASE /\ marked' = marked \cup {o} /\ roots' = roots
           /\ stack' = Append(WithTop((Top \ {o}) \cup ProtoOf(o)), StrongSides(o))
  <2> DEFINE s == (Top \ {o}) \cup ProtoOf(o)
             u == WithTop(s)
  <2>1. /\ s \in SUBSET Obj /\ StrongSides(o) \in SUBSET Obj /\ Kept(o) = StrongSides(o) \cup ProtoOf(o)
    BY <1>1, <1>3, KeptIs
  <2>2. /\ u \in Seq(SUBSET Obj) /\ DOMAIN u = 1 .. n /\ Len(u) = n /\ u[n] = s
        /\ \A i \in 1 .. n : i # n => u[i] = stack[i]
    BY <1>4, <2>1
  <2>3. stack' = Append(u, StrongSides(o)) /\ s = (Top \ {o}) \cup ProtoOf(o)
    BY <1>8
  <2> HIDE DEF s, u
  <2>4. /\ DOMAIN stack' = 1 .. n + 1 /\ stack'[n + 1] = StrongSides(o) /\ stack'[n] = s
        /\ \A i \in 1 .. n : i # n => stack'[i] = stack[i]
    BY <1>3, <2>2, <2>3
  <2>5. \A x : (\E i \in DOMAIN stack' : x \in stack'[i]) => x \in Kept(o) \/ \E i \in DOMAIN stack : x \in stack[i]
    <3> SUFFICES ASSUME NEW x, NEW i \in 1 .. n + 1, x \in stack'[i]
                 PROVE  x \in Kept(o) \/ \E j \in DOMAIN stack : x \in stack[j]
      BY <2>4
    <3>1. CASE i = n + 1
      BY <2>1, <2>4, <3>1
    <3>2. CASE i = n
      BY <1>3, <2>1, <2>3, <2>4, <3>2
    <3>3. CASE i \in 1 .. n /\ i # n
      BY <1>3, <2>4, <3>3
    <3> QED BY <1>3, <3>1, <3>2, <3>3
  <2>6. \A x : (\E i \in DOMAIN stack : x \in stack[i]) => x = o \/ \E i \in DOMAIN stack' : x \in stack'[i]
    <3> SUFFICES ASSUME NEW x, NEW i \in 1 .. n, x \in stack[i], x # o
                 PROVE  \E j \in DOMAIN stack' : x \in stack'[j]
      BY <1>3
    <3>1. CASE i = n
      BY <1>3, <2>3, <2>4, <3>1
    <3>2. CASE i # n
      BY <1>3, <2>4, <3>2
    <3> QED BY <3>1, <3>2
  <2>7. \A x \in Kept(o) : \E i \in DOMAIN stack' : x \in stack'[i]
    <3>1. n \in DOMAIN stack' /\ n + 1 \in DOMAIN stack'
      BY <1>3, <2>4
    <3> QED BY <2>1, <2>3, <2>4, <3>1
  <2>8. \A x : x \in Pending' => x \in Pending \/ x \in Kept(o)
    BY <1>6, <1>8, <2>5, PendingIs
  <2>9. \A x : x \in Pending => x \in Pending' \/ x = o
    BY <1>6, <1>8, <2>6, PendingIs
  <2>10. Kept(o) \subseteq Pending'
    BY <1>6, <2>7
  <2>11. {o} \in SUBSET Obj /\ {o} \subseteq Pending
    BY <1>5
  <2>12. marked \cup Pending \subseteq marked' \cup Pending'
    BY <1>8, <2>9
  <2>13. \A x \in Pending' : x \in Pending \/ \E q \in {o} : x \in Kept(q)
    BY <2>8
  <2>14. \A q \in {o} : Kept(q) \subseteq Pending'
    BY <2>10
  <2>15. \A i \in DOMAIN roots' : roots'[i] \in marked \cup Pending \/ \E j \in DOMAIN roots : roots'[i] = roots[j]
    BY <1>8
  <2> QED BY <1>1, <1>2, <1>8, <2>11, <2>12, <2>13, <2>14, <2>15, MarkPhaseKeeps
<1> QED BY <1>7, <1>8 DEF MarkOne
LEMMA ReturnKeeps ==
  ASSUME GCInv, GCTypeOK', Return
  PROVE  GCInv'
<1> DEFINE n == Len(stack)
<1>1. /\ stack \in Seq(SUBSET Obj) /\ stack # <<>> /\ Top = {} /\ stack' = SubSeq(stack, 1, n - 1)
      /\ orig <= Len(roots) /\ pc = "mark" /\ pc' = "mark" /\ UNCHANGED <<program, orig, next, marked, roots>>
  BY DEF Return, GCInv, GCTypeOK, RootsAreThere
<1>2. n \in Nat /\ n # 0 /\ DOMAIN stack = 1 .. n /\ stack[n] = {}
  BY <1>1, EmptySeq DEF Top
<1>3. DOMAIN stack' = 1 .. n - 1 /\ \A i \in 1 .. n - 1 : stack'[i] = stack[i]
  BY <1>1, <1>2
<1> HIDE DEF n
<1>4. \A x : (\E i \in DOMAIN stack' : x \in stack'[i]) <=> (\E i \in DOMAIN stack : x \in stack[i])
  <2>1. \A i \in 1 .. n : i # n => i \in 1 .. n - 1
    BY <1>2
  <2>2. \A i \in 1 .. n - 1 : i \in 1 .. n
    BY <1>2
  <2> QED BY <1>2, <1>3, <2>1, <2>2
<1>5. \A x : x \in Pending' <=> x \in Pending
  <2>1. \A x : x \in Pending' <=> \/ \E i \in DOMAIN stack' : x \in stack'[i]
                                  \/ \E i \in next + 1 .. Len(roots) : x = roots[i]
    BY <1>1 DEF Pending
  <2> QED BY <1>4, <2>1, PendingIs
<1>6. {} \in SUBSET Obj /\ {} \subseteq Pending /\ marked' = marked \cup {}
  BY <1>1
<1> QED BY <1>1, <1>5, <1>6, MarkPhaseKeeps

LEMMA NextRootKeeps ==
  ASSUME GCInv, GCTypeOK', NextRoot
  PROVE  GCInv'
<1>1. /\ stack = <<>> /\ next < orig /\ stack' = <<{roots[next + 1]}>> /\ next' = next + 1
      /\ orig <= Len(roots) /\ pc = "mark" /\ pc' = "mark" /\ UNCHANGED <<program, orig, marked, roots>>
      /\ roots \in Seq(Obj) /\ orig \in Nat /\ next \in 0 .. orig
  BY DEF NextRoot, GCInv, GCTypeOK, RootsAreThere
<1>2. \A x : (\E i \in DOMAIN stack' : x \in stack'[i]) <=> x = roots[next + 1]
  BY <1>1
<1>3. \A x : ~\E i \in DOMAIN stack : x \in stack[i]
  BY <1>1
<1>4. \A x : x \in Pending' <=> x = roots[next + 1] \/ \E i \in next + 2 .. Len(roots) : x = roots[i]
  <2>1. \A x : x \in Pending' <=> \/ \E i \in DOMAIN stack' : x \in stack'[i]
                                  \/ \E i \in next' + 1 .. Len(roots') : x = roots'[i]
    BY DEF Pending
  <2>2. next' + 1 = next + 2 /\ roots' = roots
    BY <1>1
  <2> QED BY <1>2, <2>1, <2>2
<1>5. \A i : i \in next + 1 .. Len(roots) <=> i = next + 1 \/ i \in next + 2 .. Len(roots)
  <2>1. Len(roots) \in Nat
    BY <1>1
  <2> QED BY <1>1, <2>1
<1>6. \A x : x \in Pending' <=> x \in Pending
  BY <1>3, <1>4, <1>5, PendingIs
<1>7. {} \in SUBSET Obj /\ {} \subseteq Pending /\ marked' = marked \cup {}
  BY <1>1
<1> QED BY <1>1, <1>6, <1>7, MarkPhaseKeeps

LEMMA OverflowRootKeeps ==
  ASSUME GCInv, GCTypeOK', OverflowRoot
  PROVE  GCInv'
<1> DEFINE m == Len(roots)
<1>1. /\ stack = <<>> /\ next >= orig /\ orig < m /\ stack' = <<{roots[m]}>> /\ roots' = SubSeq(roots, 1, m - 1)
      /\ pc = "mark" /\ pc' = "mark" /\ UNCHANGED <<program, orig, next, marked>>
      /\ roots \in Seq(Obj) /\ orig \in Nat /\ next \in 0 .. orig
  BY DEF OverflowRoot, PopRoot, GCInv, GCTypeOK
<1>2. \A x : (\E i \in DOMAIN stack' : x \in stack'[i]) <=> x = roots[m]
  BY <1>1
<1>3. \A x : ~\E i \in DOMAIN stack : x \in stack[i]
  BY <1>1
<1>4. m \in Nat /\ Len(roots') = m - 1 /\ DOMAIN roots' = 1 .. m - 1 /\ DOMAIN roots = 1 .. m
  BY <1>1
<1>5. \A i \in 1 .. m - 1 : roots'[i] = roots[i] /\ i \in 1 .. m
  BY <1>1
<1>6. \A x : x \in Pending' <=> x = roots[m] \/ \E i \in next + 1 .. m - 1 : x = roots'[i]
  <2>1. \A x : x \in Pending' <=> \/ \E i \in DOMAIN stack' : x \in stack'[i]
                                  \/ \E i \in next' + 1 .. Len(roots') : x = roots'[i]
    BY DEF Pending
  <2> QED BY <1>1, <1>2, <1>4, <2>1
<1> HIDE DEF m
<1>7. \A i : i \in next + 1 .. m <=> i = m \/ i \in next + 1 .. m - 1
  BY <1>1, <1>4
<1>8. \A i \in next + 1 .. m - 1 : roots'[i] = roots[i]
  <2>1. \A i \in next + 1 .. m - 1 : i \in 1 .. m - 1
    BY <1>1, <1>4
  <2> QED BY <1>5, <2>1
<1>9. \A x : x \in Pending' <=> x \in Pending
  BY <1>3, <1>6, <1>7, <1>8, PendingIs DEF m
<1>10. {} \in SUBSET Obj /\ {} \subseteq Pending /\ marked' = marked \cup {}
  BY <1>1
<1>11. orig <= Len(roots') /\ \A i \in 1 .. orig : roots'[i] = roots[i]
  BY <1>1, <1>4, <1>5
<1>12. \A i \in DOMAIN roots' : \E j \in DOMAIN roots : roots'[i] = roots[j]
  BY <1>4, <1>5
<1> QED BY <1>1, <1>9, <1>10, <1>11, <1>12, MarkPhaseKeeps

\* What marking leaves is what can be reached.
LEMMA ReachableIsLeast ==
  ASSUME GCTypeOK
  PROVE  /\ \A S \in SUBSET Obj : Closed(S) /\ regs \subseteq S /\ (\A i \in DOMAIN roots : roots[i] \in S) => Reachable \subseteq S
         /\ Closed(Reachable) /\ regs \subseteq Reachable /\ (\A i \in DOMAIN roots : roots[i] \in Reachable)
         /\ Reachable \subseteq Obj
<1> DEFINE Holds(S) == Closed(S) /\ regs \subseteq S /\ \A i \in DOMAIN roots : roots[i] \in S
<1>1. \A x : x \in Reachable <=> x \in Obj /\ \A S \in SUBSET Obj : Holds(S) => x \in S
  BY DEF Reachable
<1>2. regs \subseteq Obj /\ \A i \in DOMAIN roots : roots[i] \in Obj
  <2>1. regs \subseteq Obj /\ roots \in Seq(Obj)
    BY DEF GCTypeOK
  <2> QED BY <2>1
<1>3. \A x \in Reachable : Kept(x) \subseteq Reachable
  <2> SUFFICES ASSUME NEW x \in Reachable, NEW y \in Kept(x), NEW S \in SUBSET Obj, Holds(S) PROVE y \in S /\ y \in Obj
    BY <1>1, KeptIs
  <2>1. x \in S
    BY <1>1
  <2> QED BY <2>1 DEF Closed
<1>4. regs \subseteq Reachable
  BY <1>1, <1>2
<1>5. \A i \in DOMAIN roots : roots[i] \in Reachable
  BY <1>1, <1>2
<1>6. \A S \in SUBSET Obj : Holds(S) => Reachable \subseteq S
  BY <1>1
<1> HIDE DEF Reachable
<1> QED BY <1>1, <1>3, <1>4, <1>5, <1>6 DEF Closed

LEMMA MarkDoneKeeps ==
  ASSUME GCInv, GCTypeOK', MarkDone
  PROVE  GCInv'
<1>1. /\ stack = <<>> /\ next >= orig /\ orig = Len(roots) /\ pc = "mark" /\ pc' = "weak refs"
      /\ UNCHANGED <<program, roots, orig, next, stack, marked>>
      /\ orig \in Nat /\ next \in 0 .. orig /\ GCTypeOK /\ ThreadedAreEmpty /\ Sound(heap) /\ roots \in Seq(Obj)
  BY DEF MarkDone, GCInv, GCTypeOK, HeapIsSound
<1>2. \A x : x \notin Pending
  <2>1. stack = <<>> /\ next >= orig /\ orig = Len(roots) /\ orig \in Nat /\ next \in 0 .. orig
    BY <1>1
  <2>2. \A x : ~\E i \in DOMAIN stack : x \in stack[i]
    BY <2>1
  <2>3. next = orig
    BY <2>1
  <2>4. next + 1 .. Len(roots) = {}
    BY <2>1, <2>3
  <2> QED BY <2>2, <2>4, PendingIs
<1>3. \A x : x \in Start <=> x \in regs \/ \E i \in DOMAIN roots : x = roots[i]
  <2>1. roots \in Seq(Obj) /\ orig = Len(roots)
    BY <1>1
  <2>2. DOMAIN roots = 1 .. orig
    BY <2>1
  <2> QED BY <2>2 DEF Start
<1>4. Closed(marked) /\ Start \subseteq marked /\ marked \in SUBSET Obj
  <2>1. \A o \in marked : Kept(o) \subseteq marked \cup Pending
    BY <1>1 DEF GCInv, ForgetsNothing
  <2>2. Start \subseteq marked \cup Pending
    BY <1>1 DEF GCInv, ForgetsNothing
  <2> QED BY <1>1, <1>2, <2>1, <2>2 DEF Closed, GCTypeOK
<1>5. \A S \in SUBSET Obj : Closed(S) /\ Start \subseteq S => marked \subseteq S
  BY <1>1 DEF GCInv, MarksOnlyReachable
<1>6. marked = Reachable
  <2>1. Reachable \subseteq marked
    BY <1>1, <1>3, <1>4, ReachableIsLeast
  <2>2. Closed(Reachable) /\ Reachable \in SUBSET Obj /\ regs \subseteq Reachable /\ \A i \in DOMAIN roots : roots[i] \in Reachable
    BY <1>1, ReachableIsLeast
  <2>3. Start \subseteq Reachable
    BY <1>3, <2>2
  <2> QED BY <1>5, <2>1, <2>2, <2>3
<1>7. Reachable' = Reachable
  <2>1. roots' = roots /\ regs' = regs /\ \A S : Closed(S)' <=> Closed(S)
    BY <1>1, SameObjects DEF program
  <2> QED BY <2>1 DEF Reachable
<1>8. Sound(heap)'
  <2>1. \A x : Refs(x)' = Refs(x)
    BY <1>1, SameObjects
  <2> QED BY <1>1, <2>1 DEF Sound, program
<1>9. RootsAreThere' /\ MarksWhatIsReachable'
  BY <1>1, <1>6, <1>7 DEF RootsAreThere, MarksWhatIsReachable
<1> QED BY <1>1, <1>8, <1>9, SameObjects DEF GCInv, HeapIsSound, MarksOnlyReachable, ForgetsNothing, SweepKeeps
LEMMA KindsDiffer ==
  /\ Weak \cap Plain = {} /\ Weak \cap Threaded = {} /\ Plain \cap Threaded = {}
  /\ Obj = Weak \cup Plain \cup Threaded
<1>1. \A o \in Obj : Kind[o] \in {"plain", "weakk", "weakv", "weakkv", "threaded"}
  OBVIOUS
<1> QED BY <1>1 DEF Weak, Plain, Threaded

\* After the pass over weak references, what is marked holds nothing else.
LEMMA SweepWeakRefsKeeps ==
  ASSUME GCInv, GCTypeOK', SweepWeakRefs
  PROVE  GCInv'
<1>1. /\ pc = "weak refs" /\ pc' = "weak blocks" /\ UNCHANGED <<heap, proto, regs, roots, orig, next, stack, marked>>
      /\ entries' = [o \in Obj |-> IF o \in Weak \cap marked
                                   THEN {p \in entries[o] : ~DropsEntry(o, p)} ELSE entries[o]]
  BY DEF SweepWeakRefs
<1>2. GCTypeOK /\ ThreadedAreEmpty /\ marked = Reachable
  BY <1>1 DEF GCInv, MarksWhatIsReachable
<1>3. /\ Closed(marked) /\ regs \subseteq marked /\ (\A i \in DOMAIN roots : roots[i] \in marked) /\ marked \subseteq Obj
  BY <1>2, ReachableIsLeast
<1>4. marked \subseteq heap
  BY <1>1, <1>2, HeapIsClosed, ReachableIsLeast
<1>5. Survivors' = marked
  BY <1>1 DEF Survivors
<1>6. \A o \in Obj : entries'[o] \subseteq entries[o]
  BY <1>1
<1>7. ThreadedAreEmpty'
  BY <1>2, <1>6 DEF ThreadedAreEmpty, Threaded
<1>8. \A o \in marked : Refs(o)' \subseteq marked
  <2> SUFFICES ASSUME NEW o \in marked, NEW y \in Refs(o)' PROVE y \in marked
    OBVIOUS
  <2>1. o \in Obj /\ Kept(o) \subseteq marked /\ Kept(o) = StrongSides(o) \cup ProtoOf(o)
    BY <1>2, <1>3, KeptIs DEF Closed
  <2>2. (\E p \in entries'[o] : y = p[1] \/ y = p[2]) \/ (y = proto[o] /\ y # NoProto)
    BY <1>1 DEF Refs, ProtoOf
  <2>3. CASE y = proto[o] /\ y # NoProto
    BY <2>1, <2>3 DEF ProtoOf
  <2>4. ASSUME NEW p \in entries'[o], y = p[1] \/ y = p[2] PROVE y \in marked
    <3>1. p \in entries[o]
      BY <1>6, <2>1
    <3>2. o \in Weak => ~DropsEntry(o, p)
      BY <1>1, <2>1
    <3>3. Kind[o] \in {"plain", "weakk", "weakv", "weakkv", "threaded"}
      BY <2>1
    <3>4. CASE Kind[o] = "plain"
      <4>1. y \in StrongSides(o)
        BY <2>4, <3>1, <3>4 DEF StrongSides
      <4> QED BY <2>1, <4>1
    <3>5. CASE Kind[o] = "weakk"
      <4>1. p[2] \in StrongSides(o)
        BY <3>1, <3>5 DEF StrongSides
      <4>2. p[1] \in marked
        BY <2>1, <3>2, <3>5 DEF Weak, DropsEntry, LiveRef
      <4> QED BY <2>1, <2>4, <4>1, <4>2
    <3>6. CASE Kind[o] = "weakv"
      <4>1. p[1] \in StrongSides(o)
        BY <3>1, <3>6 DEF StrongSides
      <4>2. p[2] \in marked
        BY <2>1, <3>2, <3>6 DEF Weak, DropsEntry, LiveRef
      <4> QED BY <2>1, <2>4, <4>1, <4>2
    <3>7. CASE Kind[o] = "weakkv"
      BY <2>1, <2>4, <3>2, <3>7 DEF Weak, DropsEntry, LiveRef
    <3>8. CASE Kind[o] = "threaded"
      BY <1>2, <2>1, <3>1, <3>8 DEF ThreadedAreEmpty, Threaded
    <3> QED BY <3>3, <3>4, <3>5, <3>6, <3>7, <3>8
  <2> QED BY <2>2, <2>3, <2>4
<1>9. SweepKeeps'
  BY <1>1, <1>3, <1>4, <1>5, <1>8 DEF SweepKeeps, Sound
<1> QED BY <1>1, <1>7, <1>9 DEF GCInv, HeapIsSound, RootsAreThere, MarksOnlyReachable, ForgetsNothing, MarksWhatIsReachable

LEMMA SweepBlocksKeeps ==
  ASSUME GCInv, GCTypeOK',
         \/ SweepBlocks(Weak, "weak blocks", "blocks")
         \/ SweepBlocks(Plain, "blocks", "threaded")
         \/ SweepBlocks(Threaded, "threaded", "program")
  PROVE  GCInv'
<1>1. /\ pc \in {"weak blocks", "blocks", "threaded"} /\ UNCHANGED <<entries, proto, regs, roots, orig, next, stack>>
  BY DEF SweepBlocks
<1>2. ThreadedAreEmpty /\ Survivors \subseteq heap /\ Sound(Survivors) /\ marked \subseteq heap /\ heap \subseteq Obj
  BY <1>1 DEF GCInv, SweepKeeps, Survivors, GCTypeOK
<1>3. \A x : Refs(x)' = Refs(x)
  BY <1>1, SameRefs
<1>4. ThreadedAreEmpty'
  BY <1>1, <1>2 DEF ThreadedAreEmpty
<1>5. CASE SweepBlocks(Weak, "weak blocks", "blocks")
  <2>1. /\ pc = "weak blocks" /\ pc' = "blocks" /\ heap' = heap \ (Weak \ marked) /\ marked' = marked \ Weak
    BY <1>5 DEF SweepBlocks
  <2>2. Survivors = marked /\ Survivors' = marked' \cup (heap' \cap Weak)
    BY <2>1 DEF Survivors
  <2>3. Survivors' = Survivors /\ Survivors' \subseteq heap'
    BY <1>2, <2>1, <2>2
  <2>4. Sound(Survivors)'
    BY <1>1, <1>2, <1>3, <2>3 DEF Sound
  <2> QED BY <1>4, <2>1, <2>3, <2>4
      DEF GCInv, HeapIsSound, RootsAreThere, MarksOnlyReachable, ForgetsNothing, MarksWhatIsReachable, SweepKeeps
<1>6. CASE SweepBlocks(Plain, "blocks", "threaded")
  <2>1. /\ pc = "blocks" /\ pc' = "threaded" /\ heap' = heap \ (Plain \ marked) /\ marked' = marked \ Plain
    BY <1>6 DEF SweepBlocks
  <2>2. /\ Survivors = marked \cup (heap \cap Weak)
        /\ Survivors' = marked' \cup (heap' \cap Weak) \cup (heap' \cap Plain)
    BY <2>1 DEF Survivors
  <2>3. Survivors' = Survivors /\ Survivors' \subseteq heap'
    BY <1>2, <2>1, <2>2, KindsDiffer
  <2>4. Sound(Survivors)'
    BY <1>1, <1>2, <1>3, <2>3 DEF Sound
  <2> QED BY <1>4, <2>1, <2>3, <2>4
      DEF GCInv, HeapIsSound, RootsAreThere, MarksOnlyReachable, ForgetsNothing, MarksWhatIsReachable, SweepKeeps
<1>7. CASE SweepBlocks(Threaded, "threaded", "program")
  <2>1. /\ pc = "threaded" /\ pc' = "program" /\ heap' = heap \ (Threaded \ marked)
    BY <1>7 DEF SweepBlocks
  <2>2. Survivors = marked \cup (heap \cap Weak) \cup (heap \cap Plain)
    BY <2>1 DEF Survivors
  <2>3. heap' = Survivors
    BY <1>2, <2>1, <2>2, KindsDiffer
  <2>4. Sound(heap)'
    BY <1>1, <1>2, <1>3, <2>3 DEF Sound
  <2> QED BY <1>4, <2>1, <2>4
      DEF GCInv, HeapIsSound, RootsAreThere, MarksOnlyReachable, ForgetsNothing, MarksWhatIsReachable, SweepKeeps
<1> QED BY <1>5, <1>6, <1>7

LEMMA GCInvInit ==
  ASSUME InitGC
  PROVE  GCInv
<1>1. /\ heap = {} /\ regs = {} /\ roots = <<>> /\ entries = [o \in Obj |-> {}] /\ proto = [o \in Obj |-> NoProto]
      /\ pc = "program" /\ orig = 0 /\ next = 0 /\ stack = <<>> /\ marked = {}
  BY DEF InitGC
<1>2. GCTypeOK
  BY <1>1 DEF GCTypeOK
<1>3. ThreadedAreEmpty
  BY <1>1 DEF ThreadedAreEmpty, Threaded
<1>4. Sound(heap)
  BY <1>1 DEF Sound
<1> QED BY <1>1, <1>2, <1>3, <1>4
    DEF GCInv, HeapIsSound, RootsAreThere, MarksOnlyReachable, ForgetsNothing, MarksWhatIsReachable, SweepKeeps

LEMMA GCInvStep ==
  ASSUME GCInv, [NextGC]_gcvars
  PROVE  GCInv'
<1>1. GCTypeOK'
  BY TypesStep DEF GCInv
<1>2. CASE UNCHANGED gcvars
  <2>1. UNCHANGED <<heap, entries, proto, regs, roots, pc, orig, next, stack, marked>>
    BY <1>2 DEF gcvars
  <2>2. UNCHANGED program
    BY <2>1 DEF program
  <2>3. /\ Start' = Start /\ Pending' = Pending /\ Survivors' = Survivors
        /\ (\A x : Refs(x)' = Refs(x) /\ Kept(x)' = Kept(x)) /\ (\A S : Closed(S)' <=> Closed(S))
        /\ (ThreadedAreEmpty' <=> ThreadedAreEmpty)
    BY <2>1, <2>2, SameObjects DEF Start, Pending, Survivors
  <2>4. HeapIsSound' /\ RootsAreThere'
    BY <2>1, <2>3 DEF GCInv, HeapIsSound, RootsAreThere, Sound
  <2>5. MarksOnlyReachable' /\ ForgetsNothing'
    BY <2>1, <2>3 DEF GCInv, MarksOnlyReachable, ForgetsNothing
  <2>6. MarksWhatIsReachable'
    BY <2>1, <2>3 DEF GCInv, MarksWhatIsReachable, Reachable
  <2>7. SweepKeeps'
    BY <2>1, <2>3 DEF GCInv, SweepKeeps, Sound
  <2> QED BY <1>1, <2>3, <2>4, <2>5, <2>6, <2>7 DEF GCInv
<1>3. CASE Program
  <2>1. pc = "program"
    BY <1>3 DEF Program, Alloc, Forget, GcRoot, GcUnroot, GcUnrootAll, Store, Load, SetProto, ClearMemory
  <2> QED BY <1>1, <1>3, <2>1, ProgramKeeps
<1>4. CASE Collect
  BY <1>1, <1>4, CollectKeeps
<1>5. CASE MarkPhase
  BY <1>1, <1>5, MarkOneKeeps, ReturnKeeps, NextRootKeeps, OverflowRootKeeps, MarkDoneKeeps DEF MarkPhase
<1>6. CASE Sweep
  BY <1>1, <1>6, SweepWeakRefsKeeps, SweepBlocksKeeps DEF Sweep
<1> QED BY <1>2, <1>3, <1>4, <1>5, <1>6 DEF NextGC

LEMMA RootsAreKept ==
  ASSUME GCInv, [NextGC]_gcvars
  PROVE  KeepsRoots
<1> SUFFICES ASSUME pc # "program"
             PROVE  SubSeq(roots', 1, orig) = SubSeq(roots, 1, orig) /\ (pc' = "weak refs" => Len(roots') = orig)
  BY DEF KeepsRoots
<1>1. roots \in Seq(Obj) /\ orig \in Nat /\ Len(roots) \in Nat
  <2>1. roots \in Seq(Obj) /\ orig \in Nat
    BY DEF GCInv, GCTypeOK
  <2> QED BY <2>1
<1>2. CASE UNCHANGED gcvars
  <2>1. UNCHANGED <<roots, pc>>
    BY <1>2 DEF gcvars
  <2>2. pc = "weak refs" => Len(roots) = orig
    BY DEF GCInv, RootsAreThere
  <2> QED BY <2>1, <2>2
<1>3. CASE MarkPhase
  <2>1. pc = "mark" /\ orig <= Len(roots)
    BY <1>3 DEF MarkPhase, MarkOne, Return, NextRoot, OverflowRoot, MarkDone, GCInv, RootsAreThere
  <2>2. ASSUME NEW o \in Obj, MarkOne(o)
        PROVE  pc' = pc /\ SubSeq(roots', 1, orig) = SubSeq(roots, 1, orig)
    <3>1. roots' = roots \/ roots' = Append(roots, o)
      BY <2>2 DEF MarkOne, Deeper
    <3>2. ASSUME roots' = Append(roots, o) PROVE SubSeq(roots', 1, orig) = SubSeq(roots, 1, orig)
      <4>1. /\ roots' \in Seq(Obj) /\ Len(roots') = Len(roots) + 1
            /\ \A i \in 1 .. Len(roots) : roots'[i] = roots[i]
        BY <1>1, <3>2
      <4> QED BY <1>1, <2>1, <4>1
    <3> QED BY <2>2, <3>1, <3>2 DEF MarkOne
  <2>3. CASE Return \/ NextRoot
    BY <2>3 DEF Return, NextRoot
  <2>4. CASE OverflowRoot
    <3>1. orig < Len(roots) /\ roots' = SubSeq(roots, 1, Len(roots) - 1) /\ pc' = pc
      BY <2>4 DEF OverflowRoot, PopRoot
    <3> DEFINE m == Len(roots) - 1
    <3>2. m \in Nat /\ orig <= m /\ \A i \in 1 .. m : i \in 1 .. Len(roots)
      BY <1>1, <3>1
    <3>3. \A i \in 1 .. m : roots[i] \in Obj
      BY <1>1, <3>2
    <3>4. roots' = [i \in 1 .. m |-> roots[i]]
      BY <1>1, <3>1, <3>2
    <3> HIDE DEF m
    <3>5. roots' \in Seq(Obj) /\ Len(roots') = m
      BY <3>2, <3>3, <3>4
    <3>6. \A i \in 1 .. m : roots'[i] = roots[i]
      BY <3>4
    <3>7. SubSeq(roots', 1, orig) = SubSeq(roots, 1, orig)
      BY <1>1, <2>1, <3>2, <3>5, <3>6
    <3> QED BY <2>1, <3>1, <3>7
  <2>5. CASE MarkDone
    BY <2>5 DEF MarkDone
  <2> QED BY <1>3, <2>1, <2>2, <2>3, <2>4, <2>5 DEF MarkPhase
<1>4. CASE Sweep
  BY <1>4 DEF Sweep, SweepWeakRefs, SweepBlocks
<1>5. ~Program /\ ~Collect
  BY DEF Program, Alloc, Forget, GcRoot, GcUnroot, GcUnrootAll, Store, Load, SetProto, ClearMemory, Collect
<1> QED BY <1>2, <1>3, <1>4, <1>5 DEF NextGC

LEMMA DeadAreDropped ==
  ASSUME GCInv, [NextGC]_gcvars
  PROVE  DropsOnlyDead
<1> SUFFICES ASSUME pc = "weak refs", NEW o \in Obj, NEW p \in entries[o] \ entries'[o]
             PROVE  ~({p[1], p[2]} \subseteq Reachable \ Threaded)
  BY DEF DropsOnlyDead
<1>1. ~Program /\ ~Collect /\ ~MarkPhase
  BY DEF Program, Alloc, Forget, GcRoot, GcUnroot, GcUnrootAll, Store, Load, SetProto, ClearMemory, Collect,
         MarkPhase, MarkOne, Return, NextRoot, OverflowRoot, MarkDone
<1>2. entries' # entries
  OBVIOUS
<1>3. SweepWeakRefs
  BY <1>1, <1>2 DEF NextGC, Sweep, SweepBlocks, gcvars
<1>4. DropsEntry(o, p)
  BY <1>3 DEF SweepWeakRefs
<1>5. marked = Reachable
  BY DEF GCInv, MarksWhatIsReachable
<1> QED BY <1>4, <1>5 DEF DropsEntry, LiveRef

(* A collection, for any objects, kinds, roots and depth of the guard:       *)
(* nothing a program can get hold of is freed, what is marked is exactly     *)
(* what can be reached, the roots survive their use as a stack, and a weak   *)
(* reference goes only with what it refers to.                               *)
THEOREM GCIsSafe == GCSpec => CollectsTheDead
<1>1. InitGC => GCInv
  BY GCInvInit
<1>2. GCInv /\ [NextGC]_gcvars => GCInv'
  BY GCInvStep
<1>3. GCInv => NoDangling /\ MarksWhatIsReachable
  BY DEF GCInv, HeapIsSound, Sound, NoDangling
<1>4. GCInv /\ [NextGC]_gcvars => KeepsRoots /\ DropsOnlyDead
  BY RootsAreKept, DeadAreDropped
<1> QED BY <1>1, <1>2, <1>3, <1>4, PTL DEF GCSpec, CollectsTheDead

HIDE GCAssumption
=============================================================================
