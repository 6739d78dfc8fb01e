----------------------------- MODULE JanetQueue -----------------------------
(***************************************************************************)
(* The ring buffer under the spawn queue and under the three queues of a   *)
(* channel ("ev.c").  head and tail are offsets into data; they are equal  *)
(* exactly when the queue is empty, so one cell always stays free.  data   *)
(* is realloc'ed before a push that would fill it; a part that wraps       *)
(* around is moved up to the new end.                                      *)
(***************************************************************************)
EXTENDS Integers, Sequences

CONSTANTS Items,
          Junk,         \* what realloc'ed cells hold
          MaxCapacity   \* JANET_MAX_Q_CAPACITY

ASSUME QueueAssumption == MaxCapacity \in Nat /\ MaxCapacity >= 4 /\ Junk \notin Items

VARIABLES data, head, tail, capacity
vars == <<data, head, tail, capacity>>

Count(h, t, cap) == IF h > t THEN t + cap - h ELSE t - h

MustGrow == Count(head, tail, capacity) + 1 >= capacity

Refused == MustGrow /\ Count(head, tail, capacity) + 1 >= MaxCapacity

NewCapacity == LET c == (Count(head, tail, capacity) + 2) * 2
               IN IF c > MaxCapacity THEN MaxCapacity ELSE c

Wraps == head > tail

\* Mutant: the part that is before the wrap stays where it was.
NewHead_Unmoved == head

NewHead == IF Wraps THEN head + (NewCapacity - capacity) ELSE head

(* realloc, then memmove of the part from head to the old end.               *)
Resized ==
  [i \in 0 .. NewCapacity - 1 |->
     IF Wraps /\ i \in NewHead .. NewHead + (capacity - head) - 1 THEN data[i - (NewHead - head)]
     ELSE IF i < capacity THEN data[i] ELSE Junk]

(* janet_q_maybe_resize: what a push finds in (data, head, capacity).        *)
Cells == IF MustGrow THEN Resized ELSE data
Front == IF MustGrow THEN NewHead ELSE head
Cap == IF MustGrow THEN NewCapacity ELSE capacity

Init == data = [i \in {} |-> Junk] /\ head = 0 /\ tail = 0 /\ capacity = 0

Push(x) ==
  /\ ~Refused
  /\ data' = [Cells EXCEPT ![tail] = x]
  /\ tail' = IF tail + 1 < Cap THEN tail + 1 ELSE 0
  /\ head' = Front /\ capacity' = Cap

PushHead(x) ==
  /\ ~Refused
  /\ head' = IF Front - 1 < 0 THEN Front - 1 + Cap ELSE Front - 1
  /\ data' = [Cells EXCEPT ![head'] = x]
  /\ capacity' = Cap /\ UNCHANGED tail

Pop ==
  /\ head # tail
  /\ head' = IF head + 1 < capacity THEN head + 1 ELSE 0
  /\ UNCHANGED <<data, tail, capacity>>

Next == (\E x \in Items : Push(x) \/ PushHead(x)) \/ Pop
Spec == Init /\ [][Next]_vars

-----------------------------------------------------------------------------
(* The contents, from head to tail, and the cells janet_ev_mark goes over.   *)
At(i) == IF head + i < capacity THEN head + i ELSE head + i - capacity
Contents == [i \in 1 .. Count(head, tail, capacity) |-> data[At(i - 1)]]

Marked == IF head <= tail THEN head .. tail - 1
          ELSE (head .. capacity - 1) \cup (0 .. tail - 1)

(* Offsets stay inside data, and capacity grows only as far as it may.       *)
TypeOK ==
  /\ capacity \in 0 .. MaxCapacity
  /\ data \in [0 .. capacity - 1 -> Items \cup {Junk}]
  /\ IF capacity = 0 THEN head = 0 /\ tail = 0
     ELSE head \in 0 .. capacity - 1 /\ tail \in 0 .. capacity - 1

(* No cell between head and tail is one that realloc left undefined: every   *)
(* item pushed is still there after any number of growths and wraps.         *)
NoJunk == \A i \in DOMAIN Contents : Contents[i] \in Items

(* The collector, which goes over the cells by itself (janet_ev_mark),       *)
(* visits each item of the queue and nothing else.                           *)
MarksAll == Marked = {At(i - 1) : i \in DOMAIN Contents}

(* The ring buffer is the queue the event loop takes it for.                 *)
AbstractQueue == INSTANCE Deque WITH q <- Contents, MaxCount <- MaxCapacity - 1
ImplementsDeque == AbstractQueue!Spec

(* Whatever grows, wraps and is collected in between, the values come out    *)
(* in the order they went in: none is lost, freed or made up.                *)
QueueSound == ImplementsDeque /\ []MarksAll
=============================================================================
