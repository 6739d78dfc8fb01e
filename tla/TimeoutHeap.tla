---------------------------- MODULE TimeoutHeap ----------------------------
(***************************************************************************)
(* The timeouts of a VM ("ev.c"): a binary min-heap on their times in the  *)
(* first tq_count elements of tq.  The loop only looks at the first and    *)
(* removes the first.  Indexes count from 0 as in the code; a timeout is   *)
(* its time and, for the rest, a number that no other in the queue has.    *)
(***************************************************************************)
EXTENDS Integers

CONSTANTS MaxWhen,       \* bound: times
          MaxTimeouts    \* bound: timeouts in the queue

ASSUME TimeoutAssumption == MaxWhen \in Nat /\ MaxTimeouts \in Nat

VARIABLES tq, tq_count
tqvars == <<tq, tq_count>>

Swapped(q, i, j) == [q EXCEPT ![i] = q[j], ![j] = q[i]]

Parent(i) == (i - 1) \div 2

(* One round of a loop, which has the queue and an index, and does nothing   *)
(* once it has ended.                                                        *)
Up(s) ==
  IF s.index = 0 \/ s.queue[Parent(s.index)].when <= s.queue[s.index].when THEN s
  ELSE [queue |-> Swapped(s.queue, s.index, Parent(s.index)), index |-> Parent(s.index)]

SiftUp(q, i) ==
  LET round[k \in 0 .. i] == IF k = 0 THEN [queue |-> q, index |-> i] ELSE Up(round[k - 1])
  IN round[i].queue

\* Mutant: only the left child is looked at.
Smallest_Left(q, n, i) == IF 2 * i + 1 < n /\ q[2 * i + 1].when < q[i].when THEN 2 * i + 1 ELSE i

Smallest(q, n, i) ==
  LET l == IF 2 * i + 1 < n /\ q[2 * i + 1].when < q[i].when THEN 2 * i + 1 ELSE i
  IN IF 2 * i + 2 < n /\ q[2 * i + 2].when < q[l].when THEN 2 * i + 2 ELSE l

Down(s, n) ==
  LET c == Smallest(s.queue, n, s.index)
  IN IF c = s.index THEN s ELSE [queue |-> Swapped(s.queue, s.index, c), index |-> c]

SiftDown(q, n) ==
  LET round[k \in 0 .. n] == IF k = 0 THEN [queue |-> q, index |-> 0] ELSE Down(round[k - 1], n)
  IN round[n].queue

(* pop_timeout(0): the last element comes to the front and sinks.            *)
Popped(q, n) == SiftDown([i \in 0 .. n - 2 |-> IF i = 0 THEN q[n - 1] ELSE q[i]], n - 1)

Queued == {tq[i] : i \in 0 .. tq_count - 1}

InitTimeouts == tq = [i \in {} |-> 0] /\ tq_count = 0

Unused == CHOOSE n \in 1 .. MaxTimeouts : /\ n \notin {t.name : t \in Queued}
                                           /\ 1 .. n - 1 \subseteq {t.name : t \in Queued}

AddTimeout(to) ==
  /\ tq' = SiftUp([i \in 0 .. tq_count |-> IF i = tq_count THEN to ELSE tq[i]], tq_count)
  /\ tq_count' = tq_count + 1

PopTimeout == tq_count > 0 /\ tq' = Popped(tq, tq_count) /\ tq_count' = tq_count - 1

NextTimeouts ==
  \/ tq_count < MaxTimeouts /\ \E when \in 0 .. MaxWhen : AddTimeout([name |-> Unused, when |-> when])
  \/ PopTimeout
TimeoutSpec == InitTimeouts /\ [][NextTimeouts]_tqvars

Timeouts == [name : 1 .. MaxTimeouts, when : 0 .. MaxWhen]

(* peek_timeout shows the loop an earliest timeout: none that is due hides   *)
(* behind a later one, whatever was added and removed before.                *)
FirstIsEarliest == \A i \in 1 .. tq_count - 1 : tq[0].when <= tq[i].when

(* No element of the queue is there twice.                                   *)
NoneTwice == \A i, j \in 0 .. tq_count - 1 : tq[i] = tq[j] => i = j

(* A step adds one timeout, or takes away the one that was looked at, and    *)
(* keeps every other.                                                        *)
OneStep ==
  IF tq_count' < tq_count THEN Queued' = Queued \ {tq[0]}
  ELSE \E to \in Timeouts : Queued' = Queued \cup {to}

(* The first timeout is an earliest one, and none is lost or doubled.        *)
TimersInOrder == [](FirstIsEarliest /\ NoneTwice) /\ [][OneStep]_tqvars
=============================================================================
