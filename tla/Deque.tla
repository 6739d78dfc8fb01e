------------------------------- MODULE Deque -------------------------------
(* What a JanetQueue promises: a sequence that grows at both ends, shrinks   *)
(* at the front, and refuses a push only when it holds MaxCount items.       *)
EXTENDS Naturals, Sequences
CONSTANTS Items, MaxCount
VARIABLE q

Init == q = <<>>
PushTail == Len(q) < MaxCount /\ \E x \in Items : q' = Append(q, x)
PushHead == Len(q) < MaxCount /\ \E x \in Items : q' = <<x>> \o q
Pop == q # <<>> /\ q' = Tail(q)

Next == PushTail \/ PushHead \/ Pop
Spec == Init /\ [][Next]_q
=============================================================================
