----------------------------- MODULE SwiftProofs -----------------------------
(***************************************************************************)
(* Two parts of the Swift side that run on one thread: the copy of a value *)
(* out of the VM (ValueCopy) and the evals, defines and resets of the main *)
(* thread, which nest in callbacks (MainJanetRuntime).  Their safety       *)
(* properties hold for every value of the constants, by the inductive      *)
(* invariants IInv of the copy and MainInv of the main thread.             *)
(***************************************************************************)
EXTENDS ValueCopy, MainJanetRuntime, WellFoundedInduction, SequenceTheorems, TLAPS

(***************************************************************************)
(* A leaf takes no container past the limit, and neither does a container  *)
(* none of whose children does so one level further down.                  *)
(***************************************************************************)
LEMMA LeafFits ==
    ASSUME NEW n \in Node, ~IsContainer(n), NEW d \in 0..MaxNesting
    PROVE  Fits(n, d)
<1> SUFFICES ASSUME NEW p \in PathsFrom(n, MaxNesting - d + 1)
             PROVE  \E i \in DOMAIN p : ~IsContainer(p[i])
  BY DEF Fits
<1>1. 1 \in DOMAIN p /\ p[1] = n
  BY BoundsAssumption DEF PathsFrom
<1> QED BY <1>1

LEMMA ContainerFits ==
    ASSUME NEW n \in Node, children[n] \in Seq(Node),
           NEW d \in Nat, d < MaxNesting,
           \A j \in 1..Len(children[n]) : Fits(children[n][j], d + 1)
    PROVE  Fits(n, d)
<1> SUFFICES ASSUME NEW p \in PathsFrom(n, MaxNesting - d + 1)
             PROVE  \E i \in DOMAIN p : ~IsContainer(p[i])
  BY DEF Fits
<1> DEFINE k == MaxNesting - d
           q == [i \in 1..k |-> p[i + 1]]
<1>0. k \in Nat /\ k >= 1 /\ MaxNesting - d + 1 = k + 1 /\ MaxNesting - (d + 1) + 1 = k
  BY BoundsAssumption
<1>1. /\ p \in [1..(k + 1) -> Node]
      /\ p[1] = n
      /\ \A i \in 1..k : p[i + 1] \in Range(children[p[i]])
  BY <1>0 DEF PathsFrom
<1> HIDE DEF k
<1>2. PICK j \in 1..Len(children[n]) : p[2] = children[n][j]
  <2>1. p[2] \in Range(children[n])
    BY <1>0, <1>1
  <2> QED BY <2>1, RangeEquality
<1>3. q \in PathsFrom(p[2], k)
  <2>1. q \in [1..k -> Node] /\ q[1] = p[2]
    BY <1>0, <1>1
  <2>2. ASSUME NEW i \in 1..(k - 1)
        PROVE  q[i + 1] \in Range(children[q[i]])
    <3>1. i + 1 \in 1..k /\ q[i + 1] = p[(i + 1) + 1] /\ q[i] = p[i + 1]
      BY <1>0
    <3> QED BY <1>1, <3>1
  <2> QED BY <2>1, <2>2 DEF PathsFrom
<1>4. PICK i \in DOMAIN q : ~IsContainer(q[i])
  BY <1>0, <1>2, <1>3 DEF Fits
<1>5. i + 1 \in DOMAIN p /\ p[i + 1] = q[i]
  BY <1>0, <1>1, <1>4
<1> QED BY <1>4, <1>5

-----------------------------------------------------------------------------
(***************************************************************************)
(* The inductive invariant, one step per action.  FramesAreAChain and      *)
(* MutablesAreDistinct make it possible to leave a container and know that *)
(* CopyPath is what it was before it was entered; CopiedChildrenFit        *)
(* carries the depth of what has been copied up to the root.               *)
(***************************************************************************)
Stack == FramesAreContainers /\ FramesAreAChain /\ MutablesAreDistinct

LEMMA IInvInit == Init => IInv
<1> SUFFICES ASSUME Init PROVE IInv
  OBVIOUS
<1> USE NodeAssumption, BoundsAssumption
<1>1. TypeOK
  <2>1. children \in [Node -> Seq(Node)]
    BY DEF Init
  <2> QED BY <2>1 DEF Init, TypeOK
<1>2. PathMatchesStack /\ Stack /\ CopiedChildrenFit /\ Outcomes
  BY DEF Init, PathMatchesStack, Stack, FramesAreContainers, FramesAreAChain,
         MutablesAreDistinct, CopiedChildrenFit, Outcomes
<1> QED BY <1>1, <1>2 DEF IInv, Stack

LEMMA HeapStays ==
    ASSUME UNCHANGED heap
    PROVE  /\ \A n, k : PathsFrom(n, k)' = PathsFrom(n, k)
           /\ \A n, d : Fits(n, d)' = Fits(n, d)
           /\ \A n : IsContainer(n)' = IsContainer(n)
           /\ \A n : IsMutable(n)' = IsMutable(n)
BY DEF heap, PathsFrom, Fits, IsContainer, IsMutable

LEMMA IInvNext == IInv /\ [Next]_vars => IInv'
<1> SUFFICES ASSUME IInv, [Next]_vars PROVE IInv'
  OBVIOUS
<1> USE NodeAssumption, BoundsAssumption DEF heap, copyPath
<1>0. /\ TypeOK /\ PathMatchesStack /\ Outcomes /\ CopiedChildrenFit
      /\ FramesAreContainers /\ FramesAreAChain /\ MutablesAreDistinct
  BY DEF IInv
<1>f. /\ frames \in Seq([node : Node, next : Nat \ {0}])
      /\ Len(frames) \in Nat /\ DOMAIN frames = 1..Len(frames)
      /\ \A i \in DOMAIN frames : frames[i].node \in Node /\ frames[i].next \in Nat \ {0}
  <2> DEFINE F == [node : Node, next : Nat \ {0}]
  <2>1. frames \in Seq(F)
    BY <1>0 DEF TypeOK
  <2>2. Len(frames) \in Nat /\ DOMAIN frames = 1..Len(frames)
    BY <2>1, LenProperties
  <2>3. ASSUME NEW i \in 1..Len(frames) PROVE frames[i] \in F
    <3> HIDE DEF F
    <3> QED BY <2>1, ElementOfSeq
  <2>4. \A i \in 1..Len(frames) : frames[i].node \in Node /\ frames[i].next \in Nat \ {0}
    BY <2>3
  <2> QED BY <2>1, <2>2, <2>4
<1>c. \A n \in Node : children[n] \in Seq(Node) /\ Len(children[n]) \in Nat
  BY <1>0 DEF TypeOK
<1>1. CASE CopyLeaf
  <2>0. UNCHANGED heap
    BY <1>1 DEF CopyLeaf
  <2>1. TypeOK' /\ PathMatchesStack' /\ Outcomes'
    BY <1>0, <1>1, <2>0 DEF CopyLeaf, TypeOK, PathMatchesStack, Outcomes, IsMutable
  <2>2. Stack'
    BY <1>0, <1>1, <2>0 DEF CopyLeaf, Stack, FramesAreContainers, FramesAreAChain,
       MutablesAreDistinct, IsContainer, IsMutable, ChildInHand, Top
  <2>3. CopiedChildrenFit'
    <3>1. Fits(todo, Len(frames))
      <4>1. Len(frames) \in 0..MaxNesting /\ todo \in Node /\ ~IsContainer(todo)
        BY <1>0, <1>1 DEF CopyLeaf, TypeOK, PathMatchesStack
      <4> QED BY <4>1, LeafFits
    <3>2. frames = <<>> => todo = Root /\ Len(frames) = 0
      BY <1>0, <1>1 DEF CopyLeaf, FramesAreAChain
    <3>3. frames # <<>> => todo = ChildInHand(Top)
      BY <1>0, <1>1 DEF CopyLeaf, FramesAreAChain
    <3>4. todo # NoNode /\ todo' = NoNode /\ frames' = frames
      BY <1>1 DEF CopyLeaf
    <3>5. ASSUME NEW i \in DOMAIN frames, NEW j \in 1..(frames[i].next - 1),
                 i = Len(frames) \/ j < frames[i].next - 1
          PROVE  Fits(children[frames[i].node][j], i)
      <4>1. CASE j < frames[i].next - 1
        BY <1>0, <4>1 DEF CopiedChildrenFit
      <4>2. CASE i = Len(frames) /\ ~(j < frames[i].next - 1)
        <5>1. frames # <<>> /\ Top = frames[i] /\ j = frames[i].next - 1
          BY <1>f, <4>2 DEF Top
        <5> QED BY <3>1, <3>3, <4>2, <5>1 DEF ChildInHand
      <4> QED BY <3>5, <4>1, <4>2
    <3> QED BY <2>0, <3>1, <3>2, <3>4, <3>5, HeapStays DEF CopiedChildrenFit
  <2> QED BY <2>1, <2>2, <2>3 DEF IInv, Stack
<1>2. CASE EnterFails
  <2>0. UNCHANGED heap
    BY <1>2 DEF EnterFails
  <2>1. TypeOK'
    BY <1>0, <1>2, <2>0 DEF EnterFails, TypeOK
  <2>2. PathMatchesStack'
    BY <1>0, <1>2, <2>0 DEF EnterFails, PathMatchesStack, IsMutable
  <2>3. Stack'
    BY <1>0, <1>2, <2>0 DEF EnterFails, Stack, FramesAreContainers, FramesAreAChain,
       MutablesAreDistinct, IsContainer, IsMutable, ChildInHand, Top
  <2>4. CopiedChildrenFit'
    BY <1>0, <1>2, <2>0, HeapStays DEF EnterFails, CopiedChildrenFit
  <2>5. Outcomes'
    BY <1>0, <1>2, <1>f, <2>0 DEF EnterFails, Outcomes, PathMatchesStack, OnPath, IsMutable,
       IsContainer, TooDeep
  <2> QED BY <2>1, <2>2, <2>3, <2>4, <2>5 DEF IInv, Stack
<1>3. CASE Enter
  <2>0. UNCHANGED heap /\ outcome = "running" /\ outcome' = "running" /\ todo' = NoNode
    BY <1>3 DEF Enter
  <2> DEFINE L == Len(frames) + 1
             f == [node |-> todo, next |-> 1]
  <2>1. todo \in Node /\ IsContainer(todo) /\ f \in [node : Node, next : Nat \ {0}]
    BY <1>0, <1>3 DEF Enter, TypeOK
  <2>2. /\ frames' = Append(frames, f)
        /\ frames' \in Seq([node : Node, next : Nat \ {0}])
        /\ Len(frames') = L /\ DOMAIN frames' = 1..L
        /\ frames'[L] = f
        /\ \A i \in 1..Len(frames) : frames'[i] = frames[i]
    BY <1>3, <1>f, <2>1, AppendProperties DEF Enter
  <2>3. TypeOK'
    BY <1>0, <1>3, <2>0, <2>1, <2>2 DEF Enter, TypeOK
  <2>4. PathMatchesStack'
    <3>1. mutableContainers' = {n \in Node : IsMutable(n) /\ \E i \in DOMAIN frames' : frames'[i].node = n}
      BY <1>0, <1>3, <1>f, <2>1, <2>2 DEF Enter, PathMatchesStack
    <3>2. depth' = L /\ L <= MaxNesting
      BY <1>0, <1>3, <1>f DEF Enter, PathMatchesStack, TooDeep
    <3> QED BY <2>0, <2>2, <3>1, <3>2, HeapStays DEF PathMatchesStack
  <2>5. FramesAreContainers'
    BY <1>0, <1>c, <1>f, <2>0, <2>1, <2>2, HeapStays DEF FramesAreContainers
  <2>6. FramesAreAChain'
    <3>1. frames'[1].node = Root
      BY <1>0, <1>3, <1>f, <2>1, <2>2 DEF Enter, FramesAreAChain
    <3>2. ASSUME NEW i \in 1..(L - 1)
          PROVE  frames'[i].next >= 2 /\ frames'[i + 1].node = children[frames'[i].node][frames'[i].next - 1]
      <4>1. CASE i < Len(frames)
        BY <1>0, <1>f, <2>2, <4>1 DEF FramesAreAChain, ChildInHand
      <4>2. CASE i = Len(frames)
        BY <1>0, <1>3, <1>f, <2>1, <2>2, <4>2 DEF Enter, FramesAreAChain, ChildInHand, Top
      <4> QED BY <1>f, <4>1, <4>2
    <3> QED BY <2>0, <2>2, <3>1, <3>2 DEF FramesAreAChain, ChildInHand
  <2>7. MutablesAreDistinct'
    <3>1. IsMutable(todo) => \A i \in DOMAIN frames : frames[i].node # todo
      BY <1>0, <1>3, <2>1 DEF Enter, OnPath, PathMatchesStack
    <3> QED BY <1>0, <1>f, <2>0, <2>2, <3>1, HeapStays DEF MutablesAreDistinct
  <2>8. CopiedChildrenFit'
    <3>1. ASSUME NEW i \in DOMAIN frames', NEW j \in 1..(frames'[i].next - 1),
                 i = Len(frames') \/ j < frames'[i].next - 1
          PROVE  Fits(children[frames'[i].node][j], i)
      <4>1. i # L
        BY <2>2, <3>1
      <4>2. i \in DOMAIN frames /\ frames'[i] = frames[i] /\ j < frames[i].next - 1
        BY <1>f, <2>2, <3>1, <4>1
      <4> QED BY <1>0, <4>2 DEF CopiedChildrenFit
    <3> QED BY <2>0, <2>2, <3>1, HeapStays DEF CopiedChildrenFit
  <2>9. Outcomes'
    BY <2>0 DEF Outcomes
  <2> QED BY <2>3, <2>4, <2>5, <2>6, <2>7, <2>8, <2>9 DEF IInv
<1>4. CASE CopyChild
  <2> DEFINE L == Len(frames)
             c == children[Top.node][Top.next]
  <2>h. UNCHANGED <<heap, copyPath>>
    BY <1>4 DEF CopyChild
  <2>0. /\ outcome = "running" /\ outcome' = "running"
        /\ todo = NoNode /\ todo' = c /\ frames # <<>> /\ L \in 1..L
        /\ L = Len(frames) /\ L \in Nat
        /\ Top = frames[L] /\ Top.next <= Len(children[Top.node])
    BY <1>4, <1>f DEF CopyChild, InFrame, Top
  <2>1. c \in Node
    BY <1>c, <1>f, <2>0
  <2>2. /\ frames' \in Seq([node : Node, next : Nat \ {0}])
        /\ Len(frames') = L /\ DOMAIN frames' = 1..L
        /\ \A i \in 1..L : frames'[i].node = frames[i].node
        /\ frames'[L].next = frames[L].next + 1
        /\ \A i \in 1..L : i # L => frames'[i] = frames[i]
    <3> DEFINE F == [node : Node, next : Nat \ {0}]
               g == [node |-> frames[L].node, next |-> frames[L].next + 1]
    <3>1. g \in F /\ g.node = frames[L].node /\ g.next = frames[L].next + 1
      BY <1>f, <2>0
    <3>2. frames' = [frames EXCEPT ![L] = [frames[L] EXCEPT !.next = frames[L].next + 1]]
      BY <1>4 DEF CopyChild, Following
    <3>3. frames[L] \in F
      BY <1>f, <2>0, ElementOfSeq
    <3>4. [frames[L] EXCEPT !.next = frames[L].next + 1] = g
      BY <3>3
    <3>5. frames' = [frames EXCEPT ![L] = g]
      BY <3>2, <3>4
    <3> HIDE DEF g, F
    <3>6. /\ frames' \in Seq(F) /\ Len(frames') = L
          /\ \A i \in 1..L : frames'[i] = IF i = L THEN g ELSE frames[i]
      <4>1. frames \in Seq(F)
        BY <1>f DEF F
      <4> QED BY <2>0, <3>1, <3>5, <4>1, ExceptSeq
    <3>7. DOMAIN frames' = 1..L
      BY <3>6, LenProperties
    <3> QED BY <2>0, <3>1, <3>6, <3>7 DEF F
  <2> HIDE DEF L, c
  <2>n. /\ \A i \in 1..L : frames'[i].node = frames[i].node
        /\ frames'[L].next = frames[L].next + 1
        /\ \A i \in 1..L : i # L => frames'[i] = frames[i]
        /\ DOMAIN frames' = 1..L /\ DOMAIN frames = 1..L
        /\ Len(frames') = L
    BY <1>f, <2>0, <2>2
  <2>i. \A i \in 1..L : frames[i].node \in Node /\ frames[i].next \in Nat \ {0}
    BY <1>f, <2>0
  <2>m. \A i \in 1..L : frames'[i].next = IF i = L THEN frames[i].next + 1 ELSE frames[i].next
    BY <2>n
  <2>3. TypeOK'
    BY <1>0, <2>h, <2>0, <2>1, <2>2 DEF TypeOK
  <2>4. PathMatchesStack'
    BY <1>0, <1>f, <2>h, <2>0, <2>2 DEF PathMatchesStack, IsMutable
  <2>5. FramesAreContainers'
    <3>1. ASSUME NEW i \in 1..L
          PROVE  /\ IsContainer(frames'[i].node)
                 /\ frames'[i].next <= Len(children[frames'[i].node]) + 1
      <4>1. IsContainer(frames[i].node) /\ frames[i].next <= Len(children[frames[i].node]) + 1
        BY <1>0, <2>n DEF FramesAreContainers
      <4>2. Len(children[frames[i].node]) \in Nat
        BY <1>c, <2>i
      <4>3. i = L => frames[i].next <= Len(children[frames[i].node])
        BY <2>0
      <4> QED BY <2>n, <2>m, <2>i, <4>1, <4>2, <4>3
    <3> QED BY <2>h, <2>n, <3>1, HeapStays DEF FramesAreContainers
  <2>6. FramesAreAChain'
    <3>1. frames'[1].node = Root
      BY <1>0, <2>0, <2>n DEF FramesAreAChain
    <3>2. ASSUME NEW i \in 1..(L - 1)
          PROVE  frames'[i].next >= 2 /\ frames'[i + 1].node = children[frames'[i].node][frames'[i].next - 1]
      <4>1. i \in 1..L /\ i + 1 \in 1..L /\ i # L
        BY <2>0
      <4>2. frames[i].next >= 2 /\ frames[i + 1].node = ChildInHand(frames[i])
        BY <1>0, <2>0 DEF FramesAreAChain
      <4> QED BY <2>n, <2>m, <4>1, <4>2 DEF ChildInHand
    <3>3. frames'[L].next >= 2 /\ c = children[frames'[L].node][frames'[L].next - 1]
      <4>1. frames[L].next \in Nat \ {0} /\ (frames[L].next + 1) - 1 = frames[L].next
        BY <2>0, <2>i
      <4> QED BY <2>0, <2>n, <4>1 DEF c
    <3>4. frames' # <<>> /\ Top' = frames'[L]
      BY <2>0, <2>n DEF Top
    <3> QED BY <2>h, <2>0, <2>n, <3>1, <3>2, <3>3, <3>4 DEF FramesAreAChain, ChildInHand
  <2>7. MutablesAreDistinct'
    BY <1>0, <1>f, <2>h, <2>0, <2>2, HeapStays DEF MutablesAreDistinct
  <2>8. CopiedChildrenFit'
    <3>1. ASSUME NEW i \in 1..L, NEW j \in 1..(frames'[i].next - 1), j < frames'[i].next - 1
          PROVE  Fits(children[frames'[i].node][j], i)
      <4>1. j \in 1..(frames[i].next - 1) /\ (i = L \/ j < frames[i].next - 1)
        BY <2>n, <2>m, <2>i, <3>1
      <4> QED BY <1>0, <2>0, <2>n, <4>1 DEF CopiedChildrenFit
    <3>2. todo' # NoNode
      BY <2>0, <2>1
    <3> QED BY <2>h, <2>0, <2>2, <3>1, <3>2, HeapStays DEF CopiedChildrenFit
  <2>9. Outcomes'
    BY <2>0 DEF Outcomes
  <2> QED BY <2>3, <2>4, <2>5, <2>6, <2>7, <2>8, <2>9 DEF IInv
<1>5. CASE Leave
  <2> DEFINE L == Len(frames)
             F == [node : Node, next : Nat \ {0}]
             n == frames[L].node
  <2>h. UNCHANGED heap /\ UNCHANGED todo
    BY <1>5 DEF Leave
  <2>0. /\ outcome = "running" /\ outcome' = "running" /\ todo = NoNode
        /\ L \in Nat /\ L >= 1 /\ L = Len(frames)
        /\ Top = frames[L] /\ frames[L].next > Len(children[n])
        /\ frames' = SubSeq(frames, 1, L - 1)
        /\ mutableContainers' = mutableContainers \ {n}
        /\ depth' = depth - 1
    BY <1>5, <1>f DEF Leave, InFrame, Top, DepthAfterLeave, ContainersAfterLeave
  <2>s. frames \in Seq(F)
    BY <1>f
  <2> HIDE DEF L, F
  <2>n. /\ frames' \in Seq(F)
        /\ Len(frames') = L - 1 /\ DOMAIN frames' = 1..(L - 1) /\ DOMAIN frames = 1..L
        /\ \A i \in 1..(L - 1) : frames'[i] = frames[i]
    <3>1. \A i \in 1..(L - 1) : frames[i] \in F
      BY <2>0, <2>s, ElementOfSeq
    <3>2. /\ frames' \in Seq(F)
          /\ Len(frames') = L - 1
          /\ \A i \in 1..(L - 1) : frames'[i] = frames[i]
      BY <2>0, <3>1, SubSeqProperties
    <3> QED BY <2>0, <2>s, <3>2, LenProperties
  <2>i. \A i \in 1..L : frames[i].node \in Node /\ frames[i].next \in Nat \ {0}
    BY <1>f, <2>0
  <2>d. depth = L /\ L <= MaxNesting
    BY <1>0, <2>0 DEF PathMatchesStack
  <2>1. TypeOK'
    <3>1. depth' \in Nat
      BY <2>0, <2>d
    <3>2. mutableContainers' \in SUBSET Node
      BY <1>0, <2>0 DEF TypeOK
    <3>3. frames' \in Seq([node : Node, next : Nat \ {0}])
      BY <2>n DEF F
    <3>4. /\ kind' \in [Node -> Kind]
          /\ children' \in [Node -> Seq(Node)]
          /\ todo' \in Node \cup {NoNode}
      BY <1>0, <2>h DEF TypeOK
    <3> QED BY <2>0, <3>1, <3>2, <3>3, <3>4 DEF TypeOK
  <2>2. PathMatchesStack'
    <3>1. ASSUME NEW m \in Node, IsMutable(m)
          PROVE  m \in mutableContainers' <=> \E i \in 1..(L - 1) : frames'[i].node = m
      <4>1. m \in mutableContainers <=> \E i \in 1..L : frames[i].node = m
        BY <1>0, <2>n, <3>1 DEF PathMatchesStack
      <4>2. ASSUME m = n, NEW i \in 1..(L - 1) PROVE frames[i].node # m
        <5>1. i \in 1..L /\ L \in 1..L /\ i # L
          BY <2>0
        <5> QED BY <1>0, <2>n, <3>1, <4>2, <5>1 DEF MutablesAreDistinct
      <4>3. ASSUME m # n, NEW i \in 1..L, frames[i].node = m PROVE i \in 1..(L - 1)
        BY <2>0, <4>3
      <4>4. ASSUME NEW i \in 1..(L - 1) PROVE i \in 1..L
        BY <2>0
      <4> QED BY <2>0, <2>n, <4>1, <4>2, <4>3, <4>4
    <3>2. mutableContainers' \subseteq {m \in Node : IsMutable(m)}
      BY <1>0, <2>0 DEF PathMatchesStack
    <3>3. mutableContainers' = {m \in Node : IsMutable(m) /\ \E i \in DOMAIN frames' : frames'[i].node = m}
      BY <2>n, <3>1, <3>2
    <3>4. depth' = Len(frames') /\ Len(frames') <= MaxNesting
      BY <2>0, <2>n, <2>d, BoundsAssumption
    <3> QED BY <2>h, <3>3, <3>4, HeapStays DEF PathMatchesStack
  <2>3. FramesAreContainers'
    <3>1. ASSUME NEW i \in 1..(L - 1)
          PROVE  /\ IsContainer(frames'[i].node)
                 /\ frames'[i].next <= Len(children[frames'[i].node]) + 1
      BY <1>0, <2>0, <2>n DEF FramesAreContainers
    <3> QED BY <2>h, <2>n, <3>1, HeapStays DEF FramesAreContainers
  <2>4. FramesAreAChain'
    <3>1. frames' # <<>> => frames'[1].node = Root
      <4>1. frames' # <<>> => 1 \in 1..(L - 1)
        BY <2>0, <2>s, <2>n, EmptySeq
      <4>2. frames # <<>>
        BY <2>0, <2>s, EmptySeq
      <4> QED BY <1>0, <2>n, <4>1, <4>2 DEF FramesAreAChain
    <3>2. ASSUME NEW i \in 1..(L - 1 - 1)
          PROVE  frames'[i].next >= 2 /\ frames'[i + 1].node = children[frames'[i].node][frames'[i].next - 1]
      <4>1. i \in 1..(L - 1) /\ i + 1 \in 1..(L - 1)
        BY <2>0
      <4>2. frames[i].next >= 2 /\ frames[i + 1].node = ChildInHand(frames[i])
        BY <1>0, <2>0, <4>1 DEF FramesAreAChain
      <4> QED BY <2>n, <4>1, <4>2 DEF ChildInHand
    <3> QED BY <2>h, <2>0, <2>n, <3>1, <3>2 DEF FramesAreAChain, ChildInHand
  <2>5. MutablesAreDistinct'
    <3>1. ASSUME NEW i \in 1..(L - 1), NEW j \in 1..(L - 1),
                 IsMutable(frames'[i].node), frames'[i].node = frames'[j].node
          PROVE  i = j
      <4>1. i \in 1..L /\ j \in 1..L
        BY <2>0
      <4> QED BY <1>0, <2>n, <3>1, <4>1 DEF MutablesAreDistinct
    <3> QED BY <2>h, <2>n, <3>1, HeapStays DEF MutablesAreDistinct
  <2>6. Fits(n, L - 1)
    <3>1. n \in Node /\ children[n] \in Seq(Node) /\ Len(children[n]) \in Nat
      BY <1>c, <2>0, <2>i
    <3>2. ASSUME NEW j \in 1..Len(children[n]) PROVE Fits(children[n][j], L)
      <4>1. L \in DOMAIN frames /\ j \in 1..(frames[L].next - 1)
        BY <2>0, <2>n, <2>i, <3>1
      <4> QED BY <1>0, <2>0, <4>1 DEF CopiedChildrenFit
    <3>3. L - 1 \in Nat /\ L - 1 < MaxNesting /\ (L - 1) + 1 = L
      BY <2>0, <2>d, BoundsAssumption
    <3> HIDE DEF n
    <3> QED BY <3>1, <3>2, <3>3, ContainerFits
  <2>7. CopiedChildrenFit'
    <3>1. ASSUME NEW i \in 1..(L - 1), NEW j \in 1..(frames'[i].next - 1),
                 i = L - 1 \/ j < frames'[i].next - 1
          PROVE  Fits(children[frames'[i].node][j], i)
      <4>1. i \in 1..L /\ frames'[i] = frames[i] /\ j \in 1..(frames[i].next - 1)
            /\ frames[i].next \in Nat \ {0}
        BY <2>0, <2>n, <2>i
      <4>2. CASE j < frames[i].next - 1
        BY <1>0, <2>n, <4>1, <4>2 DEF CopiedChildrenFit
      <4>3. CASE i = L - 1 /\ j = frames[i].next - 1
        <5>1. i \in 1..(Len(frames) - 1) /\ i + 1 = L
          BY <2>0, <4>3
        <5>2. n = children[frames[i].node][j]
          BY <1>0, <4>3, <5>1 DEF FramesAreAChain, ChildInHand
        <5> QED BY <2>6, <4>1, <4>3, <5>2
      <4> QED BY <3>1, <4>1, <4>2, <4>3
    <3>2. frames' = <<>> => Fits(Root, 0)
      <4>1. frames' = <<>> => L - 1 = 0
        BY <2>0, <2>n, EmptySeq
      <4>2. frames # <<>>
        BY <2>0, <2>s, EmptySeq
      <4>3. frames[1].node = Root
        BY <1>0, <4>2 DEF FramesAreAChain
      <4> QED BY <2>6, <4>1, <4>3
    <3> QED BY <2>h, <2>0, <2>n, <3>1, <3>2, HeapStays DEF CopiedChildrenFit
  <2>8. Outcomes'
    BY <2>0 DEF Outcomes
  <2> QED BY <2>1, <2>2, <2>3, <2>4, <2>5, <2>7, <2>8 DEF IInv
<1>6. CASE Finish
  <2>0. UNCHANGED <<heap, todo, frames, copyPath>> /\ todo = NoNode /\ frames = <<>>
        /\ outcome = "running" /\ outcome' = "copied"
    BY <1>6 DEF Finish
  <2>1. TypeOK' /\ Outcomes'
    BY <1>0, <2>0 DEF TypeOK, Outcomes
  <2>2. PathMatchesStack'
    BY <1>0, <2>0 DEF PathMatchesStack, IsMutable
  <2>3. Stack'
    BY <1>0, <2>0 DEF Stack, FramesAreContainers, FramesAreAChain, MutablesAreDistinct
  <2>4. CopiedChildrenFit'
    BY <1>0, <2>0, HeapStays DEF CopiedChildrenFit
  <2> QED BY <2>1, <2>2, <2>3, <2>4 DEF IInv, Stack
<1>7. CASE Returned \/ UNCHANGED vars
  <2>0. UNCHANGED vars
    BY <1>7 DEF Returned
  <2>1. TypeOK' /\ Outcomes' /\ PathMatchesStack'
    BY <1>0, <2>0 DEF vars, TypeOK, Outcomes, PathMatchesStack, IsMutable, OnPath, IsContainer
  <2>2. Stack'
    BY <1>0, <2>0 DEF vars, Stack, FramesAreContainers, FramesAreAChain, MutablesAreDistinct,
       IsContainer, IsMutable, ChildInHand, Top
  <2>3. CopiedChildrenFit'
    BY <1>0, <2>0, HeapStays DEF vars, CopiedChildrenFit
  <2> QED BY <2>1, <2>2, <2>3 DEF IInv, Stack
<1> QED BY <1>1, <1>2, <1>3, <1>4, <1>5, <1>6, <1>7 DEF Next, Step

-----------------------------------------------------------------------------
(***************************************************************************)
(* The way down from a container being copied to the value in hand is a    *)
(* path in the heap.                                                       *)
(***************************************************************************)
PathLength(i) == Len(frames) - i + 2
PathToTodo(i) ==
    [j \in 1..PathLength(i) |-> IF j < PathLength(i) THEN frames[i + j - 1].node ELSE todo]

LEMMA WayDown ==
    ASSUME IInv, todo # NoNode, NEW i \in 1..Len(frames)
    PROVE  /\ PathToTodo(i) \in PathsFrom(frames[i].node, PathLength(i))
           /\ \A j \in 1..PathLength(i) :
                  PathToTodo(i)[j] = todo \/ \E m \in 1..Len(frames) : PathToTodo(i)[j] = frames[m].node
<1> DEFINE L == Len(frames)
           k == PathLength(i)
           p == PathToTodo(i)
<1>0. /\ FramesAreContainers /\ FramesAreAChain
      /\ todo \in Node /\ frames \in Seq([node : Node, next : Nat \ {0}])
      /\ children \in [Node -> Seq(Node)]
  BY DEF IInv, TypeOK
<1>1. L \in Nat /\ DOMAIN frames = 1..L
  BY <1>0, LenProperties
<1>2. \A m \in 1..L : frames[m].node \in Node /\ frames[m].next \in Nat \ {0}
  <2>1. ASSUME NEW m \in 1..L PROVE frames[m] \in [node : Node, next : Nat \ {0}]
    BY <1>0, ElementOfSeq
  <2> QED BY <2>1
<1>3. k = L - i + 2 /\ k \in Nat /\ k >= 2
  BY <1>1 DEF PathLength
<1>4. p = [j \in 1..k |-> IF j < k THEN frames[i + j - 1].node ELSE todo]
  BY DEF PathToTodo
<1> HIDE DEF L, k, p
<1>i. i \in 1..L
  BY DEF L
<1>5. \A j \in 1..(k - 1) : i + j - 1 \in 1..L /\ p[j] = frames[i + j - 1].node
  BY <1>1, <1>i, <1>3, <1>4
<1>6. p[k] = todo
  BY <1>3, <1>4
<1>7. p \in [1..k -> Node]
  <2>1. ASSUME NEW j \in 1..k
        PROVE  (IF j < k THEN frames[i + j - 1].node ELSE todo) \in Node
    <3>1. j < k => i + j - 1 \in 1..L
      BY <1>1, <1>i, <1>3
    <3> QED BY <1>0, <1>2, <3>1
  <2> QED BY <1>4, <2>1
<1>8. p[1] = frames[i].node
  <2>1. 1 \in 1..(k - 1) /\ i + 1 - 1 = i
    BY <1>3, <1>i, <1>1
  <2> QED BY <1>5, <2>1
<1>9. ASSUME NEW m \in 1..L, frames[m].next >= 2
      PROVE  ChildInHand(frames[m]) \in Range(children[frames[m].node])
  <2>1. /\ children[frames[m].node] \in Seq(Node)
        /\ frames[m].next <= Len(children[frames[m].node]) + 1
    BY <1>0, <1>1, <1>2 DEF FramesAreContainers
  <2>2. frames[m].next - 1 \in 1..Len(children[frames[m].node])
    BY <1>2, <1>9, <2>1, LenProperties
  <2> QED BY <2>1, <2>2, RangeEquality DEF ChildInHand
<1>10. ASSUME NEW j \in 1..(k - 1)
       PROVE  p[j + 1] \in Range(children[p[j]])
  <2>1. i + j - 1 \in 1..L /\ p[j] = frames[i + j - 1].node
    BY <1>5
  <2>2. CASE j < k - 1
    <3>1. /\ j + 1 \in 1..(k - 1) /\ i + (j + 1) - 1 = (i + j - 1) + 1
          /\ i + j - 1 \in 1..(L - 1)
      BY <1>1, <1>i, <1>3, <2>2
    <3>2. p[j + 1] = frames[(i + j - 1) + 1].node
      BY <1>5, <3>1
    <3>3. /\ frames[i + j - 1].next >= 2
          /\ frames[(i + j - 1) + 1].node = ChildInHand(frames[i + j - 1])
      BY <1>0, <3>1 DEF FramesAreAChain, L
    <3> QED BY <1>9, <2>1, <3>2, <3>3
  <2>3. CASE j = k - 1
    <3>1. i + j - 1 = L /\ j + 1 = k
      BY <1>1, <1>i, <1>3, <2>3
    <3>2. frames # <<>>
      BY <1>0, <1>1, <1>i, EmptySeq DEF L
    <3>3. frames[L].next >= 2 /\ todo = ChildInHand(frames[L])
      BY <1>0, <3>2 DEF FramesAreAChain, Top, L
    <3> QED BY <1>6, <1>9, <2>1, <3>1, <3>3
  <2> QED BY <1>3, <2>2, <2>3
<1>11. ASSUME NEW j \in 1..k
       PROVE  p[j] = todo \/ \E m \in 1..L : p[j] = frames[m].node
  <2>1. j = k \/ j \in 1..(k - 1)
    BY <1>3
  <2> QED BY <1>5, <1>6, <2>1
<1>12. p \in PathsFrom(frames[i].node, k)
  BY <1>7, <1>8, <1>10 DEF PathsFrom
<1> QED BY <1>11, <1>12 DEF L, k, p

LEMMA CycleFound == IInv => CycleIsReal
<1> SUFFICES ASSUME IInv, outcome = "cycle"
             PROVE  \E k \in 2..(MaxNesting + 1) : \E p \in PathsFrom(todo, k) : p[k] = todo
  BY DEF CycleIsReal
<1>1. todo # NoNode /\ OnPath(todo) /\ Len(frames) < MaxNesting
  BY DEF IInv, Outcomes
<1>2. PathMatchesStack /\ Len(frames) \in Nat /\ DOMAIN frames = 1..Len(frames)
  BY LenProperties DEF IInv, TypeOK
<1>3. PICK i \in 1..Len(frames) : frames[i].node = todo
  BY <1>1, <1>2 DEF OnPath, PathMatchesStack
<1>4. PathToTodo(i) \in PathsFrom(todo, PathLength(i))
  BY <1>1, <1>3, WayDown
<1>5. PathLength(i) \in 2..(MaxNesting + 1)
  BY <1>1, <1>2, BoundsAssumption DEF PathLength
<1>6. PathToTodo(i)[PathLength(i)] = todo
  BY <1>5 DEF PathToTodo
<1> QED BY <1>4, <1>5, <1>6

LEMMA DepthFound == IInv /\ outcome = "tooDeep" => NestsTooDeep
<1> SUFFICES ASSUME IInv, outcome = "tooDeep"
             PROVE  \E p \in PathsFrom(Root, MaxNesting + 1) : \A j \in DOMAIN p : IsContainer(p[j])
  BY DEF NestsTooDeep
<1> USE BoundsAssumption
<1>1. todo # NoNode /\ IsContainer(todo) /\ Len(frames) = MaxNesting
  BY DEF IInv, Outcomes
<1>2. DOMAIN frames = 1..Len(frames) /\ frames # <<>> /\ 1 \in 1..Len(frames)
  BY <1>1, LenProperties, EmptySeq DEF IInv, TypeOK
<1>3. frames[1].node = Root
  BY <1>2 DEF IInv, FramesAreAChain
<1>4. \A m \in 1..Len(frames) : IsContainer(frames[m].node)
  BY <1>2 DEF IInv, FramesAreContainers
<1>5. PathLength(1) = MaxNesting + 1
  BY <1>1 DEF PathLength
<1>6. PathToTodo(1) \in PathsFrom(Root, MaxNesting + 1)
  BY <1>1, <1>2, <1>3, <1>5, WayDown
<1>7. ASSUME NEW j \in 1..PathLength(1) PROVE IsContainer(PathToTodo(1)[j])
  BY <1>1, <1>2, <1>4, WayDown
<1>8. DOMAIN PathToTodo(1) = 1..PathLength(1)
  BY DEF PathToTodo
<1> QED BY <1>6, <1>7, <1>8

-----------------------------------------------------------------------------
(***************************************************************************)
(* A cycle nests too deep: going round it again and again gives a chain of *)
(* containers of every length, the one past the limit among them.  That    *)
(* takes an induction, over a set since the provers have no predicates for *)
(* variables.                                                              *)
(***************************************************************************)
LEMMA SetInduction ==
    ASSUME NEW S, 0 \in S, \A n \in Nat : n \in S => n + 1 \in S
    PROVE  Nat \subseteq S
<1> DEFINE T == Nat \ S
<1> SUFFICES ASSUME T # {} PROVE FALSE
  OBVIOUS
<1>1. PICK x \in T : \A y \in T : <<y, x>> \notin OpToRel(<, Nat)
  BY NatLessThanWellFounded, WFMin
<1>2. x \in Nat \ {0} /\ x \notin S
  BY <1>1
<1>3. x - 1 \in Nat /\ (x - 1) + 1 = x /\ x - 1 < x
  BY <1>2
<1>4. x - 1 \in T
  BY <1>2, <1>3
<1>5. <<x - 1, x>> \in OpToRel(<, Nat)
  BY <1>2, <1>3 DEF OpToRel
<1> QED BY <1>1, <1>4, <1>5

\* Positions on the stack, from the outermost to the last and then round from i.
GoesRound(f, k, last, i) ==
    /\ f \in [1..k -> 1..last] /\ f[1] = 1
    /\ \A j \in 1..(k - 1) : \/ f[j] < last /\ f[j + 1] = f[j] + 1
                             \/ f[j] = last /\ f[j + 1] = i

LEMMA RoundForEver ==
    ASSUME NEW last \in Nat, NEW i \in 1..last, NEW m \in Nat
    PROVE  \E f : GoesRound(f, m + 1, last, i)
<1> DEFINE S == {n \in Nat : \E f : GoesRound(f, n + 1, last, i)}
<1>1. 0 \in S
  <2>1. GoesRound([j \in 1..1 |-> 1], 0 + 1, last, i)
    BY DEF GoesRound
  <2> QED BY <2>1
<1>2. ASSUME NEW n \in Nat, n \in S
      PROVE  n + 1 \in S
  <2>1. PICK f : GoesRound(f, n + 1, last, i)
    BY <1>2
  <2> DEFINE k == n + 1
             x == IF f[k] < last THEN f[k] + 1 ELSE i
             g == [j \in 1..(k + 1) |-> IF j <= k THEN f[j] ELSE x]
  <2>2. f \in [1..k -> 1..last] /\ f[1] = 1 /\ k \in Nat \ {0} /\ f[k] \in 1..last
    BY <2>1 DEF GoesRound
  <2>3. x \in 1..last /\ ((f[k] < last /\ x = f[k] + 1) \/ (f[k] = last /\ x = i))
    BY <2>2
  <2> HIDE DEF x
  <2>4. g \in [1..(k + 1) -> 1..last] /\ g[1] = 1 /\ g[k + 1] = x /\ \A j \in 1..k : g[j] = f[j]
    BY <2>2, <2>3
  <2> HIDE DEF g
  <2>5. ASSUME NEW j \in 1..((k + 1) - 1)
        PROVE  \/ g[j] < last /\ g[j + 1] = g[j] + 1
               \/ g[j] = last /\ g[j + 1] = i
    <3>1. CASE j = k
      BY <2>2, <2>3, <2>4, <3>1
    <3>2. CASE j # k
      <4>1. j \in 1..(k - 1) /\ j + 1 \in 1..k /\ j \in 1..k
        BY <2>2, <3>2
      <4> QED BY <2>1, <2>4, <4>1 DEF GoesRound
    <3> QED BY <3>1, <3>2
  <2>6. GoesRound(g, (n + 1) + 1, last, i)
    BY <2>4, <2>5 DEF GoesRound
  <2> QED BY <2>6
<1> HIDE DEF S
<1>3. m \in S
  BY <1>1, <1>2, SetInduction
<1> QED BY <1>3 DEF S

LEMMA CycleIsDeep == IInv /\ outcome = "cycle" => NestsTooDeep
<1> SUFFICES ASSUME IInv, outcome = "cycle"
             PROVE  \E p \in PathsFrom(Root, MaxNesting + 1) : \A j \in DOMAIN p : IsContainer(p[j])
  BY DEF NestsTooDeep
<1> DEFINE L == Len(frames)
           M == MaxNesting + 1
<1>1. todo # NoNode /\ OnPath(todo) /\ PathMatchesStack /\ FramesAreContainers /\ FramesAreAChain
  BY DEF IInv, Outcomes
<1>2. L \in Nat /\ DOMAIN frames = 1..L /\ frames \in Seq([node : Node, next : Nat \ {0}]) /\ children \in [Node -> Seq(Node)]
  BY LenProperties DEF IInv, TypeOK
<1>3. PICK i \in 1..L : frames[i].node = todo
  BY <1>1, <1>2 DEF OnPath, PathMatchesStack
<1>4. frames # <<>> /\ 1 \in 1..L
  BY <1>2, <1>3, EmptySeq
<1>5. PICK f : GoesRound(f, M, L, i)
  BY <1>2, RoundForEver, BoundsAssumption
<1>6. \A m \in 1..L : /\ frames[m].node \in Node /\ IsContainer(frames[m].node)
                      /\ frames[m].next >= 2 => ChildInHand(frames[m]) \in Range(children[frames[m].node])
  <2> SUFFICES ASSUME NEW m \in 1..L
               PROVE  /\ frames[m].node \in Node /\ IsContainer(frames[m].node)
                      /\ frames[m].next >= 2 => ChildInHand(frames[m]) \in Range(children[frames[m].node])
    OBVIOUS
  <2>1. frames[m].node \in Node /\ frames[m].next \in Nat \ {0}
    <3>1. frames[m] \in [node : Node, next : Nat \ {0}]
      BY <1>2, ElementOfSeq
    <3> QED BY <3>1
  <2>2. /\ IsContainer(frames[m].node) /\ children[frames[m].node] \in Seq(Node)
        /\ frames[m].next <= Len(children[frames[m].node]) + 1
    BY <1>1, <1>2, <2>1 DEF FramesAreContainers
  <2>3. frames[m].next >= 2 => frames[m].next - 1 \in 1..Len(children[frames[m].node])
    BY <2>1, <2>2, LenProperties
  <2> QED BY <2>1, <2>2, <2>3, RangeEquality DEF ChildInHand
<1> DEFINE p == [j \in 1..M |-> frames[f[j]].node]
<1> HIDE DEF L, M
<1>7. M \in Nat \ {0} /\ M - 1 \in Nat
  BY BoundsAssumption DEF M
<1>8. f \in [1..M -> 1..L] /\ f[1] = 1
  BY <1>5 DEF GoesRound
<1>9. p \in [1..M -> Node] /\ p[1] = Root /\ \A j \in DOMAIN p : IsContainer(p[j])
  <2>1. frames[1].node = Root
    BY <1>1, <1>4 DEF FramesAreAChain
  <2> QED BY <1>6, <1>7, <1>8, <2>1
<1>10. ASSUME NEW j \in 1..(M - 1)
       PROVE  p[j + 1] \in Range(children[p[j]])
  <2>1. j \in 1..M /\ j + 1 \in 1..M /\ f[j] \in 1..L /\ f[j + 1] \in 1..L
    BY <1>7, <1>8
  <2>2. p[j] = frames[f[j]].node /\ p[j + 1] = frames[f[j + 1]].node
    BY <2>1
  <2>3. CASE f[j] < L /\ f[j + 1] = f[j] + 1
    <3>1. f[j] \in 1..(L - 1)
      BY <1>2, <2>1, <2>3
    <3>2. frames[f[j]].next >= 2 /\ frames[f[j] + 1].node = ChildInHand(frames[f[j]])
      BY <1>1, <3>1 DEF FramesAreAChain, L
    <3> QED BY <1>6, <2>1, <2>2, <2>3, <3>2
  <2>4. CASE f[j] = L /\ f[j + 1] = i
    <3>1. frames[L].next >= 2 /\ todo = ChildInHand(frames[L])
      BY <1>1, <1>4 DEF FramesAreAChain, Top, L
    <3> QED BY <1>3, <1>6, <2>1, <2>2, <2>4, <3>1
  <2> QED BY <1>5, <2>3, <2>4 DEF GoesRound
<1>11. p \in PathsFrom(Root, M)
  BY <1>9, <1>10 DEF PathsFrom
<1> QED BY <1>9, <1>11 DEF M

-----------------------------------------------------------------------------
(* What holds of every call of init(raw:). *)

\* The inductive invariant holds in every state of the copy.
THEOREM Invariance == Safety => []IInv
BY IInvInit, IInvNext, PTL DEF Safety

\* Every variable keeps its type.
THEOREM TypeCorrect == Safety => []TypeOK
<1>1. IInv => TypeOK
  BY DEF IInv
<1> QED BY <1>1, Invariance, PTL

\* CopyPath holds exactly what is on the stack of calls, whatever was copied
\* before.
THEOREM PathMatchesStackHolds == Safety => []PathMatchesStack
<1>1. IInv => PathMatchesStack
  BY DEF IInv
<1> QED BY <1>1, Invariance, PTL

\* A value that nests deeper than maxValueNestingDepth is never copied, however
\* it is shared or knotted.
THEOREM NothingTooDeepGetsThroughHolds == Safety => []NothingTooDeepGetsThrough
<1>1. IInv => NothingTooDeepGetsThrough
  <2> SUFFICES ASSUME IInv, outcome = "copied", NestsTooDeep PROVE FALSE
    BY DEF NothingTooDeepGetsThrough
  <2>1. Fits(Root, 0)
    BY DEF IInv, Outcomes, CopiedChildrenFit
  <2>2. MaxNesting - 0 + 1 = MaxNesting + 1
    BY BoundsAssumption
  <2> QED BY <2>1, <2>2 DEF Fits, NestsTooDeep
<1> QED BY <1>1, Invariance, PTL

\* A cycle is reported only for a container that contains itself: CopyPath never
\* takes sharing for a cycle.
THEOREM CycleIsRealHolds == Safety => []CycleIsReal
BY CycleFound, Invariance, PTL

\* A value is refused only if it nests deeper than the limit, or for ever: what
\* is shared but neither deep nor knotted is always copied.
THEOREM RefusalIsJustifiedHolds == Safety => []RefusalIsJustified
<1>1. IInv => RefusalIsJustified
  BY DepthFound, CycleIsDeep DEF RefusalIsJustified
<1> QED BY <1>1, Invariance, PTL

-----------------------------------------------------------------------------
(***************************************************************************)
(* The main thread: what isEvaluating guarantees, and that the environment *)
(* follows resets, for any names, nesting of evals and number of resets.   *)
(***************************************************************************)
Frame == [vm : VM, inSwift : BOOLEAN, nested : BOOLEAN]

-----------------------------------------------------------------------------
(* The stack of evals: its top frame, what replacing it changes, and what is *)
(* left when it goes.                                                        *)
LEMMA TopIsAFrame ==
    ASSUME NEW s \in Seq(Frame), s # <<>>
    PROVE  Len(s) \in Nat \ {0} /\ s[Len(s)] \in Frame
BY EmptySeq, LenProperties, ElementOfSeq

LEMMA WithTopProperties ==
    ASSUME NEW s \in Seq(Frame), s # <<>>, NEW f \in Frame
    PROVE  /\ WithTop(s, f) \in Seq(Frame) /\ WithTop(s, f) # <<>>
           /\ Len(WithTop(s, f)) = Len(s)
           /\ \A i \in 1 .. Len(s) - 1 : WithTop(s, f)[i] = s[i]
           /\ WithTop(s, f)[Len(s)] = f
<1>1. Len(s) \in 1 .. Len(s)
  BY TopIsAFrame
<1>2. /\ WithTop(s, f) \in Seq(Frame)
      /\ Len(WithTop(s, f)) = Len(s)
      /\ \A i \in 1 .. Len(s) : WithTop(s, f)[i] = IF i = Len(s) THEN f ELSE s[i]
  BY <1>1, ExceptSeq DEF WithTop
<1> QED BY <1>1, <1>2, EmptySeq, TopIsAFrame

LEMMA BelowProperties ==
    ASSUME NEW s \in Seq(Frame), s # <<>>, NEW b, b = SubSeq(s, 1, Len(s) - 1)
    PROVE  /\ b \in Seq(Frame) /\ Len(b) = Len(s) - 1
           /\ \A i \in 1 .. Len(b) : b[i] = s[i]
<1>1. Len(s) \in Nat \ {0} /\ 1 \in Int /\ Len(s) - 1 \in Int
  BY TopIsAFrame
<1>2. \A i \in 1 .. Len(s) - 1 : s[i] \in Frame
  BY <1>1, ElementOfSeq
<1>3. /\ b \in Seq(Frame)
      /\ Len(b) = IF 1 <= Len(s) - 1 THEN (Len(s) - 1) - 1 + 1 ELSE 0
      /\ \A i \in 1 .. (Len(s) - 1) - 1 + 1 : b[i] = s[1 + i - 1]
  <2>1. \A m, n \in Int : (\A i \in m .. n : s[i] \in Frame) =>
           /\ SubSeq(s, m, n) \in Seq(Frame)
           /\ Len(SubSeq(s, m, n)) = IF m <= n THEN n - m + 1 ELSE 0
           /\ \A i \in 1 .. n - m + 1 : SubSeq(s, m, n)[i] = s[m + i - 1]
    BY SubSeqProperties
  <2> QED BY <1>1, <1>2, <2>1, Zenon
<1>4. Len(b) = Len(s) - 1
  <2>1. \A n \in Nat \ {0} : (IF 1 <= n - 1 THEN (n - 1) - 1 + 1 ELSE 0) = n - 1
    OBVIOUS
  <2> QED BY <1>1, <1>3, <2>1, Zenon
<1> QED BY <1>1, <1>3, <1>4

-----------------------------------------------------------------------------
(***************************************************************************)
(* The inductive invariant.  EvalBegin and EvalEnd are the steps the flag  *)
(* is about, Reset the one FlagHoldsUntilNestedEvalEnds has to survive.    *)
(***************************************************************************)
LEMMA MainInvInit == InitMain => MainInv
<1> SUFFICES ASSUME InitMain PROVE MainInv
  OBVIOUS
<1>1. <<>> \in Seq(Frame) /\ Len(<<>>) = 0
  BY EmptySeq
<1>2. 0 \in VM
  BY MainBounds DEF VM
<1>3. MainTypeOK
  <2>1. /\ stack \in Seq(Frame) /\ Len(stack) <= MaxDepth
        /\ \A i \in 1 .. Len(stack) - 1 : stack[i].inSwift
    BY <1>1, MainBounds DEF InitMain
  <2>2. bound \in [VM -> SUBSET Name] /\ defined \in SUBSET Name /\ vm \in VM /\ env \in VM
    BY <1>2 DEF InitMain
  <2> QED BY <2>1, <2>2 DEF InitMain, MainTypeOK, Frame
<1>4. FlagHoldsUntilNestedEvalEnds /\ LaterVMsAreFresh /\ EnvHoldsWhatWasDefined
  BY <1>1, <1>2 DEF InitMain, FlagHoldsUntilNestedEvalEnds, LaterVMsAreFresh, EnvHoldsWhatWasDefined
<1> QED BY <1>3, <1>4 DEF InitMain, MainInv, FlagDownAfterNested, ScriptRunsOnLiveVM, ResettableBetweenCalls

LEMMA MainInvNext == MainInv /\ [NextMain]_mainvars => MainInv'
<1> SUFFICES ASSUME MainInv, [NextMain]_mainvars PROVE MainInv'
  OBVIOUS
<1> USE DEF MainInv
<1>0. stack \in Seq(Frame) /\ Len(stack) \in Nat /\ (stack = <<>> => Len(stack) = 0)
  BY LenProperties, EmptySeq DEF MainTypeOK, Frame
<1>1. CASE EvalBegin
  <2> DEFINE f == [vm |-> env, inSwift |-> FALSE, nested |-> FALSE]
  <2>1. f \in Frame
    BY DEF MainTypeOK, Frame
  <2>2. /\ stack' \in Seq(Frame) /\ stack' # <<>> /\ Len(stack') = Len(stack) + 1
        /\ \A i \in 1 .. Len(stack) : stack'[i] = stack[i]
        /\ stack'[Len(stack')] = f
    BY <1>0, <1>1, <2>1, AppendProperties DEF EvalBegin
  <2>3. \A i \in 1 .. Len(stack) : stack'[i].inSwift
    BY <1>0, <1>1, <2>2 DEF EvalBegin, InSwift, Innermost, MainTypeOK
  <2>4. MainTypeOK'
    BY <1>0, <1>1, <2>2, <2>3, MainBounds DEF EvalBegin, MainTypeOK, Frame
  <2>5. FlagHoldsUntilNestedEvalEnds'
    <3> SUFFICES ASSUME NEW i \in 1 .. Len(stack'), stack'[i].vm # vm
                 PROVE  \E k \in i .. Len(stack') : stack'[k].nested
      BY <1>1 DEF EvalBegin, FlagHoldsUntilNestedEvalEnds
    <3>1. i \in 1 .. Len(stack)
      BY <1>0, <2>2 DEF LaterVMsAreFresh
    <3>2. PICK k \in i .. Len(stack) : stack[k].nested
      BY <1>0, <2>2, <3>1 DEF FlagHoldsUntilNestedEvalEnds
    <3> QED BY <1>0, <2>2, <3>1, <3>2
  <2> QED
    BY <1>1, <2>2, <2>4, <2>5
    DEF EvalBegin, Innermost, FlagDownAfterNested, ScriptRunsOnLiveVM, LaterVMsAreFresh,
        ResettableBetweenCalls, EnvHoldsWhatWasDefined
<1>2. CASE Reset
  <2>1. CASE ResetTraps
    BY <1>2, <2>1 DEF Reset, MainTypeOK, Innermost, VM, FlagDownAfterNested, ScriptRunsOnLiveVM, LaterVMsAreFresh,
                      FlagHoldsUntilNestedEvalEnds, ResettableBetweenCalls, EnvHoldsWhatWasDefined
  <2>2. CASE ~ResetTraps
    <3>1. /\ vm' = vm + 1 /\ env' = vm + 1 /\ vm' \in VM /\ vm \in Nat
          /\ UNCHANGED <<stack, isEvaluating, bound, trapped, corrupt>> /\ defined' = {}
          /\ ~isEvaluating /\ (stack # <<>> => Innermost.inSwift)
      BY <1>2, <2>2, MainBounds DEF Reset, ResetTraps, EnvAfterReset, InSwift, MainTypeOK, VM
    <3>2. MainTypeOK'
      BY <3>1 DEF MainTypeOK
    <3>3. FlagHoldsUntilNestedEvalEnds'
      <4> SUFFICES ASSUME NEW i \in 1 .. Len(stack)
                   PROVE  \E k \in i .. Len(stack) : stack[k].nested
        BY <3>1 DEF FlagHoldsUntilNestedEvalEnds
      <4>1. stack[Len(stack)].nested
        BY <1>0, <3>1 DEF FlagDownAfterNested, Innermost
      <4> QED BY <1>0, <4>1
    <3>4. LaterVMsAreFresh' /\ bound[vm + 1] = {}
      BY <3>1 DEF LaterVMsAreFresh, VM
    <3> QED
      BY <3>1, <3>2, <3>3, <3>4
      DEF Innermost, FlagDownAfterNested, ScriptRunsOnLiveVM, ResettableBetweenCalls, EnvHoldsWhatWasDefined
  <2> QED BY <2>1, <2>2
<1>3. ASSUME NEW b \in BOOLEAN, stack # <<>>, Running, stack' = WithTop(stack, [Innermost EXCEPT !.inSwift = b]),
             UNCHANGED <<isEvaluating, vm, env, bound, defined, trapped>>,
             corrupt' \in BOOLEAN, ~corrupt' /\ ~b => Innermost.vm = vm
      PROVE  MainInv'
  <2>1. Innermost \in Frame /\ [Innermost EXCEPT !.inSwift = b] \in Frame
    BY <1>0, <1>3, TopIsAFrame DEF Innermost, Frame
  <2>2. /\ stack' \in Seq(Frame) /\ stack' # <<>> /\ Len(stack') = Len(stack)
        /\ \A i \in 1 .. Len(stack) - 1 : stack'[i] = stack[i]
        /\ stack'[Len(stack)] = [Innermost EXCEPT !.inSwift = b]
    BY <1>0, <1>3, <2>1, WithTopProperties
  <2>3. /\ \A i \in 1 .. Len(stack) : stack'[i].vm = stack[i].vm /\ stack'[i].nested = stack[i].nested
        /\ Innermost' = [Innermost EXCEPT !.inSwift = b]
    BY <1>0, <1>3, <2>1, <2>2 DEF Innermost, Frame
  <2>4. MainTypeOK'
    BY <1>0, <1>3, <2>2 DEF MainTypeOK, Frame
  <2>5. FlagHoldsUntilNestedEvalEnds'
    <3> SUFFICES ASSUME NEW i \in 1 .. Len(stack), stack[i].vm # vm
                 PROVE  \E k \in i .. Len(stack) : stack'[k].nested
      BY <1>3, <2>2, <2>3 DEF FlagHoldsUntilNestedEvalEnds
    <3>1. PICK k \in i .. Len(stack) : stack[k].nested
      BY DEF FlagHoldsUntilNestedEvalEnds
    <3> QED BY <1>0, <2>3, <3>1
  <2> QED
    BY <1>3, <2>1, <2>2, <2>3, <2>4, <2>5
    DEF Running, Frame, FlagDownAfterNested, ScriptRunsOnLiveVM, LaterVMsAreFresh, ResettableBetweenCalls, EnvHoldsWhatWasDefined
<1>4. CASE CallSwift
  BY <1>3, <1>4 DEF CallSwift, InJanet, Running, MainTypeOK
<1>5. CASE ReturnToJanet
  BY <1>3, <1>5 DEF ReturnToJanet, InSwift, Running
<1>6. ASSUME NEW n \in Name, Define(n) \/ ScriptDef(n)
      PROVE  MainInv'
  <2>1. /\ ~corrupt /\ bound' = [bound EXCEPT ![vm] = @ \cup {n}] /\ defined' = defined \cup {n}
        /\ UNCHANGED <<stack, isEvaluating, vm, env, trapped, corrupt>>
    BY <1>6 DEF Define, ScriptDef, InSwift, InJanet, Running, ScriptRunsOnLiveVM, LaterVMsAreFresh
  <2>2. MainTypeOK' /\ bound'[vm] = bound[vm] \cup {n} /\ \A v \in VM : v > vm => bound'[v] = bound[v]
    BY <2>1 DEF MainTypeOK, VM
  <2> QED
    BY <2>1, <2>2 DEF Innermost, FlagDownAfterNested, ScriptRunsOnLiveVM, LaterVMsAreFresh,
                      FlagHoldsUntilNestedEvalEnds, ResettableBetweenCalls, EnvHoldsWhatWasDefined
<1>7. ASSUME NEW failed \in BOOLEAN, EvalEnd(failed)
      PROVE  MainInv'
  <2>1. /\ stack # <<>> /\ isEvaluating' = FALSE /\ Len(stack) \in Nat \ {0}
        /\ UNCHANGED <<vm, env, bound, defined, trapped, corrupt>>
    BY <1>0, <1>7, TopIsAFrame DEF EvalEnd, InJanet, FlagAfterEval
  <2>2. /\ Below \in Seq(Frame) /\ Len(Below) = Len(stack) - 1
        /\ \A i \in 1 .. Len(Below) : Below[i] = stack[i]
    BY <1>0, <2>1, BelowProperties DEF Below
  <2>3. CASE Below = <<>>
    <3>1. stack' = <<>> /\ stack' \in Seq(Frame) /\ Len(stack') = 0
      BY <1>7, <2>3, EmptySeq DEF EvalEnd
    <3>2. MainTypeOK'
      <4>1. Len(stack') <= MaxDepth /\ \A i \in 1 .. Len(stack') - 1 : stack'[i].inSwift
        BY <3>1, MainBounds
      <4> QED BY <2>1, <3>1, <4>1 DEF MainTypeOK, Frame
    <3> QED
      BY <2>1, <3>1, <3>2 DEF Innermost, FlagDownAfterNested, ScriptRunsOnLiveVM, LaterVMsAreFresh,
                              FlagHoldsUntilNestedEvalEnds, ResettableBetweenCalls, EnvHoldsWhatWasDefined
  <2>4. CASE Below # <<>>
    <3> DEFINE f == [Below[Len(Below)] EXCEPT !.nested = TRUE]
    <3>1. Len(Below) \in Nat \ {0} /\ Below[Len(Below)] \in Frame /\ f \in Frame
      BY <2>2, <2>4, TopIsAFrame DEF Frame
    <3>2. stack' = WithTop(Below, f)
      BY <1>7, <2>4 DEF EvalEnd
    <3> HIDE DEF f
    <3>3. /\ stack' \in Seq(Frame) /\ stack' # <<>> /\ Len(stack') = Len(stack) - 1
          /\ \A i \in 1 .. Len(stack) - 2 : stack'[i] = stack[i]
          /\ stack'[Len(stack')] = f
      <4>1. /\ stack' \in Seq(Frame) /\ stack' # <<>> /\ Len(stack') = Len(Below)
            /\ \A i \in 1 .. Len(Below) - 1 : stack'[i] = Below[i]
            /\ stack'[Len(Below)] = f
        BY <2>2, <2>4, <3>1, <3>2, WithTopProperties
      <4> QED BY <2>1, <2>2, <4>1
    <3>4. f.nested /\ f.vm = stack[Len(stack')].vm /\ f.inSwift = stack[Len(stack')].inSwift
      BY <2>2, <3>1, <3>3 DEF f, Frame
    <3>5. \A i \in 1 .. Len(stack') : stack'[i].vm = stack[i].vm /\ stack'[i].inSwift
      BY <2>1, <3>1, <3>3, <3>4 DEF MainTypeOK
    <3>6. MainTypeOK'
      <4>1. Len(stack') <= MaxDepth /\ \A i \in 1 .. Len(stack') - 1 : stack'[i].inSwift
        BY <2>1, <3>3, <3>5, MainBounds DEF MainTypeOK
      <4> QED BY <2>1, <3>3, <4>1 DEF MainTypeOK, Frame
    <3>7. FlagHoldsUntilNestedEvalEnds'
      <4>1. Len(stack') \in Nat /\ stack'[Len(stack')].nested
        BY <2>1, <3>1, <3>3, <3>4
      <4> QED BY <4>1 DEF FlagHoldsUntilNestedEvalEnds
    <3> QED
      BY <2>1, <3>1, <3>3, <3>4, <3>5, <3>6, <3>7
      DEF Innermost, FlagDownAfterNested, ScriptRunsOnLiveVM, LaterVMsAreFresh, ResettableBetweenCalls, EnvHoldsWhatWasDefined
  <2> QED BY <2>3, <2>4
<1>8. CASE Crashed \/ UNCHANGED mainvars
  BY <1>8 DEF Crashed, mainvars, MainTypeOK, Innermost, FlagDownAfterNested, ScriptRunsOnLiveVM, LaterVMsAreFresh,
              FlagHoldsUntilNestedEvalEnds, ResettableBetweenCalls, EnvHoldsWhatWasDefined
<1> QED BY <1>1, <1>2, <1>4, <1>5, <1>6, <1>7, <1>8 DEF NextMain

\* MainInv holds in every reachable state of the main runtime.
THEOREM MainInvariance == MainSpec => []MainInv
BY MainInvInit, MainInvNext, PTL DEF MainSpec

\* Every variable keeps its type, and below the eval on top everyone waits in a
\* callback to Swift (MainJanetRuntime.eval, define and reset).
THEOREM MainTypeCorrect == MainSpec => []MainTypeOK
<1>1. MainInv => MainTypeOK
  BY DEF MainInv
<1> QED BY <1>1, MainInvariance, PTL

\* What isEvaluating does guarantee: reset takes the VM from a running eval
\* only after an eval nested in it, or in one it leads to, has ended.
THEOREM FlagHolds == MainSpec => []FlagHoldsUntilNestedEvalEnds
<1>1. MainInv => FlagHoldsUntilNestedEvalEnds
  BY DEF MainInv
<1> QED BY <1>1, MainInvariance, PTL

\* Between calls the flag is down, whether the last script failed or not: the
\* deferred statement in eval clears it on every way out.
THEOREM ResettableBetweenCallsHolds == MainSpec => []ResettableBetweenCalls
<1>1. MainInv => ResettableBetweenCalls
  BY DEF MainInv
<1> QED BY <1>1, MainInvariance, PTL

\* However evals, defines and resets nest, the environment that JanetVM.env
\* refers to has just the names bound since the last reset.
THEOREM EnvHoldsWhatWasDefinedHolds == MainSpec => []EnvHoldsWhatWasDefined
<1>1. MainInv => EnvHoldsWhatWasDefined
  BY DEF MainInv
<1> QED BY <1>1, MainInvariance, PTL
=============================================================================
