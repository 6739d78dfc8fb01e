------------------------------ MODULE ValueCopy ------------------------------
(***************************************************************************)
(* JanetValue.init(raw:) (Sources/Janet/JanetValue.swift): the recursive   *)
(* copy of a value out of the VM.  The heap is a graph: containers may be  *)
(* shared, and arrays and tables may contain themselves.  CopyPath stops   *)
(* the recursion at a depth and at a mutable container that is already on  *)
(* the way down.                                                           *)
(*                                                                         *)
(* The recursion is a stack of frames, one per container being copied,     *)
(* with the position of its next child; "todo" is the argument of the call *)
(* that is about to be made.  The children of a dictionary are its keys    *)
(* and values in the order they are copied, key first.  What a leaf holds  *)
(* and how the copies are put together is left out: this module is about   *)
(* which heaps are copied and which are refused.  Nothing else runs on the *)
(* VM meanwhile, so the heap stays as it is.                               *)
(***************************************************************************)
EXTENDS Naturals, Sequences, FiniteSets, Functions

CONSTANTS Node,        \* the values in the heap, by identity
          Root,        \* the value that init(raw:) is called with
          NoNode,      \* no call is about to be made
          MaxChildren, \* bound: children of a container
          MaxNesting   \* maxValueNestingDepth

ASSUME NodeAssumption == Root \in Node /\ NoNode \notin Node
ASSUME BoundsAssumption == MaxChildren \in Nat /\ MaxNesting \in Nat \ {0}

VARIABLES kind,      \* each value: "leaf", "immutable" (tuple or struct) or
                     \* "mutable" (array or table)
          children,  \* the contents of each container
          todo,      \* the value to be copied next, or NoNode
          frames,    \* the containers being copied, outermost first
          depth,     \* CopyPath.depth
          mutableContainers,  \* CopyPath.mutableContainers
          outcome    \* "running", then "copied", "tooDeep" or "cycle"

heap == <<kind, children>>
copyPath == <<depth, mutableContainers>>
vars == <<heap, todo, frames, copyPath, outcome>>

Kind == {"leaf", "immutable", "mutable"}
IsContainer(n) == kind[n] # "leaf"

\* The paths of k values in the heap that start at n: each value contains the
\* next.
PathsFrom(n, k) ==
    {p \in [1..k -> Node] : /\ p[1] = n
                            /\ \A i \in 1..(k - 1) : p[i + 1] \in Range(children[p[i]])}

(***************************************************************************)
(* Any heap the VM can hold: leaves have no children, and since a tuple or *)
(* struct is complete before anything can contain it, each cycle passes    *)
(* through an array or a table.  A path longer than there are values would *)
(* be such a cycle.                                                        *)
(***************************************************************************)
HasImmutableCycle ==
    \E n \in Node : \E p \in PathsFrom(n, Cardinality(Node) + 1) :
        \A i \in DOMAIN p : kind[p[i]] = "immutable"

Init == /\ kind \in [Node -> Kind]
        /\ children \in [Node -> UNION {[1..k -> Node] : k \in 0..MaxChildren}]
        /\ ~\E n \in Node : children[n] # <<>> /\ ~IsContainer(n)
        /\ ~HasImmutableCycle
        /\ todo = Root
        /\ frames = <<>>
        /\ depth = 0
        /\ mutableContainers = {}
        /\ outcome = "running"

Top == frames[Len(frames)]
InFrame == outcome = "running" /\ todo = NoNode /\ frames # <<>>

-----------------------------------------------------------------------------
CopyLeaf == /\ outcome = "running"
            /\ todo # NoNode
            /\ ~IsContainer(todo)
            /\ todo' = NoNode
            /\ UNCHANGED <<heap, frames, copyPath, outcome>>

\* CopyPath.enter counts first, then compares, then looks for a cycle.
TooDeep_OffByOne(d) == d >= MaxNesting
TooDeep(d) == d > MaxNesting

IsMutable(n) == kind[n] = "mutable"
OnPath(n) == IsMutable(n) /\ n \in mutableContainers

EnterFails == /\ outcome = "running"
              /\ todo # NoNode
              /\ IsContainer(todo)
              /\ depth' = depth + 1
              /\ \/ TooDeep(depth') /\ outcome' = "tooDeep"
                 \/ ~TooDeep(depth') /\ OnPath(todo) /\ outcome' = "cycle"
              /\ UNCHANGED <<heap, todo, frames, mutableContainers>>

Enter == /\ outcome = "running"
         /\ todo # NoNode
         /\ IsContainer(todo)
         /\ depth' = depth + 1
         /\ ~TooDeep(depth')
         /\ ~OnPath(todo)
         /\ mutableContainers' =
                mutableContainers \cup (IF IsMutable(todo) THEN {todo} ELSE {})
         /\ frames' = Append(frames, [node |-> todo, next |-> 1])
         /\ todo' = NoNode
         /\ UNCHANGED <<heap, outcome>>

\* The loops of copy(elements:) and copy(dictionary:) go on to the next child.
Following_Restarted(i) == 1
Following(i) == i + 1

CopyChild == /\ InFrame
             /\ Top.next <= Len(children[Top.node])
             /\ todo' = children[Top.node][Top.next]
             /\ frames' = [frames EXCEPT ![Len(frames)].next = Following(@)]
             /\ UNCHANGED <<heap, copyPath, outcome>>

DepthAfterLeave_Twice == depth - 2
DepthAfterLeave == depth - 1
ContainersAfterLeave_Kept(n) == mutableContainers
ContainersAfterLeave(n) == mutableContainers \ {n}

\* leave(nil) takes nothing out, and a tuple or struct is never in the set.
Leave == /\ InFrame
         /\ Top.next > Len(children[Top.node])
         /\ depth' = DepthAfterLeave
         /\ mutableContainers' = ContainersAfterLeave(Top.node)
         /\ frames' = SubSeq(frames, 1, Len(frames) - 1)
         /\ UNCHANGED <<heap, todo, outcome>>

Finish == /\ outcome = "running"
          /\ todo = NoNode
          /\ frames = <<>>
          /\ outcome' = "copied"
          /\ UNCHANGED <<heap, todo, frames, copyPath>>

Returned == outcome # "running" /\ UNCHANGED vars

Step == CopyLeaf \/ EnterFails \/ Enter \/ CopyChild \/ Leave \/ Finish
Next == Step \/ Returned

Safety == Init /\ [][Next]_vars

\* The recursion runs on: nothing in it waits.
Spec == Safety /\ WF_vars(Step)

-----------------------------------------------------------------------------
(* Properties *)

TypeOK == /\ kind \in [Node -> Kind]
          /\ children \in [Node -> Seq(Node)]
          /\ todo \in Node \cup {NoNode}
          /\ frames \in Seq([node : Node, next : Nat \ {0}])
          /\ depth \in Nat
          /\ mutableContainers \in SUBSET Node
          /\ outcome \in {"running", "copied", "tooDeep", "cycle"}

\* CopyPath is "the chain of containers currently being copied, from the root
\* down": what it has counted and collected is what is on the stack, and no
\* container is left behind by a child that was copied before.
PathMatchesStack ==
    /\ mutableContainers = {n \in Node : IsMutable(n) /\ \E i \in DOMAIN frames : frames[i].node = n}
    /\ outcome \in {"running", "copied"} => depth = Len(frames)
    /\ Len(frames) <= MaxNesting

\* A cycle is reported only for a container that really contains itself: a
\* value shared between siblings is copied once for each of them.
CycleIsReal ==
    outcome = "cycle" =>
        \E k \in 2..(MaxNesting + 1) : \E p \in PathsFrom(todo, k) : p[k] = todo

\* A chain of more than MaxNesting containers, each inside the one before; a
\* cycle unfolds to chains of every length.
NestsTooDeep ==
    \E p \in PathsFrom(Root, MaxNesting + 1) : \A i \in DOMAIN p : IsContainer(p[i])

\* No value is copied whose copy would nest deeper than the limit: hashing,
\* comparing and releasing the copy recurse once per level.
NothingTooDeepGetsThrough == outcome = "copied" => ~NestsTooDeep

\* No other value is refused, whatever it shares: the limit itself is allowed,
\* and a reported cycle is a case of unbounded depth.
RefusalIsJustified == outcome \in {"tooDeep", "cycle"} => NestsTooDeep

\* The inductive invariant behind these.  Fits(n, d): below d containers, n does
\* not take a chain of containers past the limit.  The children of a frame
\* that have been copied fit; the one being copied is the frame above or todo.
Fits(n, d) == \A p \in PathsFrom(n, MaxNesting - d + 1) :
                  \E i \in DOMAIN p : ~IsContainer(p[i])
ChildInHand(f) == children[f.node][f.next - 1]
FramesAreContainers ==
    \A i \in DOMAIN frames : /\ IsContainer(frames[i].node)
                             /\ frames[i].next <= Len(children[frames[i].node]) + 1
FramesAreAChain ==
    /\ frames # <<>> => frames[1].node = Root
    /\ \A i \in 1..(Len(frames) - 1) : /\ frames[i].next >= 2
                                        /\ frames[i + 1].node = ChildInHand(frames[i])
    /\ todo # NoNode => IF frames = <<>> THEN todo = Root
                        ELSE Top.next >= 2 /\ todo = ChildInHand(Top)
MutablesAreDistinct ==
    \A i, j \in DOMAIN frames :
        IsMutable(frames[i].node) /\ frames[i].node = frames[j].node => i = j
CopiedChildrenFit ==
    /\ \A i \in DOMAIN frames : \A j \in 1..(frames[i].next - 1) :
           (i = Len(frames) /\ todo = NoNode) \/ j < frames[i].next - 1
               => Fits(children[frames[i].node][j], i)
    /\ todo = NoNode /\ frames = <<>> => Fits(Root, 0)
Outcomes ==
    /\ outcome = "copied" => todo = NoNode /\ frames = <<>>
    /\ outcome = "tooDeep" => /\ todo # NoNode /\ IsContainer(todo)
                              /\ Len(frames) = MaxNesting
    /\ outcome = "cycle" => /\ todo # NoNode /\ OnPath(todo)
                            /\ Len(frames) < MaxNesting
IInv == /\ TypeOK
        /\ PathMatchesStack
        /\ FramesAreContainers
        /\ FramesAreAChain
        /\ MutablesAreDistinct
        /\ CopiedChildrenFit
        /\ Outcomes

\* Copying ends, on every heap.
CopyEnds == <>(outcome # "running")
=============================================================================
