---------------------------------- MODULE GC ----------------------------------
(***************************************************************************)
(* The garbage collector ("gc.c"): mark from the registers of the running  *)
(* fiber and the root array, then four passes of sweeping.                 *)
(*                                                                         *)
(* janet_mark recurses to a limited depth; what lies deeper is pushed onto *)
(* the root array, which the collector empties back to where it was.       *)
(*                                                                         *)
(* A weak container holds pairs <<key, value>>; one whose references are   *)
(* all strong holds them one by one, as <<v, v>>.  Any container may have a *)
(* prototype (a fiber: a child), a weak table too, and be one.  Visiting    *)
(* order within a container is left open.  The program is stopped while it  *)
(* collects.                                                                *)
(***************************************************************************)
EXTENDS Integers, Sequences, FiniteSets

CONSTANTS Obj,
          Kind,       \* "plain", "weakk", "weakv", "weakkv" or "threaded"
          Guard,      \* JANET_RECURSION_GUARD
          MaxEntries, MaxRoots,
          NoProto,    \* of an object without prototype
          Protos      \* containers that may have a prototype or child

ASSUME GCAssumption ==
  /\ Kind \in [Obj -> {"plain", "weakk", "weakv", "weakkv", "threaded"}]
  /\ NoProto \notin Obj

Weak == {o \in Obj : Kind[o] \in {"weakk", "weakv", "weakkv"}}
Threaded == {o \in Obj : Kind[o] = "threaded"}
Plain == {o \in Obj : Kind[o] = "plain"}

VARIABLES heap,     \* allocated objects
          entries, proto,
          regs,     \* values the running fiber holds
          roots,    \* the root array
          pc,       \* "program", "mark", a pass of the sweep, or "deinit"
          orig,     \* orig_rootcount
          next,     \* roots visited so far
          stack,    \* values still to be marked by each nested janet_mark
          marked    \* objects with JANET_MEM_REACHABLE (threaded: visited)

gcvars == <<heap, entries, proto, regs, roots, pc, orig, next, stack, marked>>
program == <<heap, entries, proto, regs>>
collector == <<pc, orig, next, stack, marked>>

InitGC ==
  /\ heap = {} /\ regs = {} /\ roots = <<>>
  /\ entries = [o \in Obj |-> {}] /\ proto = [o \in Obj |-> NoProto]
  /\ pc = "program" /\ orig = 0 /\ next = 0 /\ stack = <<>> /\ marked = {}

-----------------------------------------------------------------------------
(* The program, between two instructions. *)

Alloc(o) ==
  /\ pc = "program" /\ o \notin heap
  /\ heap' = heap \cup {o} /\ regs' = regs \cup {o}
  /\ entries' = [entries EXCEPT ![o] = {}] /\ proto' = [proto EXCEPT ![o] = NoProto]
  /\ UNCHANGED <<roots, collector>>

Store(c, k, v) ==
  /\ pc = "program" /\ {c, k, v} \subseteq regs /\ c \notin Threaded
  /\ c \in Plain => k = v
  /\ Cardinality(entries[c]) < MaxEntries
  /\ entries' = [entries EXCEPT ![c] = @ \cup {<<k, v>>}]
  /\ UNCHANGED <<heap, proto, regs, roots, collector>>

SetProto(c, p) ==
  /\ pc = "program" /\ {c, p} \subseteq regs /\ c \in Protos /\ p \notin Threaded
  /\ proto' = [proto EXCEPT ![c] = p]
  /\ UNCHANGED <<heap, entries, regs, roots, collector>>

Load(c, v) ==
  /\ pc = "program" /\ c \in regs
  /\ v = proto[c] \/ \E p \in entries[c] : v \in {p[1], p[2]}
  /\ v # NoProto
  /\ regs' = regs \cup {v}
  /\ UNCHANGED <<heap, entries, proto, roots, collector>>

Forget(o) ==
  /\ pc = "program" /\ o \in regs
  /\ regs' = regs \ {o}
  /\ UNCHANGED <<heap, entries, proto, roots, collector>>

GcRoot(o) ==
  /\ pc = "program" /\ o \in regs /\ Len(roots) < MaxRoots
  /\ roots' = Append(roots, o)
  /\ UNCHANGED <<program, collector>>

(* The last root takes the place of root i. *)
SwapOut(q, i) == [k \in 1 .. Len(q) - 1 |-> IF k = i THEN q[Len(q)] ELSE q[k]]

FirstAt(q, o) == CHOOSE i \in DOMAIN q : q[i] = o /\ \A j \in 1 .. i - 1 : q[j] # o

GcUnroot(o) ==
  /\ pc = "program" /\ \E i \in DOMAIN roots : roots[i] = o
  /\ roots' = SwapOut(roots, FirstAt(roots, o))
  /\ UNCHANGED <<program, collector>>

(* The loop moves on after each swap. *)
UnrootedAll(q, o) ==
  LET upTo[i \in 0 .. Len(q)] ==
        IF i = 0 THEN q
        ELSE IF i \in DOMAIN upTo[i - 1] /\ upTo[i - 1][i] = o THEN SwapOut(upTo[i - 1], i)
        ELSE upTo[i - 1]
  IN upTo[Len(q)]

GcUnrootAll(o) ==
  /\ pc = "program" /\ \E i \in DOMAIN roots : roots[i] = o
  /\ roots' = UnrootedAll(roots, o)
  /\ UNCHANGED <<program, collector>>

-----------------------------------------------------------------------------
(* janet_collect *)

Collect ==
  /\ pc = "program" /\ heap # {}
  /\ pc' = "mark" /\ orig' = Len(roots) /\ next' = 0
  /\ stack' = <<regs>> /\ marked' = {}
  /\ UNCHANGED <<program, roots>>

(* The references of a container that keep what they refer to.               *)
StrongSides(o) ==
  CASE Kind[o] = "plain"  -> UNION {{p[1], p[2]} : p \in entries[o]}
    [] Kind[o] = "weakk"  -> {p[2] : p \in entries[o]}
    [] Kind[o] = "weakv"  -> {p[1] : p \in entries[o]}
    [] OTHER -> {}

ProtoOf(o) == {proto[o]} \ {NoProto}

Top == stack[Len(stack)]
WithTop(s) == [stack EXCEPT ![Len(stack)] = s]

\* Mutant: what lies deeper than the guard is not remembered.
Deeper_Dropped(o) == UNCHANGED roots

Deeper(o) == roots' = Append(roots, o)

(* janet_mark of one value of the innermost call: beyond the guard it goes   *)
(* to the roots; a prototype is visited by the same call, at no depth.       *)
MarkOne(o) ==
  /\ pc = "mark" /\ stack # <<>> /\ o \in Top
  /\ \/ /\ Len(stack) > Guard
        /\ Deeper(o)
        /\ stack' = WithTop(Top \ {o})
        /\ UNCHANGED marked
     \/ /\ Len(stack) <= Guard /\ o \in marked
        /\ stack' = WithTop(Top \ {o})
        /\ UNCHANGED <<marked, roots>>
     \/ /\ Len(stack) <= Guard /\ o \notin marked
        /\ marked' = marked \cup {o}
        /\ stack' = Append(WithTop((Top \ {o}) \cup ProtoOf(o)), StrongSides(o))
        /\ UNCHANGED roots
  /\ UNCHANGED <<program, pc, orig, next>>

Return ==
  /\ pc = "mark" /\ stack # <<>> /\ Top = {}
  /\ stack' = SubSeq(stack, 1, Len(stack) - 1)
  /\ UNCHANGED <<program, roots, pc, orig, next, marked>>

NextRoot ==
  /\ pc = "mark" /\ stack = <<>> /\ next < orig
  /\ stack' = <<{roots[next + 1]}>> /\ next' = next + 1
  /\ UNCHANGED <<program, roots, pc, orig, marked>>

PopRoot == roots' = SubSeq(roots, 1, Len(roots) - 1)

OverflowRoot ==
  /\ pc = "mark" /\ stack = <<>> /\ next >= orig /\ orig < Len(roots)
  /\ stack' = <<{roots[Len(roots)]}>> /\ PopRoot
  /\ UNCHANGED <<program, pc, orig, next, marked>>

MarkDone ==
  /\ pc = "mark" /\ stack = <<>> /\ next >= orig /\ orig = Len(roots)
  /\ pc' = "weak refs"
  /\ UNCHANGED <<program, roots, orig, next, stack, marked>>

(* janet_check_liveref: a threaded abstract never has the bit.               *)
LiveRef(o) == o \in marked \ Threaded

DropsEntry(o, p) ==
  \/ Kind[o] \in {"weakk", "weakkv"} /\ ~LiveRef(p[1])
  \/ Kind[o] \in {"weakv", "weakkv"} /\ ~LiveRef(p[2])

SweepWeakRefs ==
  /\ pc = "weak refs" /\ pc' = "weak blocks"
  /\ entries' = [o \in Obj |-> IF o \in Weak \cap marked
                               THEN {p \in entries[o] : ~DropsEntry(o, p)} ELSE entries[o]]
  /\ UNCHANGED <<heap, proto, regs, roots, orig, next, stack, marked>>

(* One list of blocks: the unmarked are freed, the others lose their mark.   *)
SweepBlocks(list, from, to) ==
  /\ pc = from /\ pc' = to
  /\ heap' = heap \ (list \ marked)
  /\ marked' = marked \ list
  /\ UNCHANGED <<entries, proto, regs, roots, orig, next, stack>>

Sweep ==
  \/ SweepWeakRefs
  \/ SweepBlocks(Weak, "weak blocks", "blocks")
  \/ SweepBlocks(Plain, "blocks", "threaded")
  \/ SweepBlocks(Threaded, "threaded", "program")

(* janet_clear_memory *)
ClearMemory ==
  /\ pc = "program" /\ pc' = "deinit"
  /\ heap' = heap \ (Plain \cup Threaded)
  /\ regs' = {} /\ roots' = <<>>
  /\ UNCHANGED <<entries, proto, orig, next, stack, marked>>

Program ==
  \/ \E o \in Obj : Alloc(o) \/ Forget(o) \/ GcRoot(o) \/ GcUnroot(o) \/ GcUnrootAll(o)
  \/ \E c, k, v \in Obj : Store(c, k, v)
  \/ \E c, v \in Obj : Load(c, v) \/ SetProto(c, v)
  \/ ClearMemory

MarkPhase == (\E o \in Obj : MarkOne(o)) \/ Return \/ NextRoot \/ OverflowRoot \/ MarkDone

NextGC == Program \/ Collect \/ MarkPhase \/ Sweep

GCSpec == InitGC /\ [][NextGC]_gcvars
FairGCSpec == GCSpec /\ WF_gcvars(MarkPhase \/ Sweep)

-----------------------------------------------------------------------------
GCTypeOK ==
  /\ heap \subseteq Obj /\ regs \subseteq Obj /\ marked \subseteq Obj
  /\ entries \in [Obj -> SUBSET (Obj \X Obj)] /\ proto \in [Obj -> Obj \cup {NoProto}]
  /\ roots \in Seq(Obj) /\ stack \in Seq(SUBSET Obj)
  /\ orig \in Nat /\ next \in 0 .. orig
  /\ pc \in {"program", "mark", "weak refs", "weak blocks", "blocks", "threaded", "deinit"}

Refs(o) == (UNION {{p[1], p[2]} : p \in entries[o]}) \cup ProtoOf(o)

(* While the program runs, nothing it can get hold of has been freed: not    *)
(* through registers, roots, strong references or weak ones.                 *)
NoDangling ==
  pc = "program" =>
    /\ regs \subseteq heap
    /\ \A i \in DOMAIN roots : roots[i] \in heap
    /\ \A o \in heap : Refs(o) \subseteq heap

(* What a container must keep, by the meaning of its kind.                   *)
Kept(o) ==
  {y \in Obj : \/ proto[o] = y
               \/ \E p \in entries[o] :
                    \/ Kind[o] \in {"plain", "weakv"} /\ y = p[1]
                    \/ Kind[o] \in {"plain", "weakk"} /\ y = p[2]}

(* The least set with the registers and the roots that is closed under Kept. *)
Closed(S) == \A o \in S : Kept(o) \subseteq S
Reachable ==
  {x \in Obj : \A S \in SUBSET Obj :
     Closed(S) /\ regs \subseteq S /\ (\A i \in DOMAIN roots : roots[i] \in S) => x \in S}

(* However deep the references go, marking ends with exactly what can be     *)
(* reached: no garbage survives a collection.                                *)
MarksWhatIsReachable == pc = "weak refs" => marked = Reachable

(* The root array, which marking uses as a stack, loses no root.             *)
KeepsRoots ==
  pc # "program" => SubSeq(roots', 1, orig) = SubSeq(roots, 1, orig) /\ (pc' = "weak refs" => Len(roots') = orig)

(* A weak reference is dropped only when what it refers to dies              *)
(* ("Check that a value x has been visited in the mark phase"), or is a      *)
(* threaded abstract, which is visited but never has the bit.                *)
DropsOnlyDead ==
  pc = "weak refs" =>
    \A o \in Obj : \A p \in entries[o] \ entries'[o] : ~({p[1], p[2]} \subseteq Reachable \ Threaded)

(* What can be reached is marked and kept, nothing else is, and a weak entry *)
(* goes with what it refers to.                                              *)
CollectsTheDead ==
  /\ [](NoDangling /\ MarksWhatIsReachable)
  /\ [][KeepsRoots /\ DropsOnlyDead]_gcvars

(* "Remove a root value from the GC. This sets the effective reference count *)
(* to 0."                                                                    *)
UnrootAllLeavesNone ==
  \A o \in Obj : \A i \in DOMAIN UnrootedAll(roots, o) : UnrootedAll(roots, o)[i] # o

(* "Free all allocated memory" *)
DeinitFreesAll == pc = "deinit" => heap = {}

(* A collection ends, also where containers refer to each other in circles.  *)
CollectionEnds == (pc = "mark") ~> (pc = "program")
=============================================================================
