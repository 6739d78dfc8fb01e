----------------------------- MODULE MCStructures -----------------------------
(***************************************************************************)
(* The data structures under the VM.  They share no state here, so a       *)
(* behaviour is one of them and the others stay as they start.             *)
(***************************************************************************)
EXTENDS JanetQueue, TimeoutHeap, GC, JanetTable, JanetStruct, SymCache, TLC

CONSTANTS keyA, keyB, keyC, keyD, keyE, valX, valY,
          gcA, gcB, gcWeak,
          genA, genB

VARIABLE part

(* A container that leads on, one that may have a child, and a table that is *)
(* weak in its keys: two references in a row are beyond the guard.           *)
Blocks == {gcA, gcB, gcWeak}
KindOf == (gcA :> "plain") @@ (gcB :> "plain") @@ (gcWeak :> "weakk")
Parents == {gcB}

(* Collisions at the end of the table, so that searches wrap around.         *)
FourKeys == {keyA, keyB, keyC, keyD}
OneValue == {valX}
TableHash == (keyA :> 3) @@ (keyB :> 3) @@ (keyC :> 7) @@ (keyD :> 0)

(* Runs of colliding keys that meet, at the end of the buckets.              *)
FiveKeys == FourKeys \cup {keyE}
StructHash == (keyA :> 15) @@ (keyB :> 15) @@ (keyC :> 31) @@ (keyD :> 14) @@ (keyE :> 0)
Order == (keyA :> 3) @@ (keyB :> 1) @@ (keyC :> 2) @@ (keyD :> 4) @@ (keyE :> 5)
TwoValues == {valX, valY}

SymbolNames == {keyA, keyB, keyC, genA, genB}
CoreName == keyC
SymbolHash == (keyA :> 3) @@ (keyB :> 3) @@ (keyC :> 7) @@ (genA :> 2) @@ (genB :> 3)
Generate == <<genA, genB>>

InitAny ==
  /\ Init /\ InitTimeouts /\ InitGC /\ InitTable /\ InitStruct /\ InitSymbols
  /\ part \in {"queue", "timers", "collector", "table", "struct", "symbols"}
  /\ part # "table" => room = 1 /\ weak
  /\ part # "struct" => length = 0

Steps ==
  \/ part = "queue" /\ Next /\ UNCHANGED <<tqvars, gcvars, tablevars, structvars, symvars>>
  \/ part = "timers" /\ NextTimeouts /\ UNCHANGED <<vars, gcvars, tablevars, structvars, symvars>>
  \/ part = "collector" /\ NextGC /\ UNCHANGED <<vars, tqvars, tablevars, structvars, symvars>>
  \/ part = "table" /\ NextTable /\ UNCHANGED <<vars, tqvars, gcvars, structvars, symvars>>
  \/ part = "struct" /\ NextStruct /\ UNCHANGED <<vars, tqvars, gcvars, tablevars, symvars>>
  \/ part = "symbols" /\ NextSymbols /\ UNCHANGED <<vars, tqvars, gcvars, tablevars, structvars>>
NextAny == Steps /\ UNCHANGED part

SpecAny == InitAny /\ [][NextAny]_<<part, vars, tqvars, gcvars, tablevars, structvars, symvars>>
=============================================================================
