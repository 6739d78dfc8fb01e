-------------------------- MODULE MainJanetRuntime --------------------------
(***************************************************************************)
(* MainJanetRuntime (Sources/Janet/MainJanetRuntime.swift): the one VM on  *)
(* the main thread, called synchronously.  Everything here happens on one  *)
(* thread, so what interleaves is the call stack: a script may call a C    *)
(* function that calls back into Swift, and the Swift code there may call  *)
(* eval, define or reset again before it returns to the interpreter.       *)
(*                                                                         *)
(* The stack holds one frame per eval in progress.  A frame runs Janet     *)
(* code or, inside a callback, Swift code; the code below the top frame is *)
(* waiting.  reset frees the VM and starts another, so each frame and the  *)
(* env pointer of JanetVM record the VM they belong to by its number.      *)
(***************************************************************************)
EXTENDS Naturals, Sequences

CONSTANTS Name,       \* names that scripts and define bind
          MaxDepth,   \* bound: evals nested inside each other
          MaxResets   \* bound: resets

ASSUME MainBounds == MaxDepth \in Nat \ {0} /\ MaxResets \in Nat

VARIABLES stack,         \* evals in progress: [vm, inSwift, nested]
          isEvaluating,  \* the flag of MainJanetRuntime
          vm,            \* number of the live VM, counted by janet_init
          env,           \* number of the VM that JanetVM.env points into
          bound,         \* for each VM, the names bound in its environment
          defined,       \* the names defined since the last reset
          trapped,       \* a precondition has failed
          corrupt        \* the interpreter has run on a VM that was freed

mainvars == <<stack, isEvaluating, vm, env, bound, defined, trapped, corrupt>>

VM == 0..MaxResets

InitMain == /\ stack = <<>>
            /\ isEvaluating = FALSE
            /\ vm = 0
            /\ env = 0
            /\ bound = [v \in VM |-> {}]
            /\ defined = {}
            /\ trapped = FALSE
            /\ corrupt = FALSE

Innermost == stack[Len(stack)]
Below == SubSeq(stack, 1, Len(stack) - 1)
WithTop(s, f) == [s EXCEPT ![Len(s)] = f]

Running == ~trapped /\ ~corrupt
InSwift == Running /\ (stack # <<>> => Innermost.inSwift)
InJanet == Running /\ stack # <<>> /\ ~Innermost.inSwift

-----------------------------------------------------------------------------
(* Calls that Swift code makes, outside any eval or in a callback. *)

\* eval sets the flag and enters janet_dostring with the current env.
EvalBegin == /\ InSwift
             /\ Len(stack) < MaxDepth
             /\ isEvaluating' = TRUE
             /\ stack' = Append(stack, [vm |-> env, inSwift |-> FALSE, nested |-> FALSE])
             /\ UNCHANGED <<vm, env, bound, defined, trapped, corrupt>>

Define(n) == /\ InSwift
             /\ bound' = [bound EXCEPT ![env] = @ \cup {n}]
             /\ defined' = defined \cup {n}
             /\ UNCHANGED <<stack, isEvaluating, vm, env, trapped, corrupt>>

\* JanetVM.reset: janet_deinit, janet_init, and a new core environment.
\* (Not replacing env, or asking for it between janet_deinit and janet_init,
\* would leave it in the old VM or in none.)
EnvAfterReset_Kept == env
EnvAfterReset == vm + 1

ResetTraps_Never == FALSE
ResetTraps == isEvaluating

Reset == /\ InSwift
         /\ IF ResetTraps
            THEN /\ trapped' = TRUE
                 /\ UNCHANGED <<stack, isEvaluating, vm, env, bound, defined, corrupt>>
            ELSE /\ vm < MaxResets
                 /\ vm' = vm + 1
                 /\ env' = EnvAfterReset
                 /\ defined' = {}
                 /\ UNCHANGED <<stack, isEvaluating, bound, trapped, corrupt>>

-----------------------------------------------------------------------------
(* Steps of the interpreter in the top frame. *)

\* The script binds a name itself.
ScriptDef(n) == /\ InJanet
                /\ bound' = [bound EXCEPT ![Innermost.vm] = @ \cup {n}]
                /\ defined' = defined \cup {n}
                /\ UNCHANGED <<stack, isEvaluating, vm, env, trapped, corrupt>>

\* The script calls a C function that runs Swift code.
CallSwift == /\ InJanet
             /\ stack' = WithTop(stack, [Innermost EXCEPT !.inSwift = TRUE])
             /\ UNCHANGED <<isEvaluating, vm, env, bound, defined, trapped, corrupt>>

\* The callback returns to the interpreter that called it.  If the VM of that
\* frame is gone, the interpreter goes on in freed memory, and the model stops.
ReturnToJanet == /\ InSwift
                 /\ stack # <<>>
                 /\ corrupt' = (Innermost.vm # vm)
                 /\ stack' = WithTop(stack, [Innermost EXCEPT !.inSwift = FALSE])
                 /\ UNCHANGED <<isEvaluating, vm, env, bound, defined, trapped>>

\* The script ends, with a value or an error: either way the deferred statement
\* clears the flag, for an eval in a callback as for any other.
FlagAfterEval_OnSuccessOnly(failed) == IF failed THEN isEvaluating ELSE FALSE
FlagAfterEval(failed) == FALSE

EvalEnd(failed) ==
    /\ InJanet
    /\ isEvaluating' = FlagAfterEval(failed)
    /\ stack' = IF Below = <<>> THEN <<>>
                ELSE WithTop(Below, [Below[Len(Below)] EXCEPT !.nested = TRUE])
    /\ UNCHANGED <<vm, env, bound, defined, trapped, corrupt>>

Crashed == ~Running /\ UNCHANGED mainvars

NextMain == \/ EvalBegin \/ Reset \/ CallSwift \/ ReturnToJanet
            \/ \E n \in Name : Define(n) \/ ScriptDef(n)
            \/ \E failed \in BOOLEAN : EvalEnd(failed)
            \/ Crashed

MainSpec == InitMain /\ [][NextMain]_mainvars

-----------------------------------------------------------------------------
(* Properties *)

\* Every variable has its type, and only the top frame can be running Janet.
MainTypeOK == /\ stack \in Seq([vm : VM, inSwift : BOOLEAN, nested : BOOLEAN])
              /\ Len(stack) <= MaxDepth
              /\ \A i \in 1..(Len(stack) - 1) : stack[i].inSwift
              /\ isEvaluating \in BOOLEAN
              /\ vm \in VM
              /\ env \in VM
              /\ bound \in [VM -> SUBSET Name]
              /\ defined \in SUBSET Name
              /\ trapped \in BOOLEAN
              /\ corrupt \in BOOLEAN

\* "no evaluation is in progress, so a Janet cfunction calling back into Swift
\* cannot pull the VM out from under the running interpreter": every eval in
\* progress runs on the live VM (the precondition of MainJanetRuntime.reset).
NoResetUnderEval == \A i \in 1..Len(stack) : stack[i].vm = vm

\* The part of that promise the flag does keep: the VM is pulled out from under
\* a frame only if an eval nested in that frame, or in one above it, has ended.
FlagHoldsUntilNestedEvalEnds ==
    \A i \in 1..Len(stack) :
        stack[i].vm # vm => \E k \in i..Len(stack) : stack[k].nested

\* No eval in progress means the flag is down, after a failure too: the main
\* runtime can always be reset again between calls.
ResettableBetweenCalls == stack = <<>> => ~isEvaluating

\* reset leaves "a VM as fresh as the one init made" and every later call uses
\* that one: the environment that eval and define reach through JanetVM.env
\* holds exactly what was bound since the last reset, by calls and by scripts.
EnvHoldsWhatWasDefined == ~corrupt => bound[env] = defined

\* The inductive invariant.  The flag is down inside an eval only where the
\* frame on top has seen a nested eval end; the script that runs, and every
\* call from Swift, is on the live VM; and the VMs to come are empty.
FlagDownAfterNested == stack # <<>> /\ ~isEvaluating => Innermost.nested
ScriptRunsOnLiveVM == ~corrupt /\ stack # <<>> /\ ~Innermost.inSwift => Innermost.vm = vm
LaterVMsAreFresh == env = vm /\ \A v \in VM : v > vm => bound[v] = {}
MainInv == /\ MainTypeOK
           /\ FlagDownAfterNested
           /\ ScriptRunsOnLiveVM
           /\ LaterVMsAreFresh
           /\ FlagHoldsUntilNestedEvalEnds
           /\ ResettableBetweenCalls
           /\ EnvHoldsWhatWasDefined
=============================================================================
