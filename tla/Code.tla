---------------------------------- MODULE Code ----------------------------------
(***************************************************************************)
(* A program is compiled and run one form after the other, until one       *)
(* fails, as janet_dobytes does it for a file.                             *)
(***************************************************************************)
EXTENDS VM

CONSTANTS
  Programs,
  BasicNames,              \* the functions every program has
  Translate(_, _, _, _),   \* the compiler: environment, heap, functions and form to [error, def, env, heap]
  Intended(_),             \* what a program means: [sig, v, heap, log]
  LastOperand              \* the last register that fits in eight bits

VARIABLES
  source,   \* the program
  todo,     \* the forms that are left
  globals   \* the environment

vars == <<mvars, source, todo, globals>>

Basics == [s \in BasicNames |-> [kind |-> "builtin", value |-> Builtin(s)]]
Ended == \/ result.sig \in {"error", "refused"}
         \/ result.sig # "none" /\ frames = <<>> /\ todo = <<>>

Init ==
  /\ source \in Programs /\ todo = source
  /\ globals = Basics
  /\ frames = <<>> /\ args = <<>> /\ envs = <<>> /\ funs = <<>> /\ heap = <<>> /\ log = <<>>
  /\ result = [NoResult EXCEPT !.sig = "ok"]

(* The next form; what the compiler allocated stays when it gives up.        *)
Compile ==
  /\ todo # <<>> /\ frames = <<>> /\ result.sig = "ok"
  /\ LET c == Translate(globals, heap, funs, Head(todo))
         def == [c.def EXCEPT !.arity = 0]
         regs == [r \in 0 .. def.slots - 1 |-> Nil]
     IN /\ heap' = c.heap /\ globals' = c.env
        /\ IF c.error # "" THEN result' = [sig |-> "refused", value |-> Kw(c.error)] /\ UNCHANGED <<frames, funs>>
           ELSE /\ funs' = Append(funs, [def |-> def, envs |-> <<>>])
                /\ frames' = <<[fun |-> Len(funs) + 1, pc |-> 0, env |-> 0, regs |-> regs]>>
                /\ result' = NoResult
  /\ todo' = Tail(todo)
  /\ args' = <<>> /\ UNCHANGED <<envs, log, source>>

Run == Exec /\ UNCHANGED <<source, todo, globals>>
Stop == Ended /\ UNCHANGED vars
Next == Compile \/ Run \/ Stop
Spec == Init /\ [][Next]_vars
FairSpec == Spec /\ WF_vars(Run)

-----------------------------------------------------------------------------
(* Frames have the registers of their functions and are within their code.   *)
TypeOK ==
  /\ \A i \in DOMAIN frames :
       /\ frames[i].fun \in DOMAIN funs /\ frames[i].env \in 0 .. Len(envs)
       /\ DOMAIN frames[i].regs = 0 .. funs[frames[i].fun].def.slots - 1
       /\ frames[i].pc \in 0 .. Len(funs[frames[i].fun].def.code) - 1
  /\ \A e \in DOMAIN envs : envs[e].at \in 0 .. Len(frames)
  /\ \A f \in DOMAIN funs : ToSet(funs[f].envs) \subseteq DOMAIN envs

(* What a program shows and what it comes to is what it means: the same      *)
(* calls of log in the same order, the same value or the same error.         *)
Means ==
  Ended => LET r == Intended(source)
           IN result.sig = r.sig /\ log = r.log /\ Shown(heap, result.value) = Shown(r.heap, r.v)


(* An environment is on the stack as long as its frame is: the frame it      *)
(* names is there and names it, and no other environment has that frame.     *)
EnvFollowsFrame ==
  \A e \in DOMAIN envs : envs[e].at # 0 => frames[envs[e].at].env = e

(* A register in an eight-bit operand is one that eight bits can name.       *)
NearOperands(op) ==
  CASE op \in OneReg \cup {"jmp", "noop", "retn"} -> {}
    [] op \in ThreeRegs -> {2, 3, 4}
    [] op \in Upvals \cup {"addim", "subim", "mulim", "gtim", "ltim", "eqim", "neqim", "geti", "puti"} -> {2, 3}
    [] OTHER -> {2}
OperandsFit(def) == \A i \in ToSet(def.code) : \A k \in NearOperands(i[1]) : i[k] <= LastOperand

(* The code the compiler makes is what janet_verify accepts, and no operand  *)
(* of eight bits holds a register that eight bits cannot name.               *)
Accepted == \A f \in DOMAIN funs : Verified(funs[f].def) /\ OperandsFit(funs[f].def)

(* Every form that is run comes to an end: none of the programs loops.       *)
Ends == frames # <<>> ~> result.sig # "none"
=============================================================================
