----------------------------------- MODULE VM -----------------------------------
(***************************************************************************)
(* The interpreter ("vm.c") and the stack of one fiber ("fiber.c"): one    *)
(* instruction a step.  A frame has the function, where it is in its code, *)
(* its registers and, when a function was made in it, an environment: the  *)
(* registers themselves until the frame is left, then a copy of those that *)
(* are captured.                                                           *)
(*                                                                         *)
(* A definition is [slots, envs, consts, defs, code, ua, arity, min, max,  *)
(* vararg, structarg]: envs are where its environments come from, ua the   *)
(* registers that functions inside use, max is -1 when there is no limit.  *)
(***************************************************************************)
EXTENDS Values

VARIABLES
  frames,   \* the frames, the running one last
  args,     \* what was pushed for the next one
  envs,     \* environments: [at |-> its frame, or 0 when it is left, values]
  funs,     \* functions: [def, envs]
  heap,     \* contents of arrays and tables
  log,      \* what the program has shown
  result    \* [sig |-> "none", "ok" or "error", value]

mvars == <<frames, args, envs, funs, heap, log, result>>

NoResult == [sig |-> "none", value |-> Nil]
Panic == [sig |-> "error", value |-> Kw("panic")]

Here == Len(frames)
Top == frames[Here]
Fun == funs[Top.fun]
Def == Fun.def
I == Def.code[Top.pc + 1]
Op == I[1]
A == I[2]
B == I[3]
C == I[4]
R(reg) == Top.regs[reg]

Running == result.sig = "none" /\ frames # <<>>
Is(ops) == Running /\ Op \in ops

-----------------------------------------------------------------------------
(* janet_verify: what an instruction may name.                               *)
OneReg == {"ret", "err", "push", "pusha", "tcall", "ldn", "ldt", "ldf", "lds", "mkarr", "mktup", "mkstu", "mktab"}
TwoRegs == {"movn", "movf", "push2", "call", "len", "addim", "subim", "mulim", "gtim", "ltim", "eqim", "neqim", "geti", "puti"}
ThreeRegs == {"add", "sub", "mul", "gt", "lt", "gte", "lte", "eq", "neq", "cmp", "in", "get", "put", "push3"}
CondJumps == {"jmpif", "jmpno", "jmpni", "jmpnn"}
Upvals == {"ldu", "setu"}
Ops == {"noop", "retn", "jmp", "ldi", "ldc", "clo"} \cup OneReg \cup TwoRegs \cup ThreeRegs \cup CondJumps \cup Upvals

Names(def, pc) ==
  LET i == def.code[pc + 1]
      reg(k) == i[k] \in 0 .. def.slots - 1
      dest(k) == pc + i[k] \in 0 .. Len(def.code) - 1
  IN /\ i[1] \in Ops
     /\ i[1] \in OneReg \cup TwoRegs \cup ThreeRegs \cup CondJumps \cup Upvals \cup {"ldi", "ldc", "clo"} => reg(2)
     /\ i[1] \in TwoRegs \cup ThreeRegs => reg(3)
     /\ i[1] \in ThreeRegs => reg(4)
     /\ i[1] = "jmp" => dest(2)
     /\ i[1] \in CondJumps => dest(3)
     /\ i[1] = "ldc" => i[3] \in 0 .. Len(def.consts) - 1
     /\ i[1] = "clo" => i[3] \in 0 .. Len(def.defs) - 1
     /\ i[1] \in Upvals => i[3] \in 0 .. Len(def.envs) - 1

Terminal == {"ret", "retn", "jmp", "err", "tcall"}
Verified(def) ==
  /\ def.code # <<>>
  /\ def.arity + (IF def.vararg THEN 1 ELSE 0) <= def.slots
  /\ \A pc \in 0 .. Len(def.code) - 1 : Names(def, pc)
  /\ def.code[Len(def.code)][1] \in Terminal

-----------------------------------------------------------------------------
(* janet_fiber_funcframe and janet_fiber_funcframe_tail                      *)
WrongCount(def) == Len(args) < def.min \/ (def.max >= 0 /\ Len(args) > def.max)
Packed(def) ==
  LET rest == IF Len(args) > def.arity THEN SubSeq(args, def.arity + 1, Len(args)) ELSE <<>>
  IN IF def.structarg THEN Struct(rest) ELSE Tup(rest)

(* More arguments than are named stay in registers, except in a tail call    *)
(* that packs them.                                                          *)
Entered(f, tail) ==
  LET def == funs[f].def
      reg(r) ==
        CASE def.vararg /\ r = def.arity -> Packed(def)
          [] (~def.vararg \/ r # def.arity) /\ r < Len(args) /\ ~(tail /\ def.vararg /\ r > def.arity) -> args[r + 1]
          [] OTHER -> Nil
  IN [fun |-> f, pc |-> 0, env |-> 0, regs |-> [r \in 0 .. def.slots - 1 |-> reg(r)]]

\* Mutant: an environment is forgotten with its frame.
Detached_Lost(es, frame) == es

(* janet_env_detach                                                          *)
Detached(es, frame) ==
  IF frame.env = 0 THEN es
  ELSE [es EXCEPT ![frame.env] =
         [at |-> 0, values |-> [r \in DOMAIN frame.regs |-> IF r \in funs[frame.fun].def.ua THEN frame.regs[r] ELSE Nil]]]

(* The frame goes on with the next instruction, with v in a register.        *)
Advance == frames' = [frames EXCEPT ![Here].pc = @ + 1]
Set(reg, v) == frames' = [frames EXCEPT ![Here].pc = @ + 1, ![Here].regs[reg] = v]
Jump(by) == frames' = [frames EXCEPT ![Here].pc = @ + by]
Fails == result' = Panic /\ UNCHANGED <<frames, args, envs, funs, heap, log>>
Quiet == UNCHANGED <<envs, funs, log, result>>
SetOrFail(reg, v) ==
  \/ v = Bad /\ Fails
  \/ v # Bad /\ Set(reg, v) /\ UNCHANGED <<args, heap>> /\ Quiet

(* The running frame is left, and v goes where the call said.                *)
Leave(below, v) ==
  LET last == below[Len(below)]
      i == funs[last.fun].def.code[last.pc + 1]
  IN IF below = <<>> THEN result' = [sig |-> "ok", value |-> v] /\ frames' = <<>>
     ELSE /\ frames' = [below EXCEPT ![Len(below)].pc = @ + 1, ![Len(below)].regs[i[2]] = v]
          /\ UNCHANGED result

-----------------------------------------------------------------------------
Load ==
  /\ Is({"noop", "ldn", "ldt", "ldf", "ldi", "ldc", "lds", "movn", "movf"})
  /\ CASE Op = "noop" -> Advance
       [] Op = "ldn" -> Set(A, Nil)
       [] Op \in {"ldt", "ldf"} -> Set(A, Bool(Op = "ldt"))
       [] Op = "ldi" -> Set(A, Num(B))
       [] Op = "ldc" -> Set(A, Def.consts[B + 1])
       [] Op = "lds" -> Set(A, Closure(Top.fun))
       [] Op = "movn" -> Set(A, R(B))
       [] Op = "movf" -> Set(B, R(A))
  /\ UNCHANGED <<args, heap>> /\ Quiet

(* Registers of functions around; which of them exist is known only now.     *)
EnvOf == envs[Fun.envs[B + 1]]
Registers(e) == IF e.at = 0 THEN e.values ELSE frames[e.at].regs
LoadUpvalue ==
  /\ Is({"ldu"})
  /\ \/ C \notin DOMAIN Registers(EnvOf) /\ Fails
     \/ C \in DOMAIN Registers(EnvOf) /\ Set(A, Registers(EnvOf)[C]) /\ UNCHANGED <<args, heap>> /\ Quiet
SetUpvalue ==
  /\ Is({"setu"})
  /\ \/ C \notin DOMAIN Registers(EnvOf) /\ Fails
     \/ /\ C \in DOMAIN Registers(EnvOf)
        /\ IF EnvOf.at = 0 THEN Advance /\ envs' = [envs EXCEPT ![Fun.envs[B + 1]].values[C] = R(A)]
           ELSE frames' = [frames EXCEPT ![Here].pc = @ + 1, ![EnvOf.at].regs[C] = R(A)] /\ UNCHANGED envs
        /\ UNCHANGED <<args, funs, heap, log, result>>

Branch ==
  /\ Is({"jmp"} \cup CondJumps)
  /\ LET taken ==
           CASE Op = "jmpif" -> Truthy(R(A)) [] Op = "jmpno" -> ~Truthy(R(A))
             [] Op = "jmpni" -> R(A) = Nil [] Op = "jmpnn" -> R(A) # Nil
     IN Jump(IF Op = "jmp" THEN A ELSE IF taken THEN B ELSE 1)
  /\ UNCHANGED <<args, heap>> /\ Quiet

Plain(op) == CASE op = "addim" -> "add" [] op = "subim" -> "sub" [] op = "mulim" -> "mul" [] op = "gtim" -> "gt"
               [] op = "ltim" -> "lt" [] op = "eqim" -> "eq" [] op = "neqim" -> "neq" [] OTHER -> op
Right == IF Op \in {"addim", "subim", "mulim", "gtim", "ltim", "eqim", "neqim"} THEN Num(C) ELSE R(C)
Compute ==
  /\ Is({"add", "sub", "mul", "addim", "subim", "mulim", "gt", "lt", "gte", "lte", "eq", "neq", "gtim", "ltim", "eqim",
         "neqim", "cmp", "in", "get", "geti", "len"})
  /\ SetOrFail(A,
       CASE Op = "cmp" -> Num(Compare(R(B), R(C)))
         [] Op = "in" -> In(heap, R(B), R(C))
         [] Op = "get" -> Get(heap, R(B), R(C))
         [] Op = "geti" -> GetIndex(heap, R(B), C)
         [] Op = "len" -> Length(heap, R(B))
         [] Plain(Op) \in {"add", "sub", "mul"} -> Arith(Plain(Op), R(B), Right)
         [] OTHER -> Bool(Relation(Plain(Op), R(B), Right)))

PutValue ==
  /\ Is({"put", "puti"})
  /\ LET key == IF Op = "put" THEN R(B) ELSE Num(C)
         v == IF Op = "put" THEN R(C) ELSE R(B)
     IN \/ ~CanPut(R(A), key) /\ Fails
        \/ CanPut(R(A), key) /\ heap' = PutIn(heap, R(A), key, v) /\ Advance /\ UNCHANGED args /\ Quiet

(* Whether a frame has no environment yet.                                   *)
Captures == Top.env = 0

(* A function is made; the frame gets an environment when one is needed.     *)
MakeClosure ==
  /\ Is({"clo"})
  /\ LET d == Def.defs[B + 1]
         here(i) == d.envs[i] = -1 \/ d.envs[i] >= Len(Def.envs)
         new == Captures /\ \E i \in DOMAIN d.envs : here(i)
         env == IF new THEN Len(envs) + 1 ELSE Top.env
         es == [i \in DOMAIN d.envs |-> IF here(i) THEN env ELSE Fun.envs[d.envs[i] + 1]]
     IN /\ envs' = IF new THEN Append(envs, [at |-> Here, values |-> <<>>]) ELSE envs
        /\ funs' = Append(funs, [def |-> d, envs |-> es])
        /\ frames' = [frames EXCEPT ![Here].pc = @ + 1, ![Here].env = env, ![Here].regs[A] = Closure(Len(funs) + 1)]
  /\ UNCHANGED <<args, heap, log, result>>

PushArgs ==
  /\ Is({"push", "push2", "push3", "pusha"})
  /\ \/ Op = "pusha" /\ ~IsIndexed(R(A)) /\ Fails
     \/ /\ Op = "pusha" => IsIndexed(R(A))
        /\ args' = args \o (CASE Op = "push" -> <<R(A)>>
                              [] Op = "push2" -> <<R(A), R(B)>>
                              [] Op = "push3" -> <<R(A), R(B), R(C)>>
                              [] Op = "pusha" -> Elements(heap, R(A)))
        /\ Advance /\ UNCHANGED heap /\ Quiet

Make ==
  /\ Is({"mkarr", "mktup", "mkstu", "mktab"})
  /\ LET id == Len(heap) + 1
         made == CASE Op = "mkarr" -> Array(id) [] Op = "mktup" -> Tup(args) [] Op = "mkstu" -> Struct(args) [] Op = "mktab" -> Table(id)
     IN \/ Op \in {"mkstu", "mktab"} /\ Len(args) % 2 = 1 /\ Fails
        \/ /\ Op \in {"mkstu", "mktab"} => Len(args) % 2 = 0
           /\ heap' = CASE Op = "mkarr" -> Append(heap, args) [] Op = "mktab" -> Append(heap, EntriesOf(args)) [] OTHER -> heap
           /\ Set(A, made) /\ args' = <<>> /\ Quiet

-----------------------------------------------------------------------------
(* Calls.  A keyword is the name of a method of the first argument.          *)
Said == IF Op = "call" THEN R(B) ELSE R(A)
Callee ==
  IF Said.t # "keyword" THEN Said
  ELSE IF args = <<>> \/ Get(heap, args[1], Said) = Nil THEN Bad ELSE Get(heap, args[1], Said)
IsClosure(v) == v.t = "function"

CallFunction ==
  /\ Is({"call"}) /\ IsClosure(Callee)
  /\ \/ WrongCount(funs[Callee.n].def) /\ Fails
     \/ /\ ~WrongCount(funs[Callee.n].def)
        /\ frames' = Append(frames, Entered(Callee.n, FALSE))
        /\ args' = <<>> /\ UNCHANGED heap /\ Quiet

TailCall ==
  /\ Is({"tcall"}) /\ IsClosure(Callee)
  /\ \/ WrongCount(funs[Callee.n].def) /\ Fails
     \/ /\ ~WrongCount(funs[Callee.n].def)
        /\ envs' = Detached(envs, Top)
        /\ frames' = [frames EXCEPT ![Here] = Entered(Callee.n, TRUE)]
        /\ args' = <<>> /\ UNCHANGED <<funs, heap, log, result>>

(* What is not a function of the program: "log", or a value that is asked    *)
(* for an element.                                                           *)
Answer ==
  CASE Callee = Builtin("log") -> Nil
    [] IsIndexed(Callee) \/ IsDictionary(Callee) -> IF Len(args) = 1 THEN In(heap, Callee, args[1]) ELSE Bad
    [] Callee.t \in {"number", "boolean", "nil", "keyword"} -> IF Len(args) = 1 THEN In(heap, args[1], Callee) ELSE Bad
    [] OTHER -> Bad
Shows == log' = IF Callee = Builtin("log") THEN Append(log, [i \in DOMAIN args |-> Shown(heap, args[i])]) ELSE log
CallOther ==
  /\ Is({"call"}) /\ ~IsClosure(Callee)
  /\ \/ Answer = Bad /\ Fails
     \/ Answer # Bad /\ Set(A, Answer) /\ args' = <<>> /\ Shows /\ UNCHANGED <<envs, funs, heap, result>>
TailOther ==
  /\ Is({"tcall"}) /\ ~IsClosure(Callee)
  /\ \/ Answer = Bad /\ Fails
     \/ /\ Answer # Bad
        /\ Leave(SubSeq(frames, 1, Here - 1), Answer)
        /\ envs' = Detached(envs, Top)
        /\ args' = <<>> /\ Shows /\ UNCHANGED <<funs, heap>>

ReturnValue ==
  /\ Is({"ret", "retn"})
  /\ Leave(SubSeq(frames, 1, Here - 1), IF Op = "retn" THEN Nil ELSE R(A))
  /\ envs' = Detached(envs, Top)
  /\ args' = <<>> /\ UNCHANGED <<funs, heap, log>>

Raise ==
  /\ Is({"err"})
  /\ result' = [sig |-> "error", value |-> R(A)]
  /\ UNCHANGED <<frames, args, envs, funs, heap, log>>

Exec ==
  \/ Load \/ LoadUpvalue \/ SetUpvalue \/ Branch \/ Compute \/ PutValue \/ MakeClosure \/ PushArgs \/ Make
  \/ CallFunction \/ TailCall \/ CallOther \/ TailOther \/ ReturnValue \/ Raise
=============================================================================
