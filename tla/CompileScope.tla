------------------------------ MODULE CompileScope ------------------------------
(***************************************************************************)
(* Scopes and names of the compiler ("compile.c"), the function that is    *)
(* made of a scope, and the clean-up of its code ("bytecode.c").           *)
(***************************************************************************)
EXTENDS Emit

P(c, s) == [c |-> c, s |-> s]

(* janetc_init; heap and funs are what earlier forms have left.              *)
Compiler0(env, heap, funs) ==
  [scopes |-> <<>>, buffer |-> <<>>, error |-> "", env |-> env, heap |-> heap, funs |-> funs]

NewScope(c, flags) ==
  LET inherits == "function" \notin flags /\ c.scopes # <<>>
  IN [c EXCEPT !.scopes = Append(@,
        [flags |-> flags, ra |-> IF inherits THEN [Inner(c).ra EXCEPT !.temps = {}] ELSE RegInit,
         ua |-> {}, consts |-> <<>>, syms |-> <<>>, envs |-> <<>>, defs |-> <<>>, start |-> Label(c)])]

(* A captured name keeps its register for the rest of the function.          *)
Outlives(pair) == pair.keep

PopScope(c) ==
  LET old == Inner(c)
      n == Len(c.scopes)
      passes == old.flags \cap {"function", "unused"} = {} /\ n > 1
      below == [c EXCEPT !.scopes = SubSeq(@, 1, n - 1)]
  IN IF ~passes THEN below
     ELSE [below EXCEPT !.scopes[n - 1] =
             [@ EXCEPT !.flags = @ \cup (old.flags \cap {"closure"}),
                       !.ra.max = Bigger(@, old.ra.max),
                       !.ra.set = @ \cup {old.syms[i].slot.index : i \in {j \in DOMAIN old.syms : Outlives(old.syms[j])}},
                       !.syms = @ \o [i \in DOMAIN old.syms |-> [old.syms[i] EXCEPT !.sym = ""]]]]

PopScopeKeep(c, s) ==
  LET d == PopScope(c) IN IF IsLocal(s) THEN WithRa(d, Touch(Inner(d).ra, s.index)) ELSE d

NameSlot(c, sym, s) ==
  [c EXCEPT !.scopes[Len(c.scopes)].syms =
     Append(@, [sym |-> sym, slot |-> [s EXCEPT !.flags = @ \cup {"named"}], keep |-> FALSE])]

FreeSlot(c, s) ==
  IF s.flags \cap {"constant", "ref", "named"} # {} \/ s.env >= 0 THEN c ELSE WithRa(c, FreeReg(Inner(c).ra, s.index))
FreeSlots(c, slots) == FoldLeft(FreeSlot, c, slots)

FarSlot(c) == LET a == AllocFar(c) IN P(a.c, RSlot(a.reg))

(* The global environment: a definition is the value in its entry, a         *)
(* variable an array of one element.                                         *)
Global(c, sym) ==
  LET b == c.env[sym]
  IN CASE b.kind = "builtin" -> CSlot(b.value)
       [] b.kind = "def" -> CSlot(IF c.heap[b.value.n] = <<>> THEN Nil ELSE c.heap[b.value.n][1].items[2])
       [] b.kind = "var" -> Slot({"ref", "named", "mutable"}, -1, -1, b.value)

(* Each function on the way from the one that has the register gets an       *)
(* environment, the first with index -1.                                     *)
Reach(c, from) ==
  FoldLeft(LAMBDA acc, i :
    IF "function" \notin acc.c.scopes[i].flags THEN acc
    ELSE LET envs == acc.c.scopes[i].envs
             at == {j \in DOMAIN envs : envs[j] = acc.env}
         IN IF at # {} THEN [acc EXCEPT !.env = (CHOOSE j \in at : TRUE) - 1]
            ELSE [c |-> [acc.c EXCEPT !.scopes[i].envs = Append(@, acc.env)], env |-> Len(envs)],
    [c |-> c, env |-> -1], [k \in 1 .. Len(c.scopes) - from |-> from + k])

(* janetc_resolve *)
Resolve(c, sym) ==
  LET has == {i \in DOMAIN c.scopes : \E j \in DOMAIN c.scopes[i].syms : c.scopes[i].syms[j].sym = sym}
      at == CHOOSE i \in has : \A k \in has : k <= i
      js == {j \in DOMAIN c.scopes[at].syms : c.scopes[at].syms[j].sym = sym}
      j == CHOOSE k \in js : \A l \in js : l <= k
      s == c.scopes[at].syms[j].slot
      unused == \E i \in at .. Len(c.scopes) : "unused" \in c.scopes[i].flags
      local == \A i \in at + 1 .. Len(c.scopes) : "function" \notin c.scopes[i].flags
      f == CHOOSE i \in 1 .. at : "function" \in c.scopes[i].flags
                                  /\ \A k \in i + 1 .. at : "function" \notin c.scopes[k].flags
      d == [c EXCEPT !.scopes[at].syms[j].keep = TRUE]
      r == Reach([d EXCEPT !.scopes[f] = [@ EXCEPT !.flags = @ \cup {"env"}, !.ua = @ \cup {s.index}]], f)
  IN IF has = {} THEN IF sym \in DOMAIN c.env THEN P(c, Global(c, sym)) ELSE P(Failed(c, "unknown symbol"), CSlot(Nil))
     ELSE IF IsStored(s) THEN P(c, s)
     ELSE IF unused \/ local THEN P(c, [s EXCEPT !.env = -1])
     ELSE P(r.c, [s EXCEPT !.env = r.env])

-----------------------------------------------------------------------------
(* Which operands an instruction reads, and which it writes when all it does *)
(* is to write.                                                              *)
Reads(op) ==
  CASE op \in {"jmp", "noop", "retn", "ldi", "ldc", "ldu", "clo", "ldn", "ldt", "ldf", "lds"} -> {}
    [] op \in {"mkarr", "mkstu", "mktab", "mktup", "mkbtp", "err", "jmpif", "jmpno", "jmpni", "jmpnn", "setu", "movf",
               "ret", "push", "pusha", "tcall"} -> {2}
    [] op \in {"sig", "addim", "subim", "mulim", "gtim", "ltim", "eqim", "neqim", "geti", "movn", "len", "call"} -> {3}
    [] op \in {"puti", "push2"} -> {2, 3}
    [] op \in {"prop", "add", "sub", "mul", "gt", "lt", "eq", "cmp", "in", "get", "gte", "lte", "neq", "cncl", "res", "next"} -> {3, 4}
    [] op \in {"put", "push3"} -> {2, 3, 4}
OnlyWrites(op) ==
  CASE op \in {"ldn", "ldt", "ldf", "lds", "mkarr", "mktup", "mkbtp", "movn", "geti", "ldi", "ldc", "ldu", "clo"} -> {2}
    [] op = "movf" -> {3}
    [] OTHER -> {}

ReadRegs(def) == def.ua \cup UNION {{i[k] : k \in Reads(i[1])} : i \in ToSet(def.code)}

(* janet_bytecode_movopt *)
RECURSIVE MovOpt(_)
MovOpt(def) ==
  LET read == ReadRegs(def) \cup (FirstReserved .. LastNear)
      dead(i) == \E k \in OnlyWrites(i[1]) : i[k] \notin read
      code == [pc \in DOMAIN def.code |-> IF dead(def.code[pc]) THEN <<"noop", 0, 0, 0>> ELSE def.code[pc]]
  IN IF code = def.code THEN def ELSE MovOpt([def EXCEPT !.code = code])

(* Where the jump of an instruction is.                                      *)
JumpAt(op) == CASE op = "jmp" -> {2} [] op \in {"jmpif", "jmpno", "jmpni", "jmpnn"} -> {3} [] OTHER -> {}

\* Mutant: the length of a jump is kept.
Jumped_Same(code, map, i, k) == code[i][k]

Jumped(code, map, i, k) == map[i + code[i][k]] - map[i]

(* janet_bytecode_remove_noops *)
RemoveNoops(def) ==
  LET code == def.code
      map == [i \in 1 .. Len(code) + 1 |-> Cardinality({k \in 1 .. i - 1 : code[k][1] # "noop"})]
      moved(i) == [k \in 1 .. 4 |-> IF k \in JumpAt(code[i][1]) THEN Jumped(code, map, i, k) ELSE code[i][k]]
      live == SelectSeq([i \in DOMAIN code |-> i], LAMBDA i : code[i][1] # "noop")
  IN [def EXCEPT !.code = [i \in DOMAIN live |-> moved(live[i])]]

(* janetc_pop_funcdef *)
PopFuncdef(c) ==
  LET scope == Inner(c)
      slots == scope.ra.max + 1
      def == [slots |-> slots, envs |-> scope.envs, consts |-> scope.consts, defs |-> scope.defs,
              code |-> SubSeq(c.buffer, scope.start + 1, Len(c.buffer)), needsenv |-> "env" \in scope.flags,
              ua |-> scope.ua \cap (0 .. slots - 1),
              arity |-> 0, min |-> 0, max |-> -1, vararg |-> FALSE, structarg |-> FALSE]
  IN [c |-> PopScope([c EXCEPT !.buffer = SubSeq(@, 1, scope.start)]), def |-> RemoveNoops(MovOpt(def))]

AddFuncdef(c, def) ==
  LET f == FunctionScope(c)
  IN [c |-> [c EXCEPT !.scopes[f].defs = Append(@, def)], index |-> Len(c.scopes[f].defs)]
=============================================================================
