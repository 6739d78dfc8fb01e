-------------------------------- MODULE Compiler --------------------------------
(***************************************************************************)
(* From forms to functions ("compile.c", "specials.c", "cfuns.c").  A form *)
(* is a record: its kind f, a value v when it is a constant, a name s, and *)
(* parts.  Macros are expanded, and the literals of structs and tables are *)
(* parts by turns.                                                         *)
(***************************************************************************)
EXTENDS CompileScope

Form(f, v, s, parts) == [f |-> f, v |-> v, s |-> s, parts |-> parts]
NilForm == Form("const", Nil, "", <<>>)
IsSym(form, s) == form.f = "sym" /\ form.s = s
IsSequence(form) == form.f \in {"tuple", "array"}

(* JanetFopts *)
Opts(flags, hint) == [flags |-> flags, hint |-> hint]
Default == Opts({}, CSlot(Nil))

-----------------------------------------------------------------------------
(* Calls of functions the compiler knows ("cfuns.c").                        *)
IsImm(s) == "constant" \in s.flags /\ s.const.t = "number" /\ s.const.n \in -128 .. 127

Target(c, opts) ==
  IF "hint" \in opts.flags /\ IsLocal(opts.hint) /\ opts.hint.index <= LastNear THEN P(c, opts.hint) ELSE FarSlot(c)

Step(c, op, slots, far, rest, wr) == Instr(c, op, slots, far, rest, wr).c

Reducers ==
  ("+" :> [op |-> "add", im |-> "addim", none |-> Num(0), one |-> Num(0)])
  @@ ("-" :> [op |-> "sub", im |-> "subim", none |-> Num(0), one |-> Num(0)])
  @@ ("*" :> [op |-> "mul", im |-> "mulim", none |-> Num(1), one |-> Num(1)])
  @@ ("in" :> [op |-> "in", im |-> "", none |-> Nil, one |-> Nil])
  @@ ("get" :> [op |-> "get", im |-> "", none |-> Nil, one |-> Nil])
  @@ ("cmp" :> [op |-> "cmp", im |-> "", none |-> Nil, one |-> Nil])
Comparers ==
  (">" :> [op |-> "gt", im |-> "gtim", invert |-> FALSE]) @@ ("<" :> [op |-> "lt", im |-> "ltim", invert |-> FALSE])
  @@ (">=" :> [op |-> "gte", im |-> "", invert |-> FALSE]) @@ ("<=" :> [op |-> "lte", im |-> "", invert |-> FALSE])
  @@ ("=" :> [op |-> "eq", im |-> "eqim", invert |-> FALSE]) @@ ("not=" :> [op |-> "neq", im |-> "neqim", invert |-> TRUE])

Binary(c, op, im, t, x, y) ==
  IF im # "" /\ IsImm(y) THEN Step(c, im, <<t, x>>, {}, <<y.const.n>>, TRUE) ELSE Step(c, op, <<t, x, y>>, {}, <<>>, TRUE)

OpReduce(c0, opts, args, r) ==
  LET t == Target(c0, opts)
      c == t.c
      more == FoldLeft(LAMBDA d, y : Binary(d, r.op, r.im, t.s, t.s, y),
                       Binary(c, r.op, r.im, t.s, args[1], args[2]), SubSeq(args, 3, Len(args)))
  IN CASE Len(args) = 0 -> P(c0, CSlot(r.none))
       [] Len(args) = 1 -> P(IF r.op = "sub" THEN Step(c, "mulim", <<t.s, args[1]>>, {}, <<-1>>, TRUE)
                             ELSE Step(c, r.op, <<t.s, CSlot(r.one), args[1]>>, {}, <<>>, TRUE), t.s)
       [] Len(args) > 1 -> P(more, t.s)

\* Mutant: a comparison that fails goes on with the next.
CompReduce_On(c0, opts, args, r) ==
  LET t == Target(c0, opts)
  IN IF Len(args) < 2 THEN P(c0, CSlot(Bool(~r.invert)))
     ELSE P(FoldLeft(LAMBDA d, i : Binary(d, r.op, r.im, t.s, args[i], args[i + 1]), t.c, [i \in 1 .. Len(args) - 1 |-> i]), t.s)

CompReduce(c0, opts, args, r) ==
  LET t == Target(c0, opts)
      n == Len(args) - 1
      all == FoldLeft(LAMBDA acc, i :
               LET d == Binary(acc.c, r.op, r.im, t.s, args[i], args[i + 1])
                   j == Instr(d, IF r.invert THEN "jmpif" ELSE "jmpno", <<t.s>>, {}, <<0>>, TRUE)
               IN IF i = n THEN [acc EXCEPT !.c = d] ELSE [c |-> j.c, labels |-> Append(acc.labels, j.label)],
               [c |-> t.c, labels |-> <<>>], [i \in 1 .. n |-> i])
  IN IF Len(args) < 2 THEN P(c0, CSlot(Bool(~r.invert)))
     ELSE P(FoldLeft(LAMBDA d, l : Patch(d, l, 3, Label(d) - l), all.c, all.labels), t.s)

(* (get x k default) *)
GetDefault(c0, opts, args) ==
  LET t == Target(c0, opts)
      same == SameSlot(t.s, args[3])
      d == FarSlot(t.c)
      dflt == IF same THEN P(Copy(d.c, d.s, t.s), d.s) ELSE P(t.c, args[3])
      j == Instr(Step(dflt.c, "get", <<t.s, args[1], args[2]>>, {}, <<>>, TRUE), "jmpnn", <<t.s>>, {}, <<0>>, FALSE)
      e == Copy(j.c, t.s, dflt.s)
      f == IF same THEN FreeSlot(e, dflt.s) ELSE e
  IN P(Patch(f, j.label, 3, Label(f) - j.label), t.s)

Put(c, opts, args) ==
  LET drop == "drop" \in opts.flags
      t == Target(c, opts)
      ds == IF drop THEN P(c, args[1]) ELSE P(Copy(t.c, t.s, args[1]), t.s)
      d == IF IsImm(args[2]) THEN Step(ds.c, "puti", <<ds.s, args[3]>>, {}, <<args[2].const.n>>, FALSE)
           ELSE Step(ds.c, "put", <<ds.s, args[2], args[3]>>, {}, <<>>, FALSE)
  IN P(d, IF drop THEN CSlot(Nil) ELSE ds.s)

Returned == Slot({"constant", "returned"}, -1, -1, Nil)

(* A call: the arguments are pushed.                                         *)
CallOf(c, opts, fun, tail) ==
  LET t == Target(c, opts)
  IN IF tail
     THEN P(Step(c, "tcall", <<fun>>, {1}, <<>>, FALSE), Returned)
     ELSE P(Step(t.c, "call", <<t.s, fun>>, {2}, <<>>, TRUE), t.s)

Push(c, slots) ==
  CASE Len(slots) = 1 -> Step(c, "push", slots, {1}, <<>>, FALSE)
    [] Len(slots) = 2 -> Step(c, "push2", slots, {2}, <<>>, FALSE)
    [] Len(slots) = 3 -> Step(c, "push3", slots, {}, <<>>, FALSE)
    [] OTHER -> c
Spliced(s) == "spliced" \in s.flags
PushSplice(c, s) == Step(c, "pusha", <<s>>, {1}, <<>>, FALSE)

(* janetc_pushslots: three at a time, and up to the next one that is spliced.*)
RECURSIVE PushSlots(_, _)
PushSlots(c, slots) ==
  LET run == {k \in 0 .. 3 : k <= Len(slots) /\ \A i \in 1 .. k : ~Spliced(slots[i])}
      k == CHOOSE n \in run : \A m \in run : m <= n
      d == Push(c, SubSeq(slots, 1, k))
  IN IF slots = <<>> THEN c
     ELSE IF k < 3 /\ k < Len(slots) THEN PushSlots(PushSplice(d, slots[k + 1]), SubSeq(slots, k + 2, Len(slots)))
     ELSE PushSlots(d, SubSeq(slots, k + 1, Len(slots)))

(* do_apply: a tail call in the top scope too, unlike janetc_call.           *)
Apply(c, opts, args) ==
  LET n == Len(args)
      pushed == PushSlots(c, [i \in 1 .. n - 2 |-> [args[i + 1] EXCEPT !.flags = @ \ {"spliced"}]])
  IN CallOf(PushSplice(pushed, args[n]), opts, args[1], "tail" \in opts.flags)

(* Which calls can be replaced by instructions, and with what.               *)
CanOptimize(name, n) ==
  CASE name \in {"error", "length"} -> n = 1
    [] name \in {"in", "cmp"} -> n = 2
    [] name = "get" -> n \in {2, 3}
    [] name = "put" -> n = 3
    [] name = "apply" -> n >= 2
    [] name = "log" -> FALSE
    [] OTHER -> TRUE
Optimized(c, opts, name, args) ==
  LET t == Target(c, opts)
  IN CASE name = "error" -> P(Step(c, "err", args, {1}, <<>>, FALSE), CSlot(Nil))
       [] name = "length" -> P(Step(t.c, "len", <<t.s, args[1]>>, {2}, <<>>, TRUE), t.s)
       [] name = "put" -> Put(c, opts, args)
       [] name = "apply" -> Apply(c, opts, args)
       [] name = "get" /\ Len(args) = 3 -> GetDefault(c, opts, args)
       [] name \in DOMAIN Comparers -> CompReduce(c, opts, args, Comparers[name])
       [] OTHER -> OpReduce(c, opts, args, Reducers[name])

-----------------------------------------------------------------------------
(* A call that cannot be right is refused.                                   *)
WrongArity(c, fun, slots) ==
  LET n == Cardinality({i \in DOMAIN slots : ~Spliced(slots[i])})
      splice == n < Len(slots)
      def == c.funs[fun.const.n].def
  IN /\ "constant" \in fun.flags
     /\ CASE fun.const.t = "function" -> (def.max >= 0 /\ n > def.max) \/ (~splice /\ n < def.min)
          [] fun.const.t = "keyword" -> n = 0 /\ ~splice
          [] fun.const.t \in {"builtin", "nil"} -> FALSE
          [] OTHER -> IF splice THEN n > 1 ELSE n # 1

Call(c, opts, slots, fun) ==
  LET special == "constant" \in fun.flags /\ fun.const.t = "builtin" /\ (\A i \in DOMAIN slots : ~Spliced(slots[i]))
                 /\ CanOptimize(fun.const.s, Len(slots))
      pushed == PushSlots(c, slots)
      r == IF special THEN Optimized(c, opts, fun.const.s, slots)
           ELSE CallOf(IF WrongArity(c, fun, slots) THEN Failed(pushed, "arity") ELSE pushed, opts, fun,
                       "tail" \in opts.flags /\ "top" \notin Inner(c).flags)
  IN P(FreeSlots(r.c, slots), r.s)

(* janetc_maker: constant structs and tuples are made by the compiler.       *)
Maker(c, opts, slots, op) ==
  LET const == \A i \in DOMAIN slots : "constant" \in slots[i].flags /\ ~Spliced(slots[i])
      vs == [i \in DOMAIN slots |-> slots[i].const]
      t == Target(FreeSlots(PushSlots(c, slots), slots), opts)
  IN CASE const /\ op = "mktup" -> P(c, CSlot(Tup(vs)))
       [] const /\ op = "mkstu" -> P(c, CSlot(Struct(vs)))
       [] OTHER -> P(Step(t.c, op, <<t.s>>, {1}, <<>>, TRUE), t.s)
MakeOp == ("tuple" :> "mktup") @@ ("array" :> "mkarr") @@ ("struct" :> "mkstu") @@ ("table" :> "mktab")

Return(c, s) ==
  IF "returned" \in s.flags THEN P(c, s)
  ELSE P(IF "constant" \in s.flags /\ s.const = Nil THEN Emit(c, <<"retn", 0, 0, 0>>)
         ELSE Step(c, "ret", <<s>>, {1}, <<>>, FALSE), [s EXCEPT !.flags = @ \cup {"returned"}])

-----------------------------------------------------------------------------
CanAlias(mutable, s) == ~mutable /\ "mutable" \notin s.flags /\ "named" \in s.flags /\ IsLocal(s)

(* namelocal; free is whether the slot may be freed then.                    *)
NameLocal(c, sym, mutable, s) ==
  LET l == FarSlot(c)
      flags == IF mutable THEN {"mutable"} ELSE {}
      named(d, x) == NameSlot(d, sym, [x EXCEPT !.flags = @ \cup flags])
  IN IF CanAlias(mutable, s) THEN [c |-> named(c, s), free |-> FALSE]
     ELSE [c |-> named(Copy(l.c, l.s, s), l.s), free |-> TRUE]

VarLeaf(c, sym, s) ==
  LET id == Len(c.heap) + 1
      d == [c EXCEPT !.heap = Append(@, <<Nil>>), !.env = (sym :> [kind |-> "var", value |-> Array(id)]) @@ @]
  IN IF "top" \in Inner(c).flags THEN [c |-> Step(d, "puti", <<CSlot(Array(id)), s>>, {}, <<0>>, FALSE), free |-> TRUE]
     ELSE NameLocal(c, sym, TRUE, s)
DefLeaf(c, sym, s) ==
  LET id == Len(c.heap) + 1
      d == [c EXCEPT !.heap = Append(@, <<>>)]
      e == NameLocal(Step(d, "put", <<CSlot(Table(id)), CSlot(Kw("value")), s>>, {}, <<>>, FALSE), sym, FALSE, s)
  IN IF "top" \in Inner(c).flags
     THEN [e EXCEPT !.c.env = (sym :> [kind |-> "def", value |-> Table(id)]) @@ @]
     ELSE NameLocal(c, sym, FALSE, s)
Leaf(c, kind, sym, s) == IF kind = "var" THEN VarLeaf(c, sym, s) ELSE DefLeaf(c, sym, s)

(* [... & rest]: a loop that pushes the elements from the i-th on.           *)
RestOf(c, i, right, next) ==
  LET a == FarSlot(c)
      b == FarSlot(a.c)
      n == FarSlot(b.c)
      argi == a.s
      arg == b.s
      len == n.s
      start == Instr(Step(Step(n.c, "ldi", <<argi>>, {}, <<i>>, FALSE), "len", <<len, right>>, {2}, <<>>, FALSE),
                     "lt", <<arg, argi, len>>, {}, <<>>, FALSE)
      exit == Instr(start.c, "jmpno", <<arg>>, {}, <<0>>, FALSE)
      body == Step(Step(Step(exit.c, "get", <<arg, right, argi>>, {}, <<>>, FALSE), "push", <<arg>>, {1}, <<>>, FALSE),
                   "addim", <<argi, argi>>, {}, <<1>>, FALSE)
      loop == Emit(body, <<"jmp", start.label - Label(body), 0, 0>>)
      d == Patch(loop, exit.label, 3, Label(loop) - exit.label)
  IN Step(FreeSlots(d, <<argi, arg, len>>), "mktup", <<next>>, {1}, <<>>, TRUE)

RECURSIVE Value(_, _, _), Destructure(_, _, _, _)

ToSlots(c, forms) ==
  FoldLeft(LAMBDA acc, x : LET r == Value(acc.c, Opts({"splice"}, CSlot(Nil)), x) IN [c |-> r.c, slots |-> Append(acc.slots, r.s)],
           [c |-> c, slots |-> <<>>], forms)

Destructure(c, left, right, kind) ==
  LET amp(i) == IsSym(left.parts[i], "&")
      element(d, i) ==
        LET n == FarSlot(d)
            r == Destructure(Step(n.c, "geti", <<n.s, right>>, {}, <<i - 1>>, TRUE), left.parts[i], n.s, kind)
        IN IF r.free THEN FreeSlot(r.c, n.s) ELSE r.c
      rest(d, i) ==
        LET n == FarSlot(d)
        IN FreeSlot(Leaf(RestOf(n.c, i - 1, right, n.s), kind, left.parts[i + 1].s, n.s).c, n.s)
      field(d, i) ==
        LET n == FarSlot(d)
            k == Value(n.c, Default, left.parts[2 * i - 1])
            r == Destructure(Step(k.c, "in", <<n.s, right, k.s>>, {}, <<>>, TRUE), left.parts[2 * i], n.s, kind)
        IN IF r.free THEN FreeSlot(r.c, n.s) ELSE r.c
      all(f(_, _), n) == FoldLeft(f, c, [i \in 1 .. n |-> i])
  IN CASE left.f = "sym" -> Leaf(c, kind, left.s, right)
       [] IsSequence(left) ->
            [c |-> all(LAMBDA d, i : IF i > 1 /\ amp(i - 1) THEN d ELSE IF amp(i) THEN rest(d, i) ELSE element(d, i),
                       Len(left.parts)), free |-> TRUE]
       [] left.f \in {"struct", "table"} -> [c |-> all(field, Len(left.parts) \div 2), free |-> TRUE]
       [] OTHER -> [c |-> Failed(c, "unexpected type in destructuring"), free |-> TRUE]

(* dohead_destructure: [a b] to [x y] without the tuples.                    *)
RECURSIVE Heads(_, _, _, _)
Heads(c, opts, lhs, rhs) ==
  LET kept == opts.flags \ {"tail", "drop"}
      plain == "drop" \in opts.flags /\ IsSequence(lhs) /\ IsSequence(rhs)
               /\ (\A i \in DOMAIN rhs.parts : rhs.parts[i].f # "splice")
               /\ (\A i \in DOMAIN lhs.parts : ~IsSym(lhs.parts[i], "&"))
      r == Value(c, Opts(kept, opts.hint), rhs)
  IN IF ~plain THEN [c |-> r.c, heads |-> <<[lhs |-> lhs, rhs |-> r.s]>>]
     ELSE FoldLeft(LAMBDA acc, i :
            LET h == Heads(acc.c, Opts(kept, CSlot(Nil)), lhs.parts[i], IF i <= Len(rhs.parts) THEN rhs.parts[i] ELSE NilForm)
            IN [c |-> h.c, heads |-> acc.heads \o h.heads],
            [c |-> c, heads |-> <<>>], [i \in DOMAIN lhs.parts |-> i])

(* def and var *)
Define(c, opts, form) ==
  LET o == IF form.f = "def" THEN [opts EXCEPT !.flags = @ \ {"hint"}] ELSE opts
      h == Heads(c, o, form.parts[1], form.parts[2])
  IN IF h.c.error # "" THEN P(h.c, CSlot(Nil))
     ELSE P(FoldLeft(LAMBDA d, x : Destructure(d, x.lhs, x.rhs, form.f).c, h.c, h.heads),
            IF h.heads = <<>> THEN CSlot(Nil) ELSE h.heads[Len(h.heads)].rhs)

(* set *)
VarSet(c, opts, form) ==
  LET to == form.parts[1]
      dest == Resolve(c, to.s)
      r == Value(dest.c, Opts({"hint"}, dest.s), form.parts[2])
      ds == Value(c, Default, to.parts[1])
      key == Value(ds.c, Default, to.parts[2])
      v == Value(key.c, [opts EXCEPT !.flags = @ \ {"tail", "drop"}], form.parts[2])
  IN IF to.f # "sym" THEN P(Step(v.c, "put", <<ds.s, key.s, v.s>>, {}, <<>>, FALSE), v.s)
     ELSE IF "mutable" \notin dest.s.flags THEN P(Failed(dest.c, "cannot set constant"), CSlot(Nil))
     ELSE P(Copy(r.c, dest.s, r.s), r.s)

-----------------------------------------------------------------------------
(* Control.  A condition that compares with nil, with the function itself as *)
(* its head, is a jump of its own.                                           *)
NilTest(form, name) ==
  /\ form.f = "call" /\ Len(form.parts) = 3
  /\ form.parts[1] = Form("const", Builtin(name), "", <<>>) /\ NilForm \in {form.parts[2], form.parts[3]}
Condition(form) ==
  LET x == form.parts[IF form.parts[2] = NilForm THEN 3 ELSE 2]
  IN CASE NilTest(form, "=") -> [form |-> x, no |-> "jmpnn", yes |-> "jmpni"]
       [] NilTest(form, "not=") -> [form |-> x, no |-> "jmpni", yes |-> "jmpnn"]
       [] OTHER -> [form |-> form, no |-> "jmpno", yes |-> "jmpif"]
Holds(cond, v) ==
  CASE cond.no = "jmpno" -> Truthy(v) [] cond.no = "jmpnn" -> v = Nil [] cond.no = "jmpni" -> v # Nil

(* janetc_throwaway: dead code is compiled, and dropped.                     *)
Throwaway(c, opts, form) ==
  [PopScope(Value(NewScope(c, {"unused"}), opts, form).c) EXCEPT !.buffer = SubSeq(@, 1, Label(c))]

Body(c, opts, form, to, copies) ==
  LET r == Value(NewScope(c, {}), opts, form) IN PopScope(IF copies THEN Copy(r.c, to, r.s) ELSE r.c)

(* Whether there is a jump over the second branch.                           *)
Jumps(tail, drop, no) == ~tail /\ ~(drop /\ no = NilForm)

If(c, opts, form) ==
  LET tail == "tail" \in opts.flags
      drop == "drop" \in opts.flags
      t == IF drop \/ tail THEN P(c, CSlot(Nil)) ELSE Target(c, opts)
      o == [opts EXCEPT !.flags = @ \ {"splice"}]
      yes == form.parts[2]
      no == IF Len(form.parts) > 2 THEN form.parts[3] ELSE NilForm
      cond == Condition(form.parts[1])
      k == Value(NewScope(t.c, {}), Default, cond.form)
      const == "constant" \in k.s.flags
      live == IF Holds(cond, k.s.const) THEN yes ELSE no
      dead == IF Holds(cond, k.s.const) THEN no ELSE yes
      only == Body(k.c, o, live, t.s, ~drop /\ ~tail)
      jr == Instr(k.c, cond.no, <<k.s>>, {}, <<0>>, FALSE)
      left == Body(jr.c, o, yes, t.s, ~drop /\ ~tail)
      over == IF Jumps(tail, drop, no) THEN Emit(left, <<"jmp", 0, 0, 0>>) ELSE left
      right == PopScope(Body(over, o, no, t.s, ~drop /\ ~tail))
      patched == Patch(right, jr.label, 3, Label(over) - jr.label)
      skips == IF ~tail /\ Label(left) < Label(right) THEN Patch(patched, Label(left), 2, Label(right) - Label(left)) ELSE patched
  IN IF const THEN P(PopScope(IF dead = NilForm THEN only ELSE Throwaway(only, o, dead)), t.s)
     ELSE P(IF right.error = "" THEN skips ELSE right, IF tail THEN [t.s EXCEPT !.flags = @ \cup {"returned"}] ELSE t.s)

Sequence(c, opts, forms) ==
  FoldLeft(LAMBDA acc, i :
             LET last == i = Len(forms)
                 r == Value(acc.c, IF last THEN [opts EXCEPT !.flags = @ \ {"splice"}] ELSE Opts({"drop"}, CSlot(Nil)), forms[i])
             IN P(IF last THEN r.c ELSE FreeSlot(r.c, r.s), r.s),
           P(c, CSlot(Nil)), [i \in DOMAIN forms |-> i])

(* A break is tagged: the loop makes it a jump.                              *)
TaggedJump == <<"break", 0, 0, 0>>
Break(c, form) ==
  LET is == {i \in DOMAIN c.scopes : c.scopes[i].flags \cap {"function", "while"} # {}}
      flags == c.scopes[CHOOSE i \in is : \A j \in is : j <= i].flags
      value(o) == IF form.parts = <<>> THEN c ELSE Value(c, Opts({o}, CSlot(Nil)), form.parts[1]).c
  IN P(IF "function" \notin flags THEN Emit(value("drop"), TaggedJump)
       ELSE IF "while" \notin flags /\ form.parts # <<>> THEN value("tail")
       ELSE Emit(value("drop"), <<"retn", 0, 0, 0>>), CSlot(Nil))

Drops(c, forms) ==
  FoldLeft(LAMBDA d, x : LET r == Value(d, Opts({"drop"}, CSlot(Nil)), x) IN FreeSlot(r.c, r.s), c, forms)

(* A loop whose body makes a function is a function that calls itself.       *)
Iife(c, cond, body) ==
  LET k == Value(NewScope(c, {"function"}), Default, cond.form)
      test == IF "constant" \in k.s.flags THEN k.c
              ELSE Emit(Instr(k.c, cond.yes, <<k.s>>, {}, <<2>>, FALSE).c, <<"retn", 0, 0, 0>>)
      t == AllocTemp(Drops(test, body), 0)
      d == PopFuncdef(DropTemp(Emit(Emit(t.c, <<"lds", t.reg, 0, 0>>), <<"tcall", t.reg, 0, 0>>), t.reg, 0))
      a == AddFuncdef(d.c, d.def)
      u == AllocTemp(a.c, 0)
      e == DropTemp(Emit(Emit(u.c, <<"clo", u.reg, a.index, 0>>), <<"call", u.reg, u.reg, 0>>), u.reg, 0)
  IN [e EXCEPT !.scopes[Len(e.scopes)].flags = @ \cup {"closure"}]

\* Mutant: a break is a jump, but nowhere.
BreakJump_Nowhere(at, end) == 0

BreakJump(at, end) == end - at

While(c, form) ==
  LET cond == Condition(form.parts[1])
      body == Tail(form.parts)
      k == Value(NewScope(c, {"while"}), Default, cond.form)
      const == "constant" \in k.s.flags
      jc == Instr(k.c, cond.no, <<k.s>>, {}, <<0>>, FALSE)
      d == Drops(IF const THEN k.c ELSE jc.c, body)
      again == [PopScope([d EXCEPT !.scopes[Len(d.scopes)].flags = @ \cup {"unused"}]) EXCEPT !.buffer = SubSeq(@, 1, Label(c))]
      loop == Emit(d, <<"jmp", Label(c) - Label(d), 0, 0>>)
      end == Label(loop)
      exits == IF const THEN loop ELSE Patch(loop, jc.label, 3, end - jc.label)
      breaks == [exits EXCEPT !.buffer = [i \in DOMAIN @ |->
                   IF i > Label(c) /\ @[i] = TaggedJump THEN <<"jmp", BreakJump(i - 1, end), 0, 0>> ELSE @[i]]]
  IN P(IF k.c.error # "" THEN PopScope(k.c)
       ELSE IF const /\ ~Holds(cond, k.s.const) THEN PopScope(k.c)
       ELSE IF "closure" \in Inner(d).flags THEN Iife(again, cond, body)
       ELSE PopScope(breaks), CSlot(Nil))

-----------------------------------------------------------------------------
(* Parameters: names get the first registers in order.                       *)
Params(c, params) ==
  LET n == Len(params)
      named(acc, sym) == LET s == FarSlot(acc.c) IN [acc EXCEPT !.c = NameSlot(s.c, sym, s.s)]
      one(acc, i) ==
        LET p == params[i]
            s == FarSlot(acc.c)
        IN CASE acc.err # "" -> acc
             [] acc.err = "" /\ acc.named ->
                  IF p.f # "sym" THEN [acc EXCEPT !.err = "only named arguments can follow &named"]
                  ELSE [acc EXCEPT !.arity = @ - 1, !.c = s.c, !.keys = @ \o <<Form("const", Kw(p.s), "", <<>>), p>>]
             [] acc.err = "" /\ ~acc.named /\ p.f # "sym" -> [acc EXCEPT !.c = s.c, !.parts = Append(@, <<p, s.s>>)]
             [] acc.err = "" /\ ~acc.named /\ p.f = "sym" ->
                  CASE p.s = "&" ->
                         IF acc.amp \/ i < n - 1 THEN [acc EXCEPT !.err = "& in unexpected location"]
                         ELSE IF i = n THEN [acc EXCEPT !.extra = TRUE, !.arity = @ - 1, !.amp = TRUE]
                         ELSE [acc EXCEPT !.vararg = TRUE, !.arity = @ - 2, !.amp = TRUE]
                    [] p.s = "&opt" ->
                         IF acc.opt \/ i = n THEN [acc EXCEPT !.err = "only one &opt allowed"]
                         ELSE [acc EXCEPT !.min = i - 1, !.arity = @ - 1, !.opt = TRUE]
                    [] p.s = "&keys" ->
                         IF acc.amp \/ i # n - 1 THEN [acc EXCEPT !.err = "&keys in unexpected location"]
                         ELSE [acc EXCEPT !.vararg = TRUE, !.structarg = TRUE, !.arity = @ - 2, !.amp = TRUE]
                    [] p.s = "&named" ->
                         IF acc.amp THEN [acc EXCEPT !.err = "&named in unexpected location"]
                         ELSE [acc EXCEPT !.vararg = TRUE, !.structarg = TRUE, !.arity = @ - 1, !.amp = TRUE,
                                          !.named = TRUE, !.c = s.c, !.slot = s.s]
                    [] OTHER -> named(acc, p.s)
  IN FoldLeft(one, [c |-> c, arity |-> n, min |-> 0, vararg |-> FALSE, structarg |-> FALSE, extra |-> FALSE, amp |-> FALSE,
                    opt |-> FALSE, named |-> FALSE, keys |-> <<>>, slot |-> CSlot(Nil), parts |-> <<>>, err |-> ""],
              [i \in DOMAIN params |-> i])

(* What parameters are takes them apart; a named function is in a register,  *)
(* unless a parameter has its name.                                          *)
Entry(p, form) ==
  LET keys == IF p.named
              THEN FreeSlot(Destructure(p.c, Form("struct", Nil, "", p.keys), p.slot, "def").c, p.slot) ELSE p.c
      parts == FoldLeft(LAMBDA d, x : FreeSlot(Destructure(d, x[1], x[2], "def").c, x[2]), keys, p.parts)
      self == FarSlot(parts)
      shadows == \E i \in DOMAIN Inner(parts).syms : Inner(parts).syms[i].sym = form.s
  IN IF form.s = "" \/ shadows THEN parts
     ELSE NameSlot(Step(self.c, "lds", <<[self.s EXCEPT !.flags = {"named"}]>>, {1}, <<>>, TRUE), form.s, self.s)

(* (fn name [params] body): parts are the parameters and the body.           *)
Fn(c, opts, form) ==
  LET p == Params(NewScope([c EXCEPT !.scopes[Len(c.scopes)].flags = @ \cup {"closure"}], {"function"}), form.parts[1].parts)
      start == Entry(p, form)
      n == Len(form.parts)
      body == IF n = 1 THEN Emit(start, <<"retn", 0, 0, 0>>)
              ELSE FoldLeft(LAMBDA d, i : Value(d, Opts({IF i = n THEN "tail" ELSE "drop"}, CSlot(Nil)), form.parts[i]).c,
                            start, [i \in 1 .. n - 1 |-> i + 1])
      d == PopFuncdef(body)
      def == [d.def EXCEPT !.arity = p.arity, !.min = IF p.opt THEN p.min ELSE p.arity,
                           !.max = IF p.vararg \/ p.extra THEN -1 ELSE p.arity,
                           !.vararg = p.vararg, !.structarg = p.structarg,
                           !.slots = Bigger(@, p.arity + (IF p.vararg THEN 1 ELSE 0))]
      a == AddFuncdef(d.c, def)
      t == Target(a.c, opts)
  IN IF p.err # "" THEN P(PopScope(Failed(p.c, p.err)), CSlot(Nil))
     ELSE IF body.error # "" THEN P(PopScope(body), CSlot(Nil))
     ELSE P(Step(t.c, "clo", <<t.s>>, {}, <<a.index>>, TRUE), t.s)

(* quasiquote: what is not unquoted is a constant or is made.                *)
RECURSIVE Quasi(_, _, _)
Quasi(c, opts, form) ==
  LET slots == FoldLeft(LAMBDA acc, x : LET r == Quasi(acc.c, [opts EXCEPT !.flags = @ \ {"hint"}], x)
                                        IN [c |-> r.c, slots |-> Append(acc.slots, r.s)],
                        [c |-> c, slots |-> <<>>], form.parts)
      t == Target(slots.c, opts)
  IN CASE form.f = "const" -> P(c, CSlot(form.v))
       [] form.f = "sym" -> P(c, CSlot(V("symbol", 0, form.s, <<>>)))
       [] form.f = "unquote" -> Value(c, Opts({"splice"}, CSlot(Nil)), form.parts[1])
       [] OTHER -> P(Step(FreeSlots(PushSlots(t.c, slots.slots), slots.slots), MakeOp[form.f], <<t.s>>, {1}, <<>>, TRUE), t.s)

Dispatch(c, opts, form) ==
  LET head == Value(c, Default, form.parts[1])
      args == ToSlots(head.c, Tail(form.parts))
      call == Call(args.c, opts, args.slots, head.s)
      slots == ToSlots(c, form.parts)
      do == Sequence(NewScope(c, {}), opts, form.parts)
      splice == Value(c, opts, form.parts[1])
  IN CASE form.f = "const" -> P(c, CSlot(form.v))
       [] form.f = "sym" -> Resolve(c, form.s)
       [] form.f \in DOMAIN MakeOp -> Maker(slots.c, opts, slots.slots, MakeOp[form.f])
       [] form.f = "call" -> P(FreeSlot(call.c, head.s), [call.s EXCEPT !.flags = @ \ {"spliced"}])
       [] form.f = "if" -> If(c, opts, form)
       [] form.f = "do" -> P(PopScopeKeep(do.c, do.s), do.s)
       [] form.f = "upscope" -> Sequence(c, opts, form.parts)
       [] form.f \in {"def", "var"} -> Define(c, opts, form)
       [] form.f = "set" -> VarSet(c, opts, form)
       [] form.f = "fn" -> Fn(c, opts, form)
       [] form.f = "while" -> While(c, form)
       [] form.f = "break" -> Break(c, form)
       [] form.f = "quasiquote" -> Quasi(c, opts, form.parts[1])
       [] form.f = "unquote" -> P(Failed(c, "cannot use unquote here"), CSlot(Nil))
       [] form.f = "splice" ->
            IF "splice" \notin opts.flags THEN P(Failed(c, "splice has no effect here"), CSlot(Nil))
            ELSE P(splice.c, [splice.s EXCEPT !.flags = @ \cup {"spliced"}])

(* janetc_value *)
Value(c, opts, form) ==
  LET r == Dispatch(c, opts, form)
      t == IF "tail" \in opts.flags THEN Return(r.c, r.s) ELSE r
  IN IF c.error # "" THEN P(c, CSlot(Nil))
     ELSE IF r.c.error # "" THEN P(r.c, CSlot(Nil))
     ELSE IF "hint" \in opts.flags THEN P(Copy(t.c, opts.hint, t.s), opts.hint) ELSE t

(* janet_compile_lint: a function without parameters, or an error.           *)
Compiled(env, heap, funs, form) ==
  LET r == Value(NewScope(Compiler0(env, heap, funs), {"function", "top"}), Opts({"tail"}, CSlot(Nil)), form).c
      d == PopFuncdef(r)
  IN IF r.error # "" THEN [r EXCEPT !.scopes = <<>>] @@ [def |-> <<>>] ELSE d.c @@ [def |-> [d.def EXCEPT !.max = -1]]
=============================================================================
