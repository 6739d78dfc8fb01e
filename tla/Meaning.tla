-------------------------------- MODULE Meaning --------------------------------
(***************************************************************************)
(* What a form means, without registers or code: names stand for cells, a  *)
(* function is its parameters, its body and the cells it was made among,   *)
(* and everything is evaluated from left to right.  The compiler and the   *)
(* interpreter are checked against it.                                     *)
(*                                                                         *)
(* r is a state of the evaluation: e the names in sight, v the value of    *)
(* what was evaluated last, sig "ok", "error" or "break".                  *)
(***************************************************************************)
EXTENDS Values

LOCAL IsName(form, s) == form.f = "sym" /\ form.s = s
Start == [e |-> <<>>, v |-> Nil, sig |-> "ok", cells |-> <<>>, heap |-> <<>>, funs |-> <<>>, log |-> <<>>]
Ok(r, v) == [r EXCEPT !.v = v]
Wrong(r) == [r EXCEPT !.sig = "error", !.v = Kw("panic")]
OkOr(r, v) == IF v = Bad THEN Wrong(r) ELSE Ok(r, v)
Bind(r, name, v) == [r EXCEPT !.cells = Append(@, v), !.e = (name :> Len(r.cells) + 1) @@ @]
Around(r, was) == [r EXCEPT !.e = was.e]
Caught(r) == IF r.sig = "break" THEN [r EXCEPT !.sig = "ok"] ELSE r

(* The functions every program has.                                          *)
Functions == {"+", "-", "*", "in", "get", "put", "cmp", ">", "<", ">=", "<=", "=", "not=", "apply", "error", "length", "log"}
RelationOf == (">" :> "gt") @@ ("<" :> "lt") @@ (">=" :> "gte") @@ ("<=" :> "lte") @@ ("=" :> "eq") @@ ("not=" :> "neq")
ArithOf == ("+" :> "add") @@ ("-" :> "sub") @@ ("*" :> "mul")
Folded(op, x, y) == IF x = Bad THEN Bad ELSE Arith(op, x, y)
Basic(heap, name, a) ==
  LET n == Len(a) IN
  CASE name \in DOMAIN ArithOf ->
         IF n = 0 THEN Num(IF name = "*" THEN 1 ELSE 0)
         ELSE IF n = 1 THEN IF name = "-" THEN Arith("sub", Num(0), a[1]) ELSE Arith("mul", Num(1), a[1])
         ELSE FoldLeft(LAMBDA x, y : Folded(ArithOf[name], x, y), a[1], Tail(a))
    [] name = "not=" -> Bool(\E i \in 1 .. n - 1 : Relation("neq", a[i], a[i + 1]))
    [] name \in DOMAIN RelationOf \ {"not="} -> Bool(\A i \in 1 .. n - 1 : Relation(RelationOf[name], a[i], a[i + 1]))
    [] name = "cmp" -> Num(Compare(a[1], a[2]))
    [] name = "in" -> In(heap, a[1], a[2])
    [] name = "get" -> LET v == Get(heap, a[1], a[2]) IN IF v = Nil /\ n = 3 THEN a[3] ELSE v
    [] name = "length" -> Length(heap, a[1])

-----------------------------------------------------------------------------
RECURSIVE Eval(_, _), Apply(_, _, _), Loop(_, _)

(* The values of arguments, those of a splice in its place.                  *)
Arguments(r0, forms) ==
  FoldLeft(LAMBDA acc, x :
    LET spliced == x.f = "splice"
        r == Eval(acc.r, IF spliced THEN x.parts[1] ELSE x)
    IN IF acc.r.sig # "ok" THEN acc
       ELSE IF r.sig = "ok" /\ spliced /\ ~IsIndexed(r.v) THEN [acc EXCEPT !.r = Wrong(r)]
       ELSE [r |-> r, vs |-> acc.vs \o (IF spliced /\ r.sig = "ok" THEN Elements(r.heap, r.v) ELSE <<r.v>>)],
    [r |-> r0, vs |-> <<>>], forms)

InOrder(r0, forms) == FoldLeft(LAMBDA r, x : IF r.sig = "ok" THEN Eval(r, x) ELSE r, Ok(r0, Nil), forms)

(* A pattern takes apart a value.                                            *)
RECURSIVE Match(_, _, _)
Match(r0, p, v) ==
  LET amp == {i \in DOMAIN p.parts : IsName(p.parts[i], "&")}
      a == CHOOSE i \in amp : TRUE
      plain == IF amp = {} THEN Len(p.parts) ELSE a - 1
      one(r, i, x) == IF r.sig # "ok" THEN r ELSE IF x = Bad THEN Wrong(r) ELSE Match(r, p.parts[i], x)
      firsts == FoldLeft(LAMBDA r, i : one(r, i, GetIndex(r.heap, v, i - 1)), r0, [i \in 1 .. plain |-> i])
      rest == Length(firsts.heap, v)
      tail == Tup([i \in 1 .. (IF rest.n > plain THEN rest.n - plain ELSE 0) |-> Get(firsts.heap, v, Num(plain + i - 1))])
      field(r, i) ==
        LET k == Eval(r, p.parts[2 * i - 1])
        IN IF r.sig # "ok" THEN r ELSE IF k.sig # "ok" THEN k ELSE one(k, 2 * i, In(k.heap, v, k.v))
  IN CASE p.f = "sym" -> Bind(r0, p.s, v)
       [] p.f \in {"tuple", "array"} ->
            IF amp = {} \/ firsts.sig # "ok" THEN firsts
            ELSE IF rest = Bad THEN Wrong(firsts) ELSE Bind(firsts, p.parts[a + 1].s, tail)
       [] p.f \in {"struct", "table"} -> FoldLeft(field, r0, [i \in 1 .. Len(p.parts) \div 2 |-> i])

(* What arguments parameters take: up to the first of & &keys &named by      *)
(* place, the rest together.                                                 *)
Enter(r0, params, a) ==
  LET is(names) == {i \in DOMAIN params : params[i].f = "sym" /\ params[i].s \in names}
      rests == is({"&", "&keys", "&named"})
      at == IF rests = {} THEN Len(params) + 1 ELSE CHOOSE i \in rests : \A j \in rests : i <= j
      opts == is({"&opt"})
      plain == SelectSeq(SubSeq(params, 1, at - 1), LAMBDA p : ~IsName(p, "&opt"))
      n == Len(plain)
      min == IF opts = {} THEN n ELSE (CHOOSE i \in opts : TRUE) - 1
      rest == SubSeq(a, n + 1, Len(a))
      firsts == FoldLeft(LAMBDA r, i : IF r.sig = "ok" THEN Match(r, plain[i], IF i <= Len(a) THEN a[i] ELSE Nil) ELSE r,
                         r0, [i \in 1 .. n |-> i])
      named == FoldLeft(LAMBDA r, i : Bind(r, params[i].s, Found(Struct(rest).items, Kw(params[i].s))),
                        firsts, [i \in 1 .. Len(params) - at |-> at + i])
  IN IF Len(a) < min \/ (rests = {} /\ Len(a) > n) THEN Wrong(r0)
     ELSE IF rests = {} \/ firsts.sig # "ok" \/ (at = Len(params) /\ params[at].s = "&") THEN firsts
     ELSE CASE params[at].s = "&" -> Bind(firsts, params[at + 1].s, Tup(rest))
            [] params[at].s = "&keys" -> Bind(firsts, params[at + 1].s, Struct(rest))
            [] params[at].s = "&named" -> named

Apply(r, f, a) ==
  LET fn == r.funs[f.n]
      named == IF fn.name = "" THEN [r EXCEPT !.e = fn.e] ELSE Bind([r EXCEPT !.e = fn.e], fn.name, f)
      entered == Enter(named, fn.params, a)
      n == Len(a)
      method == Get(r.heap, a[1], f)
  IN CASE f.t = "function" ->
            IF entered.sig # "ok" THEN Around(entered, r) ELSE Around(Caught(InOrder(entered, fn.body)), r)
       [] f = Builtin("log") -> [Ok(r, Nil) EXCEPT !.log = Append(@, [i \in DOMAIN a |-> Shown(r.heap, a[i])])]
       [] f = Builtin("error") -> [r EXCEPT !.sig = "error", !.v = a[1]]
       [] f = Builtin("put") -> IF CanPut(a[1], a[2]) THEN [Ok(r, a[1]) EXCEPT !.heap = PutIn(@, a[1], a[2], a[3])] ELSE Wrong(r)
       [] f = Builtin("apply") ->
            IF IsIndexed(a[n]) THEN Apply(r, a[1], SubSeq(a, 2, n - 1) \o Elements(r.heap, a[n])) ELSE Wrong(r)
       [] f.t = "builtin" /\ f.s \notin {"log", "error", "put", "apply"} -> OkOr(r, Basic(r.heap, f.s, a))
       [] f.t = "keyword" -> IF n = 0 \/ method = Nil THEN Wrong(r)
                             ELSE IF method.t = "keyword" THEN IF n = 1 THEN OkOr(r, In(r.heap, a[1], method)) ELSE Wrong(r)
                             ELSE Apply(r, method, a)
       [] f.t \in {"array", "tuple", "table", "struct"} -> IF n = 1 THEN OkOr(r, In(r.heap, f, a[1])) ELSE Wrong(r)
       [] OTHER -> IF n = 1 THEN OkOr(r, In(r.heap, a[1], f)) ELSE Wrong(r)

Collected(r, kind, vs) ==
  LET id == Len(r.heap) + 1 IN
  CASE kind = "tuple" -> Ok(r, Tup(vs))
    [] kind = "array" -> [Ok(r, Array(id)) EXCEPT !.heap = Append(@, vs)]
    [] kind = "struct" -> IF Len(vs) % 2 = 1 THEN Wrong(r) ELSE Ok(r, Struct(vs))
    [] kind = "table" -> IF Len(vs) % 2 = 1 THEN Wrong(r) ELSE [Ok(r, Table(id)) EXCEPT !.heap = Append(@, EntriesOf(vs))]

Loop(r, form) ==
  LET k == Eval(r, form.parts[1])
      body == InOrder(k, Tail(form.parts))
  IN IF k.sig # "ok" THEN k
     ELSE IF ~Truthy(k.v) THEN Ok(k, Nil)
     ELSE CASE body.sig = "ok" -> Loop(Around(body, r), form)
            [] body.sig = "break" -> Ok(Caught(body), Nil)
            [] body.sig = "error" -> body

RECURSIVE Quoted(_, _)
Quoted(r0, form) ==
  LET parts == FoldLeft(LAMBDA acc, x :
                 LET spliced == x.f = "unquote" /\ x.parts[1].f = "splice"
                     a == Arguments(acc.r, x.parts)
                     r == Quoted(acc.r, x)
                 IN IF acc.r.sig # "ok" THEN acc
                    ELSE IF spliced THEN [r |-> a.r, vs |-> acc.vs \o a.vs] ELSE [r |-> r, vs |-> Append(acc.vs, r.v)],
                 [r |-> r0, vs |-> <<>>], form.parts)
  IN CASE form.f = "const" -> Ok(r0, form.v)
       [] form.f = "sym" -> Ok(r0, V("symbol", 0, form.s, <<>>))
       [] form.f = "unquote" -> Eval(r0, form.parts[1])
       [] OTHER -> IF parts.r.sig # "ok" THEN parts.r ELSE Collected(parts.r, form.f, parts.vs)

Eval(r, form) ==
  LET p == form.parts
      a == Arguments(r, p)
      c == Eval(r, p[1])
      value == Eval(r, p[2])
      matched == Match(value, p[1], value.v)
      key == Arguments(r, p[1].parts)
      v == Eval(key.r, p[2])
  IN CASE form.f = "const" -> Ok(r, form.v)
       [] form.f = "sym" -> Ok(r, IF form.s \in DOMAIN r.e THEN r.cells[r.e[form.s]] ELSE Builtin(form.s))
       [] form.f \in {"tuple", "array", "struct", "table"} -> IF a.r.sig # "ok" THEN a.r ELSE Collected(a.r, form.f, a.vs)
       [] form.f = "call" -> IF a.r.sig # "ok" THEN a.r ELSE Apply(a.r, a.vs[1], Tail(a.vs))
       [] form.f = "if" ->
            Around(IF c.sig # "ok" THEN c ELSE IF Truthy(c.v) THEN Eval(c, p[2]) ELSE IF Len(p) > 2 THEN Eval(c, p[3]) ELSE Ok(c, Nil), r)
       [] form.f = "do" -> Around(InOrder(r, p), r)
       [] form.f = "upscope" -> InOrder(r, p)
       [] form.f \in {"def", "var"} -> 
            IF value.sig # "ok" THEN value ELSE IF matched.sig # "ok" THEN matched ELSE Ok(matched, value.v)
       [] form.f = "set" ->
            IF p[1].f = "sym" THEN IF value.sig # "ok" THEN value ELSE [value EXCEPT !.cells[value.e[p[1].s]] = value.v]
            ELSE IF key.r.sig # "ok" THEN key.r
            ELSE IF v.sig # "ok" THEN v
            ELSE IF CanPut(key.vs[1], key.vs[2]) THEN [v EXCEPT !.heap = PutIn(@, key.vs[1], key.vs[2], v.v)] ELSE Wrong(v)
       [] form.f = "fn" ->
            [Ok(r, Closure(Len(r.funs) + 1)) EXCEPT
               !.funs = Append(@, [params |-> p[1].parts, body |-> Tail(p), e |-> r.e, name |-> form.s])]
       [] form.f = "while" -> Around(Loop(r, form), r)
       [] form.f = "break" ->
            IF p = <<>> THEN [Ok(r, Nil) EXCEPT !.sig = "break"] ELSE IF c.sig # "ok" THEN c ELSE [c EXCEPT !.sig = "break"]
       [] form.f = "quasiquote" -> Quoted(r, p[1])

(* Forms one after the other, until one fails.                               *)
RECURSIVE Program(_, _)
Program(r, forms) ==
  IF forms = <<>> \/ r.sig # "ok" THEN r ELSE Program(Caught(Eval(r, Head(forms))), Tail(forms))
=============================================================================
