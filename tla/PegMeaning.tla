------------------------------ MODULE PegMeaning ------------------------------
(***************************************************************************)
(* What a form means: where it ends and what it captures, each part on its *)
(* own, with nothing to undo.  An accumulate is the text of its part's     *)
(* captures, a name is the form of the nearest grammar that has it.        *)
(***************************************************************************)
EXTENDS PegMatch

(* A match: where it ends, its captures, and all tagged captures so far.     *)
M(pos, caps, tags) == [pos |-> pos, caps |-> caps, tags |-> tags]
No == M(Fail, <<>>, <<>>)
Tagged(m, v, tag) == M(m.pos, <<v>>, Append(m.tags, <<tag, v>>))
Then(a, b) == IF b.pos = Fail THEN No ELSE M(b.pos, a.caps \o b.caps, b.tags)

RECURSIVE Scope(_, _)
Scope(env, name) ==   \* the innermost scopes come first
  IF \E i \in DOMAIN env[1] : env[1][i][1] = name THEN env ELSE Scope(Tail(env), name)

(* Means(x, env, form, pos, end, tags); x has the text, arguments            *)
RECURSIVE Means(_, _, _, _, _, _)

RECURSIVE All(_, _, _, _, _, _), First(_, _, _, _, _, _), Times(_, _, _, _, _, _, _), Chunks(_, _, _, _, _, _)
All(x, env, forms, pos, end, tags) ==
  IF forms = <<>> THEN M(pos, <<>>, tags)
  ELSE LET a == Means(x, env, forms[1], pos, end, tags)
       IN IF a.pos = Fail THEN No ELSE Then(a, All(x, env, Tail(forms), a.pos, end, a.tags))
First(x, env, forms, pos, end, tags) ==
  IF forms = <<>> THEN No
  ELSE LET a == Means(x, env, forms[1], pos, end, tags)
       IN IF a.pos # Fail THEN a ELSE First(x, env, Tail(forms), pos, end, tags)

(* At most n times, greedily; without a bound, only as long as it advances.  *)
Times(x, env, form, n, pos, end, tags) ==
  LET a == Means(x, env, form, pos, end, tags)
      b == Times(x, env, form, IF n = Unlimited THEN n ELSE n - 1, a.pos, end, a.tags)
  IN IF n = 0 \/ a.pos = Fail \/ (n = Unlimited /\ a.pos = pos) THEN [m |-> M(pos, <<>>, tags), n |-> 0]
     ELSE [m |-> Then(a, b.m), n |-> b.n + 1]

(* The first place from pos on where a form matches.                         *)
Places(x, env, form, pos, end, tags) == {i \in pos .. end : Means(x, env, form, i, end, tags).pos # Fail}
Least(S) == CHOOSE i \in S : \A j \in S : i <= j

Chunks(x, env, form, pos, end, tags) ==
  LET at == Places(x, env, form.parts[1], pos, end, tags)
      stop == IF at = {} THEN end ELSE Least(at)
      next == IF at = {} THEN end + 1 ELSE Means(x, env, form.parts[1], stop, end, tags).pos
      a == Means(x, env, form.parts[2], pos, stop, tags)
  IN IF pos > end THEN M(end, <<>>, tags)
     ELSE IF a.pos = Fail \/ next = pos THEN No
     ELSE Then(a, Chunks(x, env, form, next, end, a.tags))

Text(x, from, to) == SubSeq(x.text, from + 1, to)
Has(x, pos, end, b) == pos + Len(b) <= end /\ Text(x, pos, pos + Len(b)) = b
Joined(caps) == FoldLeft(LAMBDA b, v : b \o ToBytes(v), <<>>, caps)

Bounds(form) ==
  CASE form.f = "between" -> form.n
    [] form.f = "some" -> <<1, Unlimited>>
    [] form.f = "any" -> <<0, Unlimited>>
    [] form.f = "at-least" -> <<form.n[1], Unlimited>>
    [] form.f = "at-most" -> <<0, form.n[1]>>
    [] form.f = "opt" -> <<0, 1>>
    [] form.f = "repeat" -> <<form.n[1], form.n[1]>>
    [] OTHER -> <<>>

MeansText(x, form, pos, end) ==
  LET c == IF pos < end THEN x.text[pos + 1] ELSE 0
  IN CASE form.f = "boolean" -> IF form.n[1] = 1 THEN pos ELSE Fail
       [] form.f = "number" -> IF form.n[1] >= 0 THEN (IF pos + form.n[1] <= end THEN pos + form.n[1] ELSE Fail)
                               ELSE (IF pos - form.n[1] > end THEN pos ELSE Fail)
       [] form.f = "string" -> IF Has(x, pos, end, form.n) THEN pos + Len(form.n) ELSE Fail
       [] form.f = "range" -> IF c \in form.n[1] .. form.n[2] /\ pos < end THEN pos + 1 ELSE Fail
       [] form.f = "set" -> IF pos < end /\ c \in ToSet(form.n) THEN pos + 1 ELSE Fail
       [] form.f = "debug" -> pos

MeansValue(x, form, pos, end, tags) ==
  LET found == Latest(tags, IF form.f = "backref" THEN form.n[1] ELSE form.tag)
      lc == LineCol([text |-> x.text], pos)
      here(v) == Tagged(M(pos, <<>>, tags), v, form.tag)
  IN CASE form.f = "position" -> here(Num(pos))
       [] form.f = "line" -> here(Num(lc[1]))
       [] form.f = "column" -> here(Num(lc[2]))
       [] form.f = "argument" -> here(IF form.n[1] < Len(x.args) THEN x.args[form.n[1] + 1] ELSE Nil)
       [] form.f = "constant" -> here(Call(form.n, <<>>))
       [] form.f = "backref" -> IF found = <<>> THEN No ELSE here(found[1])
       [] form.f = "backmatch" ->
            IF found # <<>> /\ found[1].t = "string" /\ Has(x, pos, end, found[1].b)
            THEN M(pos + Len(found[1].b), <<>>, tags) ELSE No
       [] form.f = "readint" ->
            IF pos + form.n[1] > end THEN No
            ELSE LET v == Num(ReadInt(Text(x, pos, pos + form.n[1]), form.n[1] + form.n[2]))
                 IN Tagged(M(pos + form.n[1], <<>>, tags), v, form.tag)

(* What is made of the captures of the part.                                 *)
MeansCapture(x, form, pos, a, tags) ==
  LET made(v) == Tagged(a, v, form.tag)
      v == Call(form.n, a.caps)
      text == Text(x, pos, a.pos)
  IN CASE form.f = "capture" -> M(a.pos, a.caps \o <<Str(text)>>, Append(a.tags, <<form.tag, Str(text)>>))
       [] form.f = "capture-number" ->
            IF Len(text) = 1 /\ text[1] \in 1 .. 9
            THEN M(a.pos, a.caps \o <<Num(text[1])>>, Append(a.tags, <<form.tag, Num(text[1])>>)) ELSE No
       [] form.f = "accumulate" -> made(Str(Joined(a.caps)))
       [] form.f = "drop" -> M(a.pos, <<>>, tags)
       [] form.f = "only-tags" -> M(a.pos, <<>>, a.tags)
       [] form.f = "group" -> made(Val("array", <<>>, a.caps))
       [] form.f = "nth" -> IF Len(a.caps) > form.n[1] THEN made(a.caps[form.n[1] + 1]) ELSE No
       [] form.f = "unref" ->
            M(a.pos, a.caps, tags \o SelectSeq(SubSeq(a.tags, Len(tags) + 1, Len(a.tags)),
                                               LAMBDA t : form.tag # NoTag /\ t[1] # form.tag))
       [] form.f = "replace" -> made(v)
       [] form.f = "cmt" -> IF v = Nil THEN No ELSE made(v)
       [] form.f = "cms" ->
            LET vs == IF v.t = "tuple" THEN v.items ELSE <<v>>
            IN IF v = Nil THEN No ELSE M(a.pos, vs, a.tags \o [i \in DOMAIN vs |-> <<form.tag, vs[i]>>])

Means(x, env, form, pos, end, tags) ==
  LET p(i) == form.parts[i]
      a == Means(x, env, p(1), pos, end, tags)
      scope == Scope(env, form.tag)
      at == Places(x, env, p(1), pos, end, tags)
      b == Bounds(form)
      times == Times(x, env, p(1), b[2], pos, end, tags)
      sub == Means(x, env, p(2), pos, a.pos, a.tags)
      til == Means(x, env, p(2), pos, Least(at), tags)
      look == Means(x, env, p(1), pos + form.n[1], end, tags)
      n == a.caps[1].b[1]
  IN CASE form.f \in {"boolean", "number", "string", "range", "set", "debug"} -> M(MeansText(x, form, pos, end), <<>>, tags)
       [] form.f = "ref" -> Means(x, scope, scope[1][CHOOSE i \in DOMAIN scope[1] : scope[1][i][1] = form.tag][2], pos, end, tags)
       [] IsGrammar(form) -> Means(x, <<form.rules>> \o env, Ref("main"), pos, end, tags)
       [] form.f = "sequence" -> All(x, env, form.parts, pos, end, tags)
       [] form.f = "choice" -> First(x, env, form.parts, pos, end, tags)
       [] form.f = "look" -> IF pos + form.n[1] \notin 0 .. end \/ look.pos = Fail THEN No ELSE M(pos, look.caps, look.tags)
       [] form.f = "if" -> IF a.pos = Fail THEN No ELSE Then(a, Means(x, env, p(2), pos, end, a.tags))
       [] form.f = "if-not" -> IF a.pos = Fail THEN Means(x, env, p(2), pos, end, tags) ELSE No
       [] form.f = "not" -> IF a.pos = Fail THEN M(pos, <<>>, tags) ELSE No
       [] form.f = "to" -> IF at = {} THEN No ELSE M(Least(at), <<>>, tags)
       [] form.f = "thru" -> IF at = {} THEN No ELSE Means(x, env, p(1), Least(at), end, tags)
       [] b # <<>> -> IF times.n < b[1] THEN No ELSE times.m
       [] form.f = "sub" -> IF a.pos = Fail \/ sub.pos = Fail THEN No ELSE M(a.pos, a.caps \o sub.caps, sub.tags)
       [] form.f = "til" -> IF at = {} THEN No ELSE IF til.pos = Fail THEN No
                            ELSE M(Means(x, env, p(1), Least(at), end, tags).pos, til.caps, til.tags)
       [] form.f = "split" -> Chunks(x, env, form, pos, end, tags)
       [] form.f = "lenprefix" ->
            IF a.pos = Fail \/ a.caps = <<>> THEN No
            ELSE IF ~IsInt(a.caps[1]) THEN No
            ELSE All(x, env, [i \in 1 .. n |-> p(2)], a.pos, end, tags)
       [] form.f \in {"position", "line", "column", "argument", "constant", "backref", "backmatch", "readint"} ->
            MeansValue(x, form, pos, end, tags)
       [] OTHER -> IF a.pos = Fail THEN No ELSE MeansCapture(x, form, pos, a, tags)
=============================================================================
