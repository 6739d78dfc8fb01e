-------------------------------- MODULE PegCode --------------------------------
(***************************************************************************)
(* Compiling a grammar ("peg.c"): a form becomes a rule, a few words in an *)
(* array, with a cache so that a form met again, or met within itself, is  *)
(* the rule it already has.  And the check of words that were marshalled.  *)
(*                                                                         *)
(* A form is a record: its command f, numbers n, parts, tag, and for a     *)
(* grammar the forms its names stand for.  Texts are sequences of bytes    *)
(* below 31.                                                               *)
(***************************************************************************)
EXTENDS Integers, Sequences, FiniteSets, SequencesExt, TLC

NoTag == 0           \* tags are numbered from 1
Unlimited == -1      \* UINT32_MAX
MaxReadint == 8      \* JANET_MAX_READINT_WIDTH

Form(f, n, parts, tag) == [f |-> f, n |-> n, parts |-> parts, tag |-> tag, rules |-> <<>>]
Grammar(kind, rules) == [f |-> kind, n |-> <<>>, parts |-> <<>>, tag |-> NoTag, rules |-> rules]
Ref(name) == Form("ref", <<>>, <<>>, name)
IsGrammar(form) == form.f \in {"struct", "table"}
IsPrimitive(form) == form.f \in {"boolean", "number", "string"}
IsTuple(form) == ~IsGrammar(form) /\ ~IsPrimitive(form)

(* JanetPegOpcode *)
Ops == <<"LITERAL", "NCHAR", "NOTNCHAR", "RANGE", "SET", "LOOK", "CHOICE", "SEQUENCE", "IF", "IFNOT",
         "NOT", "BETWEEN", "GETTAG", "CAPTURE", "POSITION", "ARGUMENT", "CONSTANT", "ACCUMULATE",
         "GROUP", "REPLACE", "MATCHTIME", "ERROR", "DROP", "BACKMATCH", "TO", "THRU", "LENPREFIX",
         "READINT", "LINE", "COLUMN", "UNREF", "CAPTURE_NUM", "SUB", "TIL", "SPLIT", "NTH",
         "ONLY_TAGS", "MATCHSPLICE", "DEBUG">>
OpWord == [o \in ToSet(Ops) |-> (CHOOSE i \in DOMAIN Ops : Ops[i] = o) - 1]

(* The words of each command: the opcode, then parts (p1, p2), numbers (n1,  *)
(* n2), tags, a constant, or a fixed number.                                 *)
Branches ==
  ("look" :> <<"LOOK", "n1", "p1">>) @@ ("if" :> <<"IF", "p1", "p2">>) @@ ("if-not" :> <<"IFNOT", "p1", "p2">>)
  @@ ("lenprefix" :> <<"LENPREFIX", "p1", "p2">>)
Repeaters ==
  ("between" :> <<"BETWEEN", "n1", "n2", "p1">>) @@ ("some" :> <<"BETWEEN", "one", "inf", "p1">>)
  @@ ("any" :> <<"BETWEEN", "zero", "inf", "p1">>) @@ ("at-least" :> <<"BETWEEN", "n1", "inf", "p1">>)
  @@ ("at-most" :> <<"BETWEEN", "zero", "n1", "p1">>) @@ ("opt" :> <<"BETWEEN", "zero", "one", "p1">>)
  @@ ("repeat" :> <<"BETWEEN", "n1", "n1", "p1">>)
OneRule ==
  ("not" :> <<"NOT", "p1">>) @@ ("error" :> <<"ERROR", "p1">>) @@ ("to" :> <<"TO", "p1">>)
  @@ ("thru" :> <<"THRU", "p1">>) @@ ("drop" :> <<"DROP", "p1">>) @@ ("only-tags" :> <<"ONLY_TAGS", "p1">>)
Captures ==
  ("capture" :> <<"CAPTURE", "p1", "tag">>) @@ ("accumulate" :> <<"ACCUMULATE", "p1", "tag">>)
  @@ ("group" :> <<"GROUP", "p1", "tag">>) @@ ("unref" :> <<"UNREF", "p1", "tag">>)
  @@ ("nth" :> <<"NTH", "n1", "p1", "tag">>) @@ ("capture-number" :> <<"CAPTURE_NUM", "p1", "n1", "tag">>)
Positions ==
  ("backref" :> <<"GETTAG", "search", "tag">>) @@ ("position" :> <<"POSITION", "tag">>) @@ ("line" :> <<"LINE", "tag">>)
  @@ ("column" :> <<"COLUMN", "tag">>) @@ ("backmatch" :> <<"BACKMATCH", "tag">>)
  @@ ("argument" :> <<"ARGUMENT", "n1", "tag">>) @@ ("constant" :> <<"CONSTANT", "const", "tag">>)
MatchTime ==
  ("replace" :> <<"REPLACE", "p1", "const", "tag">>) @@ ("cmt" :> <<"MATCHTIME", "p1", "const", "tag">>)
  @@ ("cms" :> <<"MATCHSPLICE", "p1", "const", "tag">>)
Windows ==
  ("sub" :> <<"SUB", "p1", "p2">>) @@ ("til" :> <<"TIL", "p1", "p2">>) @@ ("split" :> <<"SPLIT", "p1", "p2">>)
  @@ ("readint" :> <<"READINT", "width", "tag">>)
Specials == Branches @@ Repeaters @@ OneRule @@ Captures @@ Positions @@ MatchTime @@ Windows

(* Builder: the words, the constants, the tags, the grammars (their names,   *)
(* their cache of rules, and the grammar around them), and the first error.  *)
Builder0 == [code |-> <<>>, constants |-> <<>>, tags |-> <<>>, hasref |-> FALSE, error |-> "",
             grammars |-> <<[rules |-> <<>>, cache |-> {}, proto |-> 0]>>]

(* emit_tag *)
WithTag(b, t) == IF t = NoTag \/ t \in ToSet(b.tags) THEN b ELSE [b EXCEPT !.tags = Append(@, t)]
TagWord(b, t) == IF t = NoTag THEN 0 ELSE CHOOSE i \in DOMAIN b.tags : b.tags[i] = t

RECURSIVE Pack(_)
Pack(bytes) ==
  IF bytes = <<>> THEN <<>>
  ELSE LET at(i) == IF i \in DOMAIN bytes THEN bytes[i] * 256 ^ (i - 1) ELSE 0
       IN <<at(1) + at(2) + at(3) + at(4)>> \o Pack(SubSeq(bytes, 5, Len(bytes)))
Bitmap(bytes) == <<FoldFunctionOnSet(+, 0, [c \in 0 .. 30 |-> 2 ^ c], bytes), 0, 0, 0, 0, 0, 0, 0>>

(* janet_table_get_ex up the chain: the grammar that has the name.           *)
RECURSIVE Holder(_, _, _)
Holder(b, g, name) ==
  IF g = 0 THEN 0
  ELSE IF \E i \in DOMAIN b.grammars[g].rules : b.grammars[g].rules[i][1] = name THEN g
  ELSE Holder(b, b.grammars[g].proto, name)
Named(b, g, name) == LET rs == b.grammars[g].rules IN rs[CHOOSE i \in DOMAIN rs : rs[i][1] = name][2]

(* Keyword references, one after the other.                                  *)
RECURSIVE Resolved(_, _, _, _)
Resolved(b, g, form, guard) ==
  LET h == Holder(b, g, form.tag)
  IN CASE guard = 0 -> [error |-> "reference chain too deep", g |-> g, form |-> form]
       [] guard > 0 /\ form.f # "ref" -> [error |-> "", g |-> g, form |-> form]
       [] guard > 0 /\ form.f = "ref" /\ h = 0 -> [error |-> "unknown rule", g |-> g, form |-> form]
       [] guard > 0 /\ form.f = "ref" /\ h > 0 -> Resolved(b, h, Named(b, h, form.tag), guard - 1)

(* The cache: a tuple means what its names mean here; anything else means    *)
(* the same everywhere.                                                      *)
RECURSIVE Cached(_, _, _)
Cached(b, g, form) ==
  LET here == {c \in b.grammars[g].cache : c[1] = form}
  IN IF here # {} THEN (CHOOSE c \in here : TRUE)[2]
     ELSE IF IsTuple(form) \/ b.grammars[g].proto = 0 THEN -1
     ELSE Cached(b, b.grammars[g].proto, form)

CacheFor(g, form) == IF IsTuple(form) THEN g ELSE 1

WithCached(b, g, form) ==
  IF form.f = "struct" THEN b
  ELSE [b EXCEPT !.grammars[CacheFor(g, form)].cache = @ \cup {<<form, Len(b.code)>>}]

(* reserve: the rule's words come before those of its parts.                 *)
Reserve(b, size) == [b EXCEPT !.code = @ \o [i \in 1 .. size |-> 0]]
Put(b, at, words) == [b EXCEPT !.code = [i \in DOMAIN @ |-> IF i > at /\ i <= at + Len(words) THEN words[i - at] ELSE @[i]]]
Emit(b, words) == [b EXCEPT !.code = @ \o words]

Leaf(b, form) ==
  CASE form.f = "boolean" -> Emit(b, <<OpWord[IF form.n[1] = 1 THEN "NCHAR" ELSE "NOTNCHAR"], 0>>)
    [] form.f = "number" ->
         Emit(b, IF form.n[1] < 0 THEN <<OpWord["NOTNCHAR"], -form.n[1]>> ELSE <<OpWord["NCHAR"], form.n[1]>>)
    [] form.f = "string" -> Emit(b, <<OpWord["LITERAL"], Len(form.n)>> \o Pack(form.n))
    [] form.f = "range" -> Emit(b, <<OpWord["RANGE"], form.n[1] + 65536 * form.n[2]>>)
    [] form.f = "set" -> Emit(b, <<OpWord["SET"]>> \o Bitmap(ToSet(form.n)))
    [] form.f = "debug" -> Emit(b, <<OpWord["DEBUG"]>>)
Leaves == {"boolean", "number", "string", "range", "set", "debug"}

(* peg_compile1: the builder and the rule.                                   *)
RECURSIVE Compile1(_, _, _), CompileParts(_, _, _)
CompileParts(b, g, forms) ==
  FoldLeft(LAMBDA acc, form : LET r == Compile1(acc.b, g, form) IN [b |-> r.b, rules |-> Append(acc.rules, r.rule)],
           [b |-> b, rules |-> <<>>], forms)
Compile1(b, g0, form0) ==
  LET res == Resolved(b, g0, form0, 8)
      g == res.g
      form == res.form
      rule == Len(b.code)
      c == WithCached(b, g, form)
      inner == [c EXCEPT !.grammars = Append(@, [rules |-> form.rules, cache |-> {}, proto |-> g])]
      main == Holder(inner, Len(inner.grammars), "main")
  IN CASE b.error # "" -> [b |-> b, rule |-> 0]
       [] b.error = "" /\ res.error # "" -> [b |-> [b EXCEPT !.error = res.error], rule |-> 0]
       [] b.error = "" /\ res.error = "" /\ Cached(b, g, form) >= 0 -> [b |-> b, rule |-> Cached(b, g, form)]
       [] OTHER ->
            IF IsGrammar(form) THEN
              IF main # Len(inner.grammars) THEN [b |-> [c EXCEPT !.error = "grammar requires :main rule"], rule |-> 0]
              ELSE Compile1(inner, main, Named(inner, main, "main"))
            ELSE IF form.f \in Leaves THEN [b |-> Leaf(c, form), rule |-> rule]
            ELSE IF form.f \in {"choice", "sequence"} THEN
              LET r == CompileParts(Reserve(c, 2 + Len(form.parts)), g, form.parts)
              IN [b |-> Put(r.b, rule, <<OpWord[IF form.f = "choice" THEN "CHOICE" ELSE "SEQUENCE"], Len(form.parts)>> \o r.rules),
                  rule |-> rule]
            ELSE
              LET shape == Specials[form.f]
                  tagged == WithTag(Reserve(c, Len(shape)), IF form.f = "backref" THEN form.n[1] ELSE NoTag)
                  r == CompileParts(WithTag(tagged, form.tag), g, form.parts)
                  hasconst == \E i \in DOMAIN shape : shape[i] = "const"
                  d == [r.b EXCEPT !.constants = IF hasconst THEN Append(@, form.n) ELSE @,
                                   !.hasref = @ \/ form.f \in {"backref", "backmatch"}]
                  word(w) == CASE w = "p1" -> r.rules[1] [] w = "p2" -> r.rules[2]
                               [] w = "n1" -> form.n[1] [] w = "n2" -> form.n[2]
                               [] w = "search" -> TagWord(d, form.n[1])
                               [] w = "width" -> form.n[1] + form.n[2]     \* sign and order above the width
                               [] w = "tag" -> TagWord(d, form.tag) [] w = "const" -> Len(d.constants) - 1
                               [] w = "zero" -> 0 [] w = "one" -> 1 [] w = "inf" -> Unlimited
                               [] OTHER -> OpWord[w]
              IN [b |-> Put(d, rule, [i \in DOMAIN shape |-> word(shape[i])]), rule |-> rule]

(* compile_peg and make_peg.  The machine starts at the first word.          *)
Compiled(form) == Compile1(Builder0, 1, form)

-----------------------------------------------------------------------------
(* peg_unmarshal: a scan over the rules, one after the other.  Sizes of the  *)
(* rules, and which of their words are rules or constants.                   *)
ShapeOf(op) == CHOOSE s \in {Specials[f] : f \in DOMAIN Specials} : s[1] = op
RuleWords(op) == {i \in DOMAIN ShapeOf(op) : ShapeOf(op)[i] \in {"p1", "p2"}}
Special == {Specials[f][1] : f \in DOMAIN Specials}

LiteralWords(len) == (len + 3) \div 4

SizeAt(code, i) ==
  LET op == Ops[code[i + 1] + 1]
  IN CASE op = "LITERAL" -> 2 + LiteralWords(code[i + 2])
       [] op \in {"NCHAR", "NOTNCHAR", "RANGE"} -> 2
       [] op = "SET" -> 9
       [] op = "DEBUG" -> 1
       [] op \in {"CHOICE", "SEQUENCE"} -> 2 + code[i + 2]
       [] OTHER -> Len(ShapeOf(op))
RefsAt(code, i) ==
  LET op == Ops[code[i + 1] + 1]
  IN CASE op \in {"CHOICE", "SEQUENCE"} -> {code[i + 2 + k] : k \in 1 .. code[i + 2]}
       [] op \in Special -> {code[i + k] : k \in RuleWords(op)}
       [] OTHER -> {}
BadAt(code, i) ==
  LET op == Ops[code[i + 1] + 1]
  IN op = "READINT" /\ code[i + 2] > MaxReadint

RECURSIVE Starts(_, _)
Starts(code, i) == IF i >= Len(code) THEN {i} ELSE {i} \cup Starts(code, i + SizeAt(code, i))

Verified(code) ==
  LET starts == Starts(code, 0)
      rules == starts \ {Len(code)}
  IN /\ Len(code) \in starts
     /\ \A i \in rules : ~BadAt(code, i) /\ RefsAt(code, i) \subseteq rules
=============================================================================
