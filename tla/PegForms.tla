------------------------------- MODULE PegForms -------------------------------
(***************************************************************************)
(* The forms that are matched, and the texts.                              *)
(***************************************************************************)
EXTENDS PegMatch

S(b) == Form("string", b, <<>>, NoTag)
N(k) == Form("number", <<k>>, <<>>, NoTag)
U(f, n, x) == Form(f, n, <<x>>, NoTag)
B(f, x, y) == Form(f, <<>>, <<x, y>>, NoTag)
T(f, n, tag) == Form(f, n, <<>>, tag)
Cap(x) == U("capture", <<>>, x)
TagCap(x) == Form("capture", <<>>, <<x>>, 1)
Number == U("capture-number", <<0>>, N(1))
a == S(<<1>>)
b == S(<<12>>)

Small == {a, b, N(1), N(-1), T("position", <<>>, NoTag), Cap(a), Cap(N(1)), Number, T("constant", <<3>>, NoTag)}
Unary == {<<f, <<>>>> : f \in {"any", "some", "opt", "not", "to", "thru", "drop", "only-tags", "accumulate", "group",
                               "unref", "capture"}}
         \cup {<<"between", <<1, 2>>>>, <<"at-least", <<2>>>>, <<"at-most", <<1>>>>, <<"repeat", <<2>>>>, <<"nth", <<0>>>>, <<"nth", <<1>>>>,
               <<"look", <<1>>>>, <<"look", <<-1>>>>, <<"cmt", FirstFn>>, <<"replace", ListFn>>, <<"cms", ListFn>>}
Binary == {"sequence", "choice", "if", "if-not", "sub", "til", "split"}
Two == {U(u[1], u[2], x) : u \in Unary, x \in Small} \cup {B(f, x, y) : f \in Binary, x \in Small, y \in {a, N(-1), Cap(a), Cap(N(1)), Number}}
Both(x) == {x, U("accumulate", <<>>, B("sequence", x, Cap(N(0))))}
PartsInParts == UNION {Both(x) : x \in Two}

(* Where a part fails after it has captured, is counted, or a tag is used.   *)
Fails == B("sequence", Cap(N(1)), b)
Backed == B("sequence", TagCap(N(1)), T("backmatch", <<>>, 1))
Inner == {Fails, Backed, B("choice", Fails, Cap(a)), U("some", <<>>, Fails), B("lenprefix", Number, Cap(N(1))),
          B("sequence", Number, T("backref", <<1>>, 2)), B("split", b, U("any", <<>>, Cap(N(1)))), B("til", b, Backed),
          Form("unref", <<>>, <<Backed>>, NoTag), U("group", <<>>, Fails), T("readint", <<1, 0>>, NoTag),
          B("sequence", T("line", <<>>, NoTag), T("column", <<>>, NoTag)), T("argument", <<0>>, 1)}
Outer == {<<f, <<>>>> : f \in {"any", "not", "to", "thru", "accumulate", "only-tags", "drop", "capture"}} \cup {<<"cmt", FirstFn>>}
Uses == {Cap(N(0)), Cap(a), T("backmatch", <<>>, 1), T("backref", <<1>>, NoTag)}
Three == {B("choice", B("sequence", U(u[1], u[2], x), y), Cap(N(1))) : u \in Outer, x \in Inner, y \in Uses}
LoseBranches == {B(f, U("accumulate", <<>>, B("sequence", x, y)), z) : f \in {"choice", "sequence"}, x, y \in Inner \ {Backed}, z \in {Cap(a)}}
PartsInTurns == Three \cup LoseBranches

(* Names: recursion, the same tuple in two grammars, and names that stand    *)
(* for names.                                                                *)
Both2 == B("sequence", Ref("a"), Ref("b"))
Nest == Grammar("struct", <<<<"main", B("choice", Form("sequence", <<>>, <<a, U("opt", <<>>, Ref("main")), b>>, NoTag), Cap(S(<<10>>)))>>>>)
Shadow(kind) == Grammar("struct",
  <<<<"main", Form("sequence", <<>>, <<Both2, Grammar(kind, <<<<"main", Both2>>, <<"b", Ref("a")>>>>), U("opt", <<>>, Both2)>>, NoTag)>>,
    <<"a", a>>, <<"b", Cap(b)>>>>)
Chain == Grammar("struct", <<<<"main", B("choice", Ref("x"), Ref("b"))>>, <<"x", Ref("b")>>, <<"b", B("sequence", Cap(b), a)>>>>)
Names == {Nest, Shadow("struct"), Shadow("table"), Chain, U("any", <<>>, Chain), B("choice", Nest, Shadow("struct")),
          T("range", <<1, 3>>, NoTag), T("set", <<1, 10>>, NoTag), U("any", <<>>, Cap(T("set", <<1, 10>>, NoTag))),
          T("boolean", <<1>>, NoTag), T("boolean", <<0>>, NoTag), S(<<1, 12, 1, 12, 1>>), S(<<1, 12, 1, 12>>),
          B("sequence", T("debug", <<>>, NoTag), a), S(<<>>)}

-----------------------------------------------------------------------------
Upto(n) == UNION {[1 .. k -> {1, 12}] : k \in 0 .. n}
ShortTexts == Upto(2) \cup {<<1, 1, 12>>, <<1, 12, 10>>}
LongTexts == (UNION {[1 .. k -> {1, 12, 10}] : k \in 0 .. 3}) \cup [1 .. 5 -> {1, 12}]
Cases == <<<<PartsInParts, ShortTexts>>, <<PartsInTurns, ShortTexts>>, <<Names, LongTexts>>>>
Arguments == <<Str(<<1>>)>>
=============================================================================
