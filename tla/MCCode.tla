--------------------------------- MODULE MCCode ---------------------------------
(***************************************************************************)
(* Programs for the compiler, written with the forms themselves.           *)
(***************************************************************************)
EXTENDS Compiler, Code

M == INSTANCE Meaning
FunctionNames == M!Functions
Meant(program) == LET r == M!Program(M!Start, program) IN r

N(n) == Form("const", Num(n), "", <<>>)
K(s) == Form("const", Kw(s), "", <<>>)
S(s) == Form("sym", Nil, s, <<>>)
F(f, parts) == Form(f, Nil, "", parts)
Call1(s, parts) == F("call", <<S(s)>> \o parts)
Log(x) == Call1("log", <<x>>)
Fn1(name, params, body) == Form("fn", Nil, name, <<F("tuple", params)>> \o body)
Def1(s, x) == F("def", <<S(s), x>>)
Var1(s, x) == F("var", <<S(s), x>>)
Set1(s, x) == F("set", <<S(s), x>>)
Do(parts) == F("do", parts)
Tup1(parts) == F("tuple", parts)
If1(parts) == F("if", parts)
False1 == Form("const", Bool(FALSE), "", <<>>)
Splice(x) == F("splice", <<x>>)
Break0 == F("break", <<>>)
BreakWith(x) == F("break", <<x>>)
NilCheck(name, parts) == F("call", <<Form("const", Builtin(name), "", <<>>)>> \o parts)
X == S("x")
Y == S("y")
Z == S("z")
Inc(s) == Set1(s, Call1("+", <<S(s), N(1)>>))

-----------------------------------------------------------------------------
(* Every kind of parameters with every number of arguments, in a call that   *)
(* is a tail call and in one that is not.                                    *)
Params1 == {<<X, Y>>, <<X, S("&opt"), Y>>, <<X, S("&"), Y>>, <<X, Y, S("&")>>, <<X, S("&keys"), Y>>, <<S("&named"), X, Y>>,
            <<Tup1(<<X, Y>>)>>, <<Tup1(<<X, S("&"), Y>>)>>, <<F("struct", <<K("x"), X, K("y"), Y>>), S("&opt"), Z>>,
            <<S("&opt"), X, Y>>, <<X, S("&opt"), Z, S("&"), Y>>}
Args1 == {<<>>, <<N(1)>>, <<N(1), N(2)>>, <<N(1), N(2), N(3)>>, <<K("x"), N(1), K("y"), N(2)>>, <<Tup1(<<N(1), N(2), N(3)>>)>>,
          <<F("table", <<K("x"), N(1), K("y"), N(2)>>)>>, <<Splice(F("array", <<N(1), N(2), N(3)>>))>>,
          <<N(1), Splice(Tup1(<<N(2)>>)), N(3), N(4), Splice(Tup1(<<>>))>>, <<N(1), N(2), N(3), N(4), N(5)>>}
ParamPrograms ==
  {<<Do(<<Def1("f", Fn1(name, p, <<Log(X), Log(Y), Y>>)), Log(F("call", <<S("f")>> \o a)), F("call", <<S("f")>> \o a)>>)>> :
     p \in Params1, a \in Args1, name \in {"x"}}

(* Functions the compiler has instructions for, on names, constants that fit *)
(* in an instruction and constants that do not.                              *)
Operand == {X, N(2), N(300), S("t")}
BinaryCalls == {Call1(f, <<a, b>>) : f \in {"+", "-", "*", "<", "<=", "=", "not=", "get", "in", "cmp"}, a \in Operand, b \in Operand}
OtherCalls ==
  {Call1(f, a) : f \in {"+", "-", "*", ">", ">=", "=", "not="},
                      a \in {<<>>, <<X>>, <<X, Y, N(2)>>, <<Y, X, Y>>, <<Y, Y, Y, X>>}}
  \cup {Call1("get", <<S("t"), a, b>>) : a \in {N(0), N(7), X}, b \in {X, Y, N(300), S("v")}}
  \cup {Call1("put", <<S("t"), a, b>>) : a \in {N(0), N(3), X}, b \in {Y, N(300)}}
  \cup {Call1("put", <<X, N(0), Y>>), F("call", <<S("t"), N(300)>>)}
  \cup {Call1("length", <<S("t")>>), Call1("length", <<X>>), Call1("error", <<X>>), Call1("apply", <<S("f"), X, S("t")>>),
        Call1("apply", <<S("f"), S("t")>>), Call1("apply", <<S("f"), X>>), F("call", <<K("m"), S("o"), X>>), F("call", <<K("n"), S("o")>>),
        F("call", <<S("t"), N(1)>>), F("call", <<S("o"), K("z")>>), F("call", <<X, S("t")>>), F("call", <<K("m"), S("o")>>)}
  \cup {F(kind, parts) : kind \in {"tuple", "array", "struct", "table"},
                         parts \in {<<>>, <<X, Y>>, <<N(1), N(2)>>, <<X, N(1), Y, N(2)>>, <<Splice(S("t"))>>, <<X, Splice(S("t")), Y, X>>}}
  \cup {F("quasiquote", <<q>>) : q \in {Tup1(<<X, F("unquote", <<X>>)>>), Tup1(<<F("unquote", <<Splice(S("t"))>>), N(1)>>),
                                       F("struct", <<K("k"), F("unquote", <<Call1("+", <<X, Y>>)>>)>>)}}
(* Each as a value that is used, that is dropped, that is returned, and that *)
(* has a place to be put.                                                    *)
OpPrograms ==
  {<<Do(<<Def1("f", Fn1("", <<X, S("&"), Y>>, <<Log(X), Log(Y), Tup1(<<X, Y>>)>>)),
          Def1("o", F("table", <<K("m"), Fn1("", <<Y, X>>, <<Log(X), X>>)>>)),
          Def1("g", Fn1("", <<X, Y, S("t")>>, <<Var1("v", N(0)), c, Log(Tup1(<<X, Y, S("t")>>)), Set1("v", c), Log(S("v")), Log(c), c>>)),
          Call1("g", <<N(1), N(2), F("array", <<N(3), N(4)>>)>>)>>)>> : c \in BinaryCalls \cup OtherCalls}

CallPrograms == ParamPrograms \cup OpPrograms

-----------------------------------------------------------------------------
(* Branches: with a condition that is known or not, with and without a       *)
(* second branch, whose value is returned, dropped, passed on, or has a      *)
(* place to go.                                                              *)
Conditions == {X, N(1), NilForm, NilCheck("=", <<NilForm, X>>), NilCheck("not=", <<X, NilForm>>), NilCheck("=", <<NilForm, N(1)>>),
               Log(X), Do(<<Log(N(5)), X>>), Def1("w", X)}
Branches == {N(1), NilForm, Log(Y), Y, Do(<<Def1("w", N(7)), Log(S("w")), S("w")>>), Inc("v"), BreakWith(Y)}
Branches2 == {NilForm, Do(<<Def1("w", N(7)), S("w")>>), BreakWith(Y)}
IfPrograms ==
  {<<Do(<<Def1("f", Fn1("", <<X, Y>>, <<Var1("v", N(10)), i, S("v")>>)),
          Def1("g", Fn1("", <<X, Y>>, <<Var1("v", N(10)), i>>)),
          Log(Call1("f", <<N(3), N(4)>>)), Log(Call1("g", <<N(3), N(4)>>)), Call1("f", <<NilForm, N(4)>>), Call1("g", <<NilForm, N(4)>>)>>)>> :
     i \in {If1(<<c, a>>) : c \in Conditions, a \in Branches} \cup {If1(<<c, a, b>>) : c \in Conditions, a \in Branches, b \in Branches2}}
Uses(i) == {<<i>>, <<Log(i)>>, <<Set1("v", i)>>, <<Def1("d", i), Log(S("d"))>>}
UsedPrograms ==
  UNION {{<<Do(<<Def1("f", Fn1("", <<X, Y>>, <<Var1("v", N(10))>> \o use \o <<S("v")>>)),
                 Log(Call1("f", <<N(3), N(4)>>)), Call1("f", <<NilForm, N(4)>>)>>)>> : use \in Uses(i)} :
         i \in {If1(<<c, a, b>>) : c \in {X, NilCheck("=", <<X, NilForm>>), N(1), Def1("w", X)}, a \in {N(1), NilForm, Log(Y), Inc("v"), BreakWith(Y)},
                                   b \in {NilForm, Do(<<Def1("w", N(7)), S("w")>>), Log(X), Break0}}}

(* Loops: with breaks of both kinds in every place, one in the other, and    *)
(* with definitions inside.                                                  *)
LoopConditions == {Call1("<", <<X, N(3)>>), N(1), NilCheck("not=", <<NilForm, Call1("get", <<S("t"), X>>)>>), NilForm,
                   NilCheck("=", <<NilForm, Call1("get", <<S("u"), X>>)>>)}
LoopSteps == {If1(<<Call1(">", <<X, N(1)>>), Break0>>), If1(<<Call1("=", <<X, N(1)>>), Log(K("one")), Log(X)>>),
              If1(<<Call1("<", <<X, N(1)>>), Log(X), BreakWith(Log(Y))>>), Def1("d", X),
              F("while", <<N(1), Log(Y), If1(<<X, Break0>>), Log(X)>>), Do(<<Var1("x", N(8)), Inc("x"), Log(X)>>)}
LoopPrograms ==
  {<<Do(<<Def1("f", Fn1("", <<S("t"), Y>>, <<Var1("x", N(0)), Def1("u", F("struct", <<N(2), Y>>)),
                                            F("while", <<c, Inc("x"), a, b, If1(<<Call1(">=", <<X, N(4)>>), Break0>>), Log(X)>>), X>>)),
          Log(Call1("f", <<Tup1(<<N(1), N(2)>>), N(6)>>))>>)>> :
     c \in LoopConditions, a \in LoopSteps, b \in LoopSteps \ {Def1("d", X)}}

(* Definitions: patterns, names of names, and assignments, in a function and *)
(* at the top, where a later form sees them.                                 *)
Patterns == {X, Tup1(<<X, Y>>), Tup1(<<X, Tup1(<<Y, Z>>)>>), F("array", <<X, S("&"), Y>>), F("struct", <<N(0), X, N(1), Y>>)}
Sources == {Tup1(<<N(1), N(2)>>), Tup1(<<N(1), Tup1(<<N(2), N(3)>>)>>), F("array", <<S("p"), S("q")>>), S("p"),
            F("table", <<N(0), S("q"), N(1), S("p")>>), Tup1(<<S("q")>>), Tup1(<<Splice(S("q")), S("p")>>)}
DefSteps(kind, p, v) ==
  <<Def1("p", Tup1(<<N(5), Tup1(<<N(6), N(7)>>)>>)), Var1("q", Tup1(<<N(8), N(9), N(10)>>)), F(kind, <<X, N(0)>>), F(kind, <<Y, N(0)>>),
    F(kind, <<Z, N(0)>>), F(kind, <<p, v>>), Log(Tup1(<<X, Y, Z>>)), Def1("w", X), Set1("q", X), Log(S("q")),
    Do(<<Var1("w", S("p")), Set1("w", Y), Log(S("w"))>>), Log(S("w"))>>
Closing(kind) == IF kind = "var" THEN <<Set1("x", N(33)), Log(X)>> ELSE <<Def1("x", N(33)), Log(X)>>
DefPrograms ==
  UNION {LET steps == DefSteps(kind, p, v) \o Closing(kind)
         IN {steps, <<Do(steps)>>, <<F("upscope", steps)>>, <<F("call", <<Fn1("", <<>>, steps)>>)>>,
             <<If1(<<F("upscope", SubSeq(steps, 1, 5)), NilForm, Do(SubSeq(steps, 6, Len(steps)))>>)>>} :
         kind \in {"def", "var"}, p \in Patterns, v \in Sources}

ControlPrograms == IfPrograms \cup UsedPrograms \cup LoopPrograms

-----------------------------------------------------------------------------
(* Functions that use what is around them.  One is made in a place, called   *)
(* before and after that place is left, and sets what another one reads.     *)
Fn0(body) == Fn1("", <<>>, body)
CallOf1(f) == F("call", <<f>>)
Inside1(f) == {<<f>>, <<Do(<<f>>)>>, <<If1(<<X, f>>)>>, <<If1(<<X, Do(<<Def1("b", N(50)), f>>), NilForm>>)>>,
               <<Do(<<Def1("a", N(60)), Var1("y", S("a")), Inc("y"), f>>)>>}
After1 == {<<>>, <<Def1("b", N(70)), Def1("c", N(80)), Log(S("b")), Log(S("c"))>>, <<Inc("v"), Log(S("v"))>>}
Uses1 == {<<S("v")>>, <<Inc("v"), S("v")>>, <<Inc("v"), Inc("y"), Tup1(<<S("v"), Y>>)>>, <<Fn0(<<Inc("v"), Tup1(<<X, S("v")>>)>>)>>,
          <<Def1("k", Fn0(<<Inc("y"), Y>>)), CallOf1(S("k")), Inc("v"), Tup1(<<Y, S("v")>>)>>}
CapturePrograms ==
  UNION {{<<Def1("f", Fn1("", <<X>>, <<Var1("v", N(10)), Var1("y", N(20)), Var1("h", NilForm)>>
                          \o made \o after \o <<Log(CallOf1(S("h"))), Log(S("v")), Tup1(<<S("h"), Fn0(<<Inc("v"), S("v")>>)>>)>>)),
            Def1("r", Call1("f", <<N(1)>>)), Def1("s", Call1("f", <<N(2)>>)),
            Log(CallOf1(CallOf1(Fn0(<<Call1("get", <<S("r"), N(0)>>)>>)))), Log(CallOf1(Call1("get", <<S("r"), N(1)>>))),
            Log(CallOf1(Call1("get", <<S("s"), N(0)>>))), CallOf1(Call1("get", <<S("r"), N(1)>>))>> :
            made \in Inside1(Set1("h", Fn0(u)))} : u \in Uses1, after \in After1}

(* Loops that make a function each time round, of what is new each time and  *)
(* of what is not.                                                           *)
LoopOf(c, body) == F("while", <<c>> \o body)
MadeIn(u) == {<<Def1("j", S("i")), Call1("put", <<S("l"), S("i"), Fn0(u)>>)>>,
              <<Var1("j", S("i")), If1(<<Call1("=", <<S("i"), N(1)>>), Inc("j")>>), Call1("put", <<S("l"), S("i"), Fn0(u)>>), Inc("j")>>,
              <<Var1("j", S("i")), Call1("put", <<S("l"), S("i"), Fn0(u)>>), If1(<<Call1("=", <<S("i"), N(1)>>), Do(<<Log(S("j")), BreakWith(Log(K("out")))>>)>>)>>,
              <<Var1("j", S("i")), Call1("put", <<S("l"), S("i"), Fn0(u)>>), LoopOf(N(1), <<Inc("j"), If1(<<Call1(">", <<S("j"), N(3)>>), Break0>>)>>)>>,
              <<Var1("j", N(0)), LoopOf(Call1("<", <<S("j"), N(2)>>), <<Call1("put", <<S("l"), S("i"), Fn0(u)>>), Inc("j")>>)>>}
LoopUses == {<<S("j")>>, <<Tup1(<<S("i"), S("j")>>)>>, <<Inc("v"), Tup1(<<S("v"), S("j")>>)>>, <<Set1("v", Fn0(<<S("j")>>)), CallOf1(S("v"))>>}
LoopFnPrograms ==
  UNION {{<<Def1("f", Fn1("", <<>>, <<Var1("v", N(0)), Var1("i", N(0)), Def1("l", F("array", <<>>)), LoopOf(c, body \o <<Inc("i")>>), Log(S("i")), S("l")>>)),
            Def1("l", Call1("f", <<>>)),
            Log(CallOf1(Call1("get", <<S("l"), N(0)>>))), Log(CallOf1(Call1("get", <<S("l"), N(1)>>))), CallOf1(Call1("get", <<S("l"), N(0)>>))>> :
            body \in MadeIn(u)} :
         u \in LoopUses, c \in {Call1("<", <<S("i"), N(3)>>), NilCheck("=", <<NilForm, Call1("get", <<F("struct", <<N(2), N(1)>>), S("i")>>)>>)}}

(* Calls that replace their frame, with what was captured in it.             *)
TailPrograms ==
  {<<Def1("f", Fn1("f", <<X, S("&opt"), Y>>, <<Var1("v", X), Def1("g", Fn0(<<Inc("v"), S("v")>>)), If1(<<Y, Log(CallOf1(Y))>>), Log(CallOf1(S("g"))), last>>)),
     Log(Call1("f", <<N(2)>>)), Call1("f", <<N(0), Fn0(<<N(9)>>)>>)>> :
     last \in {If1(<<Call1("=", <<X, N(0)>>), S("v"), c>>) :
               c \in {Call1("f", <<Call1("-", <<X, N(1)>>), S("g")>>), CallOf1(S("g")), Call1("apply", <<S("f"), Tup1(<<N(0), S("g")>>)>>),
                      Do(<<Log(X), Call1("f", <<N(0), Fn0(<<Inc("v"), X>>)>>)>>), Call1("f", <<N(0), S("g"), X>>)}}}

ClosurePrograms == CapturePrograms \cup LoopFnPrograms \cup TailPrograms

-----------------------------------------------------------------------------
(* The same in functions with many names, whose registers are read again at  *)
(* the end.                                                                  *)
Filler == <<S("p1"), S("p2"), S("p3"), S("p4"), S("p5"), S("p6"), S("p7"), S("p8"), S("p9"), S("p10"), S("p11")>>
Fill(n) == [i \in 1 .. n |-> F("def", <<Filler[i], N(100 + i)>>)]
FarCalls == {Call1(f, <<a, b>>) : f \in {"+", "<", "get", "cmp"}, a \in {X, N(300)}, b \in {X, N(2), N(300)}} \cup OtherCalls
FarBodies == {<<c, Log(c)>> : c \in FarCalls} \cup {<<Set1("v", c), Log(S("v"))>> : c \in FarCalls}
FarControl ==
  {<<If1(<<c, a, b>>), Log(S("v"))>> : c \in {X, NilCheck("=", <<X, NilForm>>), Log(X)}, a \in {Log(Y), Inc("v")}, b \in {NilForm, Log(X)}}
  \cup {<<Set1("v", If1(<<X, c, N(3)>>)), Log(S("v"))>> : c \in {Y, Call1("+", <<X, Y>>)}}
  \cup {<<F("while", <<Call1("<", <<S("v"), N(2)>>), Inc("v"), Log(S("v"))>>)>>, <<Def1("w", Y), Var1("q", S("w")), Inc("q"), Log(Tup1(<<S("w"), S("q"), Y>>))>>}
  \cup {<<F(kind, <<p, S("t")>>), Log(Tup1(<<S("a"), S("b")>>))>> :
        kind \in {"def", "var"}, p \in {Tup1(<<S("a"), S("b")>>), F("struct", <<N(0), S("a"), N(1), S("b")>>)}}
FarProgram(n, body) ==
  <<Do(<<Def1("f", Fn1("", <<S("u"), S("&"), S("w")>>, <<Log(S("u")), Log(S("w")), Tup1(<<S("u"), S("w")>>)>>)),
          Def1("o", F("table", <<K("m"), Fn1("", <<Y, X>>, <<Log(X), X>>)>>)),
          Def1("g", Fn1("", <<S("f"), S("o")>>,
                       Fill(n) \o <<Def1("x", N(1)), Def1("y", N(2)), Def1("t", F("array", <<N(3), N(4)>>)), Var1("v", N(0))>> \o body
                       \o <<Log(Tup1(<<X, Y, S("t"), S("v")>>)), Tup1([i \in 1 .. n |-> Filler[i]])>>)),
          Call1("g", <<S("f"), S("o")>>)>>)>>
FarPrograms == {FarProgram(n, body) : n \in {9, 11}, body \in FarControl} \cup {FarProgram(9, body) : body \in FarBodies}

AllPrograms == CallPrograms \cup ControlPrograms \cup DefPrograms \cup ClosurePrograms \cup FarPrograms
=============================================================================
