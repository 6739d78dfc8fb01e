------------------------------- MODULE PegMatch -------------------------------
(***************************************************************************)
(* The machine that matches ("peg_rule"): it keeps the captures on stacks, *)
(* notes their heights where it may backtrack, and cuts them again.        *)
(*                                                                         *)
(* A position is the number of bytes before it.  The bytes 1 to 9 are      *)
(* digits and 10 is the line feed; other numbers are printed as one byte   *)
(* above 100, anything else that is not a string as one byte.              *)
(***************************************************************************)
EXTENDS PegCode

Fail == -1      \* NULL
Panic == -2     \* the whole match ends with an error

(* A captured value: bytes of a string or the number, or elements.           *)
Val(t, b, items) == [t |-> t, b |-> b, items |-> items]
Str(b) == Val("string", b, <<>>)
Num(n) == Val("number", <<n>>, <<>>)
Nil == Val("nil", <<>>, <<>>)
ToBytes(v) ==
  CASE v.t = "string" -> v.b
    [] v.t = "number" -> IF v.b[1] \in 1 .. 9 THEN v.b ELSE <<100 + v.b[1]>>
    [] OTHER -> <<200>>
IsInt(v) == v.t = "number"

(* The functions grammars call, and the constants they give, by number.      *)
FirstFn == <<1>>
ListFn == <<2>>
Call(f, args) ==
  CASE f = FirstFn -> IF args = <<>> THEN Nil ELSE args[1]
    [] f = ListFn -> Val("tuple", <<>>, args)
    [] OTHER -> Val("constant", <<>>, <<>>)

(* PegState: a program is its words, constants, whether there are references *)
(* to tags, the text and the arguments.                                      *)
State0(text) == [caps |-> <<>>, tcaps |-> <<>>, scratch |-> <<>>, normal |-> TRUE, end |-> Len(text)]

Heights(s) == [cap |-> Len(s.caps), tcap |-> Len(s.tcaps), scratch |-> Len(s.scratch)]
Cut(q, n) == SubSeq(q, 1, n)

\* Mutant: the text collected by an accumulate is not taken back.
CapLoad_Scratch(s, cs) == [s EXCEPT !.caps = Cut(@, cs.cap), !.tcaps = Cut(@, cs.tcap)]

CapLoad(s, cs) ==
  [s EXCEPT !.scratch = Cut(@, cs.scratch), !.caps = Cut(@, cs.cap), !.tcaps = Cut(@, cs.tcap)]
CapLoadKeepTags(s, cs) == [s EXCEPT !.scratch = Cut(@, cs.scratch), !.caps = Cut(@, cs.cap)]

PushCap(P, s, v, tag) ==
  [s EXCEPT !.scratch = IF s.normal THEN @ ELSE @ \o ToBytes(v),
            !.caps = IF s.normal THEN Append(@, v) ELSE @,
            !.tcaps = IF P.hasref THEN Append(@, <<tag, v>>) ELSE @]

R(pos, s) == [pos |-> pos, s |-> s]
Bytes(P, from, to) == SubSeq(P.text, from + 1, to)

(* get_linecol_from_position: a line feed belongs to the line it ends.       *)
LineCol(P, pos) ==
  LET ends == {i \in 0 .. Len(P.text) - 1 : P.text[i + 1] = 10 /\ i < pos}
  IN IF ends = {} THEN <<1, pos + 1>>
     ELSE <<Cardinality(ends) + 1, pos - (CHOOSE i \in ends : \A j \in ends : j <= i)>>

RECURSIVE Unpack(_, _)
Unpack(words, len) ==
  IF len <= 0 THEN <<>>
  ELSE Cut(<<words[1] % 256, (words[1] \div 256) % 256, (words[1] \div 65536) % 256, words[1] \div 16777216>>,
           IF len < 4 THEN len ELSE 4) \o Unpack(Tail(words), len - 4)

StartsAt(P, s, pos, b) == pos + Len(b) <= s.end /\ Bytes(P, pos, pos + Len(b)) = b

(* The rules without parts that look at the text.                            *)
MatchText(P, s, r, pos) ==
  LET w(i) == P.code[r + 1 + i]
      op == Ops[w(0) + 1]
      c == IF pos < s.end THEN P.text[pos + 1] ELSE 0
      b == Unpack(SubSeq(P.code, r + 3, Len(P.code)), w(1))
  IN CASE op = "LITERAL" -> IF StartsAt(P, s, pos, b) THEN pos + Len(b) ELSE Fail
       [] op = "NCHAR" -> IF pos + w(1) > s.end THEN Fail ELSE pos + w(1)
       [] op = "NOTNCHAR" -> IF pos + w(1) > s.end THEN pos ELSE Fail
       [] op = "RANGE" -> IF pos < s.end /\ c >= w(1) % 65536 /\ c <= w(1) \div 65536 THEN pos + 1 ELSE Fail
       [] op = "SET" -> IF pos < s.end /\ (w(1) \div 2 ^ c) % 2 = 1 THEN pos + 1 ELSE Fail
       [] op = "DEBUG" -> pos

(* Tagged captures, the latest first.                                        *)
Latest(tcaps, tag) ==
  LET is == {i \in DOMAIN tcaps : tcaps[i][1] = tag}
  IN IF is = {} THEN <<>> ELSE <<tcaps[CHOOSE i \in is : \A j \in is : j <= i][2]>>

(* RULE_READINT: width bytes, the most significant first or last, signed or  *)
(* not.                                                                      *)
ReadInt(b, mask) ==
  LET width == mask % 16
      byte(i) == IF mask \div 32 = 1 THEN b[i] ELSE b[width + 1 - i]
      value == FoldFunctionOnSet(+, 0, [i \in 1 .. width |-> byte(i) * 256 ^ (width - i)], 1 .. width)
  IN IF (mask \div 16) % 2 = 1 /\ width > 0 /\ value >= 128 * 256 ^ (width - 1) THEN value - 256 ^ width ELSE value

(* The rules without parts that capture.                                     *)
MatchValue(P, s, r, pos) ==
  LET w(i) == P.code[r + 1 + i]
      op == Ops[w(0) + 1]
      push(v, tag) == R(pos, PushCap(P, s, v, tag))
      found == Latest(s.tcaps, w(1))
      width == w(1) % 16
  IN CASE op = "GETTAG" -> IF found = <<>> THEN R(Fail, s) ELSE push(found[1], w(2))
       [] op = "POSITION" -> push(Num(pos), w(1))
       [] op = "LINE" -> push(Num(LineCol(P, pos)[1]), w(1))
       [] op = "COLUMN" -> push(Num(LineCol(P, pos)[2]), w(1))
       [] op = "ARGUMENT" -> push(IF w(1) >= Len(P.args) THEN Nil ELSE P.args[w(1) + 1], w(2))
       [] op = "CONSTANT" -> push(Call(P.constants[w(1) + 1], <<>>), w(2))
       [] op = "BACKMATCH" ->
            R(IF found # <<>> /\ found[1].t = "string" /\ StartsAt(P, s, pos, found[1].b)
              THEN pos + Len(found[1].b) ELSE Fail, s)
       [] op = "READINT" ->
            IF pos + width > s.end THEN R(Fail, s)
            ELSE R(pos + width, PushCap(P, s, Num(ReadInt(Bytes(P, pos, pos + width), w(1))), w(2)))

RECURSIVE Match(_, _, _, _)

(* RULE_CHOICE: the i-th alternative and those after it; RULE_SEQUENCE.      *)
RECURSIVE Choose(_, _, _, _, _), Follow(_, _, _, _)
Choose(P, s, cs, rules, pos) ==
  IF rules = <<>> THEN R(Fail, s)
  ELSE LET m == Match(P, s, rules[1], pos)
       IN IF m.pos # Fail \/ Len(rules) = 1 THEN m
          ELSE Choose(P, CapLoad(m.s, cs), cs, Tail(rules), pos)
Follow(P, s, rules, pos) ==
  IF rules = <<>> THEN R(pos, s)
  ELSE LET m == Match(P, s, rules[1], pos)
       IN IF m.pos < 0 THEN m ELSE Follow(P, m.s, Tail(rules), m.pos)

(* RULE_TO and RULE_THRU *)
RECURSIVE Seek(_, _, _, _, _)
Seek(P, s, r, pos, keep) ==
  IF pos > s.end THEN R(Fail, s)
  ELSE LET m == Match(P, s, r, pos)
       IN CASE m.pos = Fail -> Seek(P, CapLoad(m.s, Heights(s)), r, pos + 1, keep)
            [] m.pos = Panic -> m
            [] m.pos >= 0 -> IF keep THEN m ELSE R(pos, CapLoad(m.s, Heights(s)))

(* RULE_BETWEEN: how often, and where it ended.                              *)
RECURSIVE Repeat(_, _, _, _, _, _)
Repeat(P, s, r, pos, n, hi) ==
  IF n = hi THEN [n |-> n, pos |-> pos, s |-> s]
  ELSE LET m == Match(P, s, r, pos)
       IN IF m.pos = Panic THEN [n |-> n, pos |-> Panic, s |-> m.s]
          ELSE IF m.pos = Fail \/ (m.pos = pos /\ hi = Unlimited) THEN [n |-> n, pos |-> pos, s |-> CapLoad(m.s, Heights(s))]
          ELSE Repeat(P, m.s, r, m.pos, n + 1, hi)

MatchBranch(P, s, r, pos) ==
  LET w(i) == P.code[r + 1 + i]
      op == Ops[w(0) + 1]
      cs == Heights(s)
      rules == [i \in 1 .. w(1) |-> w(i + 1)]
      m == Match(P, s, w(1), pos)
      seek == Seek(P, s, w(1), pos, op = "THRU")
      rep == Repeat(P, s, w(3), pos, 0, w(2))
      look == Match(P, s, w(2), pos + w(1))
  IN CASE op = "LOOK" ->
            IF pos + w(1) < 0 \/ pos + w(1) > s.end THEN R(Fail, s)
            ELSE IF look.pos < 0 THEN look ELSE R(pos, look.s)
       [] op = "CHOICE" -> Choose(P, s, cs, rules, pos)
       [] op = "SEQUENCE" -> Follow(P, s, rules, pos)
       [] op = "IF" -> IF m.pos < 0 THEN m ELSE Match(P, m.s, w(2), pos)
       [] op = "IFNOT" -> IF m.pos = Panic THEN m ELSE IF m.pos >= 0 THEN R(Fail, m.s)
                          ELSE Match(P, CapLoad(m.s, cs), w(2), pos)
       [] op = "NOT" -> IF m.pos = Panic THEN m ELSE IF m.pos >= 0 THEN R(Fail, m.s)
                        ELSE R(pos, CapLoad(m.s, cs))
       [] op \in {"TO", "THRU"} -> IF seek.pos = Fail THEN R(Fail, CapLoad(seek.s, cs)) ELSE seek
       [] op = "BETWEEN" -> IF rep.pos = Panic THEN R(Panic, rep.s)
                            ELSE IF rep.n < w(1) THEN R(Fail, CapLoad(rep.s, cs)) ELSE R(rep.pos, rep.s)

(* A part matched while captures go to the stack (normal) or to the text of  *)
(* an accumulate.                                                            *)
Under(P, s, r, pos, normal) ==
  LET m == Match(P, [s EXCEPT !.normal = normal], r, pos) IN R(m.pos, [m.s EXCEPT !.normal = s.normal])

MatchedText(P, s, from, to, v, tag) ==
  IF ~P.hasref /\ ~s.normal THEN [s EXCEPT !.scratch = @ \o Bytes(P, from, to)]
  ELSE PushCap(P, s, v, tag)

MatchCapture(P, s, r, pos) ==
  LET w(i) == P.code[r + 1 + i]
      op == Ops[w(0) + 1]
      cs == Heights(s)
      m == Match(P, s, w(1), pos)
      acc == Under(P, s, w(1), pos, FALSE)
      grp == Under(P, s, w(1), pos, TRUE)
      nth == Under(P, s, w(2), pos, TRUE)
      own(t) == SubSeq(t.caps, cs.cap + 1, Len(t.caps))
      text == Bytes(P, pos, m.pos)
      drops(i) == i > cs.tcap /\ (w(2) = 0 \/ m.s.tcaps[i][1] = w(2))
      kept == SelectSeq([i \in DOMAIN m.s.tcaps |-> <<i, m.s.tcaps[i]>>], LAMBDA x : ~drops(x[1]))
      made(x, v, tag) == IF x.pos < 0 THEN x ELSE R(x.pos, PushCap(P, CapLoadKeepTags(x.s, cs), v, tag))
  IN CASE op = "CAPTURE" ->
            IF m.pos < 0 THEN m ELSE R(m.pos, MatchedText(P, m.s, pos, m.pos, Str(text), w(2)))
       [] op = "CAPTURE_NUM" ->      \* one digit is a number
            IF m.pos < 0 THEN m
            ELSE IF Len(text) # 1 \/ text[1] \notin 1 .. 9 THEN R(Fail, m.s)
            ELSE R(m.pos, MatchedText(P, m.s, pos, m.pos, Num(text[1]), w(3)))
       [] op = "ACCUMULATE" ->
            IF w(2) = 0 /\ ~s.normal THEN Match(P, s, w(1), pos)
            ELSE made(acc, Str(SubSeq(acc.s.scratch, cs.scratch + 1, Len(acc.s.scratch))), w(2))
       [] op = "DROP" -> IF m.pos < 0 THEN m ELSE R(m.pos, CapLoad(m.s, cs))
       [] op = "ONLY_TAGS" -> IF m.pos < 0 THEN m ELSE R(m.pos, CapLoadKeepTags(m.s, cs))
       [] op = "GROUP" -> made(grp, Val("array", <<>>, own(grp.s)), w(2))
       [] op = "NTH" -> IF nth.pos >= 0 /\ Len(own(nth.s)) <= w(1) THEN R(Fail, nth.s)
                        ELSE made(nth, own(nth.s)[w(1) + 1], w(3))
       [] op = "UNREF" ->
            IF m.pos < 0 THEN m ELSE R(m.pos, [m.s EXCEPT !.tcaps = [i \in DOMAIN kept |-> kept[i][2]]])
       [] op = "ERROR" -> IF grp.pos < 0 THEN grp ELSE R(Panic, grp.s)

(* RULE_REPLACE, RULE_MATCHTIME and RULE_MATCHSPLICE *)
MatchCall(P, s, r, pos) ==
  LET w(i) == P.code[r + 1 + i]
      op == Ops[w(0) + 1]
      cs == Heights(s)
      m == Under(P, s, w(1), pos, TRUE)
      v == Call(P.constants[w(2) + 1], SubSeq(m.s.caps, cs.cap + 1, Len(m.s.caps)))
      t == CapLoadKeepTags(m.s, cs)
  IN IF m.pos < 0 THEN m
     ELSE IF op # "REPLACE" /\ v = Nil THEN R(Fail, t)
     ELSE R(m.pos, FoldLeft(LAMBDA acc, x : PushCap(P, acc, x, w(3)), t,
                            IF op = "MATCHSPLICE" /\ v.t = "tuple" THEN v.items ELSE <<v>>))

(* A part matched with an earlier end of the text.                           *)
Within(P, s, r, pos, end) ==
  LET m == Match(P, [s EXCEPT !.end = end], r, pos) IN R(m.pos, [m.s EXCEPT !.end = s.end])

(* The first place at or after pos where a rule matches, without captures:   *)
(* where it starts (text_end + 1 when nowhere) and ends.                     *)
RECURSIVE Find(_, _, _, _)
Find(P, s, r, pos) ==
  IF pos > s.end THEN [at |-> pos, pos |-> Fail, s |-> s]
  ELSE LET m == Match(P, s, r, pos)
           t == CapLoad(m.s, Heights(s))
       IN IF m.pos # Fail THEN [at |-> pos, pos |-> m.pos, s |-> t] ELSE Find(P, t, r, pos + 1)

(* RULE_SPLIT from a chunk on.                                               *)
RECURSIVE Split(_, _, _, _, _)
Split(P, s, separator, r, pos) ==
  IF pos > s.end THEN R(s.end, s)
  ELSE LET sep == Find(P, s, separator, pos)
           chunk == Within(P, sep.s, r, pos, IF sep.pos = Fail THEN s.end ELSE sep.at)
           next == IF sep.pos = Fail THEN s.end + 1 ELSE sep.pos
       IN CASE sep.pos = Panic \/ chunk.pos = Panic -> R(Panic, s)
            [] OTHER -> IF chunk.pos = Fail \/ next = pos THEN R(Fail, chunk.s)
                        ELSE Split(P, chunk.s, separator, r, next)

MatchWindow(P, s, r, pos) ==
  LET w(i) == P.code[r + 1 + i]
      op == Ops[w(0) + 1]
      m == Match(P, s, w(1), pos)
      sub == Within(P, m.s, w(2), pos, m.pos)
      term == Find(P, s, w(1), pos)
      til == Within(P, term.s, w(2), pos, term.at)
  IN CASE op = "SUB" -> IF m.pos < 0 THEN m ELSE IF sub.pos < 0 THEN sub ELSE R(m.pos, sub.s)
       [] op = "TIL" -> IF term.pos < 0 THEN R(term.pos, term.s) ELSE IF til.pos < 0 THEN til ELSE R(term.pos, til.s)
       [] op = "SPLIT" -> Split(P, s, w(1), w(2), pos)

(* RULE_LENPREFIX: when the first part fails, what it found stays, and so    *)
(* does the way it captures.                                                 *)
MatchCounted(P, s, r, pos) ==
  LET w(i) == P.code[r + 1 + i]
      cs == Heights(s)
      m == Match(P, [s EXCEPT !.normal = TRUE], w(1), pos)
      t == CapLoad([m.s EXCEPT !.normal = s.normal], cs)
      n == m.s.caps[cs.cap + 1]
      rest == Follow(P, t, [i \in 1 .. n.b[1] |-> w(2)], m.pos)
  IN IF m.pos < 0 THEN m
     ELSE IF Len(m.s.caps) <= cs.cap \/ ~IsInt(n) THEN R(Fail, t)
     ELSE IF rest.pos = Fail THEN R(Fail, CapLoad(rest.s, cs)) ELSE rest

(* peg_rule *)
Match(P, s, r, pos) ==
  LET op == Ops[P.code[r + 1] + 1]
  IN CASE op \in {"LITERAL", "NCHAR", "NOTNCHAR", "RANGE", "SET", "DEBUG"} -> R(MatchText(P, s, r, pos), s)
       [] op \in {"GETTAG", "POSITION", "LINE", "COLUMN", "ARGUMENT", "CONSTANT", "BACKMATCH", "READINT"} ->
            MatchValue(P, s, r, pos)
       [] op \in {"LOOK", "CHOICE", "SEQUENCE", "IF", "IFNOT", "NOT", "TO", "THRU", "BETWEEN"} ->
            MatchBranch(P, s, r, pos)
       [] op \in {"REPLACE", "MATCHTIME", "MATCHSPLICE"} -> MatchCall(P, s, r, pos)
       [] op \in {"SUB", "TIL", "SPLIT"} -> MatchWindow(P, s, r, pos)
       [] op = "LENPREFIX" -> MatchCounted(P, s, r, pos)
       [] OTHER -> MatchCapture(P, s, r, pos)
=============================================================================
