-------------------------------- MODULE MCText --------------------------------
(***************************************************************************)
(* The parser and the PEG machine.  A behaviour is one of four: the parser *)
(* fed with any bytes of forms, or of strings and comments, with calls     *)
(* between them; the parser fed with the text of known values, in several  *)
(* layouts; or the machine at work on a text.                              *)
(***************************************************************************)
EXTENDS Parser

CONSTANTS MaxForms, MaxStrings    \* bounds: bytes in a text

VARIABLES part, value, rest,
          peg, subject, prog, machine, place, trail, ret, done

PF == INSTANCE PegForms
Pegs == INSTANCE Peg WITH Cases <- PF!Cases, Args <- PF!Arguments, text <- subject, s <- machine, i <- place

FormBytes == {"(", ")", "}", "@", "{", "'", "a", " "}
StringBytes == {"\"", "tick", "\\", "x", "1", "#", "\n", "\r"}
Number == Value("number", <<"1">>, <<>>, Nowhere)

(* The text of a value: units, between which a layout may put blanks.        *)
RECURSIVE Units(_)
Between(items) == FoldLeft(LAMBDA u, v : u \o (IF u = <<>> THEN <<>> ELSE <<<<" ">>>>) \o Units(v), <<>>, items)
Units(v) ==
  CASE v.kind \in {"number", "symbol"} -> <<v.bytes>>
    [] v.kind = "keyword" -> <<<<":">> \o v.bytes>>
    [] v.kind = "string" -> <<<<"\"">> \o v.bytes \o <<"\"">>>>
    [] v.kind = "buffer" -> <<<<"@", "tick", "tick">> \o v.bytes \o <<"tick", "tick">>>>
    [] v.kind = "quoted" -> <<<<CHOOSE c \in DOMAIN ReaderMacros : ReaderMacros[c] = v.bytes[1]>>>> \o Units(v.items[1])
    [] v.kind = "tuple" -> <<<<"(">>>> \o Between(v.items) \o <<<<")">>>>
    [] v.kind = "btuple" -> <<<<"[">>>> \o Between(v.items) \o <<<<"]">>>>
    [] v.kind = "array" -> <<<<"@", "[">>>> \o Between(v.items) \o <<<<"]">>>>
    [] v.kind = "struct" -> <<<<"{">>>> \o Between(v.items) \o <<<<"}">>>>
    [] v.kind = "table" -> <<<<"@", "{">>>> \o Between(v.items) \o <<<<"}">>>>

V(kind, bytes, items) == Value(kind, bytes, items, Nowhere)
Atoms == {V("symbol", <<"a">>, <<>>), V("symbol", <<"@">>, <<>>), V("number", <<"1", "1">>, <<>>), V("keyword", <<>>, <<>>),
          V("string", <<" ", "#">>, <<>>), V("buffer", <<"a", "tick", "a">>, <<>>)}
Kinds == {"tuple", "btuple", "array"}
Small == Atoms \cup {V(k, <<>>, <<a>>) : k \in Kinds, a \in Atoms} \cup {V("quoted", <<"quote">>, <<a>>) : a \in Atoms}
Written ==
  Small \cup {V(k, <<>>, <<x, y>>) : k \in {"tuple", "table"}, x \in {V("symbol", <<"@">>, <<>>), V("buffer", <<"a", "tick", "a">>, <<>>)}, y \in Small}
        \cup {V("quoted", <<"unquote">>, <<x>>) : x \in Small} \cup {V(k, <<>>, <<>>) : k \in Kinds \cup {"struct", "table"}}
Comment1 == <<"#", ")", "\n">>
Gaps == {<<>>, <<" ">>, Comment1}

(* The text is fixed at the start and then read to its end.                  *)
InitText ==
  /\ value \in Written
  /\ \E before \in {<<>>, Comment1}, after \in {<<>>, <<" ">>}, gap \in Gaps, at \in {1, 2} :
       LET u == Units(value)
       IN rest = before \o FlattenSeq([i \in DOMAIN u |-> IF i > 1 /\ i - 1 = at THEN gap \o u[i] ELSE u[i]]) \o after
NextText ==
  \/ rest # <<>> /\ Consume(Head(rest)) /\ rest' = Tail(rest) /\ UNCHANGED value
  \/ rest = <<>> /\ Eof /\ UNCHANGED <<value, rest>>
  \/ Produce /\ UNCHANGED <<value, rest>>

(* Any bytes; numbers are inserted where a program may insert values, outside *)
(* of comments.                                                              *)
NextBytes(bytes, max) ==
  \/ Len(text) < max /\ \E c \in bytes : Consume(c)
  \/ Eof \/ Produce \/ TakeError
  \/ Len(text) < max /\ text # <<>> /\ Flush
InsertNumber ==
  /\ Len(text) \in 1 .. MaxStrings - 1
  /\ TopOf(p).what \in {"top", "token", "string", "long"}
  /\ p.states[1].argn + Len(p.args) + Len(out) < 2 /\ Len(p.buf) < 2
  /\ Insert(Number)

pegvars == <<peg, subject, prog, machine, place, trail, ret, done>>
NoPeg == peg = 0 /\ subject = <<>> /\ prog = 0 /\ machine = 0 /\ place = 0 /\ trail = 0 /\ ret = <<>> /\ done = TRUE
InitAny ==
  /\ Init
  /\ \/ part = "text" /\ InitText /\ NoPeg
     \/ part \in {"forms", "strings"} /\ value = 0 /\ rest = <<>> /\ NoPeg
     \/ part = "peg" /\ value = 0 /\ rest = <<>> /\ Pegs!Init
NextAny ==
  \/ part = "text" /\ NextText /\ UNCHANGED <<part, pegvars>>
  \/ part = "forms" /\ NextBytes(FormBytes, MaxForms) /\ UNCHANGED <<part, value, rest, pegvars>>
  \/ part = "strings" /\ (NextBytes(StringBytes, MaxStrings) \/ InsertNumber) /\ UNCHANGED <<part, value, rest, pegvars>>
  \/ part = "peg" /\ Pegs!Next /\ UNCHANGED <<part, vars, value, rest>>
SpecAny == InitAny /\ [][NextAny]_<<part, vars, value, rest, pegvars>>

-----------------------------------------------------------------------------
(* However the parser is fed, called and flushed, its queue, its open forms  *)
(* and its buffer stay apart, and it knows the line it is on.                *)
ParserSound ==
  part # "peg" => /\ QueueThenForms /\ StackHoldsForms /\ BufferIsOfTheTop
                  /\ (part = "strings" => LinesCounted)

RECURSIVE Bare(_)
Bare(v) == [v EXCEPT !.at = Nowhere, !.items = [i \in DOMAIN v.items |-> Bare(v.items[i])]]

(* The position a tuple carries is where its form opens.                     *)
PosAt(i) == <<1 + Cardinality({k \in LineEnds(text) : k < i}),
              i - (IF \E k \in LineEnds(text) : k < i
                   THEN CHOOSE k \in LineEnds(text) : k < i /\ \A m \in LineEnds(text) : m < i => m <= k ELSE 0)>>
RECURSIVE AllIn(_)
AllIn(v) == {v} \cup UNION {AllIn(v.items[i]) : i \in DOMAIN v.items}
Opener(v) == Head(Units(v)[1])
PositionsPointAtForms ==
  \A i \in DOMAIN out : \A v \in AllIn(out[i]) :
    v.kind \in {"tuple", "btuple", "quoted"} => \E k \in DOMAIN text : PosAt(k) = v.at /\ text[k] = Opener(v)

(* A value's text is read back as the value, in every layout, with the       *)
(* positions of its forms.                                                   *)
ReadsWhatWasWritten ==
  part = "text" =>
    /\ PositionsPointAtForms
    /\ p.dead => p.error = "" /\ (p.pending = 0 => [i \in DOMAIN out |-> Bare(out[i])] = <<value>>)

(* peg/replace-all replaces what the form means, from one place to the next  *)
(* with the same machine, and the grammar could be unmarshalled.             *)
PegsMean ==
  part = "peg" => /\ Pegs!MatchesMeaning /\ Pegs!ReplacesEachMatch /\ Pegs!ModeIsReloaded /\ Pegs!UnmarshalAccepts
=============================================================================
