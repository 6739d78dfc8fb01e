-------------------------------- MODULE Parser --------------------------------
(***************************************************************************)
(* The parser of Janet source ("parse.c"): a push-down machine that takes  *)
(* one byte at a time.  Its state survives between chunks of input, values *)
(* are taken out of its queue at any moment, and after an error it is      *)
(* flushed and goes on.                                                    *)
(*                                                                         *)
(* A byte is a one-character string; the back tick is "tick".  Numbers     *)
(* other than runs of digits, the names nil, true and false, UTF-8 checks  *)
(* and CR in long strings are left out.                                    *)
(***************************************************************************)
EXTENDS Integers, Sequences, FiniteSets, SequencesExt, TLC

CONSTANTS Letters, Digits      \* symbol characters

VARIABLES p,      \* JanetParser
          text,   \* history: the bytes consumed
          out     \* history: the values produced

vars == <<p, text, out>>

Blanks == {" ", "\n", "\r", "\t"}
SymbolChars == Letters \cup Digits \cup {":", "@", "\\" }
Openers == [c \in {"(", "[", "{"} |-> CASE c = "(" -> "paren" [] c = "[" -> "square" [] c = "{" -> "curly"]
Closers == [c \in {")", "]", "}"} |-> CASE c = ")" -> "paren" [] c = "]" -> "square" [] c = "}" -> "curly"]
ReaderMacros == [c \in {"'", ",", ";", "~", "|"} |->
  CASE c = "'" -> "quote" [] c = "," -> "unquote" [] c = ";" -> "splice"
    [] c = "~" -> "quasiquote" [] c = "|" -> "short-fn"]
Containers == {"top", "paren", "square", "curly"}

(* A value: what it is, its bytes or its elements, and, for a tuple, where   *)
(* its form began.                                                           *)
Value(kind, bytes, items, at) == [kind |-> kind, bytes |-> bytes, items |-> items, at |-> at]
Nowhere == <<0, 0>>

(* pushstate: consumer, what kind of thing it reads, and where it began.     *)
State(q, consumer, what, at) ==
  [consumer |-> consumer, what |-> what, at |-> at, buffer |-> FALSE,
   argn |-> 0, counter |-> 0, pos |-> <<q.line, q.column>>]
Push(q, s) == [q EXCEPT !.states = Append(@, s)]
Open(q, consumer, what) == Push(q, State(q, consumer, what, FALSE))
OpenAt(q, consumer, what) == Push(q, State(q, consumer, what, TRUE))
TopOf(q) == Last(q.states)
Dropped(q) == [q EXCEPT !.states = Front(@)]
SetTop(q, s) == [q EXCEPT !.states = Append(Front(@), s)]
Add(q, bytes) == [q EXCEPT !.buf = @ \o bytes]
Fails(q, why) == [q EXCEPT !.error = why]

FormAt(q, v, s) == [v EXCEPT !.at = s.pos]

(* popstate: the value goes to the container below, through the reader       *)
(* macros between; at the top it is wrapped and joins the queue.             *)
RECURSIVE Pop(_, _)
Pop(q, v) ==
  LET s == TopOf(q)
      r == Dropped(q)
      new == TopOf(r)
      x == IF v.kind \in {"tuple", "btuple", "quoted"} THEN FormAt(q, v, s) ELSE v
  IN IF new.what \in Containers
     THEN LET top == Len(r.states) = 1
          IN [r EXCEPT !.states = Append(Front(@), [new EXCEPT !.argn = @ + 1]),
                       !.pending = IF top THEN @ + 1 ELSE @,
                       !.args = Append(@, IF top THEN Value("wrapped", <<>>, <<x>>, s.pos) ELSE x)]
     ELSE Pop(r, Value("quoted", <<new.what>>, <<x>>, new.pos))

(* stringend: a long string loses the indentation of its opening column and  *)
(* one line end at each side.                                                *)
Lines(b) == LET ends == {i \in DOMAIN b : b[i] = "\n"}
                from(i) == IF i = 1 THEN 1 ELSE (CHOOSE e \in ends : Cardinality({d \in ends : d < e}) = i - 2) + 1
                to(i) == IF i > Cardinality(ends) THEN Len(b)
                         ELSE (CHOOSE e \in ends : Cardinality({d \in ends : d < e}) = i - 1) - 1
            IN [i \in 1 .. Cardinality(ends) + 1 |-> SubSeq(b, from(i), to(i))]
Joined(ls) == Tail(FoldLeft(LAMBDA b, l : b \o <<"\n">> \o l, <<>>, ls))
Indented(l, n) == \A i \in 1 .. (IF Len(l) < n THEN Len(l) ELSE n) : l[i] = " "
Dedented(b, n) ==
  LET ls == Lines(b)
      cut(l) == SubSeq(l, n + 1, Len(l))
  IN IF \A i \in 2 .. Len(ls) : Indented(ls[i], n)
     THEN Joined([i \in DOMAIN ls |-> IF i = 1 THEN ls[1] ELSE cut(ls[i])]) ELSE b
Trimmed(b) ==
  LET c == IF b # <<>> /\ b[1] = "\n" THEN Tail(b) ELSE b
  IN IF c # <<>> /\ Last(c) = "\n" THEN Front(c) ELSE c
StringEnd(q) ==
  LET s == TopOf(q)
      b == IF s.what = "long" THEN Trimmed(Dedented(q.buf, s.pos[2] - 1)) ELSE q.buf
  IN Pop([q EXCEPT !.buf = <<>>], Value(IF s.buffer THEN "buffer" ELSE "string", b, <<>>, Nowhere))

(* tokenchar, when the token has ended *)
TokenEnd(q) ==
  LET b == q.buf
      v(kind, bytes) == Pop([q EXCEPT !.buf = <<>>], Value(kind, bytes, <<>>, Nowhere))
  IN CASE b[1] = ":" -> v("keyword", Tail(b))
       [] ToSet(b) \subseteq Digits -> v("number", b)
       [] b[1] \in Digits /\ ~(ToSet(b) \subseteq Digits) -> Fails(q, "symbol starts with a digit")
       [] OTHER -> v("symbol", b)

(* close_tuple, close_array, close_struct, close_table: the last argn        *)
(* arguments become the elements.                                            *)
Close(q) ==
  LET s == TopOf(q)
      n == Len(q.args) - s.argn
      kind == CASE s.what = "curly" -> IF s.at THEN "table" ELSE "struct"
                [] s.at -> "array"
                [] OTHER -> IF s.what = "square" THEN "btuple" ELSE "tuple"
  IN Pop([q EXCEPT !.args = SubSeq(@, 1, n)],
         Value(kind, <<>>, SubSeq(q.args, n + 1, Len(q.args)), Nowhere))

(* One call of the state's consumer: the new parser, and whether the byte    *)
(* was taken or must be offered again.                                       *)
Taken(q) == [q |-> q, consumed |-> TRUE]
Again(q) == [q |-> q, consumed |-> FALSE]

Root(q, c) ==
  LET s == TopOf(q)
  IN CASE c \in Blanks -> Taken(q)
       [] c \in SymbolChars \ {"@"} -> Again(Open(q, "token", "token"))
       [] c \in DOMAIN ReaderMacros -> Taken(Open(q, "root", ReaderMacros[c]))
       [] c = "\"" -> Taken(Open(q, "string", "string"))
       [] c = "#" -> Taken(Open(q, "comment", "comment"))
       [] c = "@" -> Taken(Open(q, "at", "at"))
       [] c = "tick" -> Taken(Open(q, "long start", "long"))
       [] c \in DOMAIN Openers -> Taken(Open(q, "root", Openers[c]))
       [] c \in DOMAIN Closers ->
            Taken(IF Len(q.states) = 1 THEN Fails(q, "unexpected closing delimiter")
                  ELSE IF Closers[c] # s.what THEN Fails(q, "mismatched delimiter")
                  ELSE IF c = "}" /\ s.argn % 2 = 1 THEN Fails(q, "odd number of arguments")
                  ELSE Close(q))
       [] OTHER -> Taken(Fails(q, "unexpected character"))

\* Mutant: the state of the at sign stays below what it begins.
AtDone_Kept(q) == q

AtDone(q) == Dropped(q)

AtSign(q, c) ==
  LET r == AtDone(q)
      str(consumer, what) == Push(r, [State(r, consumer, what, FALSE) EXCEPT !.buffer = TRUE])
  IN CASE c \in DOMAIN Openers -> Taken(OpenAt(r, "root", Openers[c]))
       [] c = "\"" -> Taken(str("string", "string"))
       [] c = "tick" -> Taken(str("long start", "long"))
       [] OTHER -> Again(Add(Open(r, "token", "token"), <<"@">>))

Token(q, c) == IF c \in SymbolChars THEN Taken(Add(q, <<c>>)) ELSE Again(TokenEnd(q))

CommentEnd(q) == [Dropped(q) EXCEPT !.buf = <<>>]

Comment(q, c) == Taken(IF c = "\n" THEN CommentEnd(q) ELSE Add(q, <<c>>))

StringChar(q, c) ==
  CASE c = "\\" -> Taken(SetTop(q, [TopOf(q) EXCEPT !.consumer = "escape"]))
    [] c = "\"" -> Taken(StringEnd(q))
    [] OTHER -> Taken(IF c \in {"\n", "\r"} THEN q ELSE Add(q, <<c>>))

Escape(q, c) ==
  LET to(consumer, n) == SetTop(q, [TopOf(q) EXCEPT !.consumer = consumer, !.counter = n, !.argn = 0])
  IN CASE c \in {"\\", "\"", "n"} -> Taken(Add(to("string", 0), <<IF c = "n" THEN "\n" ELSE c>>))
       [] c = "x" -> Taken(to("hex", 2))
       [] c = "u" -> Taken(to("unicode", 4))
       [] OTHER -> Taken(Fails(q, "invalid escape"))

(* escapeh, escapeu: hex digits make up one character; of the digits only    *)
(* their number is told apart.                                               *)
HexDigit(q, c) ==
  LET s == [TopOf(q) EXCEPT !.counter = @ - 1]
  IN IF c \notin Digits THEN Taken(Fails(q, "invalid hex digit"))
     ELSE IF s.counter > 0 THEN Taken(SetTop(q, s))
     ELSE Taken(Add(SetTop(q, [s EXCEPT !.consumer = "string"]), <<s.consumer>>))

Ticks(n) == [i \in 1 .. n |-> "tick"]

\* Mutant: the ticks of a failed end are not given back to the string.
FailedEnd_Lost(s, c) == <<c>>

FailedEnd(s, c) == Append(Ticks(s.counter), c)

(* longstring: counting the opening ticks, within, and at a possible end.    *)
LongString(q, c) ==
  LET s == TopOf(q)
  IN CASE s.consumer = "long start" ->
            LET t == SetTop(q, [s EXCEPT !.argn = @ + 1, !.consumer = IF c = "tick" THEN @ ELSE "long"])
            IN Taken(IF c = "tick" THEN t ELSE Add(t, <<c>>))
       [] s.consumer = "long" ->
            Taken(IF c = "tick" THEN SetTop(q, [s EXCEPT !.consumer = "long end", !.counter = 1]) ELSE Add(q, <<c>>))
       [] s.consumer = "long end" /\ s.counter = s.argn -> Again(StringEnd(q))
       [] s.consumer = "long end" /\ s.counter # s.argn ->
            Taken(IF c = "tick" THEN SetTop(q, [s EXCEPT !.counter = @ + 1])
                  ELSE Add(SetTop(q, [s EXCEPT !.consumer = "long", !.counter = 0]), FailedEnd(s, c)))

Dispatch(q, c) ==
  LET k == TopOf(q).consumer
  IN CASE k = "root" -> Root(q, c)
       [] k = "at" -> AtSign(q, c)
       [] k = "token" -> Token(q, c)
       [] k = "comment" -> Comment(q, c)
       [] k = "string" -> StringChar(q, c)
       [] k = "escape" -> Escape(q, c)
       [] k \in {"hex", "unicode"} -> HexDigit(q, c)
       [] OTHER -> LongString(q, c)

RECURSIVE Offer(_, _)
Offer(q, c) ==
  LET r == Dispatch(q, c)
  IN IF r.consumed \/ r.q.error # "" THEN r.q ELSE Offer(r.q, c)

Moved(q, c) ==
  CASE c = "\r" -> [q EXCEPT !.line = @ + 1, !.column = 0]
    [] c = "\n" -> [q EXCEPT !.line = IF q.lookback = "\r" THEN @ ELSE @ + 1, !.column = 0]
    [] OTHER -> [q EXCEPT !.column = @ + 1]

(* janet_parser_consume *)
Consumed(q, c) == [Offer(Moved(q, c), c) EXCEPT !.lookback = c]

Top0 == [consumer |-> "root", what |-> "top", at |-> FALSE, buffer |-> FALSE,
         argn |-> 0, counter |-> 0, pos |-> <<1, 0>>]

(* janet_parser_init *)
New == [states |-> <<Top0>>, args |-> <<>>, buf |-> <<>>, pending |-> 0,
        line |-> 1, column |-> 0, lookback |-> "", error |-> "", dead |-> FALSE]

(* janet_parser_eof: as a line end, but for the position.                    *)
Ended(q) ==
  LET r == Consumed(q, "\n")
  IN [r EXCEPT !.line = q.line, !.column = q.column, !.dead = TRUE,
               !.error = IF Len(r.states) > 1 THEN "unexpected end of source" ELSE @]

(* janet_parser_flush *)
Flushed(q) == [q EXCEPT !.args = <<>>, !.states = SubSeq(@, 1, 1), !.buf = <<>>, !.pending = 0]

(* janet_parser_produce: the arguments of open forms move down with the rest.*)
Shifted(q) == [q EXCEPT !.args = Tail(@), !.pending = @ - 1, !.states[1].argn = @ - 1]

(* cfun_parse_insert *)
Inserted(q, v) ==
  LET r == IF TopOf(q).consumer = "token" THEN [Consumed(q, " ") EXCEPT !.column = @ - 1] ELSE q
      n == Len(r.states)
      i == IF TopOf(r).what = "comment" THEN n - 1 ELSE n
      s == r.states[i]
  IN IF s.what \in Containers
     THEN [r EXCEPT !.states[i].argn = @ + 1,
                    !.pending = IF n = 1 THEN @ + 1 ELSE @,
                    !.args = Append(@, IF n = 1 THEN Value("wrapped", <<>>, <<v>>, Nowhere) ELSE v)]
     ELSE IF s.what \in {"string", "long"} THEN Add(r, v.bytes)
     ELSE r  \* an error is raised, the state is as it was

Alive == ~p.dead /\ p.error = ""

Init == p = New /\ text = <<>> /\ out = <<>>

Consume(c) ==
  /\ Alive
  /\ p' = Consumed(p, c) /\ text' = Append(text, c) /\ UNCHANGED out

Eof == Alive /\ p' = Ended(p) /\ UNCHANGED <<text, out>>

Produce ==
  /\ p.pending > 0
  /\ out' = Append(out, p.args[1].items[1]) /\ p' = Shifted(p) /\ UNCHANGED text

(* janet_parser_error *)
TakeError ==
  /\ p.error # ""
  /\ p' = Flushed([p EXCEPT !.error = ""]) /\ UNCHANGED <<text, out>>

Flush == p' = Flushed(p) /\ UNCHANGED <<text, out>>

Insert(v) == Alive /\ p' = Inserted(p, v) /\ UNCHANGED <<text, out>>

-----------------------------------------------------------------------------
Forms == {i \in DOMAIN p.states : p.states[i].what \in Containers}
ArgsOf(from) == FoldFunctionOnSet(LAMBDA x, y : x + y, 0, [i \in DOMAIN p.states |-> p.states[i].argn],
                                  {i \in Forms : i > from})

(* The arguments are the queue followed by the elements of the open forms,   *)
(* whatever was produced, flushed or failed between; the queue's are wrapped.*)
QueueThenForms ==
  /\ Len(p.args) = p.pending + ArgsOf(1)
  /\ \A i \in DOMAIN p.args : i <= p.pending <=> p.args[i].kind = "wrapped"

(* A value that ends is handed to the state below it: only containers and    *)
(* reader macros have a state above them.                                    *)
Macros == {ReaderMacros[c] : c \in DOMAIN ReaderMacros}
StackHoldsForms ==
  p.states # <<>> /\ \A i \in 1 .. Len(p.states) - 1 : p.states[i].what \in Containers \cup Macros

(* Bytes are collected for the innermost state only.                         *)
BufferIsOfTheTop ==
  p.error = "" /\ p.buf # <<>> => TopOf(p).what \in {"token", "string", "long", "comment"}

(* Lines are counted alike for LF, CR and CR LF.                             *)
LineEnds(t) == {i \in DOMAIN t : t[i] = "\r" \/ (t[i] = "\n" /\ (i = 1 \/ t[i - 1] # "\r"))}
LinesCounted == p.line = 1 + Cardinality(LineEnds(text))
=============================================================================
