------------------------------ MODULE MCBoundary ------------------------------
(***************************************************************************)
(* The three sides of the boundary between Swift and the VM: which thread  *)
(* may cross it, what becomes of the forms of an eval, and what becomes of *)
(* a value.  A behaviour is one of them.                                   *)
(***************************************************************************)
EXTENDS JanetVM, JanetEval

VARIABLES part,   \* "threads", "forms" or "values"
          side, val, trip, start

(* One and two composed and decomposed letters that Swift takes for the same *)
(* text, and two byte sequences that are not UTF-8 and are repaired alike.   *)
CanonicalText(a) == IF a = "decomposed" THEN "composed" ELSE a
DecodedText(a) == IF a \in {"broken1", "broken2"} THEN "replaced" ELSE a

Atom(kind, a) == [kind |-> kind, atom |-> a, kids |-> <<>>]
With(kind, kids) == [kind |-> kind, atom |-> "", kids |-> kids]
Null == Atom("nil", "")
One == Atom("number", "one")
Dictionaries == {"struct", "table"}

(* Swift values: dictionaries of two keys that Swift takes apart, and values *)
(* at the limit of the depth and beyond.                                     *)
Atoms == {Null, One, Atom("number", "nan"), Atom("string", "composed"), Atom("string", "decomposed")}
Flat == {With(c, <<>>) : c \in Dictionaries \cup {"tuple", "array"}} \cup {With("tuple", <<a>>) : a \in Atoms}
        \cup {With(c, <<a, x>>) : c \in Dictionaries, a \in Atoms, x \in {Null, One}}
Keys == Flat \cup {Null, One, Atom("string", "decomposed"), With("array", <<With("struct", <<One, Null>>)>>), With("array", <<With("struct", <<>>)>>)}
GivenTwo == {With(c, <<k, x, m, y>>) : c \in Dictionaries, k, m \in Keys, x, y \in {Null, Atom("string", "composed")}}

(* Janet values: dictionaries of two keys that Janet takes apart.            *)
Bytes == {One, Atom("string", "composed"), Atom("string", "decomposed"), Atom("string", "broken1"), Atom("string", "broken2"),
          Atom("function", "f"), Atom("function", "g")}
JanetKeys == Bytes \cup {With(c, <<a>>) : c \in {"array", "tuple"}, a \in Bytes} \cup {With("struct", <<a, One>>) : a \in Bytes}
FoundTwo == {With(c, <<k, x, m, y>>) : c \in Dictionaries, k, m \in JanetKeys, x, y \in {One, Atom("string", "broken1")}}

InDepth(values) == values \cup {With("tuple", <<v>>) : v \in values} \cup {With("array", <<With("table", <<One, v>>)>>) : v \in values}

NoValues == {}
Compare == INSTANCE ValueRoundTrip WITH Given <- NoValues, Found <- NoValues, MaxNest <- 2,
                                        Letters <- CanonicalText, Repaired <- DecodedText
GivenValues == Atoms \cup InDepth(Flat) \cup {v \in GivenTwo : ~Compare!SwiftEqual(v.kids[1], v.kids[3])}
FoundValues == {Null} \cup Bytes \cup InDepth(JanetKeys) \cup {v \in FoundTwo : ~Compare!JanetEqual(v.kids[1], v.kids[3])}
Trip == INSTANCE ValueRoundTrip WITH Given <- GivenValues, Found <- FoundValues, MaxNest <- 2,
                                     Letters <- CanonicalText, Repaired <- DecodedText

valvars == <<side, val, trip, start>>

InitAny ==
  /\ Init /\ InitEval
  /\ \/ part \in {"threads", "forms"} /\ side = "none" /\ val = Null /\ trip = 0 /\ start = Null
     \/ part = "values" /\ Trip!InitTrip
NextAny ==
  /\ \/ part = "threads" /\ Next /\ UNCHANGED <<evars, valvars>>
     \/ part = "forms" /\ NextEval /\ UNCHANGED <<vars, valvars>>
     \/ part = "values" /\ Trip!NextTrip /\ UNCHANGED <<vars, evars>>
  /\ UNCHANGED part
SpecAny == InitAny /\ [][NextAny]_<<part, vars, evars, valvars>>

-----------------------------------------------------------------------------
(* What define accepts eval gives back, and the other way round.             *)
RoundTrips == part = "values" => Trip!RoundTrips
=============================================================================
