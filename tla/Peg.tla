---------------------------------- MODULE Peg ----------------------------------
(***************************************************************************)
(* Grammars at work ("peg.c"): peg/replace-all compiles a form and goes    *)
(* through a text, matching at one place after the other with the same     *)
(* machine, which is only partly reset between.                            *)
(***************************************************************************)
EXTENDS PegMeaning

CONSTANTS Cases,     \* pairs: forms, and the texts they are matched with
          Args       \* arguments of the calls

VARIABLES peg, text,
          prog,      \* the compiled form, with the text and the arguments
          s,         \* PegState
          i, trail,  \* where it is, and the end of the last match
          ret,       \* the new text
          done

vars == <<peg, text, prog, s, i, trail, ret, done>>

(* peg_call_reset *)
Reset(t) == [t EXCEPT !.caps = <<>>, !.tcaps = <<>>, !.scratch = <<>>]

(* peg_cfun_init *)
Init ==
  /\ \E c \in DOMAIN Cases : peg \in Cases[c][1] /\ text \in Cases[c][2]
  /\ LET b == Compiled(peg).b
     IN prog = [code |-> b.code, constants |-> b.constants, hasref |-> b.hasref, error |-> b.error,
                text |-> text, args |-> Args]
  /\ s = State0(text) /\ i = 0 /\ trail = 0 /\ ret = <<>> /\ done = FALSE

(* The substitution is a function that shows the captures.                   *)
Subst(caps) == <<99>> \o Joined(caps)
Piece(from, to) == SubSeq(text, from + 1, to)

After(to) == IF to = i THEN i + 1 ELSE to

(* One round of cfun_peg_replace_generic.                                    *)
Try ==
  /\ ~done /\ i < Len(text)
  /\ LET m == Match(prog, Reset(s), 0, i)
     IN /\ s' = m.s
        /\ IF m.pos >= 0
           THEN /\ ret' = ret \o Piece(trail, i) \o Subst(m.s.caps)
                /\ trail' = m.pos /\ i' = After(m.pos)
           ELSE i' = i + 1 /\ UNCHANGED <<ret, trail>>
  /\ UNCHANGED <<peg, text, prog, done>>

Finish ==
  /\ ~done /\ i >= Len(text)
  /\ ret' = ret \o Piece(trail, Len(text)) /\ done' = TRUE
  /\ UNCHANGED <<peg, text, prog, s, i, trail>>

Next == Try \/ Finish

Spec == Init /\ [][Next]_vars

-----------------------------------------------------------------------------
TypeOK ==
  /\ prog.error = "" /\ trail \in 0 .. Len(text) /\ i \in 0 .. Len(text) + 1
  /\ s.end = Len(text)

(* What the machine finds and captures is what the form means: captures of   *)
(* parts that failed, looked ahead or were dropped have left no trace, in    *)
(* any nesting and at every place of the text.                               *)
X == [text |-> text, args |-> Args]
MatchesMeaning ==
  i <= Len(text) =>
    LET m == Match(prog, Reset(s), 0, i)
        a == Means(X, <<<<>>>>, peg, i, Len(text), <<>>)
    IN m.pos = a.pos /\ (a.pos # Fail => m.s.caps = a.caps)

(* "Allow backtrack with captures. We need to save state at branches, and    *)
(* then reload if one branch fails": also how captures are made.             *)
ModeIsReloaded == s.normal

(* Every match is replaced and the rest of the text is kept.                 *)
RECURSIVE Replaced(_, _)
Replaced(from, at) ==
  IF at >= Len(text) THEN Piece(from, Len(text))
  ELSE LET a == Means(X, <<<<>>>>, peg, at, Len(text), <<>>)
       IN IF a.pos = Fail THEN Replaced(from, at + 1)
          ELSE Piece(from, at) \o Subst(a.caps) \o Replaced(a.pos, IF a.pos = at THEN at + 1 ELSE a.pos)
ReplacesEachMatch == done => ret = Replaced(0, 0)

(* A grammar that was marshalled is accepted again.                          *)
UnmarshalAccepts == Verified(prog.code)
=============================================================================
