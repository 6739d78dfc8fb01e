------------------------------ MODULE JanetEval ------------------------------
(***************************************************************************)
(* JanetVM.eval down to janet_dobytes: the forms of a text are compiled    *)
(* and run one after the other, each on a fiber of its own, until one      *)
(* fails.  A form that waits for the event loop does not hold up the next; *)
(* the outermost eval then runs the loop until nothing is left to wait     *)
(* for.  A C function may call eval again: that call's forms run inside    *)
(* the fiber that called it (janet_vm.stackn > 0) and it runs no loop.     *)
(*                                                                         *)
(* What a wait registers is janet_vm.root_fiber, the fiber at the bottom   *)
(* of the C stack.  Timers keep the loop going; a channel does so only for *)
(* a fiber that the loop itself has seen suspend.                          *)
(***************************************************************************)
EXTENDS Naturals, Sequences, SequencesExt

CONSTANTS MaxBirths,   \* bound: forms, in all evals
          MaxEvals,    \* bound: evals
          MaxNesting   \* bound: evals inside each other

VARIABLES frames,   \* calls of janet_dobytes: [forms, errs, ret, inLoop, nested]
          run,      \* fibers on the C stack, the root fiber first
          state,    \* of each form's fiber: "running", "waiting", "dead"
          last,     \* JanetFiber.last_value, by what it is
          level,    \* history: how deep in evals it was started
          how,      \* history: "ok", "failed", "failed in loop" or "going on"
          waits,    \* [fiber, for]: registered with the event loop
          tasks,    \* fibers in the spawn queue, whose task is live
          counted,  \* fibers that count in listener_count
          gone,     \* fibers the collector has freed
          evals, answer

evars == <<frames, run, state, last, level, how, waits, tasks, counted, gone, evals, answer>>

Nil == [of |-> 0, is |-> "nil"]
Message == [of |-> 0, is |-> "message"]
NoAnswer == [forms |-> <<>>, errs |-> {}, ret |-> Nil, inLoop |-> FALSE, nested |-> FALSE]

InitEval ==
  /\ frames = <<>> /\ run = <<>> /\ state = <<>> /\ last = <<>> /\ level = <<>> /\ how = <<>>
  /\ waits = {} /\ tasks = {} /\ counted = {} /\ gone = {} /\ evals = 0 /\ answer = NoAnswer

Top == Last(frames)
InC == frames # <<>> /\ Len(run) = Len(frames) - 1
InJanet == frames # <<>> /\ Len(run) = Len(frames)
Reading == InC /\ ~Top.inLoop
Looping == InC /\ Top.inLoop
WithTop(f) == [frames EXCEPT ![Len(frames)] = f]
LastForm(f) == Last(f.forms)

\* Swift calls eval, or a C function that a form has called does.
Begin ==
  /\ (frames = <<>> \/ InJanet) /\ evals < MaxEvals /\ Len(frames) < MaxNesting
  /\ frames' = Append(frames, [NoAnswer EXCEPT !.nested = frames # <<>>])
  /\ evals' = evals + 1
  /\ UNCHANGED <<run, state, last, level, how, waits, tasks, counted, gone, answer>>

\* Clean up: the outermost call goes on into janet_loop, another returns.
Leave(f) ==
  IF f.nested THEN frames' = Front(frames) /\ answer' = f
  ELSE frames' = WithTop([f EXCEPT !.inLoop = TRUE]) /\ UNCHANGED answer

\* The parser delivers a form and it compiles.
StartForm ==
  /\ Reading /\ Len(state) < MaxBirths
  /\ LET f == Len(state) + 1
     IN /\ state' = Append(state, "running") /\ last' = Append(last, "nil") /\ how' = Append(how, "going on")
        /\ level' = Append(level, Len(frames)) /\ run' = Append(run, f)
        /\ frames' = WithTop([Top EXCEPT !.forms = Append(@, f)])
  /\ UNCHANGED <<waits, tasks, counted, gone, evals, answer>>

EndOfText ==
  /\ Reading /\ Leave(Top)
  /\ UNCHANGED <<run, state, last, level, how, waits, tasks, counted, gone, evals>>

\* A form that does not compile, or a text that does not parse.
BadForm(phase) ==
  /\ Reading /\ Leave([Top EXCEPT !.errs = @ \cup {phase}, !.ret = Message])
  /\ UNCHANGED <<run, state, last, level, how, waits, tasks, counted, gone, evals>>

-----------------------------------------------------------------------------
(* The fiber that runs, as a form or as a task of the loop.                  *)
Current == Last(run)
Root == run[1]
RunByLoop == Len(run) = 1 /\ frames[1].inLoop

Failed(f) == Leave([f EXCEPT !.errs = @ \cup {"runtime"}])

\* It returns or raises an error (a yield, which counts as one, is not told apart).
Ends(is) ==
  /\ InJanet
  /\ state' = [state EXCEPT ![Current] = "dead"] /\ last' = [last EXCEPT ![Current] = is]
  /\ how' = [how EXCEPT ![Current] = IF is = "value" THEN "ok" ELSE IF RunByLoop THEN "failed in loop" ELSE "failed"]
  /\ run' = Front(run)
  /\ LET done == [Top EXCEPT !.ret = [of |-> Current, is |-> is]]
     IN \/ RunByLoop /\ UNCHANGED <<frames, answer>>
        \/ ~RunByLoop /\ is = "value" /\ frames' = WithTop(done) /\ UNCHANGED answer
        \/ ~RunByLoop /\ is = "error" /\ Failed(done)
  /\ UNCHANGED <<level, waits, tasks, counted, gone, evals>>

\* It waits: janet_await leaves it with JANET_SIGNAL_EVENT.
Suspends(for) ==
  /\ InJanet
  /\ waits' = waits \cup {[fiber |-> Root, for |-> for]}
  /\ state' = [state EXCEPT ![Current] = "waiting"] /\ last' = [last EXCEPT ![Current] = "nil"]
  /\ run' = Front(run)
  /\ IF RunByLoop THEN counted' = counted \cup {Current} /\ UNCHANGED frames
     ELSE frames' = WithTop([Top EXCEPT !.ret = Nil]) /\ UNCHANGED counted
  /\ UNCHANGED <<level, how, tasks, gone, evals, answer>>

\* janet_schedule: a task for the fiber; what else it had registered is stale.
Schedule(f) == tasks' = tasks \cup {f} /\ waits' = {w \in waits : w.fiber # f}

\* It gives to a channel on which a fiber waits.
Gives(w) ==
  /\ InJanet /\ w.for = "channel" /\ Schedule(w.fiber)
  /\ UNCHANGED <<frames, run, state, last, level, how, counted, gone, evals, answer>>

\* Mutant: the last form's fiber is not rooted while the loop runs.
Rooted_Never == {}

\* janet_gcroot of the last form's fiber.
Rooted == IF frames[1].inLoop /\ frames[1].forms # <<>> THEN {LastForm(frames[1])} ELSE {}

\* A collection keeps the fibers on the C stack, those with a task or a wait,
\* and the roots.  The message of an error is none of these.
Collect ==
  /\ InJanet
  /\ gone' = {f \in DOMAIN state : ~ \/ f \in Rooted \cup tasks \cup counted \/ Contains(run, f)
                                     \/ \E w \in waits : w.fiber = f}
  /\ frames' = [frames EXCEPT ![1].ret = IF @ = Message THEN [@ EXCEPT !.is = "freed message"] ELSE @]
  /\ UNCHANGED <<run, state, last, level, how, waits, tasks, counted, evals, answer>>

-----------------------------------------------------------------------------
(* The loop of the outermost eval.                                           *)
TimerFires(w) ==
  /\ Looping /\ w.for = "timer" /\ Schedule(w.fiber)
  /\ UNCHANGED <<frames, run, state, last, level, how, counted, gone, evals, answer>>

\* A task for a fiber that has ended meanwhile does nothing but print an error.
RunTask(f) ==
  /\ Looping /\ tasks' = tasks \ {f} /\ counted' = counted \ {f}
  /\ IF state[f] = "waiting"
     THEN run' = <<f>> /\ state' = [state EXCEPT ![f] = "running"] /\ last' = [last EXCEPT ![f] = "nil"]
     ELSE UNCHANGED <<run, state, last>>
  /\ UNCHANGED <<frames, level, how, waits, gone, evals, answer>>

Value(f) == IF f.errs = {} /\ f.forms # <<>> THEN [of |-> LastForm(f), is |-> last[LastForm(f)]] ELSE f.ret

LoopDone ==
  /\ Looping /\ tasks = {} /\ counted = {} /\ \A w \in waits : w.for # "timer"
  /\ answer' = [Top EXCEPT !.ret = Value(Top)]
  /\ frames' = <<>>
  /\ UNCHANGED <<run, state, last, level, how, waits, tasks, counted, gone, evals>>

NextEval ==
  \/ Begin \/ StartForm \/ EndOfText \/ Collect \/ LoopDone
  \/ \E phase \in {"parse", "compile"} : BadForm(phase)
  \/ \E is \in {"value", "error"} : Ends(is)
  \/ \E for \in {"timer", "channel"} : Suspends(for)
  \/ \E w \in waits : Gives(w) \/ TimerFires(w)
  \/ \E f \in tasks : RunTask(f)

-----------------------------------------------------------------------------
\* JanetError.Phase.init(dostringFlags:)
Phase(errs) == IF "parse" \in errs THEN "parse" ELSE IF "compile" \in errs THEN "compile" ELSE "runtime"
Throws == answer.errs # {}
Outermost == answer # NoAnswer /\ ~answer.nested

(* Forms run in order and none after one that failed; what is thrown is the  *)
(* failure of that one form, in its phase.                                   *)
StopsAtFirstFailure ==
  \A f \in Range(frames) \cup {answer} :
    /\ \A i \in 1 .. Len(f.forms) - 1 : how[f.forms[i]] # "failed" /\ f.forms[i] < f.forms[i + 1]
    /\ f.errs # {} => f.errs = {Phase(f.errs)}
    /\ "runtime" \in f.errs <=> f.forms # <<>> /\ how[LastForm(f)] = "failed"
    /\ "runtime" \in f.errs => f.ret = [of |-> LastForm(f), is |-> "error"]

(* An eval answers with what its own last form has come to in the loop,      *)
(* whichever other forms, of earlier evals too, the loop has run.            *)
AnswersWithLastForm ==
  Outermost /\ ~Throws /\ answer.forms # <<>> /\ frames = <<>> =>
    /\ answer.ret.of = LastForm(answer)
    /\ answer.ret.is = "value" <=> how[LastForm(answer)] = "ok"
    /\ answer.ret.is = "error" <=> how[LastForm(answer)] = "failed in loop"

(* When the outermost eval returns, no task is left; a form it has started   *)
(* itself that still waits does so for a channel, where a later eval can     *)
(* find it; and the fiber whose value it reads has not been freed.           *)
NothingIsLeft ==
  frames = <<>> =>
    /\ tasks = {} /\ counted = {}
    /\ \A f \in DOMAIN state : state[f] = "waiting" /\ level[f] = 1 => [fiber |-> f, for |-> "channel"] \in waits
    /\ ~Outermost \/ Throws \/ answer.forms = <<>> \/ LastForm(answer) \notin gone

(* JanetVM.eval: forms run in order up to the first that fails; the answer   *)
(* is of the last one, after the loop, with nothing left that it could run.  *)
EvalReports == StopsAtFirstFailure /\ AnswersWithLastForm /\ NothingIsLeft

(* "Janet prints error diagnostics to stderr before eval throws", and        *)
(* JanetError is a "failure while parsing, compiling, or running code": an   *)
(* eval that returns has had no form fail.                                   *)
ErrorsAreThrown == Outermost /\ ~Throws => \A i \in DOMAIN answer.forms : how[answer.forms[i]] # "failed in loop"
=============================================================================
