--------------------------- MODULE SerialExecutor ---------------------------
(***************************************************************************)
(* What Swift's concurrency runtime is promised by a serial executor that  *)
(* owns a thread: the jobs handed to it run one at a time, in the order    *)
(* they were handed in, each exactly once; the executor closes only when   *)
(* nobody outside refers to it any more and no job is queued or running;   *)
(* and only then does the thread go away.  There is no lock, no condition  *)
(* variable and no reference count here: ThreadExecutor has those, and is  *)
(* shown to implement this module.                                         *)
(***************************************************************************)
EXTENDS Sequences

CONSTANTS Job,     \* the jobs that are ever enqueued, each at most once
          Holder,  \* who may hold a strong reference to the executor
          NoJob    \* "no job is running"

VARIABLES holders,    \* the holders that refer to the executor now
          submitted,  \* every job enqueued so far
          finished,   \* every job that has run to its end
          queue,      \* jobs waiting to run, oldest first
          running,    \* the job that is running, or NoJob
          phase       \* "open" -> "closed" -> "exited"

vars == <<holders, submitted, finished, queue, running, phase>>

Init == /\ \E h \in Holder : holders = {h}
        /\ submitted = {}
        /\ finished = {}
        /\ queue = <<>>
        /\ running = NoJob
        /\ phase = "open"

Submit(j) == /\ holders # {}
             /\ j \notin submitted
             /\ submitted' = submitted \cup {j}
             /\ queue' = Append(queue, j)
             /\ UNCHANGED <<holders, finished, running, phase>>

Begin == /\ running = NoJob
         /\ queue # <<>>
         /\ running' = Head(queue)
         /\ queue' = Tail(queue)
         /\ UNCHANGED <<holders, submitted, finished, phase>>

Finish == /\ running # NoJob
          /\ finished' = finished \cup {running}
          /\ running' = NoJob
          /\ UNCHANGED <<holders, submitted, queue, phase>>

\* A reference is copied by somebody who has one.
Retain(h) == /\ holders # {}
             /\ h \notin holders
             /\ holders' = holders \cup {h}
             /\ UNCHANGED <<submitted, finished, queue, running, phase>>

Release(h) == /\ h \in holders
              /\ holders' = holders \ {h}
              /\ UNCHANGED <<submitted, finished, queue, running, phase>>

Close == /\ phase = "open"
         /\ holders = {}
         /\ queue = <<>>
         /\ running = NoJob
         /\ phase' = "closed"
         /\ UNCHANGED <<holders, submitted, finished, queue, running>>

Exit == /\ phase = "closed"
        /\ phase' = "exited"
        /\ UNCHANGED <<holders, submitted, finished, queue, running>>

Next == \/ \E j \in Job : Submit(j)
        \/ \E h \in Holder : Retain(h) \/ Release(h)
        \/ Begin \/ Finish \/ Close \/ Exit

Safety == Init /\ [][Next]_vars

\* Submitting, retaining and releasing are up to the clients; the rest is the
\* executor's own duty.
Fairness == WF_vars(Begin) /\ WF_vars(Finish) /\ WF_vars(Close) /\ WF_vars(Exit)

Spec == Safety /\ Fairness
=============================================================================
