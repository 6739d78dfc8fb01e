--------------------------- MODULE ThreadExecutor ---------------------------
(***************************************************************************)
(* ThreadExecutor (Sources/Janet/ThreadExecutor.swift): a SerialExecutor   *)
(* that runs every job on one OS thread.  Its SharedState is a job queue   *)
(* and a stop flag behind one NSCondition; the thread drains the queue in  *)
(* batches and leaves when it finds the queue empty and the flag set.      *)
(*                                                                         *)
(* The flag is set by the executor's own deinit, so the model keeps the    *)
(* strong references to the executor: those of the holders outside (the    *)
(* actor, a test), one per queued job, and those of the batch the thread   *)
(* has taken, which live until the end of the thread's for loop.  The last *)
(* of them to go, on whichever thread that happens, runs deinit, and       *)
(* between that moment and stop() taking the lock other threads may run.   *)
(*                                                                         *)
(* A critical section of the NSCondition is one action.  A waiter may also *)
(* wake without a signal, as the POSIX condition underneath allows.        *)
(***************************************************************************)
EXTENDS Sequences, Functions

CONSTANTS Job,     \* the jobs that are ever enqueued, each at most once
          Holder,  \* who may hold a strong reference to the executor
          Hook,    \* the closures that may be passed to onThreadExit
          NoJob,   \* "no job is running"
          NoHook   \* onExit = nil

ASSUME NoJobAssumption == NoJob \notin Job
ASSUME NoHookAssumption == NoHook \notin Hook

VARIABLES
    \* SharedState
    jobs,       \* the queue; every entry retains the executor
    stopped,    \* set by ThreadExecutor.deinit
    onExit,     \* the closure to run right before the thread exits
    signalled,  \* the waiting thread has been signalled
    \* the thread in run()
    pc,         \* where in run() it is
    batch,      \* jobs of the batch it has taken and not yet begun
    job,        \* the job it is running, or NoJob
    exitHook,   \* run()'s local onExit, read in the critical section that exits
    \* the executor object
    holders,    \* the holders that refer to it now
    deiniting,  \* a client has dropped the last reference and is in deinit
    \* what has happened so far
    submitted, finished

shared == <<jobs, stopped, onExit, signalled>>
thread == <<pc, batch, job, exitHook>>
object == <<holders, deiniting>>
history == <<submitted, finished>>
vars == <<shared, thread, object, history>>

(***************************************************************************)
(* The thread starts before run() records it as the queue's owner          *)
(* ("start"); at "loop" it is about to lock and test the queue; "wait" is  *)
(* inside condition.wait(); "batch" and "job" are the for loop over the    *)
(* batch; at "stop" it runs deinit because the batch held the last         *)
(* reference; at "exit" it has decided to leave.                           *)
(***************************************************************************)
PC == {"start", "loop", "wait", "batch", "job", "stop", "exit", "done"}

Init == /\ jobs = <<>>
        /\ stopped = FALSE
        /\ onExit = NoHook
        /\ signalled = FALSE
        /\ pc = "start"
        /\ batch = <<>>
        /\ job = NoJob
        /\ exitHook = NoHook
        /\ \E h \in Holder : holders = {h}
        /\ deiniting = FALSE
        /\ submitted = {}
        /\ finished = {}

-----------------------------------------------------------------------------
\* isCurrentThread, asked on the executor's thread: nil until run() has begun.
ThreadIsKnown == pc # "start"

\* condition.signal() wakes the thread if it is waiting and is lost otherwise.
Signal_Lost == UNCHANGED signalled
Signal == signalled' = (signalled \/ pc = "wait")

\* Is any strong reference to the executor left, given the holders hs, the
\* queue js and whether the thread still has its batch?
Retained_NotByBatch(hs, js, hasBatch) == hs # {} \/ js # <<>>
Retained(hs, js, hasBatch) == hs # {} \/ js # <<>> \/ hasBatch

HasBatch == pc \in {"batch", "job"}

\* Where enqueue puts a job.
Enqueued_AtFront(js, j) == <<j>> \o js
Enqueued(js, j) == Append(js, j)

-----------------------------------------------------------------------------
(* What clients do with a reference. *)

\* enqueue(_:), called through a reference the caller holds for the call.
Enqueue(j) == /\ holders # {}
              /\ j \notin submitted
              /\ submitted' = submitted \cup {j}
              /\ jobs' = Enqueued(jobs, j)
              /\ Signal
              /\ UNCHANGED <<stopped, onExit, thread, object, finished>>

\* onThreadExit(_:), which writes the closure without taking the lock.
OnThreadExit(k) == /\ holders # {}
                   /\ onExit' = k
                   /\ UNCHANGED <<jobs, stopped, signalled, thread, object, history>>

Retain(h) == /\ holders # {}
             /\ h \notin holders
             /\ holders' = holders \cup {h}
             /\ UNCHANGED <<shared, thread, deiniting, history>>

\* The holder that drops the last reference of all enters deinit.
Release(h) == /\ h \in holders
              /\ holders' = holders \ {h}
              /\ deiniting' = ~Retained(holders', jobs, HasBatch)
              /\ UNCHANGED <<shared, thread, history>>

\* deinit -> SharedState.stop(), on the client that dropped the last reference.
ClientStop == /\ deiniting
              /\ deiniting' = FALSE
              /\ stopped' = TRUE
              /\ Signal
              /\ UNCHANGED <<jobs, onExit, thread, holders, history>>

-----------------------------------------------------------------------------
(* SharedState.run(), on the executor's thread. *)

\* The critical section that records pthread_self().
Start == /\ pc = "start"
         /\ pc' = "loop"
         /\ UNCHANGED <<shared, batch, job, exitHook, object, history>>

MustWait_IgnoringStop == jobs = <<>>
MustWait == jobs = <<>> /\ ~stopped

EnterWait == /\ pc = "loop"
             /\ MustWait
             /\ pc' = "wait"
             /\ signalled' = FALSE
             /\ UNCHANGED <<jobs, stopped, onExit, batch, job, exitHook, object, history>>

WakeSignalled == /\ pc = "wait"
                 /\ signalled
                 /\ pc' = "loop"
                 /\ signalled' = FALSE
                 /\ UNCHANGED <<jobs, stopped, onExit, batch, job, exitHook, object, history>>

WakeSpuriously == /\ pc = "wait"
                  /\ ~signalled
                  /\ pc' = "loop"
                  /\ UNCHANGED <<shared, batch, job, exitHook, object, history>>

\* The rest of the critical section once there is something to do: take the
\* whole queue, and leave if it was empty.
ShouldExit == jobs = <<>> /\ stopped

TakeBatch == /\ pc = "loop"
             /\ ~MustWait
             /\ ~ShouldExit
             /\ batch' = jobs
             /\ jobs' = <<>>
             /\ pc' = "batch"
             /\ UNCHANGED <<stopped, onExit, signalled, job, exitHook, object, history>>

HookAtExit_Swapped == NoHook
HookAtExit == onExit

LeaveLoop == /\ pc = "loop"
             /\ ~MustWait
             /\ ShouldExit
             /\ exitHook' = HookAtExit
             /\ pc' = "exit"
             /\ UNCHANGED <<shared, batch, job, object, history>>

\* job.runSynchronously(on:) for the next job of the batch.
BeginJob == /\ pc = "batch"
            /\ batch # <<>>
            /\ job' = Head(batch)
            /\ batch' = Tail(batch)
            /\ pc' = "job"
            /\ UNCHANGED <<shared, exitHook, object, history>>

JobAfterFinish == NoJob

FinishJob == /\ pc = "job"
             /\ finished' = finished \cup {job}
             /\ job' = JobAfterFinish
             /\ pc' = "batch"
             /\ UNCHANGED <<shared, batch, exitHook, object, submitted>>

\* The batch array dies at the end of the for loop, and with it perhaps the
\* last reference to the executor.  (Emptying the queue here and not when the
\* batch is taken would lose what was enqueued in between.)
ReleaseBatch_ClearingQueue ==
    /\ pc = "batch"
    /\ batch = <<>>
    /\ jobs' = <<>>
    /\ pc' = IF Retained(holders, <<>>, FALSE) THEN "loop" ELSE "stop"
    /\ UNCHANGED <<stopped, onExit, signalled, batch, job, exitHook, object, history>>
ReleaseBatch == /\ pc = "batch"
                /\ batch = <<>>
                /\ pc' = IF Retained(holders, jobs, FALSE) THEN "loop" ELSE "stop"
                /\ UNCHANGED <<shared, batch, job, exitHook, object, history>>

\* deinit -> SharedState.stop(), on the executor's own thread.
ThreadStop == /\ pc = "stop"
              /\ stopped' = TRUE
              /\ Signal
              /\ pc' = "loop"
              /\ UNCHANGED <<jobs, onExit, batch, job, exitHook, object, history>>

\* onExit?() and return.
Exit == /\ pc = "exit"
        /\ pc' = "done"
        /\ UNCHANGED <<shared, batch, job, exitHook, object, history>>

-----------------------------------------------------------------------------
ClientStep == \/ \E j \in Job : Enqueue(j)
              \/ \E k \in Hook : OnThreadExit(k)
              \/ \E h \in Holder : Retain(h) \/ Release(h)

RunThread == \/ Start \/ EnterWait \/ WakeSignalled \/ TakeBatch \/ LeaveLoop
             \/ BeginJob \/ FinishJob \/ ReleaseBatch \/ ThreadStop \/ Exit

\* The thread is gone and nothing refers to the executor: nothing more happens.
Gone == pc = "done" /\ UNCHANGED vars

Next == ClientStep \/ ClientStop \/ RunThread \/ WakeSpuriously \/ Gone

Safety == Init /\ [][Next]_vars

(***************************************************************************)
(* The operating system runs the thread, and whoever entered deinit gets   *)
(* out of it.  That FinishJob is part of RunThread assumes that every job  *)
(* returns.  Clients owe nothing, and no spurious wakeup is promised.      *)
(***************************************************************************)
Fairness == WF_vars(RunThread) /\ WF_vars(ClientStop)

Spec == Safety /\ Fairness

-----------------------------------------------------------------------------
(* Properties *)

\* Every variable has its type, and a job is running exactly inside the for
\* loop's call to runSynchronously.
TypeOK == /\ jobs \in Seq(Job)
          /\ stopped \in BOOLEAN
          /\ onExit \in Hook \cup {NoHook}
          /\ signalled \in BOOLEAN
          /\ pc \in PC
          /\ batch \in Seq(Job)
          /\ job \in Job \cup {NoJob}
          /\ exitHook \in Hook \cup {NoHook}
          /\ holders \in SUBSET Holder
          /\ deiniting \in BOOLEAN
          /\ submitted \in SUBSET Job
          /\ finished \in SUBSET Job
          /\ pc = "job" <=> job # NoJob

\* The executor reaches deinit only when nobody refers to it and no job is
\* queued, taken or running: the queue's references keep it alive through its
\* own jobs (the comment on SharedState), and a stopped queue stays empty.
DeinitIsLast == deiniting \/ stopped \/ pc = "stop"
                    => holders = {} /\ jobs = <<>> /\ batch = <<>> /\ job = NoJob

\* A thread parked in condition.wait() with work to do, or told to stop, has
\* been signalled: enqueue and stop never slip between the test and the wait.
NoLostWakeup == pc = "wait" /\ (jobs # <<>> \/ stopped) => signalled

\* Leaving the loop drops nothing: whatever was enqueued before has run.
NothingDropped == pc \in {"exit", "done"} => finished = submitted

\* onThreadExit writes the closure without the lock, yet the thread runs the
\* closure written last: no write can come after the critical section that
\* reads it.
ExitHookIsLatest == pc \in {"exit", "done"} => exitHook = onExit

\* Every job that was enqueued has finished, is running, or is still in the
\* batch or in the queue: none is lost on the way from one to the next.
NoJobLost == submitted = finished \cup Range(batch) \cup Range(jobs)
                            \cup ({job} \ {NoJob})

\* No job runs twice: what is in the batch or the queue is there once, and is
\* neither running nor done.
RunsOnce == LET waiting == batch \o jobs
            IN /\ \A i, k \in 1..Len(waiting) : waiting[i] = waiting[k] => i = k
               /\ \A i \in 1..Len(waiting) : waiting[i] \notin finished \cup {job}
               /\ job \notin finished

\* The inductive invariant behind the safety properties: what each place in
\* run() and each stage of the executor's end says about the others.
Stages == /\ ~(deiniting /\ stopped)
          /\ deiniting => ~HasBatch /\ pc # "stop"
          /\ stopped => ~HasBatch /\ pc # "stop"
          /\ batch # <<>> => HasBatch
          /\ pc \in {"exit", "done"} => stopped
IInv == /\ TypeOK
        /\ Stages
        /\ DeinitIsLast
        /\ NoLostWakeup
        /\ NoJobLost
        /\ ExitHookIsLatest

\* Every job handed to the executor runs to its end.
EveryJobRuns == \A j \in Job : j \in submitted ~> j \in finished

\* Once the last outside reference is gone the thread exits: it is not leaked.
ThreadExits == holders = {} ~> pc = "done"

\* Batches, the lock and the reference counts implement the simple promise.
Abstract == INSTANCE SerialExecutor
                WITH queue <- batch \o jobs,
                     running <- job,
                     phase <- IF pc = "done" THEN "exited"
                              ELSE IF stopped THEN "closed" ELSE "open"

ImplementsSerialExecutor == Abstract!Spec
ImplementsSafety == Abstract!Safety
=============================================================================
