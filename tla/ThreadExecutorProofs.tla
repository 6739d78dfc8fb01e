------------------------ MODULE ThreadExecutorProofs ------------------------
(***************************************************************************)
(* The safety properties of ThreadExecutor hold for every set of jobs,     *)
(* holders and hooks, and its safety part implements that of               *)
(* SerialExecutor.  Both rest on the inductive invariant IInv.             *)
(***************************************************************************)
EXTENDS ThreadExecutor, SequenceTheorems, TLAPS

(***************************************************************************)
(* How the set of jobs in a queue changes when one is appended at the end  *)
(* or taken from the front, and what that does to a batch followed by the  *)
(* queue.                                                                  *)
(***************************************************************************)
LEMMA RangeOfAppend ==
    ASSUME NEW S, NEW s \in Seq(S), NEW e \in S
    PROVE  Range(Append(s, e)) = Range(s) \cup {e}
<1>1. <<e>> \in Seq(S) /\ Range(<<e>>) = {e}
  BY DEF Range
<1>2. Append(s, e) = s \o <<e>>
  BY AppendIsConcat
<1>3. Range(s \o <<e>>) = Range(s) \cup Range(<<e>>)
  BY <1>1, RangeConcatenation, Zenon
<1> QED BY <1>1, <1>2, <1>3, Zenon

LEMMA HeadThenTail ==
    ASSUME NEW S, NEW s \in Seq(S), s # <<>>
    PROVE  /\ Head(s) \in S
           /\ Tail(s) \in Seq(S)
           /\ s = <<Head(s)>> \o Tail(s)
<1>1. Head(s) \in S /\ Tail(s) \in Seq(S) /\ <<Head(s)>> \in Seq(S)
  BY HeadTailProperties
<1>2. <<Head(s)>> \o Tail(s) \in Seq(S) /\ Len(<<Head(s)>> \o Tail(s)) = Len(s)
  BY <1>1, HeadTailProperties, ConcatProperties, LenProperties
<1>3. ASSUME NEW i \in 1..Len(s)
      PROVE  s[i] = (<<Head(s)>> \o Tail(s))[i]
  BY <1>1, HeadTailProperties, ConcatProperties, LenProperties
<1>4. s = <<Head(s)>> \o Tail(s)
  BY <1>2, <1>3, SeqEqual
<1> QED BY <1>1, <1>4

LEMMA RangeOfHeadAndTail ==
    ASSUME NEW S, NEW s \in Seq(S), s # <<>>
    PROVE  Range(s) = {Head(s)} \cup Range(Tail(s))
<1> DEFINE h == <<Head(s)>>
           t == Tail(s)
<1>1. h \in Seq(S) /\ Range(h) = {Head(s)}
  BY HeadThenTail DEF Range
<1>2. s = h \o t /\ t \in Seq(S)
  BY HeadThenTail
<1>3. Range(h \o t) = Range(h) \cup Range(t)
  <2>1. \A u, v \in Seq(S) : Range(u \o v) = Range(u) \cup Range(v)
    BY RangeConcatenation, Zenon
  <2> HIDE DEF h, t
  <2> QED BY <1>1, <1>2, <2>1, Zenon
<1> HIDE DEF h, t
<1>4. Range(s) = {Head(s)} \cup Range(t)
  BY <1>1, <1>2, <1>3, Zenon
<1> QED BY <1>4 DEF t

LEMMA RangeOfEmpty == Range(<<>>) = {}
BY DEF Range

LEMMA HeadOfConcat ==
    ASSUME NEW S, NEW s \in Seq(S), NEW t \in Seq(S), s # <<>>
    PROVE  /\ s \o t # <<>>
           /\ Head(s \o t) = Head(s)
           /\ Tail(s \o t) = Tail(s) \o t
<1>1. s \o t \in Seq(S) /\ Len(s) > 0 /\ Len(s \o t) = Len(s) + Len(t)
  BY ConcatProperties, EmptySeq, LenProperties
<1>2. s \o t # <<>>
  BY <1>1, LenProperties, EmptySeq
<1>3. Head(s \o t) = Head(s)
  BY <1>1, <1>2, ConcatProperties, LenProperties
<1>4. Tail(s \o t) \in Seq(S) /\ Tail(s) \o t \in Seq(S)
  BY <1>1, <1>2, HeadTailProperties, ConcatProperties
<1>5. Len(Tail(s \o t)) = Len(Tail(s) \o t)
  BY <1>1, <1>2, HeadTailProperties, ConcatProperties, LenProperties
<1>6. ASSUME NEW i \in 1..Len(Tail(s \o t))
      PROVE  Tail(s \o t)[i] = (Tail(s) \o t)[i]
  <2>1. Len(Tail(s)) = Len(s) - 1 /\ Tail(s) \in Seq(S) /\ Len(s) \in Nat /\ Len(t) \in Nat
    BY HeadTailProperties, LenProperties
  <2>2. i \in 1..(Len(s) + Len(t) - 1)
    BY <1>1, <1>2, HeadTailProperties
  <2>3. Tail(s \o t)[i] = (s \o t)[i + 1]
    BY <1>1, <1>2, HeadTailProperties
  <2>4. (s \o t)[i + 1] = IF i + 1 <= Len(s) THEN s[i + 1] ELSE t[(i + 1) - Len(s)]
    BY <2>1, <2>2, ConcatProperties
  <2>5. (Tail(s) \o t)[i] = IF i <= Len(Tail(s)) THEN Tail(s)[i] ELSE t[i - Len(Tail(s))]
    BY <2>1, <2>2, ConcatProperties
  <2>6. i <= Len(s) - 1 => Tail(s)[i] = s[i + 1]
    BY <2>1, <2>2, HeadTailProperties
  <2> QED BY <2>1, <2>2, <2>3, <2>4, <2>5, <2>6
<1>7. Tail(s \o t) = Tail(s) \o t
  BY <1>4, <1>5, <1>6, SeqEqual
<1> QED BY <1>2, <1>3, <1>7

-----------------------------------------------------------------------------
(***************************************************************************)
(* The inductive invariant.  The steps that move jobs (Enqueue, TakeBatch, *)
(* BeginJob, FinishJob) are the ones that NoJobLost is about; the steps    *)
(* that drop a reference (Release, ReleaseBatch) and those that call       *)
(* stop() (ClientStop, ThreadStop) are the ones DeinitIsLast is about.     *)
(***************************************************************************)
Control == Stages /\ DeinitIsLast /\ NoLostWakeup /\ ExitHookIsLatest

LEMMA IInvInit == Init => IInv
<1> SUFFICES ASSUME Init PROVE IInv
  OBVIOUS
<1>1. TypeOK
  <2>1. <<>> \in Seq(Job) /\ holders \in SUBSET Holder
    BY DEF Init
  <2> QED BY <2>1 DEF Init, TypeOK, PC
<1>2. Stages /\ DeinitIsLast /\ NoLostWakeup /\ ExitHookIsLatest
  BY DEF Init, Stages, DeinitIsLast, NoLostWakeup, ExitHookIsLatest, HasBatch
<1>3. NoJobLost
  BY RangeOfEmpty DEF Init, NoJobLost
<1> QED BY <1>1, <1>2, <1>3 DEF IInv

LEMMA IInvNext == IInv /\ [Next]_vars => IInv'
<1> SUFFICES ASSUME IInv, [Next]_vars PROVE IInv'
  OBVIOUS
<1> USE NoJobAssumption, NoHookAssumption DEF IInv
<1> USE DEF shared, thread, object, history, HasBatch
<1>1. ASSUME NEW j \in Job, Enqueue(j)
       PROVE  IInv'
  <2>1. TypeOK'
    BY <1>1 DEF TypeOK, PC, Enqueue, Enqueued, Signal
  <2>2. Control'
    BY <1>1 DEF Control, TypeOK, Stages, DeinitIsLast, NoLostWakeup, ExitHookIsLatest, Enqueue, Enqueued, Signal
  <2>3. NoJobLost'
    <3>1. Range(jobs') = Range(jobs) \cup {j}
      BY <1>1, RangeOfAppend DEF TypeOK, Enqueue, Enqueued
    <3> QED BY <1>1, <3>1 DEF NoJobLost, Enqueue
  <2> QED BY <2>1, <2>2, <2>3 DEF Control
<1>2. ASSUME NEW k \in Hook, OnThreadExit(k)
       PROVE  IInv'
  <2>1. TypeOK'
    BY <1>2 DEF TypeOK, PC, OnThreadExit
  <2>2. Control'
    BY <1>2 DEF Control, TypeOK, Stages, DeinitIsLast, NoLostWakeup, ExitHookIsLatest, OnThreadExit
  <2>3. NoJobLost'
    BY <1>2 DEF NoJobLost, OnThreadExit
  <2> QED BY <2>1, <2>2, <2>3 DEF Control
<1>3. ASSUME NEW h \in Holder, Retain(h)
       PROVE  IInv'
  <2>1. TypeOK'
    BY <1>3 DEF TypeOK, PC, Retain
  <2>2. Control'
    BY <1>3 DEF Control, TypeOK, Stages, DeinitIsLast, NoLostWakeup, ExitHookIsLatest, Retain
  <2>3. NoJobLost'
    BY <1>3 DEF NoJobLost, Retain
  <2> QED BY <2>1, <2>2, <2>3 DEF Control
<1>4. ASSUME NEW h \in Holder, Release(h)
       PROVE  IInv'
  <2>1. TypeOK'
    BY <1>4 DEF TypeOK, PC, Release, Retained
  <2>2. Control'
    BY <1>4 DEF Control, TypeOK, Stages, DeinitIsLast, NoLostWakeup, ExitHookIsLatest, Release, Retained
  <2>3. NoJobLost'
    BY <1>4 DEF NoJobLost, Release, Retained
  <2> QED BY <2>1, <2>2, <2>3 DEF Control
<1>5. CASE ClientStop
  <2>1. TypeOK'
    BY <1>5 DEF TypeOK, PC, ClientStop, Signal
  <2>2. Control'
    BY <1>5 DEF Control, TypeOK, Stages, DeinitIsLast, NoLostWakeup, ExitHookIsLatest, ClientStop, Signal
  <2>3. NoJobLost'
    BY <1>5 DEF NoJobLost, ClientStop, Signal
  <2> QED BY <2>1, <2>2, <2>3 DEF Control
<1>6. CASE Start
  <2>1. TypeOK'
    BY <1>6 DEF TypeOK, PC, Start
  <2>2. Control'
    BY <1>6 DEF Control, TypeOK, Stages, DeinitIsLast, NoLostWakeup, ExitHookIsLatest, Start
  <2>3. NoJobLost'
    BY <1>6 DEF NoJobLost, Start
  <2> QED BY <2>1, <2>2, <2>3 DEF Control
<1>7. CASE EnterWait
  <2>1. TypeOK'
    BY <1>7 DEF TypeOK, PC, EnterWait, MustWait
  <2>2. Control'
    BY <1>7 DEF Control, TypeOK, Stages, DeinitIsLast, NoLostWakeup, ExitHookIsLatest, EnterWait, MustWait
  <2>3. NoJobLost'
    BY <1>7 DEF NoJobLost, EnterWait, MustWait
  <2> QED BY <2>1, <2>2, <2>3 DEF Control
<1>8. CASE WakeSignalled
  <2>1. TypeOK'
    BY <1>8 DEF TypeOK, PC, WakeSignalled
  <2>2. Control'
    BY <1>8 DEF Control, TypeOK, Stages, DeinitIsLast, NoLostWakeup, ExitHookIsLatest, WakeSignalled
  <2>3. NoJobLost'
    BY <1>8 DEF NoJobLost, WakeSignalled
  <2> QED BY <2>1, <2>2, <2>3 DEF Control
<1>9. CASE WakeSpuriously
  <2>1. TypeOK'
    BY <1>9 DEF TypeOK, PC, WakeSpuriously
  <2>2. Control'
    BY <1>9 DEF Control, TypeOK, Stages, DeinitIsLast, NoLostWakeup, ExitHookIsLatest, WakeSpuriously
  <2>3. NoJobLost'
    BY <1>9 DEF NoJobLost, WakeSpuriously
  <2> QED BY <2>1, <2>2, <2>3 DEF Control
<1>10. CASE TakeBatch
  <2>1. TypeOK'
    BY <1>10 DEF TypeOK, PC, TakeBatch, MustWait, ShouldExit
  <2>2. Control'
    BY <1>10 DEF Control, TypeOK, Stages, DeinitIsLast, NoLostWakeup, ExitHookIsLatest, TakeBatch, MustWait, ShouldExit
  <2>3. NoJobLost'
    <3>1. Range(batch) = {} /\ Range(jobs') = {} /\ Range(batch') = Range(jobs)
      BY <1>10, RangeOfEmpty DEF Stages, TakeBatch
    <3> QED BY <1>10, <3>1 DEF NoJobLost, TakeBatch
  <2> QED BY <2>1, <2>2, <2>3 DEF Control
<1>11. CASE LeaveLoop
  <2>1. TypeOK'
    BY <1>11 DEF TypeOK, PC, LeaveLoop, MustWait, ShouldExit, HookAtExit
  <2>2. Control'
    BY <1>11 DEF Control, TypeOK, Stages, DeinitIsLast, NoLostWakeup, ExitHookIsLatest, LeaveLoop, MustWait, ShouldExit, HookAtExit
  <2>3. NoJobLost'
    BY <1>11 DEF NoJobLost, LeaveLoop, MustWait, ShouldExit, HookAtExit
  <2> QED BY <2>1, <2>2, <2>3 DEF Control
<1>12. CASE BeginJob
  <2>1. TypeOK'
    BY <1>12 DEF TypeOK, PC, BeginJob
  <2>2. Control'
    BY <1>12 DEF Control, TypeOK, Stages, DeinitIsLast, NoLostWakeup, ExitHookIsLatest, BeginJob
  <2>3. NoJobLost'
    <3>1. Range(batch) = {job'} \cup Range(batch') /\ job' \in Job
      BY <1>12, RangeOfHeadAndTail, HeadThenTail DEF TypeOK, BeginJob
    <3>2. job = NoJob
      BY <1>12 DEF TypeOK, BeginJob
    <3> QED BY <1>12, <3>1, <3>2 DEF NoJobLost, BeginJob
  <2> QED BY <2>1, <2>2, <2>3 DEF Control
<1>13. CASE FinishJob
  <2>1. TypeOK'
    BY <1>13 DEF TypeOK, PC, FinishJob, JobAfterFinish
  <2>2. Control'
    BY <1>13 DEF Control, TypeOK, Stages, DeinitIsLast, NoLostWakeup, ExitHookIsLatest, FinishJob, JobAfterFinish
  <2>3. NoJobLost'
    BY <1>13 DEF TypeOK, NoJobLost, FinishJob, JobAfterFinish
  <2> QED BY <2>1, <2>2, <2>3 DEF Control
<1>14. CASE ReleaseBatch
  <2>1. TypeOK'
    BY <1>14 DEF TypeOK, PC, ReleaseBatch, Retained
  <2>2. Control'
    BY <1>14 DEF Control, TypeOK, Stages, DeinitIsLast, NoLostWakeup, ExitHookIsLatest, ReleaseBatch, Retained
  <2>3. NoJobLost'
    BY <1>14 DEF NoJobLost, ReleaseBatch, Retained
  <2> QED BY <2>1, <2>2, <2>3 DEF Control
<1>15. CASE ThreadStop
  <2>1. TypeOK'
    BY <1>15 DEF TypeOK, PC, ThreadStop, Signal
  <2>2. Control'
    BY <1>15 DEF Control, TypeOK, Stages, DeinitIsLast, NoLostWakeup, ExitHookIsLatest, ThreadStop, Signal
  <2>3. NoJobLost'
    BY <1>15 DEF NoJobLost, ThreadStop, Signal
  <2> QED BY <2>1, <2>2, <2>3 DEF Control
<1>16. CASE Exit
  <2>1. TypeOK'
    BY <1>16 DEF TypeOK, PC, Exit
  <2>2. Control'
    BY <1>16 DEF Control, TypeOK, Stages, DeinitIsLast, NoLostWakeup, ExitHookIsLatest, Exit
  <2>3. NoJobLost'
    BY <1>16 DEF NoJobLost, Exit
  <2> QED BY <2>1, <2>2, <2>3 DEF Control
<1>17. CASE Gone \/ UNCHANGED vars
  BY <1>17 DEF Gone, vars, TypeOK, Stages, DeinitIsLast, NoLostWakeup, NoJobLost, ExitHookIsLatest
<1> QED BY <1>1, <1>2, <1>3, <1>4, <1>5, <1>6, <1>7, <1>8, <1>9, <1>10, <1>11, <1>12, <1>13, <1>14, <1>15, <1>16, <1>17 DEF Next, ClientStep, RunThread

\* IInv holds in every reachable state of the executor.
THEOREM Invariance == Safety => []IInv
BY IInvInit, IInvNext, PTL DEF Safety

\* Every variable keeps its type, and a job is running exactly while the
\* thread is inside runSynchronously (SharedState.run).
THEOREM TypeCorrect == Safety => []TypeOK
<1>1. IInv => TypeOK
  BY DEF IInv
<1> QED BY <1>1, Invariance, PTL

\* ThreadExecutor.deinit runs only when no job is queued, taken or running and
\* nobody refers to the executor: the references in the queue and in the batch
\* keep it alive through its own jobs, wherever the last release happens.
THEOREM DeinitIsLastHolds == Safety => []DeinitIsLast
<1>1. IInv => DeinitIsLast
  BY DEF IInv
<1> QED BY <1>1, Invariance, PTL

\* enqueue and stop never slip between the thread's test of the queue and its
\* wait: a thread that waits with something to do has been signalled.
THEOREM NoLostWakeupHolds == Safety => []NoLostWakeup
<1>1. IInv => NoLostWakeup
  BY DEF IInv
<1> QED BY <1>1, Invariance, PTL

\* No job is lost between the queue, the batch and its run, and when the thread
\* leaves its loop every job ever enqueued has run.
THEOREM NothingDroppedHolds == Safety => [](NoJobLost /\ NothingDropped)
<1>1. IInv => NoJobLost
  BY DEF IInv
<1>2. IInv => NothingDropped
  <2> SUFFICES ASSUME IInv, pc \in {"exit", "done"}
               PROVE  finished = submitted
    BY DEF NothingDropped
  <2>1. jobs = <<>> /\ batch = <<>> /\ job = NoJob
    BY DEF IInv, Stages, DeinitIsLast
  <2> QED BY <2>1, RangeOfEmpty DEF IInv, NoJobLost
<1> QED BY <1>1, <1>2, Invariance, PTL

\* The closure the thread runs before it exits is the one onThreadExit set
\* last, although onThreadExit does not take the lock.
THEOREM ExitHookIsLatestHolds == Safety => []ExitHookIsLatest
<1>1. IInv => ExitHookIsLatest
  BY DEF IInv
<1> QED BY <1>1, Invariance, PTL

-----------------------------------------------------------------------------
(***************************************************************************)
(* No job runs twice.  Batch and queue together change at their ends only: *)
(* a job that was never submitted comes in at the back, and the first one  *)
(* leaves when it begins.                                                  *)
(***************************************************************************)
LEMMA WaitingWasSubmitted ==
    ASSUME IInv
    PROVE  /\ batch \o jobs \in Seq(Job)
           /\ \A i \in 1..Len(batch \o jobs) : (batch \o jobs)[i] \in submitted
           /\ job # NoJob => job \in submitted
<1>1. batch \in Seq(Job) /\ jobs \in Seq(Job) /\ batch \o jobs \in Seq(Job)
  BY ConcatProperties DEF IInv, TypeOK
<1>2. Range(batch \o jobs) = Range(batch) \cup Range(jobs)
  BY <1>1, RangeConcatenation, Zenon
<1>3. \A i \in 1..Len(batch \o jobs) : (batch \o jobs)[i] \in Range(batch \o jobs)
  BY <1>1 DEF Range
<1> QED BY <1>1, <1>2, <1>3 DEF IInv, NoJobLost

LEMMA RunsOnceInit == Init => RunsOnce
<1> SUFFICES ASSUME Init PROVE RunsOnce
  OBVIOUS
<1>1. batch \o jobs = <<>> /\ Len(batch \o jobs) = 0
  BY ConcatEmptySeq, EmptySeq DEF Init
<1> QED BY <1>1 DEF Init, RunsOnce

LEMMA RunsOnceNext == IInv /\ RunsOnce /\ [Next]_vars => RunsOnce'
<1> SUFFICES ASSUME IInv, RunsOnce, [Next]_vars PROVE RunsOnce'
  OBVIOUS
<1> DEFINE w == batch \o jobs
<1> USE NoJobAssumption DEF shared, thread, object, history
<1>0. /\ TypeOK /\ Stages /\ w \in Seq(Job) /\ Len(w) \in Nat
      /\ \A i \in 1..Len(w) : w[i] \in submitted /\ w[i] \in Job
      /\ job # NoJob => job \in submitted
  BY WaitingWasSubmitted, LenProperties, ElementOfSeq DEF IInv
<1>1. ASSUME NEW j \in Job, Enqueue(j)
      PROVE  RunsOnce'
  <2>1. w' = Append(w, j)
    BY <1>0, <1>1 DEF TypeOK, Enqueue, Enqueued
  <2>2. /\ Len(w') = Len(w) + 1 /\ w'[Len(w) + 1] = j
        /\ \A i \in 1..Len(w) : w'[i] = w[i]
    BY <1>0, <2>1, AppendProperties
  <2>3. /\ j \notin submitted /\ UNCHANGED <<job, finished>> /\ finished \subseteq submitted
        /\ j # job
    BY <1>0, <1>1 DEF Enqueue, IInv, NoJobLost, TypeOK
  <2>4. \A i \in 1..Len(w') : i = Len(w) + 1 \/ i \in 1..Len(w)
    BY <1>0, <2>2
  <2> HIDE DEF w
  <2>5. /\ \A i, k \in 1..Len(w') : w'[i] = w'[k] => i = k
        /\ \A i \in 1..Len(w') : w'[i] \notin finished \cup {job}
    BY <1>0, <2>2, <2>3, <2>4 DEF RunsOnce, w
  <2> QED BY <2>3, <2>5 DEF RunsOnce, w
<1>2. CASE TakeBatch
  <2>1. w' = w
    BY <1>0, <1>2, ConcatEmptySeq DEF TypeOK, Stages, HasBatch, TakeBatch
  <2> QED BY <1>2, <2>1 DEF RunsOnce, TakeBatch
<1>3. CASE BeginJob
  <2>1. w # <<>> /\ job' = Head(w) /\ w' = Tail(w)
    BY <1>0, <1>3, HeadOfConcat DEF TypeOK, BeginJob
  <2>2. /\ Len(w) \in Nat \ {0} /\ Len(w') = Len(w) - 1 /\ job' = w[1]
        /\ \A i \in 1..Len(w') : w'[i] = w[i + 1]
    BY <1>0, <2>1, HeadTailProperties, EmptySeq
  <2>3. job = NoJob /\ finished' = finished
    BY <1>0, <1>3 DEF TypeOK, BeginJob
  <2> HIDE DEF w
  <2>4. \A i \in 1..Len(w') : i + 1 \in 1..Len(w) /\ i + 1 # 1
    BY <2>2
  <2>5. /\ job' \notin finished
        /\ \A i, k \in 1..Len(w) : w[i] = w[k] => i = k
        /\ \A i \in 1..Len(w) : w[i] \notin finished
    BY <2>2 DEF RunsOnce, w
  <2>6. ASSUME NEW i \in 1..Len(w')
        PROVE  /\ w'[i] \notin finished \cup {job'}
               /\ \A k \in 1..Len(w') : w'[i] = w'[k] => i = k
    BY <2>2, <2>4, <2>5
  <2> QED BY <2>3, <2>5, <2>6 DEF RunsOnce, w
<1>4. CASE FinishJob
  <2>1. /\ job # NoJob /\ job' = NoJob /\ w' = w /\ finished' = finished \cup {job} /\ NoJob \notin finished'
    BY <1>0, <1>4 DEF TypeOK, FinishJob, JobAfterFinish
  <2> QED BY <1>0, <2>1 DEF RunsOnce
<1>5. ASSUME UNCHANGED <<jobs, batch, job, finished>>
      PROVE  RunsOnce'
  BY <1>5 DEF RunsOnce
<1>6. CASE ClientStop \/ WakeSpuriously \/ Gone \/ UNCHANGED vars
  BY <1>5, <1>6 DEF ClientStop, WakeSpuriously, Gone, vars
<1>7. CASE Start \/ EnterWait \/ WakeSignalled \/ LeaveLoop \/ ReleaseBatch \/ ThreadStop \/ Exit
  BY <1>5, <1>7 DEF Start, EnterWait, WakeSignalled, LeaveLoop, ReleaseBatch, ThreadStop, Exit
<1>8. ASSUME NEW k \in Hook, OnThreadExit(k)
      PROVE  RunsOnce'
  BY <1>5, <1>8 DEF OnThreadExit
<1>9. ASSUME NEW h \in Holder, Retain(h) \/ Release(h)
      PROVE  RunsOnce'
  BY <1>5, <1>9 DEF Retain, Release
<1> QED BY <1>1, <1>2, <1>3, <1>4, <1>6, <1>7, <1>8, <1>9 DEF Next, ClientStep, RunThread

\* A job that was enqueued once runs once: taking the queue as a batch and
\* going through it neither repeats a job nor starts one that has finished.
THEOREM RunsOnceHolds == Safety => []RunsOnce
BY Invariance, RunsOnceInit, RunsOnceNext, PTL DEF Safety

-----------------------------------------------------------------------------
(***************************************************************************)
(* Refinement.  The jobs of the batch not yet begun, followed by the queue,*)
(* are the abstract queue; taking a batch moves jobs within it and is a    *)
(* stutter, as are all steps of the lock, the wait and the references held *)
(* by jobs.  stop() is the abstract Close: DeinitIsLast is its guard.      *)
(***************************************************************************)
LEMMA InitRefines == Init => Abstract!Init
BY ConcatEmptySeq DEF Init, Abstract!Init

LEMMA NextRefines == IInv /\ [Next]_vars => [Abstract!Next]_(Abstract!vars)
<1> SUFFICES ASSUME IInv, [Next]_vars
             PROVE  Abstract!Next \/ UNCHANGED Abstract!vars
  OBVIOUS
<1> USE NoJobAssumption DEF shared, thread, object, history, HasBatch, Abstract!vars
<1>0. TypeOK /\ Stages /\ DeinitIsLast
  BY DEF IInv
<1>1. ASSUME NEW j \in Job, Enqueue(j)
      PROVE  Abstract!Submit(j)
  <2>1. batch \o jobs' = Append(batch \o jobs, j)
    BY <1>0, <1>1 DEF TypeOK, Enqueue, Enqueued
  <2> QED BY <1>0, <1>1, <2>1 DEF Enqueue, Signal, Abstract!Submit
<1>2. ASSUME NEW k \in Hook, OnThreadExit(k)
      PROVE  UNCHANGED Abstract!vars
  BY <1>2 DEF OnThreadExit
<1>3. ASSUME NEW h \in Holder, Retain(h)
      PROVE  Abstract!Retain(h)
  BY <1>3 DEF Retain, Abstract!Retain
<1>4. ASSUME NEW h \in Holder, Release(h)
      PROVE  Abstract!Release(h)
  BY <1>4 DEF Release, Abstract!Release
<1>5. CASE ClientStop
  <2>1. Abstract!Close
    BY <1>0, <1>5, ConcatEmptySeq DEF ClientStop, Stages, DeinitIsLast, Abstract!Close
  <2> QED BY <2>1 DEF Abstract!Next
<1>6. CASE ThreadStop
  <2>1. Abstract!Close
    BY <1>0, <1>6, ConcatEmptySeq DEF ThreadStop, Stages, DeinitIsLast, Abstract!Close
  <2> QED BY <2>1 DEF Abstract!Next
<1>7. CASE Start \/ EnterWait \/ WakeSignalled \/ WakeSpuriously \/ LeaveLoop \/ ReleaseBatch
  <2>1. pc # "done" /\ pc' # "done"
    BY <1>7 DEF Start, EnterWait, WakeSignalled, WakeSpuriously, LeaveLoop, ReleaseBatch
  <2>2. UNCHANGED <<holders, submitted, finished, batch, jobs, job, stopped>>
    BY <1>7 DEF Start, EnterWait, WakeSignalled, WakeSpuriously, LeaveLoop, ReleaseBatch
  <2> QED BY <2>1, <2>2
<1>8. CASE TakeBatch
  <2>1. batch' \o jobs' = batch \o jobs
    BY <1>0, <1>8, ConcatEmptySeq DEF TypeOK, Stages, TakeBatch
  <2> QED BY <1>8, <2>1 DEF TakeBatch
<1>9. CASE BeginJob
  <2>1. /\ batch \o jobs # <<>>
        /\ job' = Head(batch \o jobs)
        /\ batch' \o jobs' = Tail(batch \o jobs)
    BY <1>0, <1>9, HeadOfConcat DEF TypeOK, BeginJob
  <2>2. Abstract!Begin
    BY <1>0, <1>9, <2>1 DEF TypeOK, BeginJob, Abstract!Begin
  <2> QED BY <2>2 DEF Abstract!Next
<1>10. CASE FinishJob
  <2>1. Abstract!Finish
    BY <1>0, <1>10 DEF TypeOK, FinishJob, JobAfterFinish, Abstract!Finish
  <2> QED BY <2>1 DEF Abstract!Next
<1>11. CASE Exit
  <2>1. Abstract!Exit
    BY <1>0, <1>11 DEF Exit, Stages, Abstract!Exit
  <2> QED BY <2>1 DEF Abstract!Next
<1>12. CASE Gone \/ UNCHANGED vars
  BY <1>12 DEF Gone, vars
<1> QED BY <1>1, <1>2, <1>3, <1>4, <1>5, <1>6, <1>7, <1>8, <1>9, <1>10, <1>11, <1>12
        DEF Next, ClientStep, RunThread, Abstract!Next

\* ThreadExecutor keeps the promise of a serial executor that owns a thread:
\* one job at a time, in the order they were enqueued, each once, and the
\* thread gone only after the last reference and the last job.
THEOREM Refinement == Safety => ImplementsSafety
BY Invariance, InitRefines, NextRefines, PTL DEF Safety, ImplementsSafety, Abstract!Safety
=============================================================================
