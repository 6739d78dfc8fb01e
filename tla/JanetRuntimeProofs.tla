------------------------- MODULE JanetRuntimeProofs -------------------------
(***************************************************************************)
(* No precondition of JanetRuntime fails, its VM is freed before the       *)
(* thread exits, and it implements AtomicRuntime: for any clients, names,  *)
(* values and number of calls.                                             *)
(*                                                                         *)
(* The steps of the runtime are steps of the executor, so what             *)
(* ThreadExecutorProofs proves of every executor holds of this one.        *)
(* Executor is the executor once more, with its theorems.                  *)
(***************************************************************************)
EXTENDS JanetRuntime, TLAPS

Executor == INSTANCE ThreadExecutorProofs
               WITH Job <- CallJob \cup {Deinit}, Holder <- {Actor}, Hook <- {}

-----------------------------------------------------------------------------
(* What the steps of the executor do to the jobs and to the reference.      *)
LEMMA EnqueueEffect ==
    ASSUME NEW j, Exec!Enqueue(j)
    PROVE  /\ holders # {} /\ j \notin submitted /\ submitted' = submitted \cup {j}
           /\ UNCHANGED <<finished, job, pc, holders>>
BY DEF Exec!Enqueue, Exec!thread, Exec!object

LEMMA ReleaseEffect ==
    ASSUME Exec!Release(Actor)
    PROVE  holders' = holders \ {Actor} /\ UNCHANGED <<submitted, finished, job, pc>>
BY DEF Exec!Release, Exec!thread, Exec!history

LEMMA ThreadStepEffect ==
    ASSUME ThreadStep
    PROVE  pc # "job" /\ UNCHANGED <<submitted, finished, holders>>
BY DEF ThreadStep, Exec!Start, Exec!EnterWait, Exec!WakeSignalled, Exec!TakeBatch, Exec!LeaveLoop,
       Exec!BeginJob, Exec!ReleaseBatch, Exec!ThreadStop, Exec!Exit, Exec!object, Exec!history

-----------------------------------------------------------------------------
(* The executor of a runtime is one of those that ThreadExecutorProofs is    *)
(* about.                                                                    *)
LEMMA ExecutorInit == Init => Executor!Init
BY DEF Init, Exec!Init, Executor!Init

LEMMA ExecutorEnqueue ==
    ASSUME NEW j \in CallJob \cup {Deinit}, Exec!Enqueue(j)
    PROVE  Executor!Next
<1>1. Executor!Enqueue(j)
  BY DEF Exec!Enqueue, Exec!Enqueued, Exec!Signal, Exec!thread, Exec!object,
         Executor!Enqueue, Executor!Enqueued, Executor!Signal, Executor!thread, Executor!object
<1> QED BY <1>1 DEF Executor!Next, Executor!ClientStep

LEMMA ExecutorRelease ==
    ASSUME Exec!Release(Actor)
    PROVE  Executor!Next
<1>1. Executor!Release(Actor)
  BY DEF Exec!Release, Exec!Retained, Exec!HasBatch, Exec!shared, Exec!thread, Exec!history,
         Executor!Release, Executor!Retained, Executor!HasBatch, Executor!shared, Executor!thread, Executor!history
<1> QED BY <1>1 DEF Executor!Next, Executor!ClientStep

LEMMA ExecutorThread ==
    ASSUME ThreadStep \/ Exec!FinishJob \/ Exec!WakeSpuriously
    PROVE  Executor!Next
<1> USE DEF Exec!shared, Exec!object, Exec!history, Executor!shared, Executor!object, Executor!history
<1>1. CASE Exec!Start
  BY <1>1 DEF Exec!Start, Executor!Start, Executor!Next, Executor!RunThread
<1>2. CASE Exec!EnterWait
  BY <1>2 DEF Exec!EnterWait, Exec!MustWait, Executor!EnterWait, Executor!MustWait, Executor!Next, Executor!RunThread
<1>3. CASE Exec!WakeSignalled
  BY <1>3 DEF Exec!WakeSignalled, Executor!WakeSignalled, Executor!Next, Executor!RunThread
<1>4. CASE Exec!TakeBatch
  BY <1>4 DEF Exec!TakeBatch, Exec!MustWait, Exec!ShouldExit, Executor!TakeBatch, Executor!MustWait, Executor!ShouldExit,
              Executor!Next, Executor!RunThread
<1>5. CASE Exec!LeaveLoop
  BY <1>5 DEF Exec!LeaveLoop, Exec!MustWait, Exec!ShouldExit, Exec!HookAtExit,
              Executor!LeaveLoop, Executor!MustWait, Executor!ShouldExit, Executor!HookAtExit, Executor!Next, Executor!RunThread
<1>6. CASE Exec!BeginJob
  BY <1>6 DEF Exec!BeginJob, Executor!BeginJob, Executor!Next, Executor!RunThread
<1>7. CASE Exec!ReleaseBatch
  BY <1>7 DEF Exec!ReleaseBatch, Exec!Retained, Executor!ReleaseBatch, Executor!Retained, Executor!Next, Executor!RunThread
<1>8. CASE Exec!ThreadStop
  BY <1>8 DEF Exec!ThreadStop, Exec!Signal, Executor!ThreadStop, Executor!Signal, Executor!Next, Executor!RunThread
<1>9. CASE Exec!Exit
  BY <1>9 DEF Exec!Exit, Executor!Exit, Executor!Next, Executor!RunThread
<1>10. CASE Exec!FinishJob
  BY <1>10 DEF Exec!FinishJob, Exec!JobAfterFinish, Executor!FinishJob, Executor!JobAfterFinish, Executor!Next, Executor!RunThread
<1>11. CASE Exec!WakeSpuriously
  BY <1>11 DEF Exec!WakeSpuriously, Executor!WakeSpuriously, Executor!Next
<1> QED BY <1>1, <1>2, <1>3, <1>4, <1>5, <1>6, <1>7, <1>8, <1>9, <1>10, <1>11 DEF ThreadStep

LEMMA ExecutorNext == TypeOK /\ [Next]_vars => [Executor!Next]_(Executor!vars)
<1> SUFFICES ASSUME TypeOK, [Next]_vars PROVE Executor!Next \/ UNCHANGED Executor!vars
  OBVIOUS
<1>1. UNCHANGED executor => UNCHANGED Executor!vars
  BY DEF executor, Executor!vars, Executor!shared, Executor!thread, Executor!object, Executor!history
<1>2. ASSUME NEW c \in Client, NEW o \in Op, Call(c, o)
      PROVE  Executor!Next
  <2>1. calls'[c] \in 1..MaxCalls
    BY <1>2, MaxCallsAssumption DEF Call, TypeOK
  <2> QED BY <1>2, <2>1, ExecutorEnqueue DEF Call, CallJob
<1>3. ASSUME NEW c \in Client, Share(c) \/ Return(c) \/ Drop(c)
      PROVE  UNCHANGED executor
  BY <1>3 DEF Share, Return, Drop
<1>4. RunDeinit(ExecThread) => Executor!Next \/ UNCHANGED executor
  BY ExecutorRelease DEF RunDeinit
<1>5. ASSUME NEW c \in Client, DropInJob(c)
      PROVE  Executor!Next \/ UNCHANGED executor
  BY <1>4, <1>5 DEF DropInJob
<1>6. CASE DispatchDeinit
  BY <1>6, ExecutorEnqueue DEF DispatchDeinit
<1>7. CASE RunBody
  BY <1>1, <1>4, <1>7 DEF RunBody
<1>8. CASE ThreadStep \/ FinishJob \/ WakeSpuriously
  BY <1>8, ExecutorThread DEF FinishJob, WakeSpuriously
<1>9. CASE Gone \/ UNCHANGED vars
  BY <1>1, <1>9 DEF Gone, vars
<1> QED BY <1>1, <1>2, <1>3, <1>5, <1>6, <1>7, <1>8, <1>9 DEF Next, RunThread

-----------------------------------------------------------------------------
(* What the executor guarantees, in the names of the runtime.                *)
ExecutorFacts == /\ Exec!TypeOK
                 /\ job # NoJob => job \in submitted /\ job \notin finished
                 /\ pc \in {"exit", "done"} => holders = {}

LEMMA ExecutorFactsHold == Executor!IInv /\ Executor!RunsOnce => ExecutorFacts
<1> SUFFICES ASSUME Executor!IInv, Executor!RunsOnce PROVE ExecutorFacts
  OBVIOUS
<1>1. Exec!TypeOK
  BY DEF Executor!IInv, Executor!TypeOK, Executor!PC, Exec!TypeOK, Exec!PC
<1>2. job # NoJob => job \in submitted
  BY DEF Executor!IInv, Executor!NoJobLost
<1>3. job \notin finished
  BY DEF Executor!RunsOnce
<1>4. pc \in {"exit", "done"} => holders = {}
  BY DEF Executor!IInv, Executor!Stages, Executor!DeinitIsLast
<1> QED BY <1>1, <1>2, <1>3, <1>4 DEF ExecutorFacts

-----------------------------------------------------------------------------
LEMMA IInvInit == Init /\ ExecutorFacts => IInv
<1> SUFFICES ASSUME Init, ExecutorFacts PROVE IInv
  OBVIOUS
<1>1. TypeOK
  <2>1. (CHOOSE o \in Op : TRUE) \in Op
    <3>1. PICK n \in Name : TRUE
      BY NameAssumption
    <3>2. [kind |-> "eval", name |-> n] \in Op
      BY DEF Op
    <3> QED BY <3>2
  <2>2. op \in [Client -> Op]
    BY <2>1 DEF Init
  <2>3. refs \in SUBSET Client /\ env \in [Name -> Value \cup {Unbound}]
    BY DEF Init, CoreEnv
  <2>4. calls \in [Client -> 0..MaxCalls] /\ answer \in [Client -> Answers] /\ call \in [Client -> {"idle", "waiting", "answered"}]
    BY MaxCallsAssumption DEF Init, Answers
  <2> QED BY <2>2, <2>3, <2>4 DEF Init, ExecutorFacts, TypeOK
<1>2. ToRun = {} /\ ran = FALSE
  BY DEF Init, Exec!Init, ToRun
<1>3. JobsAreAwaited
  BY <1>2 DEF JobsAreAwaited
<1>4. refs # {} /\ holders = {Actor} /\ actor = "alive"
  BY DEF Init, Exec!Init
<1>5. Lifetimes
  BY <1>4 DEF Init, Lifetimes
<1> QED BY <1>1, <1>3, <1>5 DEF Init, IInv, VMOnItsThread, NoTrap

(***************************************************************************)
(* The deinit of the actor, in whichever job it runs: the VM goes with the *)
(* actor.                                                                  *)
(***************************************************************************)
LEMMA DeinitFreesTheVM ==
    ASSUME IInv, ExecutorFacts, pc = "job", actor # "gone", RunDeinit(ExecThread)
    PROVE  /\ actor' = "gone" /\ ~trapped' /\ holders' = {}
           /\ UNCHANGED <<submitted, finished, job, pc, vmThread, env>>
           /\ vm' \in {"none", "freed"} /\ liveVM' = {} /\ (vm = "none" <=> vm' = "none")
<1>1. IsCurrentThread(ExecThread)
  BY DEF IsCurrentThread, Exec!ThreadIsKnown
<1>2. ReleaseVM(ExecThread) /\ Exec!Release(Actor) /\ actor' = "gone"
  BY <1>1 DEF RunDeinit
<1>3. holders' = {} /\ UNCHANGED <<submitted, finished, job, pc>>
  BY <1>2, ReleaseEffect DEF IInv, Lifetimes
<1>4. ~trapped' /\ UNCHANGED <<vmThread, env>> /\ vm' \in {"none", "freed"} /\ liveVM' = {} /\ (vm = "none" <=> vm' = "none")
  <2>1. CASE vm = "live"
    BY <1>2, <2>1 DEF ReleaseVM, IsOnOwnThread, IInv, VMOnItsThread, NoTrap
  <2>2. CASE vm # "live"
    <3>1. vm = "none"
      BY <2>2 DEF IInv, TypeOK, VMOnItsThread
    <3> QED BY <1>2, <3>1 DEF ReleaseVM, machine, IInv, VMOnItsThread, NoTrap
  <2> QED BY <2>1, <2>2
<1> QED BY <1>2, <1>3, <1>4

(***************************************************************************)
(* The body of a call: it is awaited, so there are references, the VM is   *)
(* not freed, and no precondition fails.                                   *)
(***************************************************************************)
LEMMA CallRunsOnItsVM ==
    ASSUME IInv, ExecutorFacts, RunBody, job # Deinit
    PROVE  \E c \in Client, k \in 1..MaxCalls :
              /\ job = <<c, k>> /\ c \in refs /\ call[c] = "waiting" /\ calls[c] = k
              /\ vm # "freed" /\ ran' = TRUE
              /\ vm' = "live" /\ vmThread' = ExecThread /\ liveVM' = {ExecThread}
              /\ env' = EnvAfter(op[c], EnvOfVM)
              /\ answer' = [answer EXCEPT ![c] = AnswerTo(op[c], EnvOfVM)]
              /\ call' = [call EXCEPT ![c] = "answered"]
              /\ UNCHANGED <<executor, refs, actor, calls, op, trapped>>
<1>1. pc = "job" /\ ~ran /\ ran' = TRUE /\ RunCall(job[1], ExecThread) /\ UNCHANGED <<executor, refs, actor>>
  BY DEF RunBody
<1>2. job # NoJob /\ job \in CallJob \cup {Deinit} /\ job \in submitted /\ job \notin finished
  BY <1>1 DEF ExecutorFacts, Exec!TypeOK
<1>3. PICK c \in Client, k \in 1..MaxCalls : job = <<c, k>>
  BY <1>2 DEF CallJob
<1>4. job \in ToRun
  BY <1>1, <1>2 DEF ToRun
<1>5. call[c] = "waiting" /\ calls[c] = k /\ c \in refs /\ job[1] = c
  BY <1>3, <1>4 DEF IInv, JobsAreAwaited, Lifetimes
<1>6. vm # "freed"
  BY <1>5 DEF IInv, Lifetimes, VMOnItsThread
<1>7. ThreadOfVM(ExecThread) = ExecThread /\ ~CreateTraps(ExecThread)
      /\ (IF VMIfCreated THEN liveVM ELSE liveVM \cup {ExecThread}) = {ExecThread}
  BY <1>6 DEF ThreadOfVM, CreateTraps, VMIfCreated, IInv, TypeOK, VMOnItsThread
<1>8. /\ vm' = "live" /\ vmThread' = ExecThread /\ liveVM' = {ExecThread}
      /\ env' = EnvAfter(op[c], EnvOfVM)
      /\ answer' = [answer EXCEPT ![c] = AnswerTo(op[c], EnvOfVM)]
      /\ call' = [call EXCEPT ![c] = "answered"]
      /\ UNCHANGED <<calls, op, trapped>>
  BY <1>1, <1>5, <1>7 DEF RunCall
<1> QED BY <1>1, <1>3, <1>5, <1>6, <1>8

\* What a call leaves in the environment and returns has its type.
LEMMA AnswersAreTyped ==
    ASSUME NEW o \in Op, NEW e \in [Name -> Value \cup {Unbound}]
    PROVE  EnvAfter(o, e) \in [Name -> Value \cup {Unbound}] /\ AnswerTo(o, e) \in Answers
<1>1. CASE o \in [kind : {"define"}, name : Name, value : Value \cup {TooDeep}]
  BY <1>1 DEF EnvAfter, AnswerTo, Answers
<1>2. CASE o \in [kind : {"eval"}, name : Name]
  BY <1>2 DEF EnvAfter, AnswerTo, Answers
<1> QED BY <1>1, <1>2 DEF Op

(***************************************************************************)
(* The inductive step, one action at a time.                               *)
(***************************************************************************)
LEMMA IInvNext == IInv /\ ExecutorFacts /\ ExecutorFacts' /\ [Next]_vars => IInv'
<1> SUFFICES ASSUME IInv, ExecutorFacts, ExecutorFacts', [Next]_vars PROVE IInv'
  OBVIOUS
<1>0. Exec!TypeOK' /\ ~trapped /\ TypeOK /\ Lifetimes /\ VMOnItsThread /\ JobsAreAwaited
  BY DEF ExecutorFacts, IInv, NoTrap
<1> USE DEF executor, clients, machine, NoTrap
<1>1. ASSUME NEW c \in Client, Share(c)
      PROVE  IInv'
  BY <1>0, <1>1 DEF Share, IInv, TypeOK, Lifetimes, VMOnItsThread, JobsAreAwaited, ToRun
<1>2. ASSUME NEW c \in Client, Return(c)
      PROVE  IInv'
  <2>1. TypeOK'
    BY <1>0, <1>2 DEF Return, TypeOK
  <2>2. Lifetimes' /\ VMOnItsThread' /\ ~trapped'
    BY <1>0, <1>2 DEF Return, TypeOK, Lifetimes, VMOnItsThread
  <2>3. JobsAreAwaited'
    BY <1>0, <1>2 DEF Return, TypeOK, JobsAreAwaited, ToRun
  <2> QED BY <2>1, <2>2, <2>3 DEF IInv
<1>3. ASSUME NEW c \in Client, Drop(c)
      PROVE  IInv'
  <2>1. TypeOK'
    BY <1>0, <1>3 DEF Drop, TypeOK
  <2>2. Lifetimes' /\ VMOnItsThread' /\ ~trapped'
    BY <1>0, <1>3 DEF Drop, TypeOK, Lifetimes, VMOnItsThread
  <2>3. JobsAreAwaited'
    BY <1>0, <1>3 DEF Drop, TypeOK, Lifetimes, JobsAreAwaited, ToRun
  <2> QED BY <2>1, <2>2, <2>3 DEF IInv
<1>4. ASSUME NEW c \in Client, NEW o \in Op, Call(c, o)
      PROVE  IInv'
  <2>1. /\ submitted' = submitted \cup {<<c, calls[c] + 1>>} /\ calls' = [calls EXCEPT ![c] = @ + 1]
        /\ call[c] = "idle" /\ c \in refs /\ calls[c] < MaxCalls /\ calls[c] \in 0..MaxCalls
        /\ call' = [call EXCEPT ![c] = "waiting"] /\ op' = [op EXCEPT ![c] = o]
        /\ UNCHANGED <<finished, job, pc, holders, refs, actor, answer, ran, machine, trapped>>
    BY <1>0, <1>4, EnqueueEffect DEF Call, TypeOK
  <2>2. TypeOK'
    BY <1>0, <2>1, MaxCallsAssumption DEF TypeOK
  <2>3. Lifetimes' /\ VMOnItsThread' /\ ~trapped'
    BY <1>0, <2>1 DEF TypeOK, Lifetimes, VMOnItsThread
  <2>4. JobsAreAwaited'
    <3>1. ToRun' \subseteq ToRun \cup {<<c, calls[c] + 1>>}
      BY <2>1 DEF ToRun
    <3>2. ASSUME NEW d \in Client, NEW k \in 1..MaxCalls, <<d, k>> \in ToRun'
          PROVE  call'[d] = "waiting" /\ calls'[d] = k
      <4>1. CASE d = c
        BY <1>0, <2>1, <3>1, <3>2, <4>1 DEF TypeOK, JobsAreAwaited
      <4>2. CASE d # c
        BY <1>0, <2>1, <3>1, <3>2, <4>2 DEF TypeOK, JobsAreAwaited
      <4> QED BY <4>1, <4>2
    <3>3. Deinit \in ToRun' => Deinit \in ToRun
      BY <2>1, <3>1, JobsAssumption, MaxCallsAssumption
    <3>4. \A d \in Client, k \in 1..MaxCalls : ran' /\ job' = <<d, k>> => call'[d] = "answered"
      BY <1>0, <2>1 DEF TypeOK, JobsAreAwaited
    <3> QED BY <1>0, <2>1, <3>2, <3>3, <3>4 DEF JobsAreAwaited
  <2> QED BY <2>2, <2>3, <2>4 DEF IInv
<1>5. ASSUME NEW c \in Client, DropInJob(c)
      PROVE  IInv'
  <2>1. /\ pc = "job" /\ ran /\ c \in refs /\ refs' = refs \ {c} /\ actor = "alive"
        /\ call[c] = "answered" /\ UNCHANGED <<calls, call, op, answer, ran>>
    BY <1>0, <1>5 DEF DropInJob, Lifetimes, JobsAreAwaited
  <2>2. CASE refs' # {}
    <3>1. UNCHANGED <<executor, actor, machine, trapped>>
      BY <1>5, <2>2 DEF DropInJob
    <3>2. TypeOK'
      BY <1>0, <2>1, <3>1 DEF TypeOK
    <3>3. Lifetimes' /\ VMOnItsThread' /\ JobsAreAwaited' /\ ~trapped'
      BY <1>0, <2>1, <2>2, <3>1 DEF TypeOK, Lifetimes, VMOnItsThread, JobsAreAwaited, ToRun
    <3> QED BY <3>2, <3>3 DEF IInv
  <2>3. CASE refs' = {}
    <3>1. RunDeinit(ExecThread)
      BY <1>5, <2>3 DEF DropInJob
    <3>2. /\ actor' = "gone" /\ ~trapped' /\ trapped' = FALSE /\ holders' = {}
          /\ UNCHANGED <<submitted, finished, job, pc, vmThread, env>>
          /\ vm' \in {"none", "freed"} /\ liveVM' = {}
      <4>1. ~trapped' /\ trapped' \in BOOLEAN
        BY <1>0, <2>1, <3>1, DeinitFreesTheVM DEF RunDeinit, ReleaseVM, TypeOK
      <4> QED BY <2>1, <3>1, <4>1, DeinitFreesTheVM
    <3>3. TypeOK'
      BY <1>0, <2>1, <3>2 DEF TypeOK
    <3>4. Lifetimes' /\ VMOnItsThread' /\ JobsAreAwaited'
      BY <1>0, <2>1, <2>3, <3>2 DEF TypeOK, Lifetimes, VMOnItsThread, JobsAreAwaited, ToRun
    <3> QED BY <3>2, <3>3, <3>4 DEF IInv
  <2> QED BY <2>2, <2>3
<1>6. CASE DispatchDeinit
  <2>1. /\ actor = "released" /\ actor' = "deiniting" /\ submitted' = submitted \cup {Deinit}
        /\ UNCHANGED <<finished, job, pc, holders, refs, clients, ran, machine, trapped>>
    BY <1>6, EnqueueEffect DEF DispatchDeinit
  <2>2. TypeOK'
    BY <1>0, <2>1 DEF TypeOK
  <2>3. Lifetimes' /\ VMOnItsThread' /\ ~trapped'
    BY <1>0, <2>1 DEF TypeOK, Lifetimes, VMOnItsThread
  <2>4. JobsAreAwaited'
    <3>1. ToRun' \subseteq ToRun \cup {Deinit}
      BY <2>1 DEF ToRun
    <3>2. \A c \in Client, k \in 1..MaxCalls : <<c, k>> # Deinit
      BY JobsAssumption
    <3> QED BY <1>0, <2>1, <3>1, <3>2 DEF JobsAreAwaited
  <2> QED BY <2>2, <2>3, <2>4 DEF IInv
<1>7. CASE RunBody /\ job = Deinit
  <2>1. pc = "job" /\ ~ran /\ ran' = TRUE /\ RunDeinit(ExecThread) /\ UNCHANGED <<refs, clients>>
    BY <1>7 DEF RunBody
  <2>2. Deinit \in ToRun
    BY <1>7, <2>1, JobsAssumption DEF ExecutorFacts, ToRun
  <2>3. actor = "deiniting"
    BY <1>0, <2>2 DEF JobsAreAwaited
  <2>4. /\ actor' = "gone" /\ ~trapped' /\ holders' = {}
        /\ UNCHANGED <<submitted, finished, job, pc, vmThread, env>>
        /\ vm' \in {"none", "freed"} /\ liveVM' = {}
    BY <2>1, <2>3, DeinitFreesTheVM
  <2>5. trapped' \in BOOLEAN
    BY <1>0, <2>1 DEF RunDeinit, ReleaseVM, TypeOK
  <2>6. TypeOK'
    BY <1>0, <2>1, <2>4, <2>5 DEF TypeOK
  <2>7. Lifetimes' /\ VMOnItsThread'
    BY <1>0, <2>1, <2>3, <2>4 DEF TypeOK, Lifetimes, VMOnItsThread
  <2>8. JobsAreAwaited'
    <3>1. ToRun' \subseteq ToRun \ {Deinit} /\ job' = Deinit
      BY <1>7, <2>1, <2>4 DEF ToRun
    <3>2. \A c \in Client, k \in 1..MaxCalls : <<c, k>> # Deinit
      BY JobsAssumption
    <3> QED BY <1>0, <2>1, <3>1, <3>2 DEF JobsAreAwaited
  <2> QED BY <2>4, <2>6, <2>7, <2>8 DEF IInv
<1>8. CASE RunBody /\ job # Deinit
  <2>1. PICK c \in Client, k \in 1..MaxCalls :
              /\ job = <<c, k>> /\ c \in refs /\ call[c] = "waiting" /\ calls[c] = k
              /\ vm # "freed" /\ ran' = TRUE
              /\ vm' = "live" /\ vmThread' = ExecThread /\ liveVM' = {ExecThread}
              /\ env' = EnvAfter(op[c], EnvOfVM)
              /\ answer' = [answer EXCEPT ![c] = AnswerTo(op[c], EnvOfVM)]
              /\ call' = [call EXCEPT ![c] = "answered"]
              /\ UNCHANGED <<executor, refs, actor, calls, op, trapped>>
    BY <1>8, CallRunsOnItsVM
  <2>2. pc = "job" /\ ~ran
    BY <1>8 DEF RunBody
  <2>3. EnvOfVM \in [Name -> Value \cup {Unbound}] /\ op[c] \in Op
    BY <1>0 DEF EnvOfVM, CoreEnv, TypeOK
  <2>4. EnvAfter(op[c], EnvOfVM) \in [Name -> Value \cup {Unbound}] /\ AnswerTo(op[c], EnvOfVM) \in Answers
    BY <2>3, AnswersAreTyped
  <2>5. TypeOK'
    BY <1>0, <2>1, <2>2, <2>4 DEF TypeOK
  <2>6. Lifetimes' /\ VMOnItsThread' /\ ~trapped'
    BY <1>0, <2>1 DEF TypeOK, Lifetimes, VMOnItsThread
  <2>7. JobsAreAwaited'
    <3>1. ToRun' = ToRun \ {<<c, k>>} /\ job' = job
      BY <2>1, <2>2 DEF ToRun
    <3>2. ASSUME NEW d \in Client, NEW l \in 1..MaxCalls, <<d, l>> \in ToRun'
          PROVE  call'[d] = "waiting" /\ calls'[d] = l
      BY <1>0, <2>1, <3>1, <3>2 DEF JobsAreAwaited, TypeOK
    <3>3. \A d \in Client, l \in 1..MaxCalls : ran' /\ job' = <<d, l>> => call'[d] = "answered"
      BY <1>0, <2>1, <3>1 DEF TypeOK
    <3> QED BY <1>0, <2>1, <3>1, <3>2, <3>3 DEF JobsAreAwaited
  <2> QED BY <2>5, <2>6, <2>7 DEF IInv
<1>9. CASE FinishJob
  <2>1. /\ ran /\ ran' = FALSE /\ finished' = finished \cup {job} /\ submitted' = submitted
        /\ UNCHANGED <<refs, actor, clients, machine, trapped, holders>>
    BY <1>9 DEF FinishJob, Exec!FinishJob, Exec!object
  <2>2. ToRun' = ToRun
    BY <2>1 DEF ToRun
  <2> QED BY <1>0, <2>1, <2>2 DEF IInv, TypeOK, Lifetimes, VMOnItsThread, JobsAreAwaited
<1>10. CASE ThreadStep
  <2>1. /\ pc # "job" /\ ran = FALSE
        /\ UNCHANGED <<submitted, finished, holders, refs, actor, clients, ran, machine, trapped>>
    BY <1>0, <1>10, ThreadStepEffect DEF ThreadStep, TypeOK
  <2>2. ToRun' = ToRun
    BY <2>1 DEF ToRun
  <2> QED BY <1>0, <2>1, <2>2 DEF IInv, TypeOK, Lifetimes, VMOnItsThread, JobsAreAwaited
<1>11. CASE WakeSpuriously
  <2>1. UNCHANGED <<submitted, finished, job, holders, refs, actor, clients, ran, machine, trapped>> /\ pc = "wait"
    BY <1>11 DEF WakeSpuriously, Exec!WakeSpuriously, Exec!object, Exec!history
  <2> QED BY <1>0, <2>1 DEF IInv, TypeOK, Lifetimes, VMOnItsThread, JobsAreAwaited, ToRun
<1>12. CASE Gone \/ UNCHANGED vars
  BY <1>0, <1>12 DEF Gone, vars, IInv, TypeOK, Lifetimes, VMOnItsThread, JobsAreAwaited, ToRun
<1> QED BY <1>1, <1>2, <1>3, <1>4, <1>5, <1>6, <1>7, <1>8, <1>9, <1>10, <1>11, <1>12 DEF Next, RunThread

-----------------------------------------------------------------------------
(***************************************************************************)
(* The runtime and its executor keep their invariants together: a step of  *)
(* the runtime is one of the executor because the calls are counted right, *)
(* and the runtime's invariant rests on what the executor guarantees.      *)
(***************************************************************************)
Whole == IInv /\ Executor!IInv /\ Executor!RunsOnce

LEMMA ExecutorAssumptions == NoJob \notin CallJob \cup {Deinit} /\ NoHook \notin {}
BY JobsAssumption DEF CallJob

LEMMA WholeInit == Init => Whole
<1> SUFFICES ASSUME Init PROVE Whole
  OBVIOUS
<1>1. Executor!IInv /\ Executor!RunsOnce
  BY ExecutorAssumptions, ExecutorInit, Executor!IInvInit, Executor!RunsOnceInit
<1> QED BY <1>1, ExecutorFactsHold, IInvInit DEF Whole

LEMMA WholeNext == Whole /\ [Next]_vars => Whole'
<1> SUFFICES ASSUME Whole, [Next]_vars PROVE Whole'
  OBVIOUS
<1>1. [Executor!Next]_(Executor!vars)
  BY ExecutorNext DEF Whole, IInv
<1>2. Executor!IInv' /\ Executor!RunsOnce'
  BY <1>1, ExecutorAssumptions, Executor!IInvNext, Executor!RunsOnceNext DEF Whole
<1>3. ExecutorFacts
  BY ExecutorFactsHold DEF Whole
<1>4. ExecutorFacts'
  BY <1>2, ExecutorFactsHold, PTL
<1> QED BY <1>2, <1>3, <1>4, IInvNext DEF Whole

\* Whole holds in every reachable state.
THEOREM Invariance == Safety => []Whole
BY WholeInit, WholeNext, PTL DEF Safety

\* Every variable of the runtime and of its executor keeps its type, and a
\* job's body is over only while the executor still counts it as running.
THEOREM TypeCorrect == Safety => []TypeOK
<1>1. Whole => TypeOK
  BY DEF Whole, IInv
<1> QED BY <1>1, Invariance, PTL

\* The preconditions of JanetVM.init, eval, define and deinit and the check of
\* isolation in JanetRuntime.deinit hold whenever they are reached: whichever
\* client drops the last reference, on whichever thread.
THEOREM NoTrapHolds == Safety => []NoTrap
<1>1. Whole => NoTrap
  BY DEF Whole, IInv
<1> QED BY <1>1, Invariance, PTL

\* The thread leaves no live VM and no marker behind: the executor ends after
\* the actor, and the actor's deinit has freed the VM.
THEOREM VMFreedBeforeExitHolds == Safety => []VMFreedBeforeExit
<1>1. Whole => VMFreedBeforeExit
  <2> SUFFICES ASSUME Whole, pc \in {"exit", "done"}
               PROVE  vm # "live" /\ liveVM = {}
    BY DEF VMFreedBeforeExit
  <2>1. actor = "gone"
    BY ExecutorFactsHold DEF Whole, ExecutorFacts, IInv, Lifetimes
  <2> QED BY <2>1 DEF Whole, IInv, TypeOK, VMOnItsThread
<1> QED BY <1>1, Invariance, PTL

-----------------------------------------------------------------------------
(***************************************************************************)
(* Refinement of AtomicRuntime.  A call takes effect when its body runs on *)
(* the executor's thread; until the VM is made, and once it is freed, the  *)
(* environment is the core one.                                            *)
(***************************************************************************)
Env == IF vm = "live" THEN env ELSE CoreEnv

LEMMA InitRefines == Init => Abstract!Init
BY DEF Init, Abstract!Init, Abstract!CoreEnv, CoreEnv, Op, Abstract!Op

\* The operations do the same to an environment on both levels.
LEMMA SameOperations ==
    ASSUME NEW o \in Op, NEW e
    PROVE  Abstract!EnvAfter(o, e) = EnvAfter(o, e) /\ Abstract!AnswerTo(o, e) = AnswerTo(o, e)
<1>1. o.kind = "define" \/ (o.kind = "eval" /\ o.kind # "define")
  BY DEF Op
<1> QED BY <1>1 DEF EnvAfter, AnswerTo, Abstract!EnvAfter, Abstract!AnswerTo

LEMMA NextRefines == Whole /\ [Next]_vars => [Abstract!Next]_(Abstract!vars)
<1> SUFFICES ASSUME Whole, [Next]_vars PROVE Abstract!Next \/ UNCHANGED Abstract!vars
  OBVIOUS
<1>0. /\ TypeOK /\ Lifetimes /\ VMOnItsThread /\ JobsAreAwaited /\ ~trapped /\ ExecutorFacts /\ IInv
      /\ Abstract!CoreEnv = CoreEnv
  BY ExecutorFactsHold DEF Whole, IInv, NoTrap, Abstract!CoreEnv, CoreEnv
<1>01. UNCHANGED <<refs, vm, env, call, op, answer>> => UNCHANGED Abstract!vars
  BY DEF Abstract!vars, CoreEnv
<1> USE DEF executor, clients, machine
<1>1. ASSUME NEW c \in Client, Share(c)
      PROVE  Abstract!Share(c)
  BY <1>1 DEF Share, Abstract!Share, CoreEnv
<1>2. ASSUME NEW c \in Client, Return(c)
      PROVE  Abstract!Return(c)
  BY <1>2 DEF Return, Abstract!Return, CoreEnv
<1>3. ASSUME NEW c \in Client, Drop(c)
      PROVE  Abstract!Drop(c)
  BY <1>3 DEF Drop, Abstract!Drop, CoreEnv
<1>4. ASSUME NEW c \in Client, NEW o \in Op, Call(c, o)
      PROVE  Abstract!Call(c, o)
  BY <1>4 DEF Call, Abstract!Call, CoreEnv
<1>5. ASSUME NEW c \in Client, DropInJob(c)
      PROVE  Abstract!Drop(c)
  <2>1. /\ pc = "job" /\ c \in refs /\ refs' = refs \ {c} /\ actor = "alive"
        /\ call[c] = "answered" /\ UNCHANGED <<call, op, answer>>
    BY <1>0, <1>5 DEF DropInJob, Lifetimes, JobsAreAwaited
  <2>2. CASE refs' # {}
    BY <1>5, <2>1, <2>2 DEF DropInJob, Abstract!Drop, CoreEnv
  <2>3. CASE refs' = {}
    <3>1. vm' # "live"
      BY <1>0, <1>5, <2>1, <2>3, DeinitFreesTheVM DEF DropInJob
    <3>2. Env' = CoreEnv
      BY <3>1 DEF Env, CoreEnv
    <3> QED BY <1>0, <2>1, <2>3, <3>2 DEF Abstract!Drop, Env
  <2> QED BY <2>2, <2>3
<1>6. CASE RunBody /\ job = Deinit
  <2>1. pc = "job" /\ ~ran /\ RunDeinit(ExecThread) /\ UNCHANGED <<refs, clients>>
    BY <1>6 DEF RunBody
  <2>2. Deinit \in ToRun
    BY <1>0, <1>6, <2>1, JobsAssumption DEF ExecutorFacts, ToRun
  <2>3. actor = "deiniting" /\ refs = {}
    BY <1>0, <2>2 DEF JobsAreAwaited, Lifetimes
  <2>4. vm' # "live"
    BY <1>0, <2>1, <2>3, DeinitFreesTheVM
  <2>5. Env' = CoreEnv
    BY <2>4 DEF Env, CoreEnv
  <2> QED BY <1>0, <2>1, <2>3, <2>5 DEF Abstract!Next, Abstract!Discard, Env
<1>7. CASE RunBody /\ job # Deinit
  <2>1. PICK c \in Client, k \in 1..MaxCalls :
              /\ job = <<c, k>> /\ c \in refs /\ call[c] = "waiting" /\ calls[c] = k
              /\ vm # "freed" /\ ran' = TRUE
              /\ vm' = "live" /\ vmThread' = ExecThread /\ liveVM' = {ExecThread}
              /\ env' = EnvAfter(op[c], EnvOfVM)
              /\ answer' = [answer EXCEPT ![c] = AnswerTo(op[c], EnvOfVM)]
              /\ call' = [call EXCEPT ![c] = "answered"]
              /\ UNCHANGED <<executor, refs, actor, calls, op, trapped>>
    BY <1>0, <1>7, CallRunsOnItsVM
  <2>2. EnvOfVM = Env /\ op[c] \in Op
    BY <1>0, <2>1 DEF EnvOfVM, VMIfCreated, Env, TypeOK
  <2>3. Env' = Abstract!EnvAfter(op[c], Env)
        /\ answer' = [answer EXCEPT ![c] = Abstract!AnswerTo(op[c], Env)]
    BY <2>1, <2>2, SameOperations DEF Env
  <2>4. Abstract!TakeEffect(c)
    BY <2>1, <2>3 DEF Abstract!TakeEffect, Env
  <2> QED BY <2>4 DEF Abstract!Next
<1>8. CASE DispatchDeinit \/ FinishJob \/ ThreadStep \/ WakeSpuriously \/ Gone \/ UNCHANGED vars
  BY <1>01, <1>8 DEF DispatchDeinit, FinishJob, ThreadStep, WakeSpuriously, Gone, vars
<1> QED BY <1>1, <1>2, <1>3, <1>4, <1>5, <1>6, <1>7, <1>8 DEF Next, RunThread, Abstract!Next, Op, Abstract!Op

\* Threads, the queue, the lazy VM and the deinit behave, to those who call
\* eval and define, as one environment that each call uses at one instant.
THEOREM Refinement == Safety => ImplementsAtomicRuntime
BY Invariance, InitRefines, NextRefines, PTL DEF Safety, ImplementsAtomicRuntime, Abstract!Spec
=============================================================================
