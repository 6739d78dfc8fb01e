---------------------------- MODULE JanetRuntime ----------------------------
(***************************************************************************)
(* JanetRuntime (Sources/Janet/JanetRuntime.swift): an actor pinned to a   *)
(* ThreadExecutor, with one lazily created JanetVM                         *)
(* (Sources/Janet/JanetVM.swift).  Clients are tasks on other threads that *)
(* share references to the actor, call eval and define, and drop their     *)
(* references; the last drop, wherever it happens, runs the isolated       *)
(* deinit on the executor's thread.                                        *)
(*                                                                         *)
(* A call is an actor job: the client enqueues it and waits, the thread    *)
(* runs its body, and the client resumes some time after.  It may let go   *)
(* of its reference while it is still on the executor's thread, at the end *)
(* of its own job, or later on its own.  Every step of the executor is a   *)
(* step of ThreadExecutor, whose only holder here is the actor.            *)
(***************************************************************************)
EXTENDS Naturals, Sequences

CONSTANTS Client,   \* tasks that may hold a reference and make calls
          Name,     \* names that are bound or looked up
          Value,    \* values that may be bound
          TooDeep,  \* a value nested deeper than maxValueNestingDepth
          Unbound,  \* what an unbound name holds
          CopyError, CompileError, Bound,  \* the other answers of a call
          MaxCalls, \* bound: calls one client makes
          Actor,    \* the executor's only holder
          Deinit,   \* the job that runs the isolated deinit
          NoJob, NoHook, NoThread,
          ExecThread  \* the executor's thread; a client stands for its own

ASSUME MaxCallsAssumption == MaxCalls \in Nat \ {0}
ASSUME NameAssumption == Name # {}
ASSUME JobsAssumption == /\ Deinit \notin Client \X (1..MaxCalls)
                         /\ NoJob \notin Client \X (1..MaxCalls) /\ NoJob # Deinit

VARIABLES jobs, stopped, onExit, signalled, pc, batch, job, exitHook,
          holders, deiniting, submitted, finished   \* the ThreadExecutor
VARIABLES
    refs,      \* clients that have a strong reference to the actor
    actor,     \* "alive"; "released": its last reference is gone; "deiniting":
               \* the deinit job is with the executor; "gone"
    calls,     \* how many calls each client has made
    call,      \* each client: "idle", "waiting" for its call, "answered"
    op,        \* the operation each client called last
    answer,    \* what the last answered call of each client returned
    ran,       \* the body of the running job is over
    vm,        \* the lazy var: "none", "live", "freed"
    vmThread,  \* JanetVM.thread
    env,       \* the environment of the live VM
    liveVM,    \* the threads whose liveVMKey marker is set
    trapped    \* a precondition has failed and the process is gone

executor == <<jobs, stopped, onExit, signalled, pc, batch, job, exitHook,
              holders, deiniting, submitted, finished>>
machine == <<vm, vmThread, env, liveVM>>
clients == <<calls, call, op, answer>>
vars == <<executor, refs, actor, clients, ran, machine, trapped>>

CallJob == Client \X (1..MaxCalls)

Exec == INSTANCE ThreadExecutor
            WITH Job <- CallJob \cup {Deinit}, Holder <- {Actor}, Hook <- {}

Op == [kind : {"define"}, name : Name, value : Value \cup {TooDeep}]
        \cup [kind : {"eval"}, name : Name]
CoreEnv == [n \in Name |-> Unbound]

Init == /\ Exec!Init
        /\ \E c \in Client : refs = {c}
        /\ actor = "alive"
        /\ calls = [c \in Client |-> 0]
        /\ call = [c \in Client |-> "idle"]
        /\ op = [c \in Client |-> CHOOSE o \in Op : TRUE]
        /\ answer = [c \in Client |-> Bound]
        /\ ran = FALSE
        /\ vm = "none"
        /\ vmThread = NoThread
        /\ env = CoreEnv
        /\ liveVM = {}
        /\ trapped = FALSE

-----------------------------------------------------------------------------
(* The VM, used on thread t. *)

IsOnOwnThread(t) == vmThread = t

\* The lazy var: its first use creates the VM, which records its thread, marks
\* it, and starts from the core environment.
VMIfCreated == vm # "none"
EnvOfVM == IF VMIfCreated THEN env ELSE CoreEnv
CreateTraps(t) == ~VMIfCreated /\ t \in liveVM
ThreadOfVM(t) == IF VMIfCreated THEN vmThread ELSE t

\* define copies the value into the VM before it binds the name, so a value
\* that cannot be copied changes nothing; eval of a name only reads it.
EnvAfter_BoundBeforeCopy(o, e) ==
    IF o.kind = "define" THEN [e EXCEPT ![o.name] = o.value] ELSE e
EnvAfter(o, e) ==
    IF o.kind = "define" /\ o.value # TooDeep
    THEN [e EXCEPT ![o.name] = o.value]
    ELSE e

AnswerTo(o, e) ==
    IF o.kind = "define"
    THEN IF o.value = TooDeep THEN CopyError ELSE Bound
    ELSE IF e[o.name] = Unbound THEN CompileError ELSE e[o.name]

\* JanetVM.eval or JanetVM.define on behalf of client c.
RunCall(c, t) ==
    IF CreateTraps(t) \/ ThreadOfVM(t) # t
    THEN /\ trapped' = TRUE
         /\ UNCHANGED <<machine, clients>>
    ELSE /\ vm' = "live"
         /\ vmThread' = ThreadOfVM(t)
         /\ liveVM' = IF VMIfCreated THEN liveVM ELSE liveVM \cup {t}
         /\ env' = EnvAfter(op[c], EnvOfVM)
         /\ answer' = [answer EXCEPT ![c] = AnswerTo(op[c], EnvOfVM)]
         /\ call' = [call EXCEPT ![c] = "answered"]
         /\ UNCHANGED <<calls, op, trapped>>

\* JanetVM.deinit, when the actor's stored properties are destroyed.
ReleaseVM_Leaked(t) == UNCHANGED <<machine, trapped>>
ReleaseVM(t) ==
    IF vm = "live"
    THEN IF IsOnOwnThread(t)
         THEN /\ vm' = "freed"
              /\ liveVM' = liveVM \ {t}
              /\ UNCHANGED <<vmThread, env, trapped>>
         ELSE trapped' = TRUE /\ UNCHANGED machine
    ELSE UNCHANGED <<machine, trapped>>

-----------------------------------------------------------------------------
(* Clients. *)

Share(c) == /\ refs # {}
            /\ c \notin refs
            /\ refs' = refs \cup {c}
            /\ UNCHANGED <<executor, actor, clients, ran, machine, trapped>>

\* eval or define from outside the actor: a job for the executor.
Call(c, o) == /\ c \in refs
              /\ call[c] = "idle"
              /\ calls[c] < MaxCalls
              /\ calls' = [calls EXCEPT ![c] = @ + 1]
              /\ call' = [call EXCEPT ![c] = "waiting"]
              /\ op' = [op EXCEPT ![c] = o]
              /\ Exec!Enqueue(<<c, calls'[c]>>)
              /\ UNCHANGED <<refs, actor, answer, ran, machine, trapped>>

\* The client resumes with its answer, on a thread of its own.
Return(c) == /\ call[c] = "answered"
             /\ \A k \in 1..MaxCalls : job # <<c, k>>
             /\ call' = [call EXCEPT ![c] = "idle"]
             /\ UNCHANGED <<executor, refs, actor, calls, op, answer, ran, machine, trapped>>

\* A client drops its reference on its own thread.
Drop(c) == /\ c \in refs
           /\ call[c] = "idle"
           /\ refs' = refs \ {c}
           /\ actor' = IF refs' = {} THEN "released" ELSE actor
           /\ UNCHANGED <<executor, clients, ran, machine, trapped>>

\* The isolated deinit of an actor released elsewhere becomes a job of its
\* executor; without "isolated" it would run where the last reference went.
DispatchDeinit_WhereReleased ==
    /\ actor = "released"
    /\ actor' = "gone"
    /\ \E t \in Client : ReleaseVM(t)
    /\ Exec!Release(Actor)
    /\ UNCHANGED <<refs, clients, ran>>
DispatchDeinit == /\ actor = "released"
                  /\ actor' = "deiniting"
                  /\ Exec!Enqueue(Deinit)
                  /\ UNCHANGED <<refs, clients, ran, machine, trapped>>

-----------------------------------------------------------------------------
(* The executor's thread. *)

IsCurrentThread(t) == t = ExecThread /\ Exec!ThreadIsKnown

\* deinit: checkIsolated(), then the executor and the VM are released.
RunDeinit(t) ==
    /\ actor' = "gone"
    /\ IF IsCurrentThread(t)
       THEN ReleaseVM(t) /\ Exec!Release(Actor)
       ELSE trapped' = TRUE /\ UNCHANGED <<machine, executor>>

RunBody == /\ pc = "job"
           /\ ~ran
           /\ ran' = TRUE
           /\ \/ /\ job = Deinit
                 /\ RunDeinit(ExecThread)
                 /\ UNCHANGED <<refs, clients>>
              \/ /\ job # Deinit
                 /\ RunCall(job[1], ExecThread)
                 /\ UNCHANGED <<executor, refs, actor>>

\* The caller lets go of the actor before it leaves the executor's thread; the
\* last reference to go there runs deinit at once.
DropInJob(c) == /\ pc = "job"
                /\ ran
                /\ \E k \in 1..MaxCalls : job = <<c, k>>
                /\ c \in refs
                /\ refs' = refs \ {c}
                /\ IF refs' = {}
                   THEN RunDeinit(ExecThread)
                   ELSE UNCHANGED <<executor, actor, machine, trapped>>
                /\ UNCHANGED <<clients, ran>>

FinishJob == /\ ran
             /\ ran' = FALSE
             /\ Exec!FinishJob
             /\ UNCHANGED <<refs, actor, clients, machine, trapped>>

ThreadStep == /\ \/ Exec!Start \/ Exec!EnterWait \/ Exec!WakeSignalled
                 \/ Exec!TakeBatch \/ Exec!LeaveLoop \/ Exec!BeginJob
                 \/ Exec!ReleaseBatch \/ Exec!ThreadStop \/ Exec!Exit
              /\ UNCHANGED <<refs, actor, clients, ran, machine, trapped>>

WakeSpuriously == /\ Exec!WakeSpuriously
                  /\ UNCHANGED <<refs, actor, clients, ran, machine, trapped>>

RunThread == ~trapped /\ (ThreadStep \/ RunBody \/ FinishJob)

Gone == pc = "done" /\ UNCHANGED vars

Next == \/ /\ ~trapped
           /\ \/ \E c \in Client : \/ Share(c) \/ Return(c) \/ Drop(c) \/ DropInJob(c)
                                   \/ \E o \in Op : Call(c, o)
              \/ DispatchDeinit
              \/ WakeSpuriously
        \/ RunThread
        \/ Gone

Safety == Init /\ [][Next]_vars

\* The executor's thread is scheduled and its jobs return, the Swift runtime
\* resumes a client whose call has an answer, and it gets a released actor's
\* deinit job to the executor.  Clients need not call or drop anything.
Fairness == /\ WF_vars(RunThread)
            /\ WF_vars(~trapped /\ DispatchDeinit)
            /\ \A c \in Client : WF_vars(~trapped /\ Return(c))

Spec == Safety /\ Fairness

-----------------------------------------------------------------------------
(* Properties *)

Answers == Value \cup {Bound, CopyError, CompileError}

\* Every variable has its type; ran is set only while a job is running, and
\* a client waits exactly while a job of its is on its way.
TypeOK == /\ Exec!TypeOK
          /\ refs \in SUBSET Client
          /\ actor \in {"alive", "released", "deiniting", "gone"}
          /\ calls \in [Client -> 0..MaxCalls]
          /\ call \in [Client -> {"idle", "waiting", "answered"}]
          /\ op \in [Client -> Op]
          /\ answer \in [Client -> Answers]
          /\ ran \in BOOLEAN
          /\ vm \in {"none", "live", "freed"}
          /\ vmThread \in Client \cup {ExecThread, NoThread}
          /\ env \in [Name -> Value \cup {Unbound}]
          /\ liveVM \in SUBSET (Client \cup {ExecThread})
          /\ trapped \in BOOLEAN
          /\ ran => pc = "job"

\* No precondition of JanetRuntime, JanetVM or ThreadExecutor ever fails: the
\* VM is created, used and freed on the executor's thread, and deinit runs
\* there, whoever drops the last reference.
NoTrap == ~trapped

\* The thread never exits with a live VM or the marker of one: janet_deinit
\* has run if janet_init has.
VMFreedBeforeExit == pc \in {"exit", "done"} => vm # "live" /\ liveVM = {}

\* The inductive invariant.  The executor lives while the actor does, and the
\* actor while somebody has a reference or waits for a call; the VM is the
\* executor's thread's and goes with the actor; and each job that is still to
\* run is the one its client waits for, or the deinit of a released actor.
ToRun == submitted \ (finished \cup IF ran THEN {job} ELSE {})
Lifetimes == /\ actor = "alive" <=> refs # {}
             /\ holders = IF actor = "gone" THEN {} ELSE {Actor}
             /\ \A c \in Client : call[c] = "waiting" => c \in refs
VMOnItsThread == /\ vm = "none" => liveVM = {}
                 /\ vm = "live" => liveVM = {ExecThread} /\ vmThread = ExecThread /\ actor # "gone"
                 /\ vm = "freed" => liveVM = {} /\ actor = "gone"
JobsAreAwaited == /\ Deinit \in ToRun => actor = "deiniting"
                  /\ \A c \in Client, k \in 1..MaxCalls :
                        /\ <<c, k>> \in ToRun => call[c] = "waiting" /\ calls[c] = k
                        /\ ran /\ job = <<c, k>> => call[c] = "answered"
IInv == TypeOK /\ Lifetimes /\ VMOnItsThread /\ JobsAreAwaited /\ NoTrap

\* Every call comes back to the client that made it.
EveryCallReturns == \A c \in Client : call[c] = "waiting" ~> call[c] = "idle"

\* Dropping every reference frees the VM and ends the thread.
TornDown == refs = {} ~> pc = "done" /\ vm # "live"

\* Threads, jobs and the lazy VM together behave as one environment that every
\* call uses at one instant, and that outlives every reference to the runtime.
Abstract == INSTANCE AtomicRuntime
                WITH env <- IF vm = "live" THEN env ELSE CoreEnv

ImplementsAtomicRuntime == Abstract!Spec
=============================================================================
