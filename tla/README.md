# A TLA+ model of swift-janet

swift-janet embeds the Janet VM in Swift. The VM keeps its state in thread-local
variables, so the library's own work is to keep every VM on one thread, to tie its
life to Swift objects that may be released anywhere, and to copy values across the
boundary. The VM itself, one C file, is vendored: an event loop, a garbage collector,
hash tables, a parser, a PEG machine, a compiler and an interpreter. These modules model
the Swift side in full and most of the VM's own logic, check both with TLC on small
instances, and prove part of it with TLAPS for all instances.

`*.swift` paths are in `Sources/Janet/`, `janet.c` is `Sources/CJanet/janet.c`.

## The system

| Part | State | Operations | Talks to | Correct when |
|---|---|---|---|---|
| `ThreadExecutor` | job queue, stop flag, exit hook, owner thread; one `NSCondition` | `enqueue`, `onThreadExit`, `checkIsolated`, `deinit` → `stop`, the thread's `run` | Swift's runtime hands it jobs; each job retains it | jobs run in order, each once; no lost wakeup; stopped only when unreferenced; the newest hook runs at exit |
| `JanetRuntime` (actor) | the executor, a lazy `JanetVM` | `eval`, `define`, isolated `deinit` | its jobs run on its executor | the VM is used and freed on its thread; calls are linearizable and return |
| `MainJanetRuntime` | a `JanetVM`, `isEvaluating` | `eval`, `define`, `reset` | C functions may call back into it | no reset under a running eval; always resettable between calls |
| `JanetVM` | `env`, the creating thread, a marker per thread | `init`, `eval`, `define`, `reset`, `deinit` | Janet's C API | what passes the thread check is on its own VM; a failure is reported in its phase |
| `JanetValue` | none | copy out (`init(raw:)`), copy in (`makeRaw`) | Janet's containers | terminates; refuses exactly cycles and depth; values survive |
| Event loop (janet.c, ev) | spawn queue, timeouts, listeners, channels | `ev/give`, `take`, `select`, `close`, `go`, `cancel`, `sleep`, `deadline`, `janet_loop1` | fibers; other VMs through pipes | nobody waits for what is there; no wait is lost or outlives the loop |
| Data structures | ring buffer, timeout heap, tables, structs, symbol cache | push, pop, put, remove, next, intern | everything above | each is its abstraction, at its limits too |
| Garbage collector | blocks, roots, marks | mark, sweep, root, unroot | weak tables, the symbol cache | keeps what is reachable, only that |
| Parser, PEG | state stacks, captures | consume, produce, flush; compile, match, replace | | what is written is read; a grammar means what it says |
| Compiler and machine | scopes, registers, frames, environments | compile a form, verify, run | | code does what the form means |

What is hard: the executor's last reference goes on any thread, or inside one of its
own jobs; wakeups, stop and enqueue race; the main runtime is re-entered from callbacks;
fibers are woken through records that may be stale, and the only thing that tells is a
number; a channel between VMs cannot look at the other VM's fibers; a script fails after
it has suspended; containers are resized, wrap around and are walked while entries go;
registers are reused, captured and renumbered.

## Modules

| Module | Models |
|---|---|
| `SerialExecutor` | abstract: what a serial executor with a thread of its own promises |
| `ThreadExecutor` | `ThreadExecutor.swift`; implements `SerialExecutor` |
| `AtomicRuntime` | abstract: what a caller of a `JanetRuntime` is promised |
| `JanetRuntime` | `JanetRuntime.swift` and its `JanetVM`, composed with `ThreadExecutor`; implements `AtomicRuntime` |
| `MainJanetRuntime` | `MainJanetRuntime.swift` with `JanetVM.reset` |
| `JanetVM` | `JanetVM.swift` among threads that end and reuse handles |
| `JanetEval` | `JanetVM.eval` down to `janet_dobytes` with its loop, and `JanetError` |
| `ValueCopy` | `JanetValue.init(raw:)` with `CopyPath` |
| `ValueRoundTrip` | `makeRaw` and `init(raw:)`, one after the other |
| `EvLoop` | the event loop of one VM: tasks, timeouts, deadlines, channels |
| `ThreadChan` | a channel between VMs on threads of their own |
| `TimeoutHeap` | the binary heap of timeouts |
| `Deque`, `JanetQueue` | abstract double-ended queue; the ring buffer that implements it |
| `GC` | mark with its depth guard, sweep, weak containers, roots |
| `JanetTable`, `JanetStruct`, `SymCache` | open addressing with tombstones; sorted runs; the symbol cache |
| `Parser` | the push-down parser, byte by byte |
| `PegCode`, `PegMatch`, `Peg`, `PegMeaning` | compiling a grammar, the matching machine, peg/replace-all, and what a grammar means |
| `PegForms` | the grammars and texts that are matched |
| `Values`, `Emit`, `CompileScope`, `Compiler` | values and operators; registers and slots; scopes, names and clean-up of code; forms |
| `VM`, `Code` | the interpreter; a program compiled and run form by form |
| `Meaning` | what a form means, without registers or code |
| `MC...` | the instances TLC checks, see the runs |
| `...Proofs` | the theorems about the module in front of the word; `SwiftProofs` has those about `ValueCopy` and `MainJanetRuntime`, `StructureProofs` about `JanetQueue`, `TimeoutHeap` and `GC`, `HashProofs` about `JanetTable`, `JanetStruct` and `SymCache` |

Operators named `Something_Slip` (`Signal_Lost`, `TooDeep_OffByOne`, ...) are not part of
the models. Each is a variant of the operator defined after it, with a slip one could
make in that code; put in its place it makes a property of some run fail, which shows
that the property depends on that code.

### The Swift side

**ThreadExecutor.** State follows `SharedState` (60-65); `thread` is reduced to "run() has
begun" (`ThreadIsKnown`). `pc`, `batch`, `job` and `exitHook` are the locals of `run()`
(89-110). One action is one critical section, so `Start`, `EnterWait`,
`TakeBatch`/`LeaveLoop` are separate, a signal wakes the thread only if it is waiting
(`Signal`), and spurious wakeups are allowed. The comment at 57-59 makes a claim about
references, so the model keeps them: holders outside, one per queued job, and those of
the batch, which live until the `for` loop ends (`Retained`). Whoever drops the last one
runs `deinit`: on a client thread `Release`, then `ClientStop` when it gets the lock, with
other steps between; on the executor's thread `ReleaseBatch`, then `ThreadStop`.

**JanetRuntime.** Clients share references (`Share`, `Drop`), call (`Call`, `Return`) and may
let go of the actor while still on the executor's thread (`DropInJob`). A call is a job
`<<client, number>>`; `RunBody` runs it, creating the VM on first use. The isolated deinit
runs at once if the last reference goes on the executor's thread, else as one more job
(`DispatchDeinit`). A failed precondition sets `trapped`. A script is reduced to looking
up one name: what matters is which environment it sees. The dispatch of jobs is done by
Swift's concurrency runtime, modelled from how it is used and marked external.

**MainJanetRuntime.** One thread, so the interleaving is the call stack. Each eval is a frame
that runs Janet code or Swift code called from it. `Reset` raises the number of the VM;
returning into a frame with an older number sets `corrupt`.

**JanetVM.** Threads start, end when their function returns, and their `pthread_t` goes to a
later thread. The marker is a thread-specific value. A VM made by `JanetRuntime` is freed
before its thread ends; the guard of `ThreadEnds` says so, and without it the check of
`isOnOwnThread` would take another thread for its own.

**JanetEval.** Frames are the calls of `janet_dobytes` on the C stack, `run` the fibers. The
parser delivers at most one form per byte, so a form is one step. The outermost call
runs the loop; a nested one runs inside the fiber that called it. A yield of a form
counts as an error, as in the code; macro expansion runs with the collector locked and
is left out.

**ValueCopy.** `Init` chooses any heap over `Node`, restricted by what Janet guarantees (a
tuple or struct is complete before anything can refer to it). The recursion is a stack
of frames with a position in each container. Which heaps may be copied is stated
without the recursion: `NestsTooDeep` (a chain of containers from the root longer than
the limit; a cycle is a chain of any length).

**ValueRoundTrip.** A value is a tree of kinds, with a few atoms that the two sides compare
differently: composed and decomposed letters, bytes that are not UTF-8, nil, NaN. Of a
function only the name of its type comes out, so all functions come out equal.

### The VM

**EvLoop.** One thread runs everything, so each call of a fiber is one step. `ev` is a record
of fibers (status, `sched_id`, flags), the spawn queue and the channels; the phases of
`janet_loop1` (timers, tasks, poll) are actions. What a fiber runs is left open: any call,
and any way of giving the VM back that `janet_loop1` tells apart (`Await`, `Raise`,
`Interrupt`, `Finish`). After an event, a yield or an interrupt the fiber counts as suspended
(10525); `Settle` also tells the supervisor, if the fiber's mask has the signal (10534).
`awaits` (what may end a fiber's last wait) and `stray` (who was scheduled out of turn) are
history. `JanetQueue` and `TimeoutHeap` justify sequences and sets in place of the ring
buffers and the heap. Left out: waits inside `janet_call`, which turns the event into an error
after the wait has been registered; interrupts by other threads (`auto_suspend`); deadlines
on another fiber than the caller; ev/rselect's shuffle.

**ThreadChan.** Each operation on the channel is one step, under its lock; the message to
the other VM, and its handling, are others. A VM ends in two steps, so that messages
meet loops that have ended.

**JanetQueue, TimeoutHeap, JanetTable, JanetStruct, SymCache.** Arrays with the code's index
arithmetic; a hash is a constant function, chosen to collide and wrap. Indices are
unbounded, the capacities bounded.

**GC.** The program is stopped while it collects; marking takes one step per block, with the
work that lies beyond the recursion guard on the root array. Three blocks: one that leads
on, one with a prototype or child, one weak in its keys; any of them may be the prototype.

**Parser.** One step per byte, with produce, insert, flush and the end of the text between
any two. Numbers other than digits, the named constants and UTF-8 are left out.

**Peg.** Grammars of two levels built of every special, on short texts: the machine's
captures are compared with `PegMeaning`, which has no stack to cut back.

**Code.** Programs written as trees of forms are compiled (one step), then run one
instruction a step. `Means` compares with `Meaning`, which knows no registers. The model has
17 registers that eight bits can name, 12 of them free, so that a function of eleven
names has registers an operand cannot hold.

## What is checked

| Run | Instance | Shows |
|---|---|---|
| `ThreadExecutor` | 3 jobs, 2 holders, 2 hooks | `DeinitIsLast`, `NoLostWakeup`, `NothingDropped`, `ExitHookIsLatest`; implements `SerialExecutor`, fairness included; `EveryJobRuns`; `ThreadExits` |
| `JanetRuntime` | 2 clients, 2 calls each, 2 values | `NoTrap`: no precondition fails; `VMFreedBeforeExit`; implements `AtomicRuntime`; `EveryCallReturns`; `TornDown` |
| `MainJanetRuntime_safety` | evals 3 deep, 2 resets, 2 names | what the flag does guarantee; `ResettableBetweenCalls`; `EnvHoldsWhatWasDefined` |
| `MainJanetRuntime_reset` | the same | **violated** `NoResetUnderEval` |
| `ValueCopy_cycles` | every heap of 3 values with up to 2 children, limit 3 | `PathMatchesStack`, `CycleIsReal`, `RefusalIsJustified` |
| `ValueCopy_depth` | the same heaps, limit 2 | `NothingTooDeepGetsThrough`; `CopyEnds` on every heap |
| `EventLoop` | 3 fibers with different masks, a buffered and a bare channel, 4 calls; 3 tasks on 2 VMs, 4 calls | `WaitsAreSound`, `WokenForItsWait`, `EveryWaitEnds`, `SharedSound` |
| `Code` | about a thousand programs | `Means`, `Accepted`, `EnvFollowsFrame`, `Ends` |
| `Structures` | buffers of 9 cells, 6 timeouts, 3 blocks, 4 to 6 keys, structs of 6 puts with 2 values | `QueueSound` (implements `Deque`), `TimersInOrder`, `CollectsTheDead`, `TableIsDict`, `StructsCompare`, `SymbolsAreUnique` |
| `Text` | texts of 4 bytes of forms and of strings; values of two levels in several layouts; grammars of two levels | `ParserSound`, `ReadsWhatWasWritten`, `PegsMean` |
| `Boundary` | 3 threads with 2 handles; evals of 3 forms, 2 deep; values of two levels | `VMIsItsThreads`, `EvalReports`, `RoundTrips` |
| `Boundary_errors` | the same | **violated** `ErrorsAreThrown` |

`EventLoop`, `Structures`, `Text` and `Boundary` check several modules that share no state: a
variable `part` says which of them a behaviour is about, and the others stay as they
start.

Why these bounds are enough. The executor tells "queue empty" from "not empty" and
keeps an order: three jobs give a batch of two with another arriving behind it; two
holders are the least with a last and a not-last release. Two clients with two calls
each give overlapping calls, a call after the VM exists, and a last release before,
during and after another's call. Three nested evals give a frame with frames above and
below. Three values with two children give shared children, self-references, cycles of
each length up to three and two cycles through one container; with limit 3 no acyclic
heap is too deep, so that the order of the tests in `enter` decides, with limit 2 some are.
Four calls let a fiber wait, be cancelled or time out, and meet its own stale record, or
cancel itself, sleep, and meet that sleep's timeout in its next wait; two channels give
ev/select a choice, and values are offered to either. One mask hears of nothing but the end,
one is what ev/go gives a function, one hears of waits and yields. Nine cells let the ring buffer grow from nothing
twice and wrap; the hashes put keys at the end of the buckets, so that searches go
round. Two levels put every PEG rule and every special form inside every other.

Deadlock is checked unless the thing modelled may stop: `EventLoop`, `Structures`, `Text` and
`Boundary` say `CHECK_DEADLOCK FALSE`, because a loop that is done, a structure whose bounds
are used up and a text that is read to its end have no next step. The others stutter
explicitly (`Gone`, `Crashed`, `Stop`).

### Fairness

* `ThreadExecutor`, `JanetRuntime`: weak fairness of the executor's thread (the system
  schedules it, every job returns; a script that never ends does block its runtime), of
  a client inside `deinit`, and of the Swift runtime that resumes an answered caller and
  dispatches the deinit. None of clients, who may hold a reference for ever, nor of
  spurious wakeups.
* `EventLoop`: weak fairness of the loop's own steps (`janet_loop` is a `while`) and of some
  fiber's code ending or suspending; for VMs with a shared channel, that some loop turns
  and some task ends as long as one can.
* `Code`: the interpreter runs on. `ValueCopy_depth`: the recursion runs on.

Liveness is checked without symmetry.

## Where the code does not do what it says

Two divergences have a run that shows them.

* **`MainJanetRuntime_reset`.** `isEvaluating` is one Boolean, set on entry to `eval` and
  cleared by `defer` (`MainJanetRuntime.swift:18-19`). Eval → C function → Swift → eval
  returns and clears it → `reset()` passes its precondition (28) and frees the VM under
  the outer eval, which the comment at 25-26 and ADR-0005 rule out. A depth counter would
  keep the promise. `FlagHoldsUntilNestedEvalEnds` is what the flag does guarantee.
* **`Boundary_errors`.** A form that suspends and then fails in the loop: `janet_dobytes` has
  already left it, and `eval` returns the error's value, or nothing, and does not throw.

Others were met while translating the code. The modules say what the code does; the
formulas that would deny it are not checked, or the checked ones leave the case out.

Event loop and channels:

* janet.c:10107: a take schedules the writer it pops without comparing its `sched_id` (the
  reader side does, 10003): a writer that was cancelled or timed out meanwhile is resumed
  out of whatever it waits for now.
* 12371 and 9495: ev/cancel takes the running fiber too, although its docstring says
  "suspended". The fiber's number goes up before its next wait, so what that wait registers has
  the number of the task of the cancellation: a fiber that cancels itself, sleeps, catches
  the error and takes from a channel is resumed there by the old timeout. The same happens
  when a running fiber is scheduled by a record of its own.
  `OnlyStraysAreMisled` says that these two are the only ways: a fiber to which neither has
  happened is resumed by what it waits for.
* 10220: ev/select offers a value only where count < limit, so with a reader waiting on an
  unbuffered channel the second pass hands the value over and then waits, for ever if it has
  left no other record. `EventLoop` has such offers; `NoLostWakeup` is about the fibers that
  have registered for something (`awaits` is not empty).
* 10525: a root fiber that yields is counted in `listener_count` and is in no queue, so the loop
  waits for it, for ever if nobody cancels it. The same holds of (signal :await).
  `WaitingKeepsLoopAlive` says that it is counted and kept, not that the loop ends.
* 10536: `janet_loop1` pushes the supervisor's event outside any panic handler; a closed
  supervisor channel ends the process (`EvLoop!LoopSurvives` is false).
* 9961: a value handed to a reader of another VM that has stopped waiting is dropped when
  nobody else reads (`ThreadChan!GivenIsKept` is false), though ev/give has returned.

Collector and tables:

* 16654: a threaded abstract that is visited is not marked reachable, so it is dropped from
  every weak table at the next collection. `GC` can have them and the theorem covers them
  (`DropsOnlyDead` excepts them); the instance of the run has none.
* 16912: of two adjacent equal roots at the end `janet_gcunrootall` leaves one (`GC!UnrootAllLeavesNone` is false).
* 16927: the blocks of the weak heap are not freed with the VM (`GC!DeinitFreesAll` is false).
* 7904: after the collector has dropped the last key of a walk over a weak table, next may
  return keys again that were already seen. In `JanetTable` only tables that are not weak are
  walked.

Parser and PEG:

* 26237: `parser/flush` leaves the root's argument count, and does not clear an error.
* 26116: an insert while a comment is open at the top level is pushed unwrapped.
* 27989: a table grammar is cached before its main rule is known.
* 28316: `peg_unmarshal` compares a word with sign and byte order with the largest width.
* 27256: `RULE_LENPREFIX` returns before it puts the capture mode back.

Compiler:

* 8754: the index of a captured register above 255 does not fit the instruction. No program
  of the run captures one.
* 5166: with x = 1, (set x (+ 3 2 x)) is 10: the target of a sum is a name it still reads. The
  run's programs assign sums of other names only. For the default of get the compiler looks
  (`GetDefault`), and the programs have that case.
* 4163: GET_INDEX is taken out as if it could not raise an error.
* 30655: (def [a] [1 (print 2)]) prints nothing where its value is not used.
* 30454: the loop condition of [a & b] is lost when its register is above 255.
* 30720: a def in an upscope at the top leaves a local name, a var does not.

Boundary:

* 30153: the message of a compile or parse error is not rooted while `janet_loop` runs other
  fibers, which may collect it. No property covers it.
* A wait inside a nested eval is registered for the outer fiber (`janet_vm.root_fiber`, 12288
  and 9647): the nested form is never resumed and its eval returns nil.
* JanetValue.swift:96: of the entries of a VM's dictionary whose keys Swift takes for the
  same (arrays or tables with equal contents, text that is canonically equivalent or repaired
  alike, any two functions) one is left after the first eval. No property forbids it:
  `RoundTrips` says of values from the VM that this happens once, and that what has come out
  goes in and comes out unchanged.
* JanetValue+Raw.swift:37: entries with a nil key or value are dropped on the way in.
  `RoundTrips` allows these losses and no other for what was defined.
* Source text with a NUL is cut at it (`strlen`).


## What is proved

TLC's runs look at small instances; the theorems below hold for every value of the
constants. Their only assumptions are the named ones of the modules, which TLC evaluates
on every run. `IInv` is in each module the inductive invariant: what must be added to the
property so that a step from any state that satisfies it, reachable or not, keeps it.

| Module | Theorems | Argument |
|---|---|---|
| `ThreadExecutorProofs` | `DeinitIsLast`, `NoLostWakeup`, `NothingDropped`, `ExitHookIsLatest`, `RunsOnce`; implements the safety part of `SerialExecutor` | `Stages`: what each `pc` of the thread and each stage of the deinit imply of the others. Without it a state with the thread gone and the flag not set would be allowed. `RunsOnce`: submitted jobs are the queue, the batch from the present job on, and those that ran |
| `JanetRuntimeProofs` | `NoTrap`, `VMFreedBeforeExit`; implements `AtomicRuntime` | takes the executor's theorems by INSTANCE: a step of the runtime is a step of its executor or none. `ToRun`, `Lifetimes`, `VMOnItsThread`, `JobsAreAwaited` relate jobs still to run with callers that wait and with the VM |
| `SwiftProofs`, `MainInv` | `FlagHoldsUntilNestedEvalEnds`, `ResettableBetweenCalls`, `EnvHoldsWhatWasDefined` | the flag is down under a running eval only after a nested one (`FlagDownAfterNested`); a script runs on the live VM or after such a reset |
| `SwiftProofs`, `IInv` | `PathMatchesStack`, `CycleIsReal`, `NothingTooDeepGetsThrough`, `RefusalIsJustified` | the frames are a chain of containers (`FramesAreAChain`); what is copied fits under the limit. A cycle nests too deeply because one can go round for ever (`RoundForEver`) |
| `JanetVMProofs` | `VMIsItsThreads`, `EvalReports` | a marker is held by one live thread, and a VM by the thread whose marker it has; for the second, the last paragraph |
| `StructureProofs` | `QueueSound`, the refinement of `Deque` included; `TimersInOrder`, `CollectsTheDead` | the paragraphs on structures and the collector |
| `HashProofs` | `TableIsDict`, `StructsCompare`, `SymbolsAreUnique` | the paragraph on structures |
| `EvLoopProofs` | `WaitsAreSound`, `OnlyStraysAreMisled`; `SharedSound` and `WokenForItsWait` where they are checked | next two paragraphs |
| `ThreadChanProofs` | `SharedChannelSound`, `WokenByItsOwnWait` | the paragraph after them |

**The event loop.** A fiber that waits can be woken because a task, a timeout or a record
in a channel's queue carries its present `sched_id`. Dropping a stale record is safe only
if whoever raised the number left a task behind, so `IInv` adds `TasksEndLive` (after a
stale task comes a live one of the same fiber) and `TasksAreActive` (whoever has a task is
known to the collector). The lemmas go by operation (`Schedule`, push, pop, the clauses of
select, close, the new status after a task) and then one per action. `Fibers` is finite, as
`listeners` counts them; `SelectAssumption` is only that the menu holds clause lists that are
not empty. A fiber that waits for nothing (`awaits` is empty) is excepted from `NoLostWakeup`
alone: it is counted, kept by the collector, and keeps the loop alive like any other.

**What ends a wait.** `OnlyStraysAreMisled` needs more than `IInv`: `awaits` says what a fiber's
last wait may end with, and everything that could resume the fiber has to agree with it.
`WakesAreAsked` calls a record or a timeout with a number a claim on the fiber: no claim or
task has a number above the fiber's (so what is stale stays stale), a claim with the fiber's
own number is one `awaits` lists, and then the fiber neither runs nor has a live task; a
fiber has at most one live task, whose cause is in `awaits` too. All but the first is said of
the fibers that are not in `stray`, each by itself: what strays misleads only itself.
The operations are gone through once more, each for the claims it adds or drops: a wait adds
some for its own fiber after `Schedule` has made the older ones stale, and `Schedule` itself
makes every claim on its fiber stale, which is why a task and a claim exclude each other.

**The shared channel.** A record in a queue and an event in a pipe carry a number that may
be old. `RecordsAreOfWaits` says what they can be relied on for: if the number is the
fiber's, the fiber is in the wait they are of, which is `WokenByItsOwnWait`.
`WritersAreKnown` follows a writer from its record to the event made of it and back when the
event is sent on; with `QueuesMatch` (readers wait on an empty channel, and at least
`Limit` items and one for each record of a writer are there) this gives `RoomIsAnnounced`.
`InOnePlace` follows each value through channel, pipes and receivers, and holds of a pipe
whose head is just being handled, so a value that is sent on is in one place again.
`Assumptions` are that the fibers are finitely many, as a loop counts them, each has a VM,
and `None` is none of those. The theorem is about `ThreadChan` by itself; `SharedSoundHolds`
and `WokenForItsWaitHolds` carry it to `MCEventLoop`, whose steps are the channel's or leave
it alone.

**The forms of an eval.** `EvalInv` ties the stack of evals to the C stack of fibers: each
fiber on it is the last form of its eval, except one that the loop has resumed, and only
the outermost eval is ever in the loop. With `FormsApart` (no form is of two evals) a fiber
that ends changes what is told of one eval only, and since forms are numbered upwards none
but its last. `WaitersAreFound` and `LastFormLives` are what `NothingIsLeft` needs of the
states before the loop is done: a form that waits has a task or a wait, and the form whose
value is going to be the answer is a root or on the C stack whenever a collection runs. The
theorem is about `EvalSpec`, which is one of the three parts of `SpecAny` in `MCBoundary`.

**Arrays that stand for something else.** In each of these the code has a loop over an array,
which the model has as a function of the round. What a loop computes is not proved by an
induction over it for each property: `RunExists` and `RunStays` say once that a run of steps
that stay within a set stays there to its end, and each structure states the set.

* *Ring buffer*: `TypeOK` with `NoJunk`; the contents as a sequence, through growth and wrap.
* *Timeouts* (`TimeoutInv`): no parent is later than its child, and names are distinct.
  While an element moves, the order holds except between it and its parent (`AlmostUp`) or its
  children (`AlmostDown`), and the rounds are enough because the index halves or doubles. The
  parent of the moving element is compared with its grandchildren as well; without that the
  order could not be restored behind it. Queues of any length, any times.
* *Tables* (`TableInv`): the buckets hold the entries of what was put (`PutEntries`), each
  reached by its key's search before any empty bucket (`Reached`), each in one bucket, and
  half of the buckets are empty. A tombstone keeps the entries behind it reachable, which an
  emptied bucket would not; rehashing puts the entries one by one into a table that has only
  the earlier ones. A walk has seen the keys up to the bucket of its last one (`IsWalk`), so
  it ends with all of them. `TableAssumption`: finitely many keys, twice as many fit an
  `int32_t`, which `janet_tablen` needs, and hashes are not negative.
* *Structs* (`StructInv`): what lies between a key's home and its bucket is full and goes
  before the key (`RunsAreSorted`); a put keeps that while it carries a key on (`OnTheWay`).
  With an empty bucket it leaves one arrangement of the entries (`SameEntriesAreSame`): if keys
  were farther from home in one of two arrangements, take the first of them, counted from an
  empty bucket; the key that now has its bucket goes before it, so it cannot have been as far
  from home in the other arrangement, and would be an earlier one. So neither the order of the
  puts matters, nor repetitions, nor that `janet_struct_end` rebuilds a struct with room left
  over. `StructAssumption`: twice the entries fit an `int32_t`, and `janet_compare` takes no two
  different keys for equal.
* *Symbols* (`SymbolInv`): the same, with one difference the code's counts make interesting.
  A search may move a symbol into a tombstone before it and `janet_symcache_put` may fill one
  without counting, so `cache_deleted` is not the number of tombstones. What holds is that no
  more buckets are in use than `cache_count + cache_deleted`, and that this is at most half
  of the buckets and one (`CacheInv`): so an empty bucket ends every search.

**The collector.** `MarksOnlyReachable` and `ForgetsNothing` are the two halves of a marking:
what is marked or still to be marked (`Pending`: on the stack, among the roots not yet
visited, or put off to the root array by the depth guard) is in every set that is closed under
strong references and has the roots, and what a marked block refers to is marked or pending.
When nothing is pending they give `MarksWhatIsReachable`. `Reachable` is the least closed set,
not a computation. The sweeps go over the weak blocks, the others and the threaded abstracts
in turn, and `SweepKeeps` says that what is going to be left when they are done (`Survivors`)
is allocated and refers only to itself. It holds for any graph, any depth of the guard and
any number of roots; `GCAssumption` is that each block is of a kind and `NoProto` is no block.

## What is only model-checked

* Liveness: `EveryJobRuns`, `ThreadExits`, `EveryWaitEnds`, `Ends`, and the liveness halves of
  `ImplementsSerialExecutor` and of the runtime's promises. The prover does not do fairness
  or ENABLED. What is proved of those refinements is the safety part.
* What recursive definitions compute: `Means`, `Accepted`, `EnvFollowsFrame` (compiler and
  interpreter), `PegsMean`, `ParserSound`, `ReadsWhatWasWritten`, `RoundTrips`. That needs
  induction over forms, grammars and values, or a module with RECURSIVE operators, neither of
  which the prover has.

## Not modelled

Fibers and the stack as such (`VM` has one stack per program), marshalling and the assembler,
strings, buffers and their formatting, numbers beyond those that matter to a branch, the FFI,
files, processes and sockets, the debugger and source maps, the C API of `janet.h` apart from
what the Swift side calls, thread names, the texts of messages; the tests, benchmarks and
build scripts.

## What is left

Modules for `Fibers` (resume, cancel, propagate, the stack's frames) and `Marshal`.
