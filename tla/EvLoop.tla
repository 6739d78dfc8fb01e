------------------------------- MODULE EvLoop -------------------------------
(***************************************************************************)
(* The event loop of one Janet VM (src/Sources/CJanet/janet.c, "ev.c"):    *)
(* root fibers, the queue of scheduled tasks, the timeouts, and channels   *)
(* that are not shared between threads.                                    *)
(*                                                                         *)
(* One thread runs everything, so every call a fiber makes is one step.    *)
(* Who may wake whom is decided by numbers alone: each fiber has a         *)
(* sched_id, bumped whenever it is scheduled, and a task, a timeout or a   *)
(* place in a channel's queue counts only while its number is the fiber's. *)
(*                                                                         *)
(* What a fiber runs is left open: the fiber that has the VM makes any     *)
(* calls, MaxCalls of them in all.  A value given to a channel is the      *)
(* number of the call that gave it.  A panic that a script catches leaves  *)
(* its fiber running with nothing changed.  The spawn queue, the queues of *)
(* the channels and the timeout heap are sequences and sets here;          *)
(* JanetQueue and TimeoutHeap say why they may be.                         *)
(*                                                                         *)
(* Left out: waits inside janet_call, which turns the event into an error  *)
(* after the wait has been registered; interrupts by other threads; and    *)
(* deadlines on another fiber than the caller.                             *)
(***************************************************************************)
EXTENDS Integers, Sequences, FiniteSets

CONSTANTS Fibers,      \* root fibers
          Main,        \* the one scheduled when the loop starts
          Channels,
          Limit,       \* capacity of each channel
          Supervisor,  \* supervisor channel of the fibers ev/go starts, or none
          Mask,        \* which signals of each fiber its supervisor hears of
          SelectMenu,  \* argument lists ev/select is called with, see below
          MaxCalls,    \* bound on calls, in all
          MaxTime,     \* bound on the clock
          None

ASSUME EvAssumption ==
  /\ Main \in Fibers /\ IsFiniteSet(Fibers) /\ None \notin Fibers \cup Channels
  /\ Limit \in [Channels -> Nat]
  /\ Supervisor \in Channels \cup {None}
  /\ Mask \in [Fibers -> SUBSET {"error", "debug", "yield", "interrupt", "event"}]
  /\ MaxCalls \in Nat /\ MaxTime \in Nat

ASSUME SelectAssumption ==
  SelectMenu \subseteq Seq([op : {"give", "take"}, chan : Channels]) \ {<<>>}

VARIABLES ev,        \* fibers, spawn queue and channels, see Init
          timeouts,  \* timeouts of the VM
          listeners, \* listener_count
          phase,     \* where janet_loop1 is
          running,   \* the fiber that has the VM, or None
          now, calls,
          awaits     \* history: what may end the last wait of each fiber

vars == <<ev, timeouts, listeners, phase, running, now, calls, awaits>>

Resumable(f) == ev.fiber[f].status \notin {"dead", "error"}
Live(w, r) == r.id = w.fiber[r.fiber].id

-----------------------------------------------------------------------------
(* Scheduling.  w is a value of ev; a cause says what a task resumes with.   *)

Cause(kind, c, x) == [kind |-> kind, chan |-> c, value |-> x]

Enqueue(w, f, cause, sig) ==
  IF w.fiber[f].canceled THEN w
  ELSE LET id == w.fiber[f].id + 1
       IN [w EXCEPT !.fiber[f] = [@ EXCEPT !.id = id, !.canceled = (sig = "error"), !.isTask = TRUE],
                    !.active = IF w.fiber[f].isTask THEN @ ELSE @ \cup {f},
                    !.spawn = Append(@, [fiber |-> f, cause |-> cause, sig |-> sig, id |-> id])]

(* The history remembers who was scheduled while it ran.                     *)
Astray(w, f) == [w EXCEPT !.stray = @ \cup {f}]

Schedule(w, f, cause, sig) ==
  Enqueue(IF w.fiber[f].status = "alive" THEN Astray(w, f) ELSE w, f, cause, sig)

-----------------------------------------------------------------------------
(* Channels.  mode is "plain", "choice" (ev/select) or "event" (the loop).   *)

Pending(w, f) == [fiber |-> f, id |-> w.fiber[f].id]

Overfull(w, c) == Len(w.chan[c].items) >= Limit[c]

\* Mutant: a reader's sched_id is not checked.
LiveReaders_Any(w, c) == DOMAIN w.chan[c].readers

LiveReaders(w, c) == {i \in DOMAIN w.chan[c].readers : Live(w, w.chan[c].readers[i])}

PushBlocks(w, c) == LiveReaders(w, c) = {} /\ Overfull(w, c)

Push(w, f, c, x, mode) ==
  LET live == LiveReaders(w, c)
      ch   == w.chan[c]
  IN IF live = {}
     THEN [w EXCEPT !.chan[c] = [ch EXCEPT !.readers = <<>>, !.items = Append(ch.items, x),
                                           !.writers = IF Overfull(w, c) /\ mode # "event"
                                                       THEN Append(ch.writers, Pending(w, f)) ELSE ch.writers]]
     ELSE LET i == CHOOSE i \in live : \A j \in live : i <= j
          IN Schedule([w EXCEPT !.chan[c] = [ch EXCEPT !.readers = SubSeq(ch.readers, i + 1, Len(ch.readers))]],
                      ch.readers[i].fiber, Cause("take", c, x), "ok")

PopBlocks(w, c) == ~w.chan[c].closed /\ w.chan[c].items = <<>>

PopResult(w, c) == IF w.chan[c].closed THEN Cause("close", c, 0)
                   ELSE Cause("take", c, Head(w.chan[c].items))

Pop(w, f, c) ==
  LET ch == w.chan[c]
  IN CASE ch.closed -> w
       [] ~ch.closed /\ ch.items = <<>> ->
            [w EXCEPT !.chan[c] = [ch EXCEPT !.readers = Append(ch.readers, Pending(w, f))]]
       [] OTHER ->
            IF ch.writers = <<>> THEN [w EXCEPT !.chan[c] = [ch EXCEPT !.items = Tail(ch.items)]]
            ELSE LET r == Head(ch.writers)
                     v == [w EXCEPT !.chan[c] = [ch EXCEPT !.items = Tail(ch.items), !.writers = Tail(ch.writers)]]
                 IN Schedule(IF Live(w, r) THEN v ELSE Astray(v, r.fiber), r.fiber, Cause("give", c, 0), "ok")

(* ev/select: the first clause that is ready wins, else all of them wait.    *)
ClauseReady(w, cl) ==
  \/ w.chan[cl.chan].closed
  \/ IF cl.op = "give" THEN Len(w.chan[cl.chan].items) < Limit[cl.chan]
                       ELSE w.chan[cl.chan].items # <<>>

DoClause(w, f, cl, x) == IF w.chan[cl.chan].closed THEN w
                         ELSE IF cl.op = "give" THEN Push(w, f, cl.chan, x, "choice")
                         ELSE Pop(w, f, cl.chan)

SelectReady(w, f, clauses, x) ==
  LET ready == {i \in DOMAIN clauses : ClauseReady(w, clauses[i])}
      first == CHOOSE i \in ready : \A j \in ready : i <= j
  IN DoClause(w, f, clauses[first], x)

\* The second pass, clause by clause.
SelectPass(w, f, clauses, x) ==
  LET after[i \in 0 .. Len(clauses)] == IF i = 0 THEN w ELSE DoClause(after[i - 1], f, clauses[i], x)
  IN after

SelectWaits(w, f, clauses, x) == SelectPass(w, f, clauses, x)[Len(clauses)]

(* Not every clause leaves a record: an offer to an unbuffered channel is    *)
(* taken at once when a reader waits there, and the caller waits all the     *)
(* same.                                                                     *)
Registers(w, cl) ==
  ~w.chan[cl.chan].closed /\ IF cl.op = "give" THEN PushBlocks(w, cl.chan) ELSE PopBlocks(w, cl.chan)

SelectAwaits(w, f, clauses, x) ==
  UNION {{<<clauses[i].op, clauses[i].chan>>, <<"close", clauses[i].chan>>} :
           i \in {i \in DOMAIN clauses : Registers(SelectPass(w, f, clauses, x)[i - 1], clauses[i])}}

\* Mutant: a closed channel drops its waiting fibers.
CloseRecord_Dropped(w, c, r) == w

CloseRecord(w, c, r) ==
  IF Live(w, r) /\ w.fiber[r.fiber].status \notin {"dead", "error"}
  THEN Schedule(w, r.fiber, Cause("close", c, 0), "ok") ELSE w

Closed(w, c) == [w EXCEPT !.chan[c] = [@ EXCEPT !.closed = TRUE, !.readers = <<>>, !.writers = <<>>]]

CloseRecords(w, c, rs) ==
  LET after[i \in 0 .. Len(rs)] == IF i = 0 THEN w ELSE CloseRecord(after[i - 1], c, rs[i])
  IN after[Len(rs)]

CloseChan(w, c) ==
  IF w.chan[c].closed THEN w
  ELSE CloseRecords(Closed(w, c), c, w.chan[c].writers \o w.chan[c].readers)

-----------------------------------------------------------------------------
(* A fiber gives the VM back: with a signal after which the loop takes it    *)
(* for suspended, or for good.  "ok" ends a fiber, "error" stands for every  *)
(* other signal that does (:user0 to :user4).                                *)

Suspends == {"event", "yield", "interrupt"}

StatusAfter(sig) ==
  CASE sig = "event" -> "suspended" [] sig = "yield" -> "pending" [] sig = "interrupt" -> "interrupted"
    [] sig = "debug" -> "debug" [] sig = "ok" -> "dead" [] OTHER -> "error"

Tells(w, f, sig) == w.fiber[f].supervisor # None /\ (sig = "ok" \/ sig \in Mask[f])

Settle(w, f, sig) ==
  LET w1 == [w EXCEPT !.fiber[f] = [@ EXCEPT !.status = StatusAfter(sig), !.suspended = (sig \in Suspends)],
                      !.active = IF StatusAfter(sig) \in {"dead", "error"} THEN @ \ {f} ELSE @]
      sv == w.fiber[f].supervisor
  IN IF Tells(w, f, sig) /\ ~w.chan[sv].closed THEN Push(w1, f, sv, 0, "event") ELSE w1

(* Pushing to a closed channel panics, and outside any fiber that ends the   *)
(* process.                                                                  *)
PanicsAtTop(w, f, sig) == Tells(w, f, sig) /\ w.chan[w.fiber[f].supervisor].closed

\* w is what the calls of f have made of ev.
Leaves(w, f, sig, causes) ==
  /\ listeners' = listeners + (IF sig \in Suspends THEN 1 ELSE 0)
  /\ awaits' = [awaits EXCEPT ![f] = causes]
  /\ running' = None
  /\ phase' = IF PanicsAtTop(w, f, sig) THEN "exited" ELSE phase
  /\ ev' = Settle(w, f, sig)
  /\ UNCHANGED now

Await(w, f, causes) == Leaves(w, f, "event", causes)

Returns(w) == ev' = w /\ UNCHANGED <<timeouts, listeners, phase, running, now, awaits>>

Call(f) == phase = "tasks" /\ running = f /\ f # None /\ calls < MaxCalls /\ calls' = calls + 1

-----------------------------------------------------------------------------
(* The calls of a running fiber.                                             *)

Give(f, c) ==
  /\ Call(f) /\ ~ev.chan[c].closed
  /\ LET w == Push(ev, f, c, calls + 1, "plain")
     IN IF PushBlocks(ev, c)
        THEN Await(w, f, {<<"give", c>>, <<"close", c>>}) /\ UNCHANGED timeouts
        ELSE Returns(w)

Take(f, c) ==
  /\ Call(f)
  /\ LET w == Pop(ev, f, c)
     IN IF PopBlocks(ev, c)
        THEN Await(w, f, {<<"take", c>>, <<"close", c>>})
        ELSE Await(Enqueue(w, f, PopResult(ev, c), "ok"), f, {<<PopResult(ev, c).kind, c>>})
  /\ UNCHANGED timeouts

Select(f, clauses) ==
  /\ Call(f)
  /\ IF \E i \in DOMAIN clauses : ClauseReady(ev, clauses[i])
     THEN Returns(SelectReady(ev, f, clauses, calls + 1))
     ELSE /\ Await(SelectWaits(ev, f, clauses, calls + 1), f, SelectAwaits(ev, f, clauses, calls + 1))
          /\ UNCHANGED timeouts

Close(f, c) == Call(f) /\ ~ev.chan[c].closed /\ Returns(CloseChan(ev, c))

Go(f, g) ==
  /\ Call(f) /\ ev.fiber[g].status = "new"
  /\ Returns(Schedule([ev EXCEPT !.fiber[g].supervisor = Supervisor], g, Cause("go", None, 0), "ok"))

(* Any task, suspended or not: the caller too.                               *)
Cancel(f, g) ==
  /\ Call(f) /\ ev.fiber[g].isTask
  /\ Returns(Schedule(ev, g, Cause("cancel", None, 0), "error"))

Timeout(f, sec, check, isError) ==
  [when |-> now + sec, fiber |-> f, check |-> check, isError |-> isError,
   id |-> ev.fiber[f].id, no |-> calls]

Sleep(f, sec) ==
  /\ Call(f)
  /\ timeouts' = timeouts \cup {Timeout(f, sec, None, FALSE)}
  /\ Await(ev, f, {<<"time", None>>})

(* ev/deadline: cancel f unless check has finished by then.                  *)
Deadline(f, sec) ==
  /\ Call(f)
  /\ timeouts' = timeouts \cup {Timeout(f, sec, f, FALSE)}
  /\ ev' = ev /\ UNCHANGED <<listeners, phase, running, now, awaits>>

(* The signals a script raises itself, with (yield), (signal :await) and     *)
(* (debug): nothing is registered that would end the wait.                   *)
Raise(f, sig) == Call(f) /\ Leaves(ev, f, sig, {}) /\ UNCHANGED timeouts

(* (signal :interrupt): janet_loop schedules the fiber it gets back.         *)
Interrupt(f) ==
  /\ Call(f)
  /\ ev' = Schedule(Settle(ev, f, "interrupt"), f, Cause("interrupt", None, 0), "ok")
  /\ listeners' = listeners + 1
  /\ awaits' = [awaits EXCEPT ![f] = {}]
  /\ running' = None
  /\ phase' = IF PanicsAtTop(ev, f, "interrupt") THEN "exited" ELSE "timers"
  /\ UNCHANGED <<timeouts, now>>

Finish(f, sig) ==
  /\ phase = "tasks" /\ running = f /\ f # None
  /\ Leaves(ev, f, sig, {})
  /\ UNCHANGED <<timeouts, calls>>

-----------------------------------------------------------------------------
(* One turn of the loop: janet_loop1.                                        *)

Earliest(t) == t \in timeouts /\ \A u \in timeouts : t.when <= u.when

ExpireTimeout ==
  /\ phase = "timers"
  /\ \E t \in timeouts :
       /\ Earliest(t) /\ t.when <= now
       /\ timeouts' = timeouts \ {t}
       /\ ev' = IF t.check # None
                THEN IF Resumable(t.check) THEN Schedule(ev, t.fiber, Cause("deadline", None, 0), "error") ELSE ev
                ELSE IF ~Live(ev, t) THEN ev
                ELSE IF t.isError THEN Schedule(ev, t.fiber, Cause("timeout", None, 0), "error")
                ELSE Schedule(ev, t.fiber, Cause("time", None, 0), "ok")
  /\ UNCHANGED <<listeners, phase, running, now, calls, awaits>>

TimersDone ==
  /\ phase = "timers" /\ ~\E t \in timeouts : t.when <= now
  /\ phase' = "tasks"
  /\ UNCHANGED <<ev, timeouts, listeners, running, now, calls, awaits>>

Unsuspended(w, f) == [w EXCEPT !.fiber[f] = [@ EXCEPT !.canceled = FALSE, !.suspended = FALSE]]

RunTask ==
  /\ phase = "tasks" /\ running = None /\ ev.spawn # <<>>
  /\ LET t == Head(ev.spawn)
         f == t.fiber
         w == Unsuspended([ev EXCEPT !.spawn = Tail(@)], f)
     IN /\ listeners' = listeners - (IF ev.fiber[f].suspended THEN 1 ELSE 0)
        /\ CASE ~Live(ev, t) -> ev' = w /\ UNCHANGED <<running, phase>>
             [] Live(ev, t) /\ Resumable(f) ->
                  ev' = [w EXCEPT !.fiber[f].status = "alive"] /\ running' = f /\ UNCHANGED phase
             [] OTHER ->   \* cannot be resumed: an error, reported as the task's own
                  /\ ev' = [Settle(w, f, "error") EXCEPT !.fiber[f].status = ev.fiber[f].status]
                  /\ phase' = IF PanicsAtTop(ev, f, "error") THEN "exited" ELSE phase
                  /\ UNCHANGED running
  /\ UNCHANGED <<timeouts, now, calls, awaits>>

\* Mutant: a timeout whose fiber has run since it was set is kept, and one that
\* is still waited for is dropped.
NeededTimeouts_Swapped == {t \in timeouts : IF t.check # None THEN Resumable(t.check) ELSE ~Live(ev, t)}

NeededTimeouts == {t \in timeouts : IF t.check # None THEN Resumable(t.check) ELSE Live(ev, t)}

(* The queue is empty: drop the timeouts in front that nobody needs, then    *)
(* wait for the next, or end the loop when nothing is waited for.  With no   *)
(* timeout left the poll lasts for ever: no other event source is modelled.  *)
Poll ==
  /\ phase = "tasks" /\ running = None /\ ev.spawn = <<>>
  /\ LET kept == {t \in timeouts : \E u \in NeededTimeouts : u.when <= t.when}
         next == {t.when : t \in {u \in kept : \A v \in kept : u.when <= v.when}}
     IN /\ timeouts' \in {kept \cup late : late \in SUBSET {t \in timeouts \ NeededTimeouts :
                                                   kept # {} /\ \A w \in next : t.when = w}}
        /\ IF timeouts' = {} /\ listeners = 0
           THEN phase' = "done" /\ UNCHANGED now
           ELSE /\ kept # {}
                /\ \E w \in next : now' \in (IF w > now THEN w ELSE now) .. MaxTime
                /\ phase' = "timers"
  /\ UNCHANGED <<ev, listeners, running, calls, awaits>>

-----------------------------------------------------------------------------
InitAt(start) ==
  /\ ev = Schedule([fiber |-> [f \in Fibers |-> [status |-> "new", id |-> 0, canceled |-> FALSE,
                                  suspended |-> FALSE, isTask |-> FALSE, supervisor |-> None]],
                    active |-> {},
                    stray |-> {},   \* history: who was scheduled out of turn
                    spawn |-> <<>>,
                    chan |-> [c \in Channels |-> [items |-> <<>>, readers |-> <<>>,
                                                  writers |-> <<>>, closed |-> FALSE]]],
                   Main, Cause("go", None, 0), "ok")
  /\ timeouts = {} /\ listeners = 0 /\ phase = start /\ running = None
  /\ now = 0 /\ calls = 0
  /\ awaits = [f \in Fibers |-> {<<"go", None>>}]
Init == InitAt("timers")

FiberStep(f) ==
  \/ \E c \in Channels : Give(f, c) \/ Take(f, c) \/ Close(f, c)
  \/ \E clauses \in SelectMenu : Select(f, clauses)
  \/ \E g \in Fibers : Go(f, g) \/ Cancel(f, g)
  \/ \E sec \in 0 .. MaxTime - now : Sleep(f, sec) \/ Deadline(f, sec)
  \/ \E sig \in {"event", "yield", "debug"} : Raise(f, sig)
  \/ Interrupt(f)
  \/ \E sig \in {"ok", "error"} : Finish(f, sig)

LoopStep == ExpireTimeout \/ TimersDone \/ RunTask \/ Poll

Next == (\E f \in Fibers : FiberStep(f)) \/ LoopStep

Spec == Init /\ [][Next]_vars

(* A fiber's code ends (or suspends before that), and the loop keeps turning.*)
Ends == \E f \in Fibers, sig \in {"ok", "error"} : Finish(f, sig)
Fairness == WF_vars(LoopStep) /\ WF_vars(Ends)
FairSpec == Spec /\ Fairness

-----------------------------------------------------------------------------
(* Types.                                                                    *)
Records == [fiber : Fibers, id : Nat]
Kinds == {"go", "give", "take", "close", "time", "timeout", "deadline", "cancel", "interrupt"}
Causes == [kind : Kinds, chan : Channels \cup {None}, value : Nat]
Reasons == Kinds \X (Channels \cup {None})
FiberStates == [status : {"new", "alive", "suspended", "pending", "interrupted", "debug", "dead", "error"},
                id : Nat, canceled : BOOLEAN, suspended : BOOLEAN, isTask : BOOLEAN, supervisor : Channels \cup {None}]
Tasks == [fiber : Fibers, cause : Causes, sig : {"ok", "error"}, id : Nat]
ChannelStates == [items : Seq(Nat), readers : Seq(Records), writers : Seq(Records), closed : BOOLEAN]
Ev == [fiber : [Fibers -> FiberStates], active : SUBSET Fibers, stray : SUBSET Fibers,
       spawn : Seq(Tasks), chan : [Channels -> ChannelStates]]
Timeouts == [when : Nat, fiber : Fibers, check : Fibers \cup {None}, isError : BOOLEAN, id : Nat, no : Nat]

TypeOK ==
  /\ ev \in Ev
  /\ \A t \in timeouts : t \in Timeouts
  /\ listeners \in Nat /\ now \in 0 .. MaxTime /\ calls \in 0 .. MaxCalls
  /\ phase \in {"timers", "tasks", "done", "exited"}
  /\ awaits \in [Fibers -> SUBSET Reasons]
  /\ running \in Fibers \cup {None}
  /\ running # None => LET f == ev.fiber[running] IN f.status = "alive" /\ ~f.suspended /\ f.isTask

(* In what follows w is a value of ev.                                       *)
HasTask(w, f) == \E i \in DOMAIN w.spawn : w.spawn[i].fiber = f /\ Live(w, w.spawn[i])
InQueue(w, f, q) == \E i \in DOMAIN q : q[i].fiber = f /\ Live(w, q[i])
Sleeps(w, ts, f) == \E t \in ts : t.fiber = f /\ t.check = None /\ Live(w, t)
Queued(w, f) == \E c \in Channels : InQueue(w, f, w.chan[c].readers) \/ InQueue(w, f, w.chan[c].writers)
CanBeWoken(w, ts, f) == HasTask(w, f) \/ Sleeps(w, ts, f) \/ Queued(w, f)

Waits(w, f) == w.fiber[f].status \in {"suspended", "pending", "interrupted"}

(* A fiber that waits for something is where a wakeup can find it, under its *)
(* present sched_id: in the spawn queue, among the timeouts, or in the queue *)
(* of a channel.  (janet_schedule_general bumps the id, and every record     *)
(* that is dropped as stale must have been replaced.)  A fiber that yielded, *)
(* or whose ev/select left no record, waits for nothing.                     *)
NoLostWakeup ==
  \A f \in Fibers : ev.fiber[f].status = "suspended" /\ awaits[f] # {} => CanBeWoken(ev, timeouts, f)

(* The loop does not end, and the collector does not free a task, while it   *)
(* waits: a suspended fiber is an active task and counts as a listener until *)
(* a task for it is in the queue (the flag is cleared even by stale tasks).  *)
WaitingKeepsLoopAlive ==
  /\ listeners = Cardinality({f \in Fibers : ev.fiber[f].suspended})
  /\ \A f \in Fibers : Waits(ev, f) => f \in ev.active /\ (ev.fiber[f].suspended \/ HasTask(ev, f))
  /\ phase = "done" => \A f \in Fibers : ~Waits(ev, f)

(* Nobody waits for what is there: readers wait only on an empty channel,    *)
(* and writers only while the channel holds more than its limit.             *)
NoWaitWithoutReason(w) ==
  \A c \in Channels : LET ch == w.chan[c] IN
    /\ ch.readers # <<>> => ch.items = <<>>
    /\ ch.writers # <<>> => Len(ch.items) >= Limit[c] + Len(ch.writers)
    /\ ch.closed => ch.readers = <<>> /\ ch.writers = <<>>

Wakes == RunTask /\ running' # None
Woken == Head(ev.spawn)
Unasked == {"go", "cancel", "deadline", "timeout", "interrupt"}

(* A fiber that is resumed, other than by a cancellation, was waiting for    *)
(* just that.  ev/take, ev/select, ev/sleep and ev/deadline all rest on it:  *)
(* "ev/sleep suspends the current fiber for sec seconds".                    *)
AwaitedWake == Wakes => \/ Woken.cause.kind \in Unasked
                        \/ <<Woken.cause.kind, Woken.cause.chan>> \in awaits[running']

(* The code breaks it in two ways, and a fiber is stray after either.        *)
(* janet_channel_pop_with_lock schedules the writer it pops without looking  *)
(* at its sched_id.  And a fiber that is scheduled while it runs (it cancels *)
(* itself, or meets a record of its own) has its number bumped: what it then *)
(* waits for bears the number of the task that is already in the queue, and  *)
(* outlives the wait that task ends.                                         *)
(* For every other fiber each wakeup is the right one: the checks of         *)
(* janet_channel_push_with_lock, ev/chan-close and janet_loop1 reject        *)
(* whatever a cancelled, timed out or answered wait has left behind.         *)
OnlyStraysAreMisled == [][running' \notin ev.stray => AwaitedWake]_vars

(* A cancellation is not overtaken: as long as the fiber carries the         *)
(* CANCELED flag its live task is the one that raises the error, even when a *)
(* writer's record is stale (janet_schedule_general returns early).          *)
CancelIsKept(w) ==
  \A f \in Fibers : w.fiber[f].canceled =>
    \E i \in DOMAIN w.spawn : w.spawn[i].fiber = f /\ Live(w, w.spawn[i]) /\ w.spawn[i].sig = "error"

(* A task that finishes does not take the process with it: its event is      *)
(* pushed to the supervisor channel, whatever has become of that channel.    *)
LoopSurvives == phase # "exited"

(* Whoever waits can be found, waits for something that is not there yet,    *)
(* keeps the loop going, and if it was cancelled hears of that and of        *)
(* nothing else.                                                             *)
WaitsAreSound == TypeOK /\ NoLostWakeup /\ NoWaitWithoutReason(ev) /\ CancelIsKept(ev) /\ WaitingKeepsLoopAlive

(* What makes it inductive: a stale task is followed by a live one for the   *)
(* same fiber, and whoever has a task and has not ended is an active task.   *)
TasksEndLive(w) ==
  \A i \in DOMAIN w.spawn : \E j \in DOMAIN w.spawn :
    i <= j /\ w.spawn[j].fiber = w.spawn[i].fiber /\ Live(w, w.spawn[j])
TasksAreActive(w) ==
  /\ \A i \in DOMAIN w.spawn : w.fiber[w.spawn[i].fiber].isTask
  /\ \A f \in Fibers : w.fiber[f].isTask => f \in w.active \/ w.fiber[f].status \in {"dead", "error"}
IInv == WaitsAreSound /\ TasksEndLive(ev) /\ TasksAreActive(ev)

(* Wakeups arrive: a fiber that can be resumed and has tasks in the queue     *)
(* gets the VM for the last of them, and one that waits for a timeout gets   *)
(* it when the timeout is due.                                               *)
Expects(f) ==
  \/ \E i \in DOMAIN ev.spawn : ev.spawn[i].fiber = f
  \/ Sleeps(ev, timeouts, f)
WakeupsArrive == \A f \in Fibers : Resumable(f) /\ Expects(f) ~> (running = f \/ phase = "exited")
=============================================================================
