----------------------------- MODULE ThreadChan -----------------------------
(***************************************************************************)
(* A channel shared by several VMs, each on a thread of its own ("ev.c").  *)
(*                                                                         *)
(* The channel's queues are touched under its lock, so an operation on     *)
(* them is one step.  A VM cannot look at the fiber of another one: it     *)
(* posts an event into the other's pipe, and whether the fiber still waits *)
(* is found out when that VM handles the event.  Events of a fiber that    *)
(* has moved on are sent on to the next one that waits.                    *)
(*                                                                         *)
(* A value is the number of the call that gave it.  What else may wake a   *)
(* fiber, a timeout or a cancellation, is the action Interrupt.            *)
(***************************************************************************)
EXTENDS Integers, Sequences, FiniteSets, Functions

CONSTANTS Fibers, VMs,
          VmOf,      \* the VM of each fiber
          Limit,     \* capacity of the channel
          MaxCalls,  \* bound on calls, in all
          None

Assumptions ==
  /\ IsFiniteSet(Fibers) /\ None \notin VMs /\ VmOf \in [Fibers -> VMs]
  /\ Limit \in Nat /\ MaxCalls \in Nat

VARIABLES chan,      \* items, readers, writers and closed, under the lock
          pipe,      \* events posted to each VM and not handled yet
          listeners, \* listener_count of each VM
          vm,        \* "looping", "done" (left its loop) or "dead"
          fiber,     \* status, sched_id and what its wait accepts
          calls,
          received   \* history: values fibers were resumed with

vars == <<chan, pipe, listeners, vm, fiber, calls, received>>

Waiting(f) == fiber[f].status = "waiting"
Msg(r, kind, x) == [mode |-> kind, fiber |-> r.fiber, id |-> r.id, value |-> x]
Record(f) == [vm |-> VmOf[f], fiber |-> f, id |-> fiber[f].id]

(* janet_ev_post_event: an event for the VM of a record, which counts it.    *)
Posted(p, r, kind, x) == [p EXCEPT ![r.vm] = Append(@, Msg(r, kind, x))]
Counted(l, r) == [l EXCEPT ![r.vm] = @ + 1]

Init ==
  /\ chan = [items |-> <<>>, readers |-> <<>>, writers |-> <<>>, closed |-> FALSE]
  /\ pipe = [v \in VMs |-> <<>>]
  /\ listeners = [v \in VMs |-> 0]
  /\ vm = [v \in VMs |-> "looping"]
  /\ fiber = [f \in Fibers |-> [status |-> "ready", id |-> 0, wait |-> "none"]]
  /\ calls = 0 /\ received = {}

Runs(f) == fiber[f].status = "ready" /\ vm[VmOf[f]] = "looping"
Call(f) == Runs(f) /\ calls < MaxCalls /\ calls' = calls + 1

(* The caller gives the VM back: janet_await, and the loop counts it.        *)
Asleep(x, wait) == [x EXCEPT !.status = "waiting", !.wait = wait]
Suspend(f, wait) ==
  /\ fiber' = [fiber EXCEPT ![f] = Asleep(fiber[f], wait)]
  /\ listeners' = [listeners EXCEPT ![VmOf[f]] = @ + 1]

(* A record taken off a queue is told; one whose VM is gone is forgotten.    *)
Tell(r, kind, x) ==
  IF r.vm = None THEN UNCHANGED <<pipe, listeners>>
  ELSE pipe' = Posted(pipe, r, kind, x) /\ listeners' = Counted(listeners, r)

Give(f) ==
  LET x == calls + 1 IN
  /\ Call(f) /\ ~chan.closed
  /\ \/ /\ chan.readers # <<>>
        /\ chan' = [chan EXCEPT !.readers = Tail(@)]
        /\ Tell(Head(chan.readers), "read", x)
        /\ UNCHANGED fiber
     \/ /\ chan.readers = <<>> /\ Len(chan.items) < Limit
        /\ chan' = [chan EXCEPT !.items = Append(@, x)]
        /\ UNCHANGED <<pipe, listeners, fiber>>
     \/ /\ chan.readers = <<>> /\ Len(chan.items) >= Limit
        /\ chan' = [chan EXCEPT !.items = Append(@, x), !.writers = Append(@, Record(f))]
        /\ Suspend(f, "write")
        /\ UNCHANGED pipe
  /\ UNCHANGED <<vm, received>>

Taken(q) == Tail(q)

Take(f) ==
  /\ Call(f)
  /\ \/ chan.closed /\ UNCHANGED <<chan, pipe, listeners, fiber, received>>
     \/ /\ ~chan.closed /\ chan.items = <<>>
        /\ chan' = [chan EXCEPT !.readers = Append(@, Record(f))]
        /\ Suspend(f, "read")
        /\ UNCHANGED <<pipe, received>>
     \/ /\ ~chan.closed /\ chan.items # <<>>
        /\ received' = received \cup {<<Head(chan.items), f>>}
        /\ IF chan.writers = <<>>
           THEN chan' = [chan EXCEPT !.items = Taken(@)] /\ UNCHANGED <<pipe, listeners>>
           ELSE /\ chan' = [chan EXCEPT !.items = Taken(@), !.writers = Tail(@)]
                /\ Tell(Head(chan.writers), "write", 0)
        /\ UNCHANGED fiber
  /\ UNCHANGED vm

(* Schedule: the sched_id moves on.  The loop stops counting the fiber when  *)
(* it pops the task; that is folded into this step.                          *)
Woken(x) == [x EXCEPT !.status = "ready", !.id = x.id + 1, !.wait = "none"]

Interrupt(f) ==
  /\ Waiting(f) /\ vm[VmOf[f]] = "looping"
  /\ fiber' = [fiber EXCEPT ![f] = Woken(fiber[f])]
  /\ listeners' = [listeners EXCEPT ![VmOf[f]] = @ - 1]
  /\ UNCHANGED <<chan, pipe, vm, calls, received>>

(* ev/chan-close: the records of this VM are woken at once if they are live, *)
(* those of other VMs are sent an event each, in the order of the queues.    *)
Mine(v, rs) == {g \in Fibers : VmOf[g] = v /\ Waiting(g) /\ \E i \in DOMAIN rs : rs[i] = Record(g)}
Told(rs, w) ==
  LET told[i \in 0 .. Len(rs)] ==
        IF i = 0 THEN <<>>
        ELSE IF rs[i].vm = w THEN Append(told[i - 1], Msg(rs[i], "close", 0)) ELSE told[i - 1]
  IN told[Len(rs)]
TellOthers(v, rs, woken) ==
  LET sent == [w \in VMs |-> IF w = v THEN <<>> ELSE Told(rs, w)]
  IN /\ pipe' = [w \in VMs |-> pipe[w] \o sent[w]]
     /\ listeners' = [w \in VMs |-> listeners[w] + Len(sent[w]) - (IF w = v THEN Cardinality(woken) ELSE 0)]

Close(f) ==
  LET v == VmOf[f]
      rs == chan.writers \o chan.readers
      woken == Mine(v, rs)
  IN /\ Call(f) /\ ~chan.closed
     /\ chan' = [chan EXCEPT !.closed = TRUE, !.readers = <<>>, !.writers = <<>>]
     /\ fiber' = [g \in Fibers |-> IF g \in woken THEN Woken(fiber[g]) ELSE fiber[g]]
     /\ TellOthers(v, rs, woken)
     /\ UNCHANGED <<vm, received>>

StillWaits(m) == m.id = fiber[m.fiber].id

FirstWithVM(q) ==
  LET reached == {i \in DOMAIN q : q[i].vm # None}
  IN IF reached = {} THEN 0 ELSE CHOOSE i \in reached : \A j \in reached : i <= j
From(q, i) == IF i = 0 THEN <<>> ELSE SubSeq(q, i + 1, Len(q))

(* Pop records until one has a VM, and post the event there.  The event that *)
(* was handled leaves the pipe and the count.                                *)
Resend(v, q, kind, x) ==
  LET i == FirstWithVM(q)
      p == [pipe EXCEPT ![v] = Tail(@)]
      l == [listeners EXCEPT ![v] = @ - 1]
  IN IF i = 0 THEN pipe' = p /\ listeners' = l
     ELSE pipe' = Posted(p, q[i], kind, x) /\ listeners' = Counted(l, q[i])

(* janet_ev_handle_selfpipe with janet_thread_chan_cb.  The loop polls only  *)
(* when no task of its own is ready.                                         *)
HandleEvent(v) ==
  /\ vm[v] = "looping" /\ pipe[v] # <<>>
  /\ ~\E f \in Fibers : VmOf[f] = v /\ fiber[f].status = "ready"
  /\ LET m == Head(pipe[v])
     IN \/ /\ StillWaits(m)
           /\ fiber' = [fiber EXCEPT ![m.fiber] = Woken(fiber[m.fiber])]
           /\ received' = IF m.mode = "read" THEN received \cup {<<m.value, m.fiber>>} ELSE received
           /\ pipe' = [pipe EXCEPT ![v] = Tail(@)]
           /\ listeners' = [listeners EXCEPT ![v] = @ - 2]
           /\ UNCHANGED chan
        \/ /\ ~StillWaits(m) /\ m.mode = "read"
           /\ Resend(v, chan.readers, "read", m.value)
           /\ chan' = [chan EXCEPT !.readers = From(@, FirstWithVM(@))]
           /\ UNCHANGED <<fiber, received>>
        \/ /\ ~StillWaits(m) /\ m.mode = "write"
           /\ Resend(v, chan.writers, "write", 0)
           /\ chan' = [chan EXCEPT !.writers = From(@, FirstWithVM(@))]
           /\ UNCHANGED <<fiber, received>>
        \/ /\ ~StillWaits(m) /\ m.mode = "close"
           /\ pipe' = [pipe EXCEPT ![v] = Tail(@)]
           /\ listeners' = [listeners EXCEPT ![v] = @ - 1]
           /\ UNCHANGED <<chan, fiber, received>>
  /\ UNCHANGED <<vm, calls>>

Finish(f) ==
  /\ Runs(f)
  /\ fiber' = [fiber EXCEPT ![f].status = "finished"]
  /\ UNCHANGED <<chan, pipe, listeners, vm, calls, received>>

(* A VM ends in two steps: the loop finds nothing to do, then janet_deinit   *)
(* clears its records from the channel and the VM is gone.                   *)
LoopDone(v) ==
  /\ vm[v] = "looping" /\ listeners[v] = 0
  /\ ~\E f \in Fibers : VmOf[f] = v /\ fiber[f].status = "ready"
  /\ vm' = [vm EXCEPT ![v] = "done"]
  /\ UNCHANGED <<chan, pipe, listeners, fiber, calls, received>>

WithoutVM(q, v) == [i \in DOMAIN q |-> IF q[i].vm = v THEN [q[i] EXCEPT !.vm = None] ELSE q[i]]

\* Mutant: only the readers' queue is cleared.
Cleared_ReadersOnly(ch, v) == [ch EXCEPT !.readers = WithoutVM(ch.readers, v)]

Cleared(ch, v) == [ch EXCEPT !.readers = WithoutVM(ch.readers, v), !.writers = WithoutVM(ch.writers, v)]

Deinit(v) ==
  /\ vm[v] = "done"
  /\ vm' = [vm EXCEPT ![v] = "dead"]
  /\ chan' = Cleared(chan, v)
  /\ UNCHANGED <<pipe, listeners, fiber, calls, received>>

Next ==
  \/ \E f \in Fibers : Give(f) \/ Take(f) \/ Close(f) \/ Interrupt(f) \/ Finish(f)
  \/ \E v \in VMs : HandleEvent(v) \/ LoopDone(v) \/ Deinit(v)

Spec == Init /\ [][Next]_vars

(* Some loop turns, and some task's code ends, as long as any can: enough,   *)
(* as neither can go on for ever.                                            *)
LoopTurns == \E v \in VMs : HandleEvent(v)
TaskEnds == \E f \in Fibers : Finish(f)
FairSpec == Spec /\ WF_vars(LoopTurns) /\ WF_vars(TaskEnds)

-----------------------------------------------------------------------------
Events == UNION {Range(pipe[v]) : v \in VMs}
AllLoop == \A v \in VMs : vm[v] = "looping"
WaitingOf(v) == {f \in Fibers : VmOf[f] = v /\ Waiting(f)}

Records == [vm : VMs \cup {None}, fiber : Fibers, id : Nat]
Messages == [mode : {"read", "write", "close"}, fiber : Fibers, id : Nat, value : Nat]
ChannelStates == [items : Seq(Nat), readers : Seq(Records), writers : Seq(Records), closed : BOOLEAN]
FiberStates == [status : {"ready", "waiting", "finished"}, id : Nat, wait : {"none", "read", "write"}]

TypeOK ==
  /\ chan \in ChannelStates
  /\ pipe \in [VMs -> Seq(Messages)]
  /\ listeners \in [VMs -> Nat]
  /\ vm \in [VMs -> {"looping", "done", "dead"}]
  /\ fiber \in [Fibers -> FiberStates]
  /\ calls \in Nat
  /\ \A p \in received : p \in Nat \X Fibers

(* No record leads to a VM that is gone: an event posted to it would be a    *)
(* write into a closed pipe of freed memory (janet_chanat_gcperthread).      *)
NoRecordOfDeadVM ==
  \A r \in Range(chan.readers) \cup Range(chan.writers) : r.vm # None => vm[r.vm] # "dead"

(* The count that keeps a loop going is what it still has to do: fibers that *)
(* wait and events on their way, so that a posted value finds the loop alive.*)
ListenersCounted ==
  \A v \in VMs : vm[v] = "looping" =>
    listeners[v] = Len(pipe[v]) + Cardinality(WaitingOf(v))

(* A value is in one place: in the channel, on its way, or received once.    *)
NeverTwice ==
  /\ \A p, q \in received : p[1] = q[1] => p = q
  /\ \A x \in Range(chan.items) : ~\E p \in received : p[1] = x
  /\ \A e \in Events : e.mode = "read" =>
       e.value \notin Range(chan.items) /\ ~\E p \in received : p[1] = e.value

(* A fiber that is resumed by the channel was waiting for that operation:    *)
(* the handler compares the sched_id, which the sender could not.            *)
EventWakesItsWait ==
  \A v \in VMs : HandleEvent(v) =>
    \A f \in Fibers : Waiting(f) /\ ~Waiting(f)' =>
      Head(pipe[v]).mode = "close" \/ fiber[f].wait = Head(pipe[v]).mode
WokenByItsOwnWait == [][EventWakesItsWait]_vars

(* While no VM has gone, a writer does not wait beside room: the event that  *)
(* tells it, or one that will be sent on to it, is on its way.               *)
RoomIsAnnounced ==
  /\ AllLoop
  /\ \E f \in Fibers : fiber[f].wait = "write"
  => Len(chan.items) > Limit \/ \E e \in Events : e.mode \in {"write", "close"}

(* A value that ev/give accepted is in the channel, on its way to a reader,  *)
(* or received ("Write a value to a channel ... Returns the channel if the   *)
(* write succeeded").                                                        *)
GivenIsKept ==
  [][\A x \in Range(chan.items) \cup {e.value : e \in {d \in Events : d.mode = "read"}} :
       \/ x \in Range(chan'.items)
       \/ \E v \in VMs, i \in 1 .. MaxCalls : i \in DOMAIN pipe'[v] /\ pipe'[v][i].mode = "read" /\ pipe'[v][i].value = x
       \/ \E f \in Fibers : <<x, f>> \in received']_vars

(* A writer beside room is woken, with loops that keep turning: one that     *)
(* ends takes with it what was sent to it.                                   *)
WriterGoesOn ==
  \A f \in Fibers :
    (Waiting(f) /\ fiber[f].wait = "write" /\ Len(chan.items) <= Limit)
      ~> (~Waiting(f) \/ Len(chan.items) > Limit \/ ~AllLoop)

(* The counts keep the right loops going, no record outlives its VM, and a   *)
(* value is in one place.                                                    *)
SharedChannelSound == TypeOK /\ NoRecordOfDeadVM /\ ListenersCounted /\ NeverTwice /\ RoomIsAnnounced

(* What makes it inductive.  A record or an event carries an old number, or  *)
(* is of the wait its fiber is in.                                           *)
RecordOK(r, wait) ==
  /\ r.vm \in {VmOf[r.fiber], None}
  /\ (r.vm = None) <=> (vm[VmOf[r.fiber]] = "dead")
  /\ r.id <= fiber[r.fiber].id
  /\ r.id = fiber[r.fiber].id => fiber[r.fiber].wait = wait
EventOK(m) ==
  /\ m.id <= fiber[m.fiber].id
  /\ m.id = fiber[m.fiber].id => fiber[m.fiber].wait # "none" /\ (m.mode # "close" => fiber[m.fiber].wait = m.mode)

RecordsAreOfWaits ==
  /\ \A f \in Fibers : Waiting(f) <=> fiber[f].wait # "none"
  /\ \A i \in DOMAIN chan.readers : RecordOK(chan.readers[i], "read")
  /\ \A i \in DOMAIN chan.writers : RecordOK(chan.writers[i], "write")
  /\ \A v \in VMs : \A i \in DOMAIN pipe[v] : VmOf[pipe[v][i].fiber] = v /\ EventOK(pipe[v][i])

(* Readers wait on an empty channel, writers for room.                       *)
QueuesMatch ==
  /\ chan.readers # <<>> => chan.items = <<>>
  /\ chan.writers # <<>> => Len(chan.items) >= Limit + Len(chan.writers)

(* While all VMs are there, a writer has its record or an event.             *)
WritersAreKnown ==
  AllLoop => \A f \in Fibers : fiber[f].wait = "write" =>
    \/ \E i \in DOMAIN chan.writers : chan.writers[i] = Record(f)
    \/ \E i \in DOMAIN pipe[VmOf[f]] : pipe[VmOf[f]][i].fiber = f /\ pipe[VmOf[f]][i].id = fiber[f].id

(* Where the values up to n are: in items, on their way in p, received.      *)
Carries(m, x) == m.mode = "read" /\ m.value = x
OnTheWay(p, x) == \E v \in VMs : \E i \in DOMAIN p[v] : Carries(p[v][i], x)
InOnePlace(items, p, rcvd, n) ==
  /\ \A i \in DOMAIN items : items[i] <= n /\ ~OnTheWay(p, items[i])
  /\ \A i, j \in DOMAIN items : items[i] = items[j] => i = j
  /\ \A v, w \in VMs : \A i \in DOMAIN p[v], j \in DOMAIN p[w] :
       p[v][i].mode = "read" => p[v][i].value <= n /\ (Carries(p[w][j], p[v][i].value) => v = w /\ i = j)
  /\ \A q \in rcvd : q[1] <= n /\ ~OnTheWay(p, q[1]) /\ \A i \in DOMAIN items : items[i] # q[1]
  /\ \A q, r \in rcvd : q[1] = r[1] => q = r

IInv ==
  /\ TypeOK /\ ListenersCounted
  /\ RecordsAreOfWaits /\ QueuesMatch /\ WritersAreKnown
  /\ InOnePlace(chan.items, pipe, received, calls)
=============================================================================
