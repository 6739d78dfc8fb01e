----------------------------- MODULE MCEventLoop -----------------------------
(***************************************************************************)
(* The event loop of one VM, and a channel between several VMs.  Nothing   *)
(* of one shows in the other's state, so a behaviour is one or the other.  *)
(***************************************************************************)
EXTENDS EvLoop, TLC

CONSTANTS chBuffered, chBare,        \* channels
          fMain, fLeft, fRight,      \* fibers of the loop
          tA, tB, tC, vmA, vmB,      \* tasks of two VMs
          SharedTasks, SharedVMs,    \* tasks and VMs that share a channel
          Home,                      \* the VM of each of these tasks
          SharedLimit,               \* the capacity of that channel
          MaxSharedCalls             \* bound on calls of the tasks, in all

VARIABLES part,   \* "loop" or "shared"
          chan, pipe, counted, vm, fiber, sharedCalls, received

Limits == (chBuffered :> 1) @@ (chBare :> 0)
TakeFrom(c) == [op |-> "take", chan |-> c]
GiveTo(c) == [op |-> "give", chan |-> c]
\* Every channel once, and values offered to either.
Menu == {<<TakeFrom(chBuffered), TakeFrom(chBare)>>, <<GiveTo(chBuffered), TakeFrom(chBare)>>,
         <<GiveTo(chBare), TakeFrom(chBuffered)>>}
\* What ev/go sets for a function, and a mask that hears of waits as well.
Masks == (fMain :> {}) @@ (fLeft :> {"error"}) @@ (fRight :> {"error", "yield", "event"})
Homes == (tA :> vmA) @@ (tB :> vmB) @@ (tC :> vmB)

Shared == INSTANCE ThreadChanProofs WITH Fibers <- SharedTasks, VMs <- SharedVMs, VmOf <- Home, Limit <- SharedLimit,
                                   MaxCalls <- MaxSharedCalls, listeners <- counted, calls <- sharedCalls
sharedVars == <<chan, pipe, counted, vm, fiber, sharedCalls, received>>

ASSUME SharedAssumption == Shared!Assumptions

\* The loop that does not run is one whose process has exited.
InitAny ==
  /\ Shared!Init
  /\ \/ part = "loop" /\ Init
     \/ part = "shared" /\ InitAt("exited")
NextAny ==
  \/ part = "loop" /\ Next /\ UNCHANGED <<part, sharedVars>>
  \/ part = "shared" /\ Shared!Next /\ UNCHANGED <<part, vars>>

SharedTurns == part = "shared" /\ Shared!LoopTurns
TaskEnds == part = "shared" /\ Shared!TaskEnds
SpecAny ==
  /\ InitAny /\ [][NextAny]_<<part, vars, sharedVars>>
  /\ Fairness /\ WF_sharedVars(SharedTurns) /\ WF_sharedVars(TaskEnds)

(* Every wait that something will end ends: what is scheduled runs and       *)
(* sleepers wake (WakeupsArrive), and a writer beside room goes on           *)
(* (WriterGoesOn).                                                           *)
EveryWaitEnds == WakeupsArrive /\ Shared!WriterGoesOn

(* What ends a wait is what it was for, unless the fiber was scheduled out   *)
(* of turn once (OnlyStraysAreMisled); on a shared channel, where the        *)
(* sched_id is compared, without exception (WokenByItsOwnWait).              *)
WokenForItsWait == OnlyStraysAreMisled /\ Shared!WokenByItsOwnWait

(* The counts, records and values of a shared channel (SharedChannelSound).  *)
SharedSound == Shared!SharedChannelSound
=============================================================================
