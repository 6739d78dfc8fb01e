------------------------------- MODULE JanetVM -------------------------------
(***************************************************************************)
(* JanetVM and the thread it is bound to (Sources/Janet/JanetVM.swift).    *)
(* janet_init makes the interpreter state of the calling thread; the Swift *)
(* object only knows that thread by its pthread_t, which the system gives  *)
(* to a new thread once the old one has ended, and a marker in a           *)
(* thread-specific slot says that the thread has a live VM.                *)
(*                                                                         *)
(* Threads end when their function returns.  What JanetRuntime owes its VM *)
(* is modelled by the guard of ThreadEnds: its thread goes on until the VM *)
(* is freed, and the main thread goes on for ever.                         *)
(***************************************************************************)
CONSTANTS Thread,   \* threads, in all of the process's life
          Handle,   \* values of pthread_t
          VM,       \* JanetVM objects
          Nothing   \* no VM, no handle

ASSUME NothingAssumption == Nothing \notin VM /\ Nothing \notin Handle

VARIABLES handle,   \* the pthread_t of a thread that runs
          marker,   \* threads whose slot for liveVMKey is set
          interp,   \* the VM whose state is in a thread's janet_vm
          owner,    \* JanetVM.thread
          home,     \* the thread that called JanetVM.init
          trapped   \* a precondition has failed

vars == <<handle, marker, interp, owner, home, trapped>>

Init ==
  /\ handle = [t \in Thread |-> Nothing] /\ marker = {}
  /\ interp = [t \in Thread |-> Nothing]
  /\ owner = [v \in VM |-> Nothing] /\ home = [v \in VM |-> Nothing]
  /\ trapped = FALSE

Runs(t) == handle[t] # Nothing
Live(v) == owner[v] # Nothing

\* A thread starts with a handle that no running thread has, and an empty slot.
ThreadStarts(t) ==
  /\ ~Runs(t) /\ ~trapped
  /\ \E h \in Handle : /\ \A u \in Thread : handle[u] # h
                       /\ handle' = [handle EXCEPT ![t] = h]
  /\ marker' = marker \ {t} /\ interp' = [interp EXCEPT ![t] = Nothing]
  /\ UNCHANGED <<owner, home, trapped>>

MayEnd(t) == \A v \in VM : Live(v) => home[v] # t

ThreadEnds(t) ==
  /\ Runs(t) /\ ~trapped /\ MayEnd(t)
  /\ handle' = [handle EXCEPT ![t] = Nothing]
  /\ UNCHANGED <<marker, interp, owner, home, trapped>>

InitTraps(t) == t \in marker

OnOwnThread(t, v) == owner[v] = handle[t]

Trap == trapped' = TRUE /\ UNCHANGED <<handle, marker, interp, owner, home>>

InitVM(t, v) ==
  /\ Runs(t) /\ ~Live(v) /\ ~trapped
  /\ IF InitTraps(t) THEN Trap
     ELSE /\ marker' = marker \cup {t}
          /\ owner' = [owner EXCEPT ![v] = handle[t]] /\ home' = [home EXCEPT ![v] = t]
          /\ interp' = [interp EXCEPT ![t] = v]
          /\ UNCHANGED <<handle, trapped>>

\* eval and define work on the state of the calling thread; reset frees it and
\* makes it anew, for the same object.
Call(t, v) ==
  /\ Runs(t) /\ Live(v) /\ ~trapped
  /\ IF ~OnOwnThread(t, v) THEN Trap
     ELSE /\ interp' \in {interp, [interp EXCEPT ![t] = v]}
          /\ UNCHANGED <<handle, marker, owner, home, trapped>>

\* Mutant: the marker stays.
MarkerAfter_Kept(t) == marker

MarkerAfter(t) == marker \ {t}

Deinit(t, v) ==
  /\ Runs(t) /\ Live(v) /\ ~trapped
  /\ IF ~OnOwnThread(t, v) THEN Trap
     ELSE /\ interp' = [interp EXCEPT ![t] = Nothing]
          /\ marker' = MarkerAfter(t)
          /\ owner' = [owner EXCEPT ![v] = Nothing] /\ home' = [home EXCEPT ![v] = Nothing]
          /\ UNCHANGED <<handle, trapped>>

Trapped == trapped /\ UNCHANGED vars

Next ==
  \/ \E t \in Thread : ThreadStarts(t) \/ ThreadEnds(t)
  \/ \E t \in Thread, v \in VM : InitVM(t, v) \/ Call(t, v) \/ Deinit(t, v)
  \/ Trapped
Spec == Init /\ [][Next]_vars

-----------------------------------------------------------------------------
(* A VM that passes the check of isOnOwnThread finds its own state in        *)
(* janet_vm, although the handle it compares may have had other owners; and  *)
(* no two VMs share a thread ("keep at most one per thread at a time").      *)
UsesItsOwnState ==
  \A t \in Thread, v \in VM : Runs(t) /\ Live(v) /\ OnOwnThread(t, v) => home[v] = t /\ interp[t] = v

(* A thread can be given a VM exactly when it has none: neither does a freed *)
(* one leave its mark behind, nor does a thread inherit that of a former     *)
(* thread with its handle.                                                   *)
MarkerIsTrue == \A t \in Thread : Runs(t) => (InitTraps(t) <=> \E v \in VM : Live(v) /\ home[v] = t)

VMIsItsThreads == UsesItsOwnState /\ MarkerIsTrue

TypeOK ==
  /\ handle \in [Thread -> Handle \cup {Nothing}] /\ marker \in SUBSET Thread
  /\ interp \in [Thread -> VM \cup {Nothing}]
  /\ owner \in [VM -> Handle \cup {Nothing}] /\ home \in [VM -> Thread \cup {Nothing}]
  /\ trapped \in BOOLEAN
=============================================================================
