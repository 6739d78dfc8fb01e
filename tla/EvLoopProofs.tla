---------------------------- MODULE EvLoopProofs ----------------------------
(***************************************************************************)
(* The event loop loses no wait, for any fibers, channels, limits and      *)
(* bounds.  First what the operators on ev do, one lemma each; then one    *)
(* step for each call of a fiber and each step of the loop.                *)
(***************************************************************************)
EXTENDS MCEventLoop, FiniteSetTheorems, SequenceTheorems, WellFoundedInduction, TLAPS

(* What holds of ev within a step too, whatever becomes of the waits.        *)
Good(w) == w \in Ev /\ NoWaitWithoutReason(w) /\ CancelIsKept(w) /\ TasksEndLive(w) /\ TasksAreActive(w)

(* From w to v nobody changed what he does, and whoever could be woken can.  *)
SameDoings(w, v) ==
  \A f \in Fibers : /\ v.fiber[f].status = w.fiber[f].status /\ v.fiber[f].suspended = w.fiber[f].suspended
                    /\ (w.fiber[f].isTask => v.fiber[f].isTask)
                    /\ (f \in w.active => f \in v.active)
                    /\ (HasTask(w, f) => HasTask(v, f))
Kept(w, v, ts) == SameDoings(w, v) /\ \A f \in Fibers : CanBeWoken(w, ts, f) => CanBeWoken(v, ts, f)

-----------------------------------------------------------------------------
(* Scheduling.                                                               *)

TaskOf(w, g, cause, sig) == [fiber |-> g, cause |-> cause, sig |-> sig, id |-> w.fiber[g].id + 1]
FiberOf(w, g, sig) == [w.fiber[g] EXCEPT !.id = w.fiber[g].id + 1, !.canceled = (sig = "error"), !.isTask = TRUE]
ActiveWith(w, g) == IF w.fiber[g].isTask THEN w.active ELSE w.active \cup {g}

LEMMA EnqueueShape ==
  ASSUME NEW w, w \in Ev, NEW g \in Fibers, NEW cause \in Causes, NEW sig \in {"ok", "error"}, ~w.fiber[g].canceled
  PROVE  LET v == Enqueue(w, g, cause, sig) IN
         /\ v \in Ev
         /\ v.chan = w.chan /\ v.stray = w.stray
         /\ v.spawn = Append(w.spawn, TaskOf(w, g, cause, sig))
         /\ v.active = ActiveWith(w, g)
         /\ v.fiber[g] = FiberOf(w, g, sig)
         /\ \A f \in Fibers : f # g => v.fiber[f] = w.fiber[f]
<1> DEFINE task == TaskOf(w, g, cause, sig)
           fg == FiberOf(w, g, sig)
           act == ActiveWith(w, g)
           v == Enqueue(w, g, cause, sig)
<1>1. /\ v.chan = w.chan /\ v.stray = w.stray /\ v.spawn = Append(w.spawn, task) /\ v.active = act
      /\ v.fiber = [w.fiber EXCEPT ![g] = fg]
  BY DEF Enqueue, Ev, TaskOf, FiberOf, ActiveWith
<1>2. w.fiber[g] \in FiberStates
  BY DEF Ev
<1>3. task \in Tasks /\ fg \in FiberStates
  <2>1. (sig = "error") \in BOOLEAN /\ w.fiber[g].id + 1 \in Nat
    BY <1>2 DEF FiberStates
  <2>2. task \in Tasks
    BY <2>1 DEF Tasks, TaskOf
  <2>3. fg \in FiberStates
    BY <1>2, <2>1, Zenon DEF FiberStates, FiberOf
  <2> QED BY <2>2, <2>3
<1>4. Append(w.spawn, task) \in Seq(Tasks) /\ [w.fiber EXCEPT ![g] = fg] \in [Fibers -> FiberStates]
  BY <1>3 DEF Ev
<1>5. v = [fiber |-> v.fiber, active |-> v.active, stray |-> v.stray, spawn |-> v.spawn, chan |-> v.chan]
  BY DEF Enqueue, Ev
<1>6. act \in SUBSET Fibers /\ w.stray \in SUBSET Fibers /\ w.chan \in [Channels -> ChannelStates]
  BY DEF Ev, ActiveWith
<1> HIDE DEF task, fg, act, v
<1>7. v \in Ev
  BY <1>1, <1>4, <1>5, <1>6 DEF Ev
<1>8. v.fiber[g] = fg /\ \A f \in Fibers : f # g => v.fiber[f] = w.fiber[f]
  BY <1>1 DEF Ev
<1> QED BY <1>1, <1>7, <1>8 DEF task, fg, act, v

LEMMA EnqueueKeeps ==
  ASSUME NEW w, Good(w), NEW g \in Fibers, NEW cause \in Causes, NEW sig \in {"ok", "error"}, NEW ts,
         NEW v, v = Enqueue(w, g, cause, sig)
  PROVE  /\ Good(v) /\ v.chan = w.chan /\ Kept(w, v, ts) /\ HasTask(v, g)
         /\ \A f \in Fibers : f # g => v.fiber[f] = w.fiber[f]
<1>0. w \in Ev
  BY DEF Good
<1>1. CASE w.fiber[g].canceled
  <2>1. v = w
    BY <1>1 DEF Enqueue
  <2>2. HasTask(w, g)
    BY <1>1 DEF Good, CancelIsKept, HasTask
  <2> QED BY <2>1, <2>2 DEF Kept, SameDoings
<1>2. CASE ~w.fiber[g].canceled
  <2> DEFINE task == TaskOf(w, g, cause, sig)
  <2>1. /\ v \in Ev /\ v.chan = w.chan
        /\ v.spawn = Append(w.spawn, task)
        /\ v.active = ActiveWith(w, g)
        /\ v.fiber[g] = FiberOf(w, g, sig)
        /\ \A f \in Fibers : f # g => v.fiber[f] = w.fiber[f]
    BY <1>0, <1>2, EnqueueShape
  <2>2. /\ \A f \in Fibers : f # g => v.fiber[f] = w.fiber[f]
        /\ v.fiber[g].id = w.fiber[g].id + 1 /\ v.fiber[g].canceled = (sig = "error") /\ v.fiber[g].isTask
        /\ v.fiber[g].status = w.fiber[g].status /\ v.fiber[g].suspended = w.fiber[g].suspended
    <3>1. w.fiber[g] \in FiberStates
      BY <1>0 DEF Ev
    <3> QED BY <2>1, <3>1 DEF FiberStates, FiberOf
  <2> DEFINE n == Len(w.spawn)
  <2>3. /\ n \in Nat /\ DOMAIN w.spawn = 1 .. n /\ DOMAIN v.spawn = 1 .. n + 1
        /\ v.spawn[n + 1] = task /\ \A i \in 1 .. n : v.spawn[i] = w.spawn[i]
        /\ \A i \in 1 .. n : w.spawn[i].fiber \in Fibers /\ w.spawn[i].id \in Nat
    <3>1. w.spawn \in Seq(Tasks)
      BY <1>0 DEF Ev
    <3>2. /\ n \in Nat /\ DOMAIN w.spawn = 1 .. n
          /\ \A i \in 1 .. n : w.spawn[i] \in Tasks
      BY <3>1
    <3>3. Len(v.spawn) = n + 1 /\ DOMAIN v.spawn = 1 .. n + 1 /\ v.spawn[n + 1] = task
      BY <2>1, <3>1, AppendProperties
    <3>4. \A i \in 1 .. n : v.spawn[i] = w.spawn[i]
      BY <2>1, <3>1, AppendProperties
    <3> QED BY <3>2, <3>3, <3>4 DEF Tasks
  <2> HIDE DEF n
  <2>4. v.spawn[n + 1].fiber = g /\ Live(v, v.spawn[n + 1]) /\ v.spawn[n + 1].sig = sig
    BY <2>2, <2>3 DEF Live, TaskOf
  <2>5. HasTask(v, g)
    <3>1. n + 1 \in DOMAIN v.spawn
      BY <2>3
    <3> QED BY <2>4, <3>1 DEF HasTask
  <2>6. \A i \in 1 .. n : w.spawn[i].fiber # g /\ Live(w, w.spawn[i]) => Live(v, v.spawn[i])
    BY <2>2, <2>3 DEF Live
  <2>7. SameDoings(w, v)
    <3>1. \A f \in Fibers : HasTask(w, f) => HasTask(v, f)
      <4>1. ASSUME NEW f \in Fibers, f # g, HasTask(w, f) PROVE HasTask(v, f)
        <5>1. PICK i \in 1 .. n : w.spawn[i].fiber = f /\ Live(w, w.spawn[i])
          BY <2>3, <4>1 DEF HasTask
        <5>2. i \in DOMAIN v.spawn /\ v.spawn[i].fiber = f /\ Live(v, v.spawn[i])
          BY <2>3, <2>6, <4>1, <5>1
        <5> QED BY <5>2 DEF HasTask
      <4> QED BY <2>5, <4>1
    <3>2. \A f \in Fibers : f \in w.active => f \in v.active
      BY <2>1 DEF ActiveWith
    <3> QED BY <2>2, <3>1, <3>2 DEF SameDoings
  <2>8. \A f \in Fibers : CanBeWoken(w, ts, f) => CanBeWoken(v, ts, f)
    <3>1. ASSUME NEW f \in Fibers, f # g, CanBeWoken(w, ts, f)
          PROVE  CanBeWoken(v, ts, f)
      <4>1. \A r : r.fiber = f /\ Live(w, r) => Live(v, r)
        BY <2>2, <3>1 DEF Live
      <4>2. HasTask(w, f) => HasTask(v, f)
        BY <2>7 DEF SameDoings
      <4>3. Sleeps(w, ts, f) => Sleeps(v, ts, f)
        BY <4>1 DEF Sleeps
      <4>4. Queued(w, f) => Queued(v, f)
        BY <2>1, <4>1 DEF Queued, InQueue
      <4> QED BY <3>1, <4>2, <4>3, <4>4 DEF CanBeWoken
    <3> QED BY <2>5, <3>1 DEF CanBeWoken
  <2>9. NoWaitWithoutReason(v)
    BY <2>1 DEF Good, NoWaitWithoutReason
  <2>10. CancelIsKept(v)
    <3>1. ASSUME NEW f \in Fibers, f # g, v.fiber[f].canceled
          PROVE  \E i \in DOMAIN v.spawn : v.spawn[i].fiber = f /\ Live(v, v.spawn[i]) /\ v.spawn[i].sig = "error"
      <4>1. PICK i \in 1 .. n : w.spawn[i].fiber = f /\ Live(w, w.spawn[i]) /\ w.spawn[i].sig = "error"
        BY <2>2, <2>3, <3>1 DEF Good, CancelIsKept
      <4> QED BY <2>3, <2>6, <3>1, <4>1
    <3>2. v.fiber[g].canceled => sig = "error"
      BY <2>2
    <3> QED BY <2>3, <2>4, <3>1, <3>2 DEF CancelIsKept
  <2>11. TasksEndLive(v)
    <3>1. ASSUME NEW i \in 1 .. n + 1
          PROVE  \E j \in 1 .. n + 1 : i <= j /\ v.spawn[j].fiber = v.spawn[i].fiber /\ Live(v, v.spawn[j])
      <4>1. CASE v.spawn[i].fiber = g
        BY <2>3, <2>4, <4>1
      <4>2. CASE v.spawn[i].fiber # g
        <5>1. i \in 1 .. n
          BY <2>3, <2>4, <4>2
        <5>2. PICK j \in 1 .. n : i <= j /\ w.spawn[j].fiber = w.spawn[i].fiber /\ Live(w, w.spawn[j])
          BY <2>3, <5>1 DEF Good, TasksEndLive
        <5> QED BY <2>3, <2>6, <4>2, <5>1, <5>2
      <4> QED BY <4>1, <4>2
    <3> QED BY <2>3, <3>1 DEF TasksEndLive
  <2>12. TasksAreActive(v)
    <3>1. \A i \in 1 .. n + 1 : v.fiber[v.spawn[i].fiber].isTask
      <4>1. ASSUME NEW i \in 1 .. n PROVE v.fiber[v.spawn[i].fiber].isTask
        <5>1. w.fiber[w.spawn[i].fiber].isTask /\ w.spawn[i].fiber \in Fibers
          BY <2>3 DEF Good, TasksAreActive
        <5> QED BY <2>2, <2>3, <5>1
      <4>2. \A i \in 1 .. n + 1 : i \in 1 .. n \/ i = n + 1
        BY <2>3
      <4> QED BY <2>2, <2>4, <4>1, <4>2
    <3>2. \A f \in Fibers : v.fiber[f].isTask => f \in v.active \/ v.fiber[f].status \in {"dead", "error"}
      BY <2>1, <2>2 DEF Good, TasksAreActive, ActiveWith
    <3> QED BY <2>3, <3>1, <3>2 DEF TasksAreActive
  <2> QED BY <2>1, <2>2, <2>5, <2>7, <2>8, <2>9, <2>10, <2>11, <2>12 DEF Good, Kept
<1> QED BY <1>1, <1>2

(* A fiber that is scheduled while it runs is marked, and then enqueued.     *)

LEMMA AstrayShape ==
  ASSUME NEW w, w \in Ev, NEW g \in Fibers
  PROVE  LET v == Astray(w, g) IN
         /\ v \in Ev /\ v.fiber = w.fiber /\ v.active = w.active /\ v.spawn = w.spawn /\ v.chan = w.chan
         /\ v.stray = w.stray \cup {g}
<1> DEFINE v == Astray(w, g)
           s == w.stray \cup {g}
<1>1. /\ w.fiber \in [Fibers -> FiberStates] /\ w.active \in SUBSET Fibers /\ w.stray \in SUBSET Fibers
      /\ w.spawn \in Seq(Tasks) /\ w.chan \in [Channels -> ChannelStates]
  BY DEF Ev
<1>2. v.fiber = w.fiber /\ v.active = w.active /\ v.spawn = w.spawn /\ v.chan = w.chan /\ v.stray = s
  BY DEF Ev, Astray
<1>5. v = [fiber |-> v.fiber, active |-> v.active, stray |-> v.stray, spawn |-> v.spawn, chan |-> v.chan]
  <2>1. v = [w EXCEPT !.stray = s]
    BY DEF Astray
  <2> HIDE DEF s, v
  <2> QED BY <2>1 DEF Ev
<1>3. s \in SUBSET Fibers
  BY <1>1
<1> HIDE DEF v, s
<1>4. v \in Ev
  BY <1>1, <1>2, <1>3, <1>5 DEF Ev
<1> QED BY <1>2, <1>4 DEF v, s

\* Nothing but the history differs.
SameBut(w, v) == v \in Ev /\ v.fiber = w.fiber /\ v.active = w.active /\ v.spawn = w.spawn /\ v.chan = w.chan

LEMMA SameButKeeps ==
  ASSUME NEW w, Good(w), NEW v, SameBut(w, v), NEW ts
  PROVE  Good(v) /\ Kept(w, v, ts) /\ Kept(v, w, ts)
<1>1. \A r : Live(v, r) <=> Live(w, r)
  BY DEF Live, SameBut
<1>2. \A f : HasTask(v, f) <=> HasTask(w, f)
  BY <1>1 DEF HasTask, SameBut
<1>3. \A f : CanBeWoken(v, ts, f) <=> CanBeWoken(w, ts, f)
  <2>1. \A f, q : InQueue(v, f, q) <=> InQueue(w, f, q)
    BY <1>1 DEF InQueue
  <2>2. \A f : (Queued(v, f) <=> Queued(w, f)) /\ (Sleeps(v, ts, f) <=> Sleeps(w, ts, f))
    BY <1>1, <2>1 DEF Queued, Sleeps, SameBut
  <2> QED BY <1>2, <2>2 DEF CanBeWoken
<1>4. SameDoings(w, v) /\ SameDoings(v, w)
  BY <1>2 DEF SameDoings, SameBut
<1>5. NoWaitWithoutReason(v) /\ TasksAreActive(v)
  BY DEF Good, NoWaitWithoutReason, TasksAreActive, SameBut
<1>6. CancelIsKept(v) /\ TasksEndLive(v)
  BY <1>1 DEF Good, CancelIsKept, TasksEndLive, SameBut
<1> QED BY <1>3, <1>4, <1>5, <1>6 DEF Good, Kept, SameBut

\* The fiber itself, or what is left of it when it is marked first.
Marked(w, g) == IF w.fiber[g].status = "alive" THEN Astray(w, g) ELSE w

LEMMA MarkedKeeps ==
  ASSUME NEW w, Good(w), NEW g \in Fibers, NEW ts
  PROVE  /\ SameBut(w, Marked(w, g)) /\ Good(Marked(w, g)) /\ Kept(w, Marked(w, g), ts)
         /\ Marked(w, g).stray = IF w.fiber[g].status = "alive" THEN w.stray \cup {g} ELSE w.stray
<1>1. w \in Ev
  BY DEF Good
<1>2. SameBut(w, Astray(w, g)) /\ Astray(w, g).stray = w.stray \cup {g}
  BY <1>1, AstrayShape DEF SameBut
<1>3. SameBut(w, w)
  BY <1>1 DEF SameBut
<1>4. SameBut(w, Marked(w, g)) /\ Marked(w, g).stray = IF w.fiber[g].status = "alive" THEN w.stray \cup {g} ELSE w.stray
  BY <1>2, <1>3 DEF Marked
<1> QED BY <1>4, SameButKeeps

LEMMA ScheduleKeeps ==
  ASSUME NEW w, Good(w), NEW g \in Fibers, NEW cause \in Causes, NEW sig \in {"ok", "error"}, NEW ts,
         NEW v, v = Schedule(w, g, cause, sig)
  PROVE  /\ Good(v) /\ v.chan = w.chan /\ Kept(w, v, ts) /\ HasTask(v, g)
         /\ \A f \in Fibers : f # g => v.fiber[f] = w.fiber[f]
<1> DEFINE m == Marked(w, g)
<1>1. v = Enqueue(m, g, cause, sig)
  BY DEF Schedule, Marked
<1>2. SameBut(w, m) /\ Good(m) /\ Kept(w, m, ts)
  BY MarkedKeeps
<1> HIDE DEF m
<1>3. /\ Good(v) /\ v.chan = m.chan /\ Kept(m, v, ts) /\ HasTask(v, g)
      /\ \A f \in Fibers : f # g => v.fiber[f] = m.fiber[f]
  BY <1>1, <1>2, EnqueueKeeps
<1>4. Kept(w, v, ts)
  BY <1>2, <1>3 DEF Kept, SameDoings
<1> QED BY <1>2, <1>3, <1>4 DEF SameBut

-----------------------------------------------------------------------------
(* Channels.                                                                 *)

LEMMA LeastExists ==
  ASSUME NEW S \in SUBSET Nat, S # {}
  PROVE  \E m \in S : \A n \in S : m <= n
<1>1. PICK m \in S : \A n \in S : <<n, m>> \notin OpToRel(<, Nat)
  BY NatLessThanWellFounded, WFMin
<1>2. \A n \in S : m <= n
  <2> TAKE n \in S
  <2>1. ~(n < m)
    BY <1>1 DEF OpToRel
  <2> QED BY <2>1
<1> QED BY <1>2

LEMMA ChanPut ==
  ASSUME NEW w, w \in Ev, NEW c \in Channels, NEW ch \in ChannelStates
  PROVE  LET v == [w EXCEPT !.chan[c] = ch] IN
         /\ v \in Ev /\ v.fiber = w.fiber /\ v.spawn = w.spawn /\ v.active = w.active
         /\ v.chan[c] = ch /\ \A d \in Channels : d # c => v.chan[d] = w.chan[d]
BY DEF Ev

\* Who may be woken, when one channel has changed and nothing else has.
LEMMA ChanChanged ==
  ASSUME NEW w, Good(w), NEW v, v \in Ev, NEW c \in Channels, NEW ts,
         v.fiber = w.fiber, v.spawn = w.spawn, v.active = w.active,
         \A d \in Channels : d # c => v.chan[d] = w.chan[d],
         v.chan[c].readers # <<>> => v.chan[c].items = <<>>,
         v.chan[c].writers # <<>> => Len(v.chan[c].items) >= Limit[c] + Len(v.chan[c].writers),
         v.chan[c].closed => v.chan[c].readers = <<>> /\ v.chan[c].writers = <<>>
  PROVE  /\ Good(v) /\ SameDoings(w, v)
         /\ \A g \in Fibers : CanBeWoken(w, ts, g) =>
              \/ CanBeWoken(v, ts, g)
              \/ InQueue(w, g, w.chan[c].readers) /\ ~InQueue(w, g, v.chan[c].readers)
              \/ InQueue(w, g, w.chan[c].writers) /\ ~InQueue(w, g, v.chan[c].writers)
<1>1. NoWaitWithoutReason(v)
  BY DEF Good, NoWaitWithoutReason
<1>2. \A r : Live(v, r) <=> Live(w, r)
  BY DEF Live
<1>3. CancelIsKept(v)
  BY <1>2 DEF Good, CancelIsKept
<1>4. TasksEndLive(v)
  BY <1>2 DEF Good, TasksEndLive
<1>5. TasksAreActive(v)
  BY DEF Good, TasksAreActive
<1>6. \A g : HasTask(v, g) <=> HasTask(w, g)
  BY <1>2 DEF HasTask
<1>7. SameDoings(w, v)
  BY <1>6 DEF SameDoings
<1>8. \A g, q : InQueue(v, g, q) <=> InQueue(w, g, q)
  BY <1>2 DEF InQueue
<1>9. \A g : Sleeps(v, ts, g) <=> Sleeps(w, ts, g)
  BY <1>2 DEF Sleeps
<1>10. ASSUME NEW g \in Fibers, Queued(w, g), ~Queued(v, g)
       PROVE  \/ InQueue(w, g, w.chan[c].readers) /\ ~InQueue(w, g, v.chan[c].readers)
              \/ InQueue(w, g, w.chan[c].writers) /\ ~InQueue(w, g, v.chan[c].writers)
  <2>1. PICK d \in Channels : InQueue(w, g, w.chan[d].readers) \/ InQueue(w, g, w.chan[d].writers)
    BY <1>10 DEF Queued
  <2>2. \A e \in Channels : ~InQueue(w, g, v.chan[e].readers) /\ ~InQueue(w, g, v.chan[e].writers)
    BY <1>8, <1>10 DEF Queued
  <2>3. d = c
    BY <2>1, <2>2
  <2> QED BY <2>1, <2>2, <2>3
<1> QED BY <1>1, <1>3, <1>4, <1>5, <1>6, <1>7, <1>9, <1>10 DEF Good, CanBeWoken

\* The places of a record in a queue that is cut or grows.
LEMMA QueueCut ==
  ASSUME NEW w, NEW q \in Seq(Records), NEW g, NEW n \in 0 .. Len(q)
  PROVE  /\ SubSeq(q, n + 1, Len(q)) \in Seq(Records)
         /\ InQueue(w, g, q) => InQueue(w, g, SubSeq(q, n + 1, Len(q))) \/ \E i \in 1 .. n : q[i].fiber = g /\ Live(w, q[i])
<1> DEFINE m == Len(q)
           p == SubSeq(q, n + 1, m)
<1>1. m \in Nat /\ n \in Nat /\ DOMAIN q = 1 .. m
  OBVIOUS
<1>2. p \in Seq(Records) /\ Len(p) = m - n /\ DOMAIN p = 1 .. m - n /\ \A i \in 1 .. m - n : p[i] = q[n + i]
  BY <1>1, SubSeqProperties
<1> HIDE DEF m, p
<1>3. ASSUME NEW i \in 1 .. m, q[i].fiber = g, Live(w, q[i]), ~(i \in 1 .. n)
      PROVE  InQueue(w, g, p)
  <2>1. i - n \in 1 .. m - n /\ n + (i - n) = i
    BY <1>1, <1>3
  <2>2. p[i - n] = q[i]
    BY <1>2, <2>1
  <2> QED BY <1>2, <1>3, <2>1, <2>2 DEF InQueue
<1> QED BY <1>1, <1>2, <1>3 DEF InQueue, m, p

LEMMA QueueGrows ==
  ASSUME NEW w, NEW q \in Seq(Records), NEW r \in Records
  PROVE  LET p == Append(q, r) IN
         /\ p \in Seq(Records) /\ Len(p) = Len(q) + 1 /\ p # <<>>
         /\ \A g : InQueue(w, g, q) => InQueue(w, g, p)
         /\ Live(w, r) => InQueue(w, r.fiber, p)
<1> DEFINE p == Append(q, r)
<1>1. /\ p \in Seq(Records) /\ Len(q) \in Nat /\ Len(p) = Len(q) + 1 /\ DOMAIN q = 1 .. Len(q) /\ DOMAIN p = 1 .. Len(q) + 1
      /\ p[Len(q) + 1] = r /\ \A i \in 1 .. Len(q) : p[i] = q[i]
  BY AppendProperties
<1> HIDE DEF p
<1>2. p # <<>>
  BY <1>1
<1>3. ASSUME NEW g, InQueue(w, g, q) PROVE InQueue(w, g, p)
  <2>1. PICK i \in 1 .. Len(q) : q[i].fiber = g /\ Live(w, q[i])
    BY <1>1, <1>3 DEF InQueue
  <2> QED BY <1>1, <2>1 DEF InQueue
<1>4. Live(w, r) => InQueue(w, r.fiber, p)
  BY <1>1 DEF InQueue
<1> QED BY <1>1, <1>2, <1>3, <1>4 DEF p

LEMMA KeptTrans ==
  ASSUME NEW u, NEW v, NEW w, NEW ts, Kept(u, v, ts), Kept(v, w, ts)
  PROVE  Kept(u, w, ts)
BY DEF Kept, SameDoings

Modes == {"plain", "choice", "event"}

LEMMA PushToNobody ==
  ASSUME NEW w, Good(w), NEW f \in Fibers, NEW c \in Channels, ~w.chan[c].closed, NEW x \in Nat, NEW mode \in Modes, NEW ts,
         LiveReaders(w, c) = {}
  PROVE  LET v == Push(w, f, c, x, mode) IN
         /\ Good(v) /\ Kept(w, v, ts) /\ v.fiber = w.fiber
         /\ Overfull(w, c) /\ mode # "event" => Queued(v, f)
<1> DEFINE v == Push(w, f, c, x, mode)
           ch == w.chan[c]
           me == Pending(w, f)
           ws == IF Overfull(w, c) /\ mode # "event" THEN Append(ch.writers, me) ELSE ch.writers
<1>1. w \in Ev /\ ch \in ChannelStates /\ w.chan \in [Channels -> ChannelStates]
  BY DEF Good, Ev
<1>2. me \in Records /\ Live(w, me) /\ me.fiber = f
  BY <1>1 DEF Pending, Records, Ev, FiberStates, Live
<1>3. /\ ch.items \in Seq(Nat) /\ ch.readers \in Seq(Records) /\ ch.writers \in Seq(Records) /\ ch.closed = FALSE
  BY <1>1 DEF ChannelStates
<1>4. /\ Append(ch.items, x) \in Seq(Nat) /\ Len(Append(ch.items, x)) = Len(ch.items) + 1
      /\ Len(ch.items) \in Nat /\ Len(ch.writers) \in Nat /\ Limit[c] \in Nat
  <2> HIDE DEF ch, v, me, ws
  <2>1. Append(ch.items, x) \in Seq(Nat) /\ Len(Append(ch.items, x)) = Len(ch.items) + 1
    BY <1>3, AppendProperties
  <2>2. Len(ch.items) \in Nat /\ Len(ch.writers) \in Nat
    BY <1>3
  <2>3. Limit[c] \in Nat
    BY EvAssumption
  <2> QED BY <2>1, <2>2, <2>3
<1>5. /\ Append(ch.writers, me) \in Seq(Records) /\ Len(Append(ch.writers, me)) = Len(ch.writers) + 1
      /\ \A g : InQueue(w, g, ch.writers) => InQueue(w, g, Append(ch.writers, me))
      /\ InQueue(w, f, Append(ch.writers, me))
  BY <1>2, <1>3, QueueGrows
<1>6. ws \in Seq(Records)
  BY <1>3, <1>5
<1>7. \A g : InQueue(w, g, ch.writers) => InQueue(w, g, ws)
  BY <1>5
<1>8. ws # <<>> => Len(ch.items) + 1 >= Limit[c] + Len(ws)
  <2>1. ch.writers # <<>> => Len(ch.items) >= Limit[c] + Len(ch.writers)
    BY DEF Good, NoWaitWithoutReason
  <2>2. ch.writers = <<>> => Len(ch.writers) = 0
    BY <1>3
  <2>3. Overfull(w, c) => Len(ch.items) >= Limit[c]
    BY DEF Overfull
  <2> DEFINE n == Len(ch.items)
             k == Len(ch.writers)
             l == Limit[c]
  <2>4. n \in Nat /\ k \in Nat /\ l \in Nat /\ (k = 0 \/ n >= l + k)
    BY <1>3, <1>4, <2>1, <2>2
  <2>5. CASE Overfull(w, c) /\ mode # "event"
    <3>1. n >= l /\ Len(ws) = k + 1
      BY <1>5, <2>3, <2>5
    <3> HIDE DEF n, k, l, ws
    <3>2. n + 1 >= l + (k + 1)
      BY <2>4, <3>1
    <3> QED BY <3>1, <3>2 DEF n, l
  <2>6. CASE ~(Overfull(w, c) /\ mode # "event")
    <3>1. ws # <<>> => k # 0 /\ Len(ws) = k
      BY <1>3, <2>6
    <3> HIDE DEF n, k, l, ws
    <3>2. k # 0 => n + 1 >= l + k
      BY <2>4
    <3> QED BY <3>1, <3>2 DEF n, l
  <2> QED BY <2>5, <2>6
<1> DEFINE nch == [ch EXCEPT !.readers = <<>>, !.items = Append(ch.items, x), !.writers = ws]
<1>9. v = [w EXCEPT !.chan[c] = nch]
  BY DEF Push
<1> HIDE DEF ws
<1>10. /\ nch.readers = <<>> /\ nch.items = Append(ch.items, x) /\ nch.writers = ws /\ nch.closed = FALSE
       /\ nch \in ChannelStates
  <2>1. <<>> \in Seq(Records)
    OBVIOUS
  <2> QED BY <1>1, <1>3, <1>4, <1>6, <2>1 DEF ChannelStates
<1> HIDE DEF nch, v
<1>11. /\ v \in Ev /\ v.fiber = w.fiber /\ v.spawn = w.spawn /\ v.active = w.active
       /\ v.chan[c] = nch /\ \A d \in Channels : d # c => v.chan[d] = w.chan[d]
  BY <1>1, <1>9, <1>10, ChanPut
<1>12. \A g : ~InQueue(w, g, ch.readers)
  BY DEF LiveReaders, InQueue
<1>13. Good(v) /\ SameDoings(w, v) /\ \A g \in Fibers : CanBeWoken(w, ts, g) => CanBeWoken(v, ts, g)
  <2>1. /\ v.chan[c].readers = <<>> /\ v.chan[c].closed = FALSE
        /\ v.chan[c].writers # <<>> => Len(v.chan[c].items) >= Limit[c] + Len(v.chan[c].writers)
        /\ \A g : InQueue(w, g, ch.writers) => InQueue(w, g, v.chan[c].writers)
    BY <1>4, <1>7, <1>8, <1>10, <1>11
  <2> QED BY <1>11, <1>12, <2>1, ChanChanged
<1>14. Overfull(w, c) /\ mode # "event" => Queued(v, f)
  <2> HAVE Overfull(w, c) /\ mode # "event"
  <2>1. InQueue(w, f, v.chan[c].writers)
    BY <1>5, <1>10, <1>11 DEF ws
  <2>2. InQueue(v, f, v.chan[c].writers)
    BY <1>11, <2>1 DEF InQueue, Live
  <2> QED BY <2>2 DEF Queued
<1> QED BY <1>11, <1>13, <1>14 DEF Kept, v

LEMMA PushToReader ==
  ASSUME NEW w, Good(w), NEW f \in Fibers, NEW c \in Channels, NEW x \in Nat, NEW mode \in Modes, NEW ts,
         LiveReaders(w, c) # {}
  PROVE  LET v == Push(w, f, c, x, mode) IN Good(v) /\ Kept(w, v, ts)
<1> DEFINE live == LiveReaders(w, c)
           ch == w.chan[c]
           i == CHOOSE k \in live : \A j \in live : k <= j
           rest == SubSeq(ch.readers, i + 1, Len(ch.readers))
           nch == [ch EXCEPT !.readers = rest]
           u == [w EXCEPT !.chan[c] = nch]
           g == ch.readers[i].fiber
           v == Push(w, f, c, x, mode)
<1>1. w \in Ev /\ ch \in ChannelStates
  BY DEF Good, Ev
<1>2. /\ ch.readers \in Seq(Records) /\ Len(ch.readers) \in Nat /\ DOMAIN ch.readers = 1 .. Len(ch.readers)
      /\ ch.items \in Seq(Nat) /\ ch.writers \in Seq(Records) /\ ch.closed \in BOOLEAN
  BY <1>1 DEF ChannelStates
<1>3. live \subseteq 1 .. Len(ch.readers)
  BY <1>2 DEF LiveReaders
<1>4. live \in SUBSET Nat
  BY <1>3
<1>5. \E k \in live : \A j \in live : k <= j
  BY <1>4, LeastExists
<1>6. i \in live /\ \A j \in live : i <= j
  BY <1>5
<1>7. i \in 1 .. Len(ch.readers) /\ i \in 0 .. Len(ch.readers)
  BY <1>3, <1>6
<1>8. g \in Fibers /\ \A j \in 1 .. i : Live(w, ch.readers[j]) => j = i
  <2>1. ch.readers[i] \in Records
    BY <1>2, <1>7
  <2>2. ASSUME NEW j \in 1 .. i, Live(w, ch.readers[j]) PROVE j = i
    <3>1. j \in live
      BY <1>2, <1>7, <2>2 DEF LiveReaders
    <3>2. i <= j
      BY <1>6, <3>1
    <3> HIDE DEF i
    <3> QED BY <1>2, <1>7, <3>2
  <2> QED BY <2>1, <2>2 DEF Records
<1>9. v = Schedule(u, g, Cause("take", c, x), "ok")
  BY DEF Push
<1> HIDE DEF i
<1>10. /\ rest \in Seq(Records)
       /\ \A h : InQueue(w, h, ch.readers) => InQueue(w, h, rest) \/ \E j \in 1 .. i : ch.readers[j].fiber = h /\ Live(w, ch.readers[j])
  <2> HIDE DEF ch
  <2> QED BY <1>2, <1>7, QueueCut
<1>11. ch.items = <<>> /\ ch.closed = FALSE
  <2>1. ch.readers # <<>>
    BY <1>2, <1>7
  <2> QED BY <1>2, <2>1 DEF Good, NoWaitWithoutReason
<1> HIDE DEF rest
<1>12. nch \in ChannelStates /\ nch.readers = rest /\ nch.items = ch.items /\ nch.writers = ch.writers /\ nch.closed = FALSE
  BY <1>1, <1>2, <1>10, <1>11 DEF ChannelStates
<1> HIDE DEF nch
<1>13. /\ u \in Ev /\ u.fiber = w.fiber /\ u.spawn = w.spawn /\ u.active = w.active
       /\ u.chan[c] = nch /\ \A d \in Channels : d # c => u.chan[d] = w.chan[d]
  BY <1>1, <1>12, ChanPut
<1> HIDE DEF u
<1>14. /\ Good(u) /\ SameDoings(w, u)
       /\ \A h \in Fibers : CanBeWoken(w, ts, h) =>
            CanBeWoken(u, ts, h) \/ (InQueue(w, h, ch.readers) /\ ~InQueue(w, h, rest))
  <2>1. u.chan[c].writers # <<>> => Len(u.chan[c].items) >= Limit[c] + Len(u.chan[c].writers)
    BY <1>12, <1>13 DEF Good, NoWaitWithoutReason
  <2>2. u.chan[c].readers = rest /\ u.chan[c].items = <<>> /\ u.chan[c].closed = FALSE /\ u.chan[c].writers = ch.writers
    BY <1>11, <1>12, <1>13
  <2>3. /\ Good(u) /\ SameDoings(w, u)
        /\ \A h \in Fibers : CanBeWoken(w, ts, h) =>
              \/ CanBeWoken(u, ts, h)
              \/ InQueue(w, h, w.chan[c].readers) /\ ~InQueue(w, h, u.chan[c].readers)
              \/ InQueue(w, h, w.chan[c].writers) /\ ~InQueue(w, h, u.chan[c].writers)
    <3>1. /\ u.chan[c].readers # <<>> => u.chan[c].items = <<>>
          /\ u.chan[c].closed => u.chan[c].readers = <<>> /\ u.chan[c].writers = <<>>
      BY <2>2
    <3> HIDE DEF ch, rest
    <3> QED BY <1>13, <2>1, <3>1, ChanChanged
  <2> QED BY <2>2, <2>3
<1>15. \A h \in Fibers : h # g /\ CanBeWoken(w, ts, h) => CanBeWoken(u, ts, h)
  BY <1>8, <1>10, <1>14
<1>16. Cause("take", c, x) \in Causes
  BY DEF Cause, Causes, Kinds
<1> HIDE DEF v, g
<1>17. Good(v) /\ Kept(u, v, ts) /\ HasTask(v, g)
  BY <1>8, <1>9, <1>14, <1>16, ScheduleKeeps
<1>18. SameDoings(w, v)
  BY <1>14, <1>17 DEF Kept, SameDoings
<1>19. \A h \in Fibers : CanBeWoken(w, ts, h) => CanBeWoken(v, ts, h)
  BY <1>15, <1>17 DEF Kept, CanBeWoken
<1> QED BY <1>17, <1>18, <1>19 DEF Kept, v

LEMMA PushKeeps ==
  ASSUME NEW w, Good(w), NEW f \in Fibers, NEW c \in Channels, ~w.chan[c].closed, NEW x \in Nat, NEW mode \in Modes, NEW ts,
         NEW v, v = Push(w, f, c, x, mode)
  PROVE  /\ Good(v) /\ Kept(w, v, ts)
         /\ PushBlocks(w, c) /\ mode # "event" => Queued(v, f) /\ v.fiber = w.fiber
<1>1. CASE LiveReaders(w, c) = {}
  <2> DEFINE u == Push(w, f, c, x, mode)
  <2>1. Good(u) /\ Kept(w, u, ts) /\ u.fiber = w.fiber /\ (Overfull(w, c) /\ mode # "event" => Queued(u, f))
    BY <1>1, PushToNobody, Zenon
  <2> QED BY <2>1 DEF PushBlocks
<1>2. CASE LiveReaders(w, c) # {}
  BY <1>2, PushToReader DEF PushBlocks
<1> QED BY <1>1, <1>2

LEMMA TailCuts ==
  ASSUME NEW w, NEW q \in Seq(Records), q # <<>>, NEW g
  PROVE  /\ Tail(q) \in Seq(Records) /\ Len(Tail(q)) = Len(q) - 1 /\ Head(q) \in Records
         /\ InQueue(w, g, q) => InQueue(w, g, Tail(q)) \/ g = Head(q).fiber
<1>1. /\ Tail(q) \in Seq(Records) /\ Len(Tail(q)) = Len(q) - 1 /\ Head(q) \in Records /\ Head(q) = q[1]
      /\ Len(q) \in Nat /\ Len(q) > 0 /\ DOMAIN q = 1 .. Len(q) /\ DOMAIN Tail(q) = 1 .. Len(q) - 1
      /\ \A i \in 1 .. Len(q) - 1 : Tail(q)[i] = q[i + 1]
  BY HeadTailProperties
<1>2. ASSUME NEW i \in 1 .. Len(q), i # 1, q[i].fiber = g, Live(w, q[i])
      PROVE  InQueue(w, g, Tail(q))
  <2>1. i - 1 \in 1 .. Len(q) - 1 /\ (i - 1) + 1 = i
    BY <1>1, <1>2
  <2>2. Tail(q)[i - 1] = q[i]
    BY <1>1, <2>1
  <2> QED BY <1>1, <1>2, <2>1, <2>2 DEF InQueue
<1> QED BY <1>1, <1>2 DEF InQueue

LEMMA PopKeeps ==
  ASSUME NEW w, Good(w), NEW f \in Fibers, NEW c \in Channels, NEW ts, NEW v, v = Pop(w, f, c)
  PROVE  /\ Good(v) /\ Kept(w, v, ts)
         /\ PopBlocks(w, c) => Queued(v, f) /\ v.fiber = w.fiber
<1> DEFINE ch == w.chan[c]
           me == Pending(w, f)
<1>1. w \in Ev /\ ch \in ChannelStates
  BY DEF Good, Ev
<1>2. /\ ch.items \in Seq(Nat) /\ ch.readers \in Seq(Records) /\ ch.writers \in Seq(Records) /\ ch.closed \in BOOLEAN
      /\ Len(ch.items) \in Nat /\ Len(ch.writers) \in Nat /\ Limit[c] \in Nat
  BY <1>1, EvAssumption DEF ChannelStates
<1>3. /\ ch.readers # <<>> => ch.items = <<>>
      /\ ch.writers # <<>> => Len(ch.items) >= Limit[c] + Len(ch.writers)
  BY DEF Good, NoWaitWithoutReason
<1>4. CASE ch.closed
  <2>1. v = w
    BY <1>4 DEF Pop
  <2> QED BY <1>4, <2>1 DEF PopBlocks, Kept, SameDoings
<1>5. CASE ~ch.closed /\ ch.items = <<>>
  <2> DEFINE nch == [ch EXCEPT !.readers = Append(ch.readers, me)]
  <2>1. v = [w EXCEPT !.chan[c] = nch]
    BY <1>5 DEF Pop
  <2>2. me \in Records /\ Live(w, me) /\ me.fiber = f
    BY <1>1 DEF Pending, Records, Ev, FiberStates, Live
  <2>3. /\ Append(ch.readers, me) \in Seq(Records)
        /\ \A g : InQueue(w, g, ch.readers) => InQueue(w, g, Append(ch.readers, me))
        /\ InQueue(w, f, Append(ch.readers, me))
    BY <1>2, <2>2, QueueGrows
  <2>4. /\ nch \in ChannelStates /\ nch.readers = Append(ch.readers, me) /\ nch.items = <<>> /\ nch.items = ch.items
        /\ nch.writers = ch.writers /\ nch.closed = FALSE
    BY <1>1, <1>2, <1>5, <2>3 DEF ChannelStates
  <2> HIDE DEF nch
  <2>5. /\ v \in Ev /\ v.fiber = w.fiber /\ v.spawn = w.spawn /\ v.active = w.active
        /\ v.chan[c] = nch /\ \A d \in Channels : d # c => v.chan[d] = w.chan[d]
    BY <1>1, <2>1, <2>4, ChanPut
  <2>6. /\ Good(v) /\ SameDoings(w, v)
        /\ \A g \in Fibers : CanBeWoken(w, ts, g) =>
              \/ CanBeWoken(v, ts, g)
              \/ InQueue(w, g, w.chan[c].readers) /\ ~InQueue(w, g, v.chan[c].readers)
              \/ InQueue(w, g, w.chan[c].writers) /\ ~InQueue(w, g, v.chan[c].writers)
    <3>1. /\ v.chan[c].readers # <<>> => v.chan[c].items = <<>>
          /\ v.chan[c].writers # <<>> => Len(v.chan[c].items) >= Limit[c] + Len(v.chan[c].writers)
          /\ v.chan[c].closed => v.chan[c].readers = <<>> /\ v.chan[c].writers = <<>>
      BY <1>3, <2>4, <2>5
    <3> HIDE DEF ch, me
    <3> QED BY <2>5, <3>1, ChanChanged
  <2>7. Kept(w, v, ts)
    BY <2>3, <2>4, <2>5, <2>6 DEF Kept
  <2>8. Queued(v, f)
    <3>1. InQueue(w, f, v.chan[c].readers)
      BY <2>3, <2>4, <2>5
    <3>2. InQueue(v, f, v.chan[c].readers)
      BY <2>5, <3>1 DEF InQueue, Live
    <3> QED BY <3>2 DEF Queued
  <2> QED BY <2>5, <2>6, <2>7, <2>8
<1>6. CASE ~ch.closed /\ ch.items # <<>>
  <2>0. /\ Tail(ch.items) \in Seq(Nat) /\ Len(Tail(ch.items)) = Len(ch.items) - 1 /\ ch.readers = <<>>
        /\ ~PopBlocks(w, c)
    BY <1>2, <1>3, <1>6, HeadTailProperties DEF PopBlocks
  <2>1. CASE ch.writers = <<>>
    <3> DEFINE nch == [ch EXCEPT !.items = Tail(ch.items)]
    <3>1. v = [w EXCEPT !.chan[c] = nch]
      BY <1>6, <2>1 DEF Pop
    <3>2. nch \in ChannelStates /\ nch.readers = <<>> /\ nch.writers = <<>> /\ nch.closed = FALSE
      BY <1>1, <1>2, <1>6, <2>0, <2>1 DEF ChannelStates
    <3> HIDE DEF nch
    <3>3. /\ v \in Ev /\ v.fiber = w.fiber /\ v.spawn = w.spawn /\ v.active = w.active
          /\ v.chan[c] = nch /\ \A d \in Channels : d # c => v.chan[d] = w.chan[d]
      BY <1>1, <3>1, <3>2, ChanPut
    <3>4. v.chan[c].readers = w.chan[c].readers /\ v.chan[c].writers = w.chan[c].writers
          /\ v.chan[c].readers = <<>> /\ v.chan[c].writers = <<>>
      BY <2>0, <2>1, <3>2, <3>3
    <3>5. /\ Good(v) /\ SameDoings(w, v)
          /\ \A h \in Fibers : CanBeWoken(w, ts, h) =>
                \/ CanBeWoken(v, ts, h)
                \/ InQueue(w, h, w.chan[c].readers) /\ ~InQueue(w, h, v.chan[c].readers)
                \/ InQueue(w, h, w.chan[c].writers) /\ ~InQueue(w, h, v.chan[c].writers)
      <4> HIDE DEF ch
      <4> QED BY <3>3, <3>4, ChanChanged
    <3> QED BY <2>0, <3>4, <3>5 DEF Kept
  <2>2. CASE ch.writers # <<>>
    <3> DEFINE nch == [ch EXCEPT !.items = Tail(ch.items), !.writers = Tail(ch.writers)]
               y == [w EXCEPT !.chan[c] = nch]
               g == Head(ch.writers).fiber
               u == IF Live(w, Head(ch.writers)) THEN y ELSE Astray(y, g)
    <3>1. v = Schedule(u, g, Cause("give", c, 0), "ok")
      BY <1>6, <2>2 DEF Pop
    <3>2. /\ Tail(ch.writers) \in Seq(Records) /\ Len(Tail(ch.writers)) = Len(ch.writers) - 1 /\ g \in Fibers
          /\ \A h : InQueue(w, h, ch.writers) => InQueue(w, h, Tail(ch.writers)) \/ h = g
      BY <1>2, <2>2, TailCuts DEF Records
    <3>3. /\ nch \in ChannelStates /\ nch.readers = <<>> /\ nch.writers = Tail(ch.writers) /\ nch.items = Tail(ch.items)
          /\ nch.closed = FALSE
      BY <1>1, <1>2, <1>6, <2>0, <3>2 DEF ChannelStates
    <3>4. Cause("give", c, 0) \in Causes
      BY DEF Cause, Causes, Kinds
    <3> HIDE DEF nch
    <3>5. /\ u \in Ev /\ u.fiber = w.fiber /\ u.spawn = w.spawn /\ u.active = w.active
          /\ u.chan[c] = nch /\ \A d \in Channels : d # c => u.chan[d] = w.chan[d]
      <4> HIDE DEF ch, g
      <4>1. /\ y \in Ev /\ y.fiber = w.fiber /\ y.spawn = w.spawn /\ y.active = w.active
            /\ y.chan[c] = nch /\ \A d \in Channels : d # c => y.chan[d] = w.chan[d]
        BY <1>1, <3>3, ChanPut
      <4> HIDE DEF y
      <4>2. /\ Astray(y, g) \in Ev /\ Astray(y, g).fiber = y.fiber /\ Astray(y, g).spawn = y.spawn
            /\ Astray(y, g).active = y.active /\ Astray(y, g).chan = y.chan
        BY <3>2, <4>1, AstrayShape
      <4>3. CASE Live(w, Head(ch.writers))
        BY <4>1, <4>3
      <4>4. CASE ~Live(w, Head(ch.writers))
        <5>1. u = Astray(y, g)
          BY <4>4
        <5> HIDE DEF u
        <5> QED BY <4>1, <4>2, <5>1
      <4> QED BY <4>3, <4>4
    <3> HIDE DEF u
    <3>6. /\ Good(u) /\ SameDoings(w, u)
          /\ \A h \in Fibers : CanBeWoken(w, ts, h) =>
                \/ CanBeWoken(u, ts, h)
                \/ InQueue(w, h, w.chan[c].readers) /\ ~InQueue(w, h, u.chan[c].readers)
                \/ InQueue(w, h, w.chan[c].writers) /\ ~InQueue(w, h, u.chan[c].writers)
      <4>1. /\ u.chan[c].readers = <<>> /\ u.chan[c].closed = FALSE
            /\ u.chan[c].writers # <<>> => Len(u.chan[c].items) >= Limit[c] + Len(u.chan[c].writers)
        <5>1. Len(ch.items) - 1 >= Limit[c] + (Len(ch.writers) - 1)
          <6>1. Len(ch.items) >= Limit[c] + Len(ch.writers)
            BY <1>3, <2>2
          <6> HIDE DEF ch
          <6> QED BY <1>2, <6>1
        <5>2. u.chan[c].items = Tail(ch.items) /\ u.chan[c].writers = Tail(ch.writers)
          BY <3>3, <3>5
        <5> QED BY <2>0, <3>2, <3>3, <3>5, <5>1, <5>2
      <4> HIDE DEF ch, g
      <4> QED BY <3>5, <4>1, ChanChanged
    <3>7. \A h \in Fibers : h # g /\ CanBeWoken(w, ts, h) => CanBeWoken(u, ts, h)
      BY <2>0, <3>2, <3>3, <3>5, <3>6
    <3> HIDE DEF g
    <3>8. Good(v) /\ Kept(u, v, ts) /\ HasTask(v, g)
      BY <3>1, <3>2, <3>4, <3>6, ScheduleKeeps
    <3>9. SameDoings(w, v)
      BY <3>6, <3>8 DEF Kept, SameDoings
    <3>10. \A h \in Fibers : CanBeWoken(w, ts, h) => CanBeWoken(v, ts, h)
      BY <3>7, <3>8 DEF Kept, CanBeWoken
    <3> QED BY <2>0, <3>8, <3>9, <3>10 DEF Kept
  <2> QED BY <2>1, <2>2
<1> QED BY <1>4, <1>5, <1>6

-----------------------------------------------------------------------------
(* Several clauses, and several records, one after the other.                *)

LEMMA SetInduction ==
  ASSUME NEW S, 0 \in S, \A n \in Nat : n \in S => n + 1 \in S
  PROVE  Nat \subseteq S
<1>1. SUFFICES ASSUME Nat \ S # {} PROVE FALSE
  OBVIOUS
<1>2. PICK m \in Nat \ S : \A n \in Nat \ S : m <= n
  BY <1>1, LeastExists
<1>3. m - 1 \in Nat /\ (m - 1) + 1 = m
  BY <1>2
<1> QED BY <1>2, <1>3

\* Every sequence of steps within S can be taken.
IsRun(g, S, n, a, F) == g \in [0 .. n -> S] /\ g[0] = a /\ \A i \in 1 .. n : g[i] = F[i][g[i - 1]]

LEMMA RunExists ==
  ASSUME NEW S, NEW n \in Nat, NEW a \in S, NEW F, F \in [1 .. n -> [S -> S]]
  PROVE  \E g : IsRun(g, S, n, a, F)
<1> DEFINE T == {k \in Nat : k <= n => \E g \in [0 .. k -> S] : g[0] = a /\ \A i \in 1 .. k : g[i] = F[i][g[i - 1]]}
<1>1. 0 \in T
  <2> DEFINE h == [i \in 0 .. 0 |-> a]
  <2>1. h \in [0 .. 0 -> S] /\ h[0] = a
    OBVIOUS
  <2> HIDE DEF h
  <2>2. 1 .. 0 = {}
    OBVIOUS
  <2>3. \E g \in [0 .. 0 -> S] : g[0] = a /\ \A i \in 1 .. 0 : g[i] = F[i][g[i - 1]]
    BY <2>1, <2>2
  <2> QED BY <2>3
<1>2. ASSUME NEW k \in Nat, k \in T, k + 1 <= n PROVE k + 1 \in T
  <2>1. PICK g \in [0 .. k -> S] : g[0] = a /\ \A i \in 1 .. k : g[i] = F[i][g[i - 1]]
    BY <1>2
  <2> DEFINE h == [i \in 0 .. k + 1 |-> IF i \in 0 .. k THEN g[i] ELSE F[k + 1][g[k]]]
  <2>2. F[k + 1][g[k]] \in S
    <3>1. k + 1 \in 1 .. n /\ g[k] \in S
      BY <1>2, <2>1
    <3> QED BY <3>1
  <2>3. h \in [0 .. k + 1 -> S]
    BY <2>1, <2>2
  <2>4. h[k + 1] = F[k + 1][g[k]] /\ \A i \in 0 .. k : h[i] = g[i]
    BY <1>2
  <2> HIDE DEF h
  <2>5. h[0] = a /\ \A i \in 1 .. k + 1 : h[i] = F[i][h[i - 1]]
    <3>1. ASSUME NEW i \in 1 .. k PROVE h[i] = F[i][h[i - 1]]
      <4>1. i - 1 \in 0 .. k /\ i \in 0 .. k
        BY <1>2
      <4> QED BY <2>1, <2>4, <4>1
    <3>2. h[k + 1] = F[k + 1][h[(k + 1) - 1]]
      BY <1>2, <2>4
    <3>3. 0 \in 0 .. k
      BY <1>2
    <3>4. h[0] = a
      BY <2>1, <2>4, <3>3
    <3>5. \A i \in 1 .. k + 1 : i \in 1 .. k \/ i = k + 1
      BY <1>2
    <3> QED BY <3>1, <3>2, <3>4, <3>5
  <2> QED BY <1>2, <2>3, <2>5
<1>3. \A k \in Nat : k \in T => k + 1 \in T
  <2>1. \A k \in Nat : ~(k + 1 <= n) => k + 1 \in T
    OBVIOUS
  <2> QED BY <1>2, <2>1
<1> HIDE DEF T
<1>4. n \in T
  BY <1>1, <1>3, SetInduction
<1> QED BY <1>4 DEF T, IsRun

Clauses == [op : {"give", "take"}, chan : Channels]

LEMMA DoClauseKeeps ==
  ASSUME NEW w, Good(w), NEW f \in Fibers, NEW cl \in Clauses, NEW x \in Nat, NEW ts, NEW v, v = DoClause(w, f, cl, x)
  PROVE  /\ Good(v) /\ Kept(w, v, ts)
         /\ Registers(w, cl) => Queued(v, f) /\ v.fiber = w.fiber
<1> DEFINE c == cl.chan
           ch == w.chan[c]
<1>1. c \in Channels /\ cl.op \in {"give", "take"}
  BY DEF Clauses
<1>2. CASE ch.closed
  <2>1. v = w
    BY <1>2 DEF DoClause
  <2> QED BY <1>2, <2>1 DEF Registers, Kept, SameDoings
<1>3. CASE ~ch.closed /\ cl.op = "give"
  <2>1. v = Push(w, f, c, x, "choice")
    BY <1>3 DEF DoClause
  <2>2. /\ Good(v) /\ Kept(w, v, ts)
        /\ PushBlocks(w, c) => Queued(v, f) /\ v.fiber = w.fiber
    <3> HIDE DEF c
    <3>1. ~w.chan[c].closed
      BY <1>3
    <3>2. "choice" \in Modes
      BY DEF Modes
    <3> QED BY <1>1, <2>1, <3>1, <3>2, PushKeeps
  <2>3. Registers(w, cl) => PushBlocks(w, c)
    BY <1>3 DEF Registers
  <2> QED BY <2>2, <2>3
<1>4. CASE ~ch.closed /\ cl.op = "take"
  <2>1. v = Pop(w, f, c)
    BY <1>4 DEF DoClause
  <2>2. /\ Good(v) /\ Kept(w, v, ts)
        /\ PopBlocks(w, c) => Queued(v, f) /\ v.fiber = w.fiber
    BY <1>1, <2>1, PopKeeps
  <2>3. Registers(w, cl) => PopBlocks(w, c)
    BY <1>4 DEF Registers
  <2> QED BY <2>2, <2>3
<1> QED BY <1>1, <1>2, <1>3, <1>4

LEMMA SelectReadyKeeps ==
  ASSUME NEW w, Good(w), NEW f \in Fibers, NEW clauses \in Seq(Clauses), NEW x \in Nat, NEW ts,
         \E i \in DOMAIN clauses : ClauseReady(w, clauses[i]), NEW v, v = SelectReady(w, f, clauses, x)
  PROVE  Good(v) /\ Kept(w, v, ts)
<1> DEFINE ready == {i \in DOMAIN clauses : ClauseReady(w, clauses[i])}
           first == CHOOSE i \in ready : \A j \in ready : i <= j
<1>1. ready \in SUBSET Nat /\ ready # {}
  OBVIOUS
<1>2. first \in ready
  <2>1. \E i \in ready : \A j \in ready : i <= j
    BY <1>1, LeastExists
  <2> HIDE DEF ready
  <2> QED BY <2>1
<1>3. v = DoClause(w, f, clauses[first], x)
  BY DEF SelectReady
<1> HIDE DEF first
<1>4. clauses[first] \in Clauses
  BY <1>2
<1> QED BY <1>3, <1>4, DoClauseKeeps

\* What the clauses do one after the other.
IsSelectRun(after, w, f, clauses, x) ==
  /\ after[0] = w /\ \A i \in 1 .. Len(clauses) : after[i] = DoClause(after[i - 1], f, clauses[i], x)
  /\ \A i \in 0 .. Len(clauses) : Good(after[i])
  /\ SelectPass(w, f, clauses, x) = after

LEMMA SelectRuns ==
  ASSUME NEW w, Good(w), NEW f \in Fibers, NEW clauses \in Seq(Clauses), NEW x \in Nat
  PROVE  \E after : IsSelectRun(after, w, f, clauses, x)
<1> DEFINE n == Len(clauses)
           S == {u \in Ev : Good(u)}
           F == [i \in 1 .. n |-> [u \in S |-> DoClause(u, f, clauses[i], x)]]
           after[i \in 0 .. n] == IF i = 0 THEN w ELSE DoClause(after[i - 1], f, clauses[i], x)
<1>1. n \in Nat /\ \A i \in 1 .. n : clauses[i] \in Clauses
  OBVIOUS
<1>2. SelectPass(w, f, clauses, x) = after
  BY DEF SelectPass
<1>3. F \in [1 .. n -> [S -> S]]
  <2> SUFFICES ASSUME NEW u \in S, NEW i \in 1 .. n PROVE DoClause(u, f, clauses[i], x) \in S
    OBVIOUS
  <2>1. Good(DoClause(u, f, clauses[i], x))
    BY <1>1, DoClauseKeeps
  <2> QED BY <2>1 DEF Good
<1>4. w \in S
  BY DEF Good
<1> HIDE DEF S, F
<1>5. PICK g : g \in [0 .. n -> S] /\ g[0] = w /\ \A i \in 1 .. n : g[i] = F[i][g[i - 1]]
  <2> HIDE DEF n, after
  <2>1. \E g : IsRun(g, S, n, w, F)
    BY <1>1, <1>3, <1>4, RunExists
  <2> QED BY <2>1 DEF IsRun
<1>6. \A i \in 1 .. n : g[i] = DoClause(g[i - 1], f, clauses[i], x)
  <2> TAKE i \in 1 .. n
  <2>1. g[i - 1] \in S
    BY <1>1, <1>5
  <2> QED BY <1>5, <2>1 DEF F
<1>7. g = [i \in 0 .. n |-> IF i = 0 THEN w ELSE DoClause(g[i - 1], f, clauses[i], x)]
  BY <1>1, <1>5, <1>6
<1>8. after = [i \in 0 .. n |-> IF i = 0 THEN w ELSE DoClause(after[i - 1], f, clauses[i], x)]
  <2> HIDE DEF n
  <2> QED BY <1>7
<1> HIDE DEF n, after
<1>9. after[0] = w /\ \A i \in 1 .. n : after[i] = DoClause(after[i - 1], f, clauses[i], x)
  BY <1>1, <1>8
<1>10. \A i \in 0 .. n : Good(after[i])
  <2> DEFINE T == {i \in Nat : i \in 0 .. n => Good(after[i])}
  <2>1. 0 \in T
    BY <1>9
  <2>2. ASSUME NEW i \in Nat, i \in T, i + 1 \in 1 .. n PROVE i + 1 \in T
    <3>1. i \in 0 .. n /\ (i + 1) - 1 = i
      BY <1>1, <2>2
    <3>2. Good(after[i]) /\ after[i + 1] = DoClause(after[i], f, clauses[i + 1], x)
      BY <1>9, <2>2, <3>1
    <3>3. Good(after[i + 1])
      BY <1>1, <2>2, <3>2, DoClauseKeeps
    <3> QED BY <3>3
  <2>3. \A i \in Nat : i \in T => i + 1 \in T
    <3> SUFFICES ASSUME NEW i \in Nat, i \in T, i + 1 \in 0 .. n PROVE i + 1 \in T
      OBVIOUS
    <3>1. i + 1 \in 1 .. n
      BY <1>1
    <3> QED BY <2>2, <3>1
  <2> HIDE DEF T
  <2>4. Nat \subseteq T
    BY <2>1, <2>3, SetInduction
  <2> QED BY <1>1, <2>4 DEF T
<1>11. IsSelectRun(after, w, f, clauses, x)
  BY <1>2, <1>9, <1>10 DEF IsSelectRun, n
<1> QED BY <1>11

\* Something is awaited only when some clause has left a record.
LEMMA SomethingAwaited ==
  ASSUME NEW w, NEW f, NEW clauses, NEW x, SelectAwaits(w, f, clauses, x) # {}
  PROVE  \E i \in DOMAIN clauses : Registers(SelectPass(w, f, clauses, x)[i - 1], clauses[i])
BY DEF SelectAwaits

LEMMA SelectWaitsKeeps ==
  ASSUME NEW w, Good(w), NEW f \in Fibers, NEW clauses \in Seq(Clauses), NEW x \in Nat, NEW ts,
         NEW v, v = SelectWaits(w, f, clauses, x)
  PROVE  Good(v) /\ Kept(w, v, ts) /\ (SelectAwaits(w, f, clauses, x) # {} => CanBeWoken(v, ts, f))
<1> DEFINE n == Len(clauses)
<1>1. n \in Nat /\ DOMAIN clauses = 1 .. n /\ \A i \in 1 .. n : clauses[i] \in Clauses
  OBVIOUS
<1>2. PICK after : IsSelectRun(after, w, f, clauses, x)
  BY SelectRuns
<1>3. v = after[n] /\ SelectPass(w, f, clauses, x) = after
  BY <1>2 DEF IsSelectRun, SelectWaits
<1>4. after[0] = w /\ \A i \in 1 .. n : after[i] = DoClause(after[i - 1], f, clauses[i], x)
  BY <1>2 DEF IsSelectRun
<1> HIDE DEF n
<1> DEFINE Found(i) == (\E j \in 1 .. i : Registers(after[j - 1], clauses[j])) => CanBeWoken(after[i], ts, f)
           T == {i \in Nat : i \in 0 .. n => Good(after[i]) /\ Kept(w, after[i], ts) /\ Found(i)}
<1>5. 0 \in T
  <2>1. 1 .. 0 = {}
    OBVIOUS
  <2>2. Kept(w, w, ts)
    BY DEF Kept, SameDoings
  <2> QED BY <1>4, <2>1, <2>2
<1>6. ASSUME NEW i \in Nat, i \in T, i + 1 \in 0 .. n PROVE i + 1 \in T
  <2> DEFINE u == after[i]
             y == after[i + 1]
             cl == clauses[i + 1]
  <2>1. i \in 0 .. n /\ i + 1 \in 1 .. n /\ (i + 1) - 1 = i
    BY <1>1, <1>6
  <2>2. Good(u) /\ Kept(w, u, ts) /\ Found(i)
    BY <1>6, <2>1
  <2>3. y = DoClause(u, f, cl, x) /\ cl \in Clauses
    BY <1>1, <1>4, <2>1
  <2>4. Good(y) /\ Kept(u, y, ts) /\ (Registers(u, cl) => Queued(y, f))
    <3> HIDE DEF u, y, cl
    <3> QED BY <2>2, <2>3, DoClauseKeeps
  <2>5. Kept(w, y, ts)
    <3> HIDE DEF u, y
    <3> QED BY <2>2, <2>4, KeptTrans
  <2>6. Found(i + 1)
    <3> SUFFICES ASSUME NEW j \in 1 .. i + 1, Registers(after[j - 1], clauses[j]) PROVE CanBeWoken(y, ts, f)
      OBVIOUS
    <3>1. CASE j = i + 1
      BY <2>1, <2>4, <3>1 DEF CanBeWoken
    <3>2. CASE j # i + 1
      <4>1. j \in 1 .. i
        BY <1>6, <3>2
      <4>2. CanBeWoken(u, ts, f)
        BY <2>2, <4>1
      <4> QED BY <2>4, <4>2 DEF Kept
    <3> QED BY <3>1, <3>2
  <2> HIDE DEF Found
  <2> QED BY <1>6, <2>4, <2>5, <2>6
<1>7. \A i \in Nat : i \in T => i + 1 \in T
  <2>1. \A i \in Nat : ~(i + 1 \in 0 .. n) => i + 1 \in T
    OBVIOUS
  <2> QED BY <1>6, <2>1
<1> HIDE DEF T
<1>8. n \in T
  BY <1>1, <1>5, <1>7, SetInduction
<1>9. Good(v) /\ Kept(w, v, ts) /\ Found(n)
  BY <1>1, <1>3, <1>8 DEF T
<1>10. SelectAwaits(w, f, clauses, x) # {} => CanBeWoken(v, ts, f)
  <2> SUFFICES ASSUME SelectAwaits(w, f, clauses, x) # {} PROVE CanBeWoken(v, ts, f)
    OBVIOUS
  <2>1. \E i \in DOMAIN clauses : Registers(SelectPass(w, f, clauses, x)[i - 1], clauses[i])
    BY SomethingAwaited
  <2>2. \E i \in 1 .. n : Registers(after[i - 1], clauses[i])
    BY <1>1, <1>3, <2>1
  <2> QED BY <1>3, <1>9, <2>2
<1> QED BY <1>9, <1>10

LEMMA CloseRecordKeeps ==
  ASSUME NEW w, Good(w), NEW c \in Channels, NEW r \in Records, NEW ts, NEW v, v = CloseRecord(w, c, r)
  PROVE  /\ Good(v) /\ Kept(w, v, ts)
         /\ \A h \in Fibers : v.fiber[h] = w.fiber[h] \/ HasTask(v, h)
         /\ Live(w, r) /\ w.fiber[r.fiber].status \notin {"dead", "error"} => HasTask(v, r.fiber)
<1>1. CASE Live(w, r) /\ w.fiber[r.fiber].status \notin {"dead", "error"}
  <2>1. v = Schedule(w, r.fiber, Cause("close", c, 0), "ok")
    BY <1>1 DEF CloseRecord
  <2>2. r.fiber \in Fibers /\ Cause("close", c, 0) \in Causes
    BY DEF Records, Cause, Causes, Kinds
  <2>3. Good(v) /\ Kept(w, v, ts) /\ HasTask(v, r.fiber) /\ \A f \in Fibers : f # r.fiber => v.fiber[f] = w.fiber[f]
    BY <2>1, <2>2, ScheduleKeeps
  <2> QED BY <2>3
<1>2. CASE ~(Live(w, r) /\ w.fiber[r.fiber].status \notin {"dead", "error"})
  <2>1. v = w
    BY <1>2 DEF CloseRecord
  <2> QED BY <1>2, <2>1 DEF Kept, SameDoings
<1> QED BY <1>1, <1>2

\* What becomes of the records of a closed channel one after the other.
IsCloseRun(after, w, c, rs) ==
  /\ after[0] = w /\ \A i \in 1 .. Len(rs) : after[i] = CloseRecord(after[i - 1], c, rs[i])
  /\ \A i \in 0 .. Len(rs) : Good(after[i])
  /\ CloseRecords(w, c, rs) = after[Len(rs)]

LEMMA CloseRuns ==
  ASSUME NEW w, Good(w), NEW c \in Channels, NEW rs \in Seq(Records)
  PROVE  \E after : IsCloseRun(after, w, c, rs)
<1> DEFINE n == Len(rs)
           S == {u \in Ev : Good(u)}
           F == [i \in 1 .. n |-> [u \in S |-> CloseRecord(u, c, rs[i])]]
           after[i \in 0 .. n] == IF i = 0 THEN w ELSE CloseRecord(after[i - 1], c, rs[i])
<1>1. n \in Nat /\ \A i \in 1 .. n : rs[i] \in Records
  OBVIOUS
<1>2. CloseRecords(w, c, rs) = after[n]
  BY DEF CloseRecords
<1>3. F \in [1 .. n -> [S -> S]]
  <2> SUFFICES ASSUME NEW u \in S, NEW i \in 1 .. n PROVE CloseRecord(u, c, rs[i]) \in S
    OBVIOUS
  <2>1. Good(CloseRecord(u, c, rs[i]))
    BY <1>1, CloseRecordKeeps
  <2> QED BY <2>1 DEF Good
<1>4. w \in S
  BY DEF Good
<1> HIDE DEF S, F
<1>5. PICK g : g \in [0 .. n -> S] /\ g[0] = w /\ \A i \in 1 .. n : g[i] = F[i][g[i - 1]]
  <2> HIDE DEF n, after
  <2>1. \E g : IsRun(g, S, n, w, F)
    BY <1>1, <1>3, <1>4, RunExists
  <2> QED BY <2>1 DEF IsRun
<1>6. \A i \in 1 .. n : g[i] = CloseRecord(g[i - 1], c, rs[i])
  <2> TAKE i \in 1 .. n
  <2>1. g[i - 1] \in S
    BY <1>1, <1>5
  <2> QED BY <1>5, <2>1 DEF F
<1>7. g = [i \in 0 .. n |-> IF i = 0 THEN w ELSE CloseRecord(g[i - 1], c, rs[i])]
  BY <1>1, <1>5, <1>6
<1>8. after = [i \in 0 .. n |-> IF i = 0 THEN w ELSE CloseRecord(after[i - 1], c, rs[i])]
  <2> HIDE DEF n
  <2> QED BY <1>7
<1> HIDE DEF n, after
<1>9. after[0] = w /\ \A i \in 1 .. n : after[i] = CloseRecord(after[i - 1], c, rs[i])
  BY <1>1, <1>8
<1>10. \A i \in 0 .. n : Good(after[i])
  <2> DEFINE T == {i \in Nat : i \in 0 .. n => Good(after[i])}
  <2>1. 0 \in T
    BY <1>9
  <2>2. ASSUME NEW i \in Nat, i \in T, i + 1 \in 1 .. n PROVE i + 1 \in T
    <3>1. i \in 0 .. n /\ (i + 1) - 1 = i
      BY <1>1, <2>2
    <3>2. Good(after[i]) /\ after[i + 1] = CloseRecord(after[i], c, rs[i + 1])
      BY <1>9, <2>2, <3>1
    <3>3. Good(after[i + 1])
      BY <1>1, <2>2, <3>2, CloseRecordKeeps
    <3> QED BY <3>3
  <2>3. \A i \in Nat : i \in T => i + 1 \in T
    <3> SUFFICES ASSUME NEW i \in Nat, i \in T, i + 1 \in 0 .. n PROVE i + 1 \in T
      OBVIOUS
    <3>1. i + 1 \in 1 .. n
      BY <1>1
    <3> QED BY <2>2, <3>1
  <2> HIDE DEF T
  <2>4. Nat \subseteq T
    BY <2>1, <2>3, SetInduction
  <2> QED BY <1>1, <2>4 DEF T
<1>11. IsCloseRun(after, w, c, rs)
  BY <1>2, <1>9, <1>10 DEF IsCloseRun, n
<1> QED BY <1>11

LEMMA CloseRecordsKeep ==
  ASSUME NEW w, Good(w), NEW c \in Channels, NEW rs \in Seq(Records), NEW ts, NEW v, v = CloseRecords(w, c, rs)
  PROVE  /\ Good(v) /\ Kept(w, v, ts)
         /\ \A h \in Fibers : InQueue(w, h, rs) /\ w.fiber[h].status \notin {"dead", "error"} => HasTask(v, h)
<1> DEFINE n == Len(rs)
<1>1. n \in Nat /\ DOMAIN rs = 1 .. n /\ \A i \in 1 .. n : rs[i] \in Records
  OBVIOUS
<1>2. PICK after : IsCloseRun(after, w, c, rs)
  BY CloseRuns
<1>3. v = after[n]
  BY <1>2 DEF IsCloseRun
<1>4. after[0] = w /\ \A i \in 1 .. n : after[i] = CloseRecord(after[i - 1], c, rs[i])
  BY <1>2 DEF IsCloseRun
<1> HIDE DEF n
<1> DEFINE Answered(u, h, i) == (\E j \in 1 .. i : rs[j].fiber = h /\ Live(w, rs[j])) /\ w.fiber[h].status \notin {"dead", "error"}
           Done(u, i) == /\ Good(u) /\ Kept(w, u, ts)
                         /\ \A h \in Fibers : u.fiber[h] = w.fiber[h] \/ HasTask(u, h)
                         /\ \A h \in Fibers : Answered(u, h, i) => HasTask(u, h)
           T == {i \in Nat : i <= n => Done(after[i], i)}
<1>5. 0 \in T
  <2>1. 1 .. 0 = {}
    OBVIOUS
  <2>2. Kept(w, w, ts)
    BY DEF Kept, SameDoings
  <2> QED BY <1>4, <2>1, <2>2
<1>6. ASSUME NEW i \in Nat, i \in T, i + 1 <= n PROVE i + 1 \in T
  <2> DEFINE u == after[i]
             y == after[i + 1]
             r == rs[i + 1]
  <2>1. i + 1 \in 1 .. n /\ (i + 1) - 1 = i /\ i <= n
    BY <1>1, <1>6
  <2>2. Done(u, i)
    BY <1>6, <2>1
  <2>3. y = CloseRecord(u, c, r) /\ r \in Records
    BY <1>1, <1>4, <2>1
  <2> HIDE DEF u, y
  <2>4. /\ Good(y) /\ Kept(u, y, ts)
        /\ \A h \in Fibers : y.fiber[h] = u.fiber[h] \/ HasTask(y, h)
        /\ Live(u, r) /\ u.fiber[r.fiber].status \notin {"dead", "error"} => HasTask(y, r.fiber)
    <3> HIDE DEF r
    <3> QED BY <2>2, <2>3, CloseRecordKeeps
  <2>5. Kept(w, y, ts)
    BY <2>2, <2>4, KeptTrans
  <2>6. \A h \in Fibers : HasTask(u, h) => HasTask(y, h)
    BY <2>4 DEF Kept, SameDoings
  <2>7. \A h \in Fibers : y.fiber[h] = w.fiber[h] \/ HasTask(y, h)
    BY <2>2, <2>4, <2>6
  <2>8. ASSUME NEW h \in Fibers, Answered(y, h, i + 1) PROVE HasTask(y, h)
    <3>1. CASE Answered(u, h, i)
      BY <2>2, <2>6, <3>1
    <3>2. CASE ~Answered(u, h, i)
      <4>1. r.fiber = h /\ Live(w, r) /\ w.fiber[h].status \notin {"dead", "error"}
        <5>1. \A j \in 1 .. i + 1 : j \in 1 .. i \/ j = i + 1
          BY <1>6
        <5> QED BY <2>8, <3>2, <5>1
      <4>2. CASE HasTask(u, h)
        BY <2>6, <4>2
      <4>3. CASE ~HasTask(u, h)
        <5>1. u.fiber[h] = w.fiber[h]
          BY <2>2, <4>3
        <5>2. Live(u, r) /\ u.fiber[r.fiber].status \notin {"dead", "error"}
          BY <4>1, <5>1 DEF Live
        <5> QED BY <2>4, <4>1, <5>2
      <4> QED BY <4>2, <4>3
    <3> QED BY <3>1, <3>2
  <2>9. Done(y, i + 1)
    BY <2>4, <2>5, <2>7, <2>8
  <2> QED BY <1>6, <2>9 DEF y
<1>7. \A i \in Nat : i \in T => i + 1 \in T
  <2>1. \A i \in Nat : ~(i + 1 <= n) => i + 1 \in T
    OBVIOUS
  <2> QED BY <1>6, <2>1
<1> HIDE DEF T
<1>8. n \in T
  BY <1>1, <1>5, <1>7, SetInduction
<1>9. Done(v, n)
  BY <1>1, <1>3, <1>8 DEF T
<1>10. \A h \in Fibers : InQueue(w, h, rs) /\ w.fiber[h].status \notin {"dead", "error"} => Answered(v, h, n)
  BY <1>1 DEF InQueue
<1> QED BY <1>9, <1>10

LEMMA CloseChanKeeps ==
  ASSUME NEW w, Good(w), NEW c \in Channels, NEW ts, NEW v, v = CloseChan(w, c)
  PROVE  /\ Good(v) /\ SameDoings(w, v)
         /\ \A h \in Fibers : CanBeWoken(w, ts, h) /\ w.fiber[h].status \notin {"dead", "error"} => CanBeWoken(v, ts, h)
<1> DEFINE ch == w.chan[c]
           rs == ch.writers \o ch.readers
           nch == [ch EXCEPT !.closed = TRUE, !.readers = <<>>, !.writers = <<>>]
           u == Closed(w, c)
<1>1. CASE ch.closed
  <2>1. v = w
    BY <1>1 DEF CloseChan
  <2> QED BY <2>1 DEF SameDoings
<1>2. CASE ~ch.closed
  <2>1. v = CloseRecords(u, c, rs)
    BY <1>2 DEF CloseChan
  <2>2. w \in Ev /\ ch \in ChannelStates /\ ch.readers \in Seq(Records) /\ ch.writers \in Seq(Records)
    BY DEF Good, Ev, ChannelStates
  <2>3. /\ rs \in Seq(Records)
        /\ \A h : InQueue(w, h, ch.writers) => InQueue(w, h, rs)
        /\ \A h : InQueue(w, h, ch.readers) => InQueue(w, h, rs)
    <3> DEFINE nw == Len(ch.writers)
               nr == Len(ch.readers)
    <3>1. /\ rs \in Seq(Records) /\ nw \in Nat /\ nr \in Nat /\ Len(rs) = nw + nr
          /\ DOMAIN rs = 1 .. nw + nr /\ DOMAIN ch.writers = 1 .. nw /\ DOMAIN ch.readers = 1 .. nr
          /\ \A i \in 1 .. Len(rs) : rs[i] = IF i <= nw THEN ch.writers[i] ELSE ch.readers[i - nw]
      <4>1. \A p, q \in Seq(Records) : LET s == p \o q IN
              /\ s \in Seq(Records) /\ Len(p) \in Nat /\ Len(q) \in Nat /\ Len(s) = Len(p) + Len(q)
              /\ DOMAIN s = 1 .. Len(p) + Len(q) /\ DOMAIN p = 1 .. Len(p) /\ DOMAIN q = 1 .. Len(q)
              /\ \A i \in 1 .. Len(s) : s[i] = IF i <= Len(p) THEN p[i] ELSE q[i - Len(p)]
        OBVIOUS
      <4> HIDE DEF ch
      <4> QED BY <2>2, <4>1
    <3> HIDE DEF rs, nw, nr
    <3>2. \A i \in 1 .. nw : i \in 1 .. Len(rs) /\ rs[i] = ch.writers[i]
      BY <3>1
    <3>3. \A i \in 1 .. nr : nw + i \in 1 .. Len(rs) /\ rs[nw + i] = ch.readers[i]
      <4> TAKE i \in 1 .. nr
      <4>1. nw + i \in 1 .. Len(rs) /\ ~(nw + i <= nw) /\ (nw + i) - nw = i
        BY <3>1
      <4> QED BY <3>1, <4>1
    <3> QED BY <3>1, <3>2, <3>3 DEF InQueue
  <2>4. nch \in ChannelStates /\ nch.readers = <<>> /\ nch.writers = <<>> /\ nch.closed = TRUE /\ nch.items = ch.items
    <3>1. <<>> \in Seq(Records)
      OBVIOUS
    <3>2. ASSUME NEW s \in ChannelStates, NEW t, t = [s EXCEPT !.closed = TRUE, !.readers = <<>>, !.writers = <<>>]
          PROVE  t \in ChannelStates /\ t.readers = <<>> /\ t.writers = <<>> /\ t.closed = TRUE /\ t.items = s.items
      BY <3>1, <3>2 DEF ChannelStates
    <3> QED BY <2>2, <3>2
  <2>5. u = [w EXCEPT !.chan[c] = nch]
    BY DEF Closed
  <2> HIDE DEF u, nch, rs
  <2>6. /\ u \in Ev /\ u.fiber = w.fiber /\ u.spawn = w.spawn /\ u.active = w.active
        /\ u.chan[c] = nch /\ \A d \in Channels : d # c => u.chan[d] = w.chan[d]
    <3>1. nch \in ChannelStates /\ w \in Ev
      BY <2>2, <2>4
    <3>2. PICK h \in ChannelStates : h = nch
      BY <3>1
    <3>3. u = [w EXCEPT !.chan[c] = h]
      BY <2>5, <3>2
    <3>4. /\ u \in Ev /\ u.fiber = w.fiber /\ u.spawn = w.spawn /\ u.active = w.active
          /\ u.chan[c] = h /\ \A d \in Channels : d # c => u.chan[d] = w.chan[d]
      BY <3>1, <3>3, ChanPut
    <3> QED BY <3>2, <3>4
  <2>7. /\ Good(u) /\ SameDoings(w, u)
        /\ \A h \in Fibers : CanBeWoken(w, ts, h) =>
              \/ CanBeWoken(u, ts, h)
              \/ InQueue(w, h, w.chan[c].readers) /\ ~InQueue(w, h, u.chan[c].readers)
              \/ InQueue(w, h, w.chan[c].writers) /\ ~InQueue(w, h, u.chan[c].writers)
    <3>1. u.chan[c].readers = <<>> /\ u.chan[c].writers = <<>>
      BY <2>4, <2>6
    <3> HIDE DEF ch
    <3> QED BY <2>6, <3>1, ChanChanged
  <2>8. /\ Good(v) /\ Kept(u, v, ts)
        /\ \A h \in Fibers : InQueue(u, h, rs) /\ u.fiber[h].status \notin {"dead", "error"} => HasTask(v, h)
    BY <2>1, <2>3, <2>7, CloseRecordsKeep
  <2>9. SameDoings(w, v)
    BY <2>7, <2>8 DEF Kept, SameDoings
  <2>10. \A h : InQueue(u, h, rs) <=> InQueue(w, h, rs)
    BY <2>6 DEF InQueue, Live
  <2>11. \A h \in Fibers : CanBeWoken(w, ts, h) /\ w.fiber[h].status \notin {"dead", "error"} => CanBeWoken(v, ts, h)
    <3> SUFFICES ASSUME NEW h \in Fibers, CanBeWoken(w, ts, h), w.fiber[h].status \notin {"dead", "error"}
                 PROVE  CanBeWoken(v, ts, h)
      OBVIOUS
    <3>1. CASE CanBeWoken(u, ts, h)
      BY <2>8, <3>1 DEF Kept
    <3>2. CASE ~CanBeWoken(u, ts, h)
      <4>1. InQueue(u, h, rs)
        BY <2>3, <2>7, <2>10, <3>2
      <4>2. HasTask(v, h)
        BY <2>6, <2>8, <4>1
      <4> QED BY <4>2 DEF CanBeWoken
    <3> QED BY <3>1, <3>2
  <2> QED BY <2>8, <2>9, <2>11
<1> QED BY <1>1, <1>2

-----------------------------------------------------------------------------
(* A fiber that gives the VM back.                                           *)

\* What happened to one fiber happened to no other.
KeptBut(w, v, ts, f) ==
  \A g \in Fibers : g # f => /\ v.fiber[g].status = w.fiber[g].status /\ v.fiber[g].suspended = w.fiber[g].suspended
                             /\ (w.fiber[g].isTask => v.fiber[g].isTask) /\ (g \in w.active => g \in v.active)
                             /\ (HasTask(w, g) => HasTask(v, g))
                             /\ (CanBeWoken(w, ts, g) => CanBeWoken(v, ts, g))

WithFiber(w, f, ff, active) == [w EXCEPT !.fiber[f] = ff, !.active = active]

\* A fiber has another record, with the same id and flags, and nothing else has
\* changed but its place among the active.
LEMMA FiberPut ==
  ASSUME NEW w, Good(w), NEW f \in Fibers, NEW v, NEW ff \in FiberStates, NEW active \in SUBSET Fibers, NEW ts,
         v = WithFiber(w, f, ff, active),
         active = w.active \/ active = w.active \ {f},
         ff.id = w.fiber[f].id /\ ff.canceled = w.fiber[f].canceled /\ ff.isTask = w.fiber[f].isTask,
         ff.status \in {"dead", "error"} \/ f \in active \/ ~w.fiber[f].isTask
  PROVE  /\ Good(v) /\ KeptBut(w, v, ts, f) /\ v.chan = w.chan /\ v.active = active /\ v.fiber[f] = ff
         /\ (HasTask(w, f) => HasTask(v, f)) /\ (CanBeWoken(w, ts, f) => CanBeWoken(v, ts, f))
<1>1. w \in Ev /\ w.fiber \in [Fibers -> FiberStates]
  BY DEF Good, Ev
<1>2. /\ v \in Ev /\ v.chan = w.chan /\ v.active = active /\ v.spawn = w.spawn
      /\ v.fiber[f] = ff /\ \A g \in Fibers : g # f => v.fiber[g] = w.fiber[g]
  <2>1. v.fiber = [w.fiber EXCEPT ![f] = ff] /\ v.chan = w.chan /\ v.active = active /\ v.spawn = w.spawn /\ v.stray = w.stray
    BY <1>1 DEF Ev, WithFiber
  <2>2. v = [fiber |-> v.fiber, active |-> v.active, stray |-> v.stray, spawn |-> v.spawn, chan |-> v.chan]
    BY <1>1 DEF Ev, WithFiber
  <2>3. v.fiber \in [Fibers -> FiberStates] /\ v.fiber[f] = ff /\ \A g \in Fibers : g # f => v.fiber[g] = w.fiber[g]
    BY <1>1, <2>1
  <2>4. w.spawn \in Seq(Tasks) /\ w.chan \in [Channels -> ChannelStates] /\ w.stray \in SUBSET Fibers
    BY <1>1 DEF Ev
  <2>5. v \in Ev
    BY <2>1, <2>2, <2>3, <2>4 DEF Ev
  <2> QED BY <2>1, <2>3, <2>5
<1>3. \A g \in Fibers : v.fiber[g].id = w.fiber[g].id /\ v.fiber[g].canceled = w.fiber[g].canceled /\ v.fiber[g].isTask = w.fiber[g].isTask
  BY <1>2
<1>4. /\ \A i \in DOMAIN w.spawn : w.spawn[i].fiber \in Fibers
      /\ \A c \in Channels : /\ \A i \in DOMAIN w.chan[c].readers : w.chan[c].readers[i].fiber \in Fibers
                             /\ \A i \in DOMAIN w.chan[c].writers : w.chan[c].writers[i].fiber \in Fibers
  <2>1. w.spawn \in Seq(Tasks) /\ \A c \in Channels : w.chan[c] \in ChannelStates
    BY <1>1 DEF Ev
  <2>2. \A i \in DOMAIN w.spawn : w.spawn[i] \in Tasks
    BY <2>1
  <2>3. \A c \in Channels : w.chan[c].readers \in Seq(Records) /\ w.chan[c].writers \in Seq(Records)
    BY <2>1 DEF ChannelStates
  <2>4. \A q \in Seq(Records) : \A i \in DOMAIN q : q[i] \in Records
    OBVIOUS
  <2>5. \A r \in Records : r.fiber \in Fibers
    BY DEF Records
  <2> QED BY <2>2, <2>3, <2>4, <2>5 DEF Tasks
<1>5. \A r : r.fiber \in Fibers => (Live(v, r) <=> Live(w, r))
  BY <1>3 DEF Live
<1>6. NoWaitWithoutReason(v)
  BY <1>2 DEF Good, NoWaitWithoutReason
<1>7. CancelIsKept(v)
  BY <1>2, <1>3, <1>4, <1>5 DEF Good, CancelIsKept
<1>8. TasksEndLive(v)
  BY <1>2, <1>4, <1>5 DEF Good, TasksEndLive
<1>9. TasksAreActive(v)
  BY <1>2, <1>3, <1>4 DEF Good, TasksAreActive
<1>10. \A g \in Fibers : HasTask(v, g) <=> HasTask(w, g)
  BY <1>2, <1>5 DEF HasTask
<1>11. \A q : \A g \in Fibers : InQueue(v, g, q) <=> InQueue(w, g, q)
  BY <1>5 DEF InQueue
<1>12. \A g \in Fibers : Sleeps(v, ts, g) <=> Sleeps(w, ts, g)
  BY <1>5 DEF Sleeps
<1>13. \A g \in Fibers : CanBeWoken(w, ts, g) => CanBeWoken(v, ts, g)
  <2>1. \A g \in Fibers : Queued(w, g) => Queued(v, g)
    BY <1>2, <1>11 DEF Queued
  <2> QED BY <1>10, <1>12, <2>1 DEF CanBeWoken
<1> QED BY <1>2, <1>3, <1>6, <1>7, <1>8, <1>9, <1>10, <1>13 DEF Good, KeptBut

WithStatus(w, f, status, sig, active) ==
  [w EXCEPT !.fiber[f] = [w.fiber[f] EXCEPT !.status = status, !.suspended = (sig \in Suspends)], !.active = active]

Statuses == {"new", "alive", "suspended", "pending", "interrupted", "debug", "dead", "error"}
Signals == {"event", "yield", "interrupt", "debug", "ok", "error"}
\* What becomes of f and of the others when f's status is put.
IsPut(w, v, ts, f, status, sig, active) ==
  /\ Good(v) /\ KeptBut(w, v, ts, f) /\ v.chan = w.chan /\ v.active = active
  /\ v.fiber[f].status = status /\ v.fiber[f].suspended = (sig \in Suspends) /\ v.fiber[f].supervisor = w.fiber[f].supervisor
  /\ (HasTask(w, f) => HasTask(v, f)) /\ (CanBeWoken(w, ts, f) => CanBeWoken(v, ts, f))

\* A fiber has another status, and nothing else has changed but its place among the active.
LEMMA StatusPut ==
  ASSUME NEW w, Good(w), NEW f \in Fibers, NEW v, NEW status \in Statuses,
         NEW sig \in Signals, NEW active \in SUBSET Fibers, NEW ts,
         v = WithStatus(w, f, status, sig, active),
         active = w.active \/ active = w.active \ {f},
         status \in {"dead", "error"} \/ f \in active \/ ~w.fiber[f].isTask
  PROVE  IsPut(w, v, ts, f, status, sig, active)
<1> DEFINE ff == [w.fiber[f] EXCEPT !.status = status, !.suspended = (sig \in Suspends)]
<1>1. w.fiber[f] \in FiberStates
  BY DEF Good, Ev
<1> DEFINE suspended == sig \in Suspends
<1>0. suspended \in BOOLEAN
  OBVIOUS
<1>2. /\ ff \in FiberStates /\ ff.status = status /\ ff.suspended = (sig \in Suspends) /\ ff.supervisor = w.fiber[f].supervisor
      /\ ff.id = w.fiber[f].id /\ ff.canceled = w.fiber[f].canceled /\ ff.isTask = w.fiber[f].isTask
  <2>1. w.fiber[f] \in [status : Statuses, id : Nat, canceled : BOOLEAN,
                        suspended : BOOLEAN, isTask : BOOLEAN, supervisor : Channels \cup {None}]
    BY <1>1 DEF FiberStates, Statuses
  <2>2. ASSUME NEW b \in BOOLEAN, NEW r, r = [w.fiber[f] EXCEPT !.status = status, !.suspended = b]
        PROVE  /\ r \in FiberStates /\ r.status = status /\ r.suspended = b /\ r.supervisor = w.fiber[f].supervisor
               /\ r.id = w.fiber[f].id /\ r.canceled = w.fiber[f].canceled /\ r.isTask = w.fiber[f].isTask
    BY <2>1, <2>2 DEF FiberStates, Statuses
  <2>3. ff = [w.fiber[f] EXCEPT !.status = status, !.suspended = suspended]
    OBVIOUS
  <2> HIDE DEF ff
  <2>4. /\ ff \in FiberStates /\ ff.status = status /\ ff.suspended = suspended /\ ff.supervisor = w.fiber[f].supervisor
        /\ ff.id = w.fiber[f].id /\ ff.canceled = w.fiber[f].canceled /\ ff.isTask = w.fiber[f].isTask
    <3> HIDE DEF suspended
    <3> QED BY <1>0, <2>2, <2>3
  <2> QED BY <2>4
<1> HIDE DEF ff, suspended
<1>3. v = WithFiber(w, f, ff, active)
  BY DEF ff, WithStatus, WithFiber
<1>4. ff.status \in {"dead", "error"} \/ f \in active \/ ~w.fiber[f].isTask
  BY <1>2
<1>5. /\ Good(v) /\ KeptBut(w, v, ts, f) /\ v.chan = w.chan /\ v.active = active /\ v.fiber[f] = ff
      /\ (HasTask(w, f) => HasTask(v, f)) /\ (CanBeWoken(w, ts, f) => CanBeWoken(v, ts, f))
  <2>1. /\ ff \in FiberStates /\ ff.id = w.fiber[f].id /\ ff.canceled = w.fiber[f].canceled
        /\ ff.isTask = w.fiber[f].isTask
    BY <1>2
  <2> QED BY <1>3, <1>4, <2>1, FiberPut
<1> QED BY <1>2, <1>5 DEF suspended, IsPut

\* f is still there after sig.
Stays(sig) == StatusAfter(sig) \notin {"dead", "error"}

LEMMA SettleKeeps ==
  ASSUME NEW w, Good(w), NEW f \in Fibers, NEW sig \in Signals, NEW ts,
         Stays(sig) => f \in w.active, NEW v, v = Settle(w, f, sig)
  PROVE  /\ Good(v) /\ KeptBut(w, v, ts, f)
         /\ v.fiber[f].status = StatusAfter(sig)
         /\ v.fiber[f].suspended = (sig \in Suspends) /\ (Stays(sig) => f \in v.active)
         /\ (HasTask(w, f) => HasTask(v, f)) /\ (CanBeWoken(w, ts, f) => CanBeWoken(v, ts, f))
<1> DEFINE status == StatusAfter(sig)
           active == IF status \in {"dead", "error"} THEN w.active \ {f} ELSE w.active
           u == WithStatus(w, f, status, sig, active)
           sv == w.fiber[f].supervisor
           hears == Tells(w, f, sig) /\ ~w.chan[sv].closed
<1>1. v = IF hears THEN Push(u, f, sv, 0, "event") ELSE u
  BY DEF Settle, WithStatus
<1>2. w.fiber[f] \in FiberStates /\ w.active \in SUBSET Fibers
  BY DEF Good, Ev
<1>3. sv \in Channels \cup {None} /\ (hears => sv # None)
  BY <1>2 DEF FiberStates, Tells
<1>4. /\ status \in Statuses /\ active \in SUBSET Fibers
      /\ (active = w.active \/ active = w.active \ {f})
      /\ (status \in {"dead", "error"} \/ f \in active \/ ~w.fiber[f].isTask)
      /\ Stays(sig) => active = w.active
  BY <1>2 DEF Stays, StatusAfter, Statuses
<1>0. u = WithStatus(w, f, status, sig, active)
  OBVIOUS
<1> HIDE DEF status, active, u, sv, hears
<1>5. /\ Good(u) /\ KeptBut(w, u, ts, f) /\ u.chan = w.chan /\ u.active = active
      /\ u.fiber[f].status = status /\ u.fiber[f].suspended = (sig \in Suspends)
      /\ (HasTask(w, f) => HasTask(u, f)) /\ (CanBeWoken(w, ts, f) => CanBeWoken(u, ts, f))
  <2>1. IsPut(w, u, ts, f, status, sig, active)
    BY <1>0, <1>4, StatusPut
  <2> QED BY <2>1 DEF IsPut
<1>6. Good(v) /\ Kept(u, v, ts)
  <2>1. CASE hears
    <3>1. v = Push(u, f, sv, 0, "event")
      BY <1>1, <2>1
    <3>2. sv \in Channels /\ ~u.chan[sv].closed /\ "event" \in Modes /\ 0 \in Nat
      BY <1>3, <1>5, <2>1 DEF Modes, hears
    <3> QED BY <1>5, <3>1, <3>2, PushKeeps
  <2>2. CASE ~hears
    <3>1. v = u
      BY <1>1, <2>2
    <3> QED BY <1>5, <3>1 DEF Kept, SameDoings
  <2> QED BY <2>1, <2>2
<1>7. KeptBut(w, v, ts, f)
  BY <1>5, <1>6 DEF Kept, SameDoings, KeptBut
<1>8. /\ v.fiber[f].status = status /\ v.fiber[f].suspended = (sig \in Suspends) /\ (f \in active => f \in v.active)
      /\ (HasTask(w, f) => HasTask(v, f)) /\ (CanBeWoken(w, ts, f) => CanBeWoken(v, ts, f))
  BY <1>5, <1>6 DEF Kept, SameDoings
<1> QED BY <1>4, <1>6, <1>7, <1>8 DEF status

-----------------------------------------------------------------------------
(* The steps.  First a step that leaves everyone where he was, then one in   *)
(* which one fiber takes or gives up the VM, and nobody else moves.          *)

Suspended(w) == {f \in Fibers : w.fiber[f].suspended}

LEMMA SuspendedCount ==
  ASSUME NEW w, NEW v, NEW f \in Fibers,
         \A g \in Fibers : g # f => v.fiber[g].suspended = w.fiber[g].suspended
  PROVE  /\ Cardinality(Suspended(w)) \in Nat
         /\ v.fiber[f].suspended /\ ~w.fiber[f].suspended => Cardinality(Suspended(v)) = Cardinality(Suspended(w)) + 1
         /\ ~v.fiber[f].suspended /\ w.fiber[f].suspended => Cardinality(Suspended(v)) = Cardinality(Suspended(w)) - 1
         /\ ~v.fiber[f].suspended /\ ~w.fiber[f].suspended => Suspended(v) = Suspended(w)
<1>1. Suspended(w) \in SUBSET Fibers /\ IsFiniteSet(Fibers)
  BY EvAssumption DEF Suspended
<1>2. IsFiniteSet(Suspended(w)) /\ Cardinality(Suspended(w)) \in Nat
  BY <1>1, FS_Subset, FS_CardinalityType
<1>3. CASE v.fiber[f].suspended /\ ~w.fiber[f].suspended
  <2>1. Suspended(v) = Suspended(w) \cup {f} /\ f \notin Suspended(w)
    BY <1>3 DEF Suspended
  <2> QED BY <1>2, <1>3, <2>1, FS_AddElement
<1>4. CASE ~v.fiber[f].suspended /\ w.fiber[f].suspended
  <2>1. Suspended(v) = Suspended(w) \ {f} /\ f \in Suspended(w)
    BY <1>4 DEF Suspended
  <2> QED BY <1>2, <1>4, <2>1, FS_RemoveElement
<1>5. CASE ~v.fiber[f].suspended /\ ~w.fiber[f].suspended
  <2>1. Suspended(v) = Suspended(w)
    BY <1>5 DEF Suspended
  <2> QED BY <1>2, <1>5, <2>1
<1> QED BY <1>2, <1>3, <1>4, <1>5

LEMMA IInvIsGood ==
  ASSUME IInv
  PROVE  Good(ev) /\ listeners = Cardinality(Suspended(ev))
BY DEF IInv, WaitsAreSound, TypeOK, WaitingKeepsLoopAlive, Good, Suspended

\* The clock and the counters stay within their bounds, and timeouts are timeouts.
CountersOK == (\A t \in timeouts : t \in Timeouts) /\ now \in 0 .. MaxTime /\ calls \in 0 .. MaxCalls

LEMMA Continues ==
  ASSUME IInv, Good(ev'), CountersOK', SameDoings(ev, ev'),
         \A g \in Fibers : ev.fiber[g].status = "suspended" /\ CanBeWoken(ev, timeouts, g) => CanBeWoken(ev', timeouts', g),
         listeners' = listeners, running' = running, awaits' = awaits, phase' \in {"timers", "tasks", "exited"}
  PROVE  IInv'
<1>1. TypeOK'
  <2>1. running \in Fibers \cup {None} /\ listeners \in Nat /\ awaits \in [Fibers -> SUBSET Reasons]
    BY DEF IInv, WaitsAreSound, TypeOK
  <2>2. running' # None => LET f == ev'.fiber[running'] IN f.status = "alive" /\ ~f.suspended /\ f.isTask
    <3>1. running # None => LET f == ev.fiber[running] IN f.status = "alive" /\ ~f.suspended /\ f.isTask
      BY DEF IInv, WaitsAreSound, TypeOK
    <3> QED BY <2>1, <3>1 DEF SameDoings
  <2> QED BY <2>1, <2>2 DEF TypeOK, CountersOK, Good
<1>2. NoLostWakeup'
  BY DEF IInv, WaitsAreSound, NoLostWakeup, SameDoings
<1>3. WaitingKeepsLoopAlive'
  <2>1. Suspended(ev') = Suspended(ev)
    BY DEF SameDoings, Suspended
  <2>2. \A f \in Fibers : Waits(ev', f) => f \in ev'.active /\ (ev'.fiber[f].suspended \/ HasTask(ev', f))
    BY DEF IInv, WaitsAreSound, WaitingKeepsLoopAlive, SameDoings, Waits
  <2> QED BY <2>1, <2>2, IInvIsGood DEF WaitingKeepsLoopAlive, Suspended
<1> QED BY <1>1, <1>2, <1>3 DEF IInv, WaitsAreSound, Good

LEMMA LongerSleep ==
  ASSUME NEW w, NEW ts, NEW us, ts \subseteq us, NEW f, CanBeWoken(w, ts, f)
  PROVE  CanBeWoken(w, us, f)
BY DEF CanBeWoken, Sleeps

\* Nobody but f is touched.
Others(f) ==
  \A g \in Fibers : g # f =>
    /\ ev'.fiber[g].status = ev.fiber[g].status /\ ev'.fiber[g].suspended = ev.fiber[g].suspended
    /\ (g \in ev.active => g \in ev'.active) /\ (HasTask(ev, g) => HasTask(ev', g))
    /\ (CanBeWoken(ev, timeouts, g) => CanBeWoken(ev', timeouts', g))
    /\ awaits'[g] = awaits[g]

Flag(w, f) == IF w.fiber[f].suspended THEN 1 ELSE 0

LEMMA Moves ==
  ASSUME IInv, NEW f \in Fibers, Good(ev'), Others(f), CountersOK', awaits' \in [Fibers -> SUBSET Reasons],
         ~(ev.fiber[f].suspended /\ ev'.fiber[f].suspended),
         listeners' = listeners + Flag(ev', f) - Flag(ev, f),
         Waits(ev', f) => f \in ev'.active /\ (ev'.fiber[f].suspended \/ HasTask(ev', f)),
         ev'.fiber[f].status = "suspended" /\ awaits'[f] # {} => CanBeWoken(ev', timeouts', f),
         running' = None \/ (running' = f /\ ev'.fiber[f].status = "alive" /\ ~ev'.fiber[f].suspended /\ ev'.fiber[f].isTask),
         phase' \in {"timers", "tasks", "exited"}
  PROVE  IInv'
<1>1. \A g \in Fibers : g # f => ev'.fiber[g].suspended = ev.fiber[g].suspended
  BY DEF Others
<1>2. listeners' = Cardinality(Suspended(ev')) /\ listeners' \in Nat
  <2>1. Cardinality(Suspended(ev')) \in Nat /\ Cardinality(Suspended(ev)) \in Nat
    BY SuspendedCount
  <2>2. CASE ev.fiber[f].suspended
    <3>1. Cardinality(Suspended(ev')) = Cardinality(Suspended(ev)) - 1
      BY <1>1, <2>2, SuspendedCount
    <3>2. Flag(ev, f) = 1 /\ Flag(ev', f) = 0
      BY <2>2 DEF Flag
    <3> QED BY <2>1, <3>1, <3>2, IInvIsGood
  <2>3. CASE ev'.fiber[f].suspended
    <3>1. Cardinality(Suspended(ev')) = Cardinality(Suspended(ev)) + 1
      BY <1>1, <2>3, SuspendedCount
    <3>2. Flag(ev, f) = 0 /\ Flag(ev', f) = 1
      BY <2>3 DEF Flag
    <3> QED BY <2>1, <3>1, <3>2, IInvIsGood
  <2>4. CASE ~ev.fiber[f].suspended /\ ~ev'.fiber[f].suspended
    <3>1. Suspended(ev') = Suspended(ev)
      BY <1>1, <2>4, SuspendedCount
    <3>2. Flag(ev, f) = 0 /\ Flag(ev', f) = 0
      BY <2>4 DEF Flag
    <3> QED BY <2>1, <3>1, <3>2, IInvIsGood
  <2> QED BY <2>2, <2>3, <2>4
<1>3. TypeOK'
  BY <1>2 DEF TypeOK, CountersOK, Good
<1>4. NoLostWakeup'
  <2> SUFFICES ASSUME NEW g \in Fibers, ev'.fiber[g].status = "suspended", awaits'[g] # {}
               PROVE  CanBeWoken(ev', timeouts', g)
    BY DEF NoLostWakeup
  <2>1. CASE g = f
    BY <2>1
  <2>2. CASE g # f
    BY <2>2 DEF IInv, WaitsAreSound, NoLostWakeup, Others
  <2> QED BY <2>1, <2>2
<1>5. WaitingKeepsLoopAlive'
  <2>1. \A g \in Fibers : Waits(ev', g) => g \in ev'.active /\ (ev'.fiber[g].suspended \/ HasTask(ev', g))
    BY DEF IInv, WaitsAreSound, WaitingKeepsLoopAlive, Others, Waits
  <2> QED BY <1>2, <2>1 DEF WaitingKeepsLoopAlive, Suspended
<1> QED BY <1>3, <1>4, <1>5 DEF IInv, WaitsAreSound, Good

\* What f has when it gives the VM back, and who else can be woken then.
LEMMA OthersLeft ==
  ASSUME IInv, NEW f \in Fibers, NEW w, NEW causes \in SUBSET Reasons, Kept(ev, w, timeouts),
         KeptBut(w, ev', timeouts', f), timeouts \subseteq timeouts', awaits' = [awaits EXCEPT ![f] = causes]
  PROVE  Others(f) /\ awaits' \in [Fibers -> SUBSET Reasons] /\ awaits'[f] = causes
<1>1. awaits \in [Fibers -> SUBSET Reasons]
  BY DEF IInv, WaitsAreSound, TypeOK
<1>2. awaits' \in [Fibers -> SUBSET Reasons] /\ awaits'[f] = causes /\ \A g \in Fibers : g # f => awaits'[g] = awaits[g]
  BY <1>1
<1>3. \A g \in Fibers : CanBeWoken(ev, timeouts, g) => CanBeWoken(w, timeouts', g)
  BY LongerSleep DEF Kept
<1> QED BY <1>2, <1>3 DEF Others, Kept, SameDoings, KeptBut

LEMMA LeavesKeeps ==
  ASSUME IInv, NEW f \in Fibers, NEW w, NEW sig \in Signals, NEW causes \in SUBSET Reasons, Good(w), Kept(ev, w, timeouts),
         sig = "event" /\ causes # {} => CanBeWoken(w, timeouts', f),
         running = f, f # None, phase = "tasks", timeouts \subseteq timeouts', CountersOK', Leaves(w, f, sig, causes)
  PROVE  IInv'
<1> DEFINE v == ev'
           ts == timeouts'
<1>1. ev.fiber[f].status = "alive" /\ ~ev.fiber[f].suspended /\ ev.fiber[f].isTask /\ listeners \in Nat
  BY DEF IInv, WaitsAreSound, TypeOK
<1>2. f \in w.active
  BY <1>1 DEF IInv, TasksAreActive, Kept, SameDoings
<1>3. /\ v = Settle(w, f, sig) /\ listeners' = listeners + (IF sig \in Suspends THEN 1 ELSE 0) /\ running' = None
      /\ phase' \in {"tasks", "exited"} /\ awaits' = [awaits EXCEPT ![f] = causes]
  BY DEF Leaves
<1>4. /\ Good(v) /\ KeptBut(w, v, ts, f) /\ v.fiber[f].status = StatusAfter(sig)
      /\ v.fiber[f].suspended = (sig \in Suspends) /\ (Stays(sig) => f \in v.active)
      /\ (CanBeWoken(w, ts, f) => CanBeWoken(v, ts, f))
  <2> HIDE DEF v, ts
  <2> QED BY <1>2, <1>3, SettleKeeps
<1>5. Others(f) /\ awaits' \in [Fibers -> SUBSET Reasons] /\ awaits'[f] = causes
  BY <1>3, <1>4, OthersLeft
<1>6. Waits(v, f) => sig \in Suspends /\ Stays(sig)
  BY <1>4 DEF Waits, StatusAfter, Suspends, Stays
<1>7. v.fiber[f].status = "suspended" => sig = "event"
  BY <1>4 DEF StatusAfter
<1>8. listeners' = listeners + Flag(v, f) - Flag(ev, f)
  <2>1. Flag(ev, f) = 0
    BY <1>1 DEF Flag
  <2>2. Flag(v, f) = IF sig \in Suspends THEN 1 ELSE 0
    BY <1>4 DEF Flag
  <2> HIDE DEF v
  <2> QED BY <1>1, <1>3, <2>1, <2>2
<1> QED BY <1>1, <1>3, <1>4, <1>5, <1>6, <1>7, <1>8, Moves

LEMMA CallFacts ==
  ASSUME IInv, NEW f \in Fibers, Call(f)
  PROVE  /\ Good(ev) /\ calls + 1 \in Nat /\ running = f /\ f # None /\ phase = "tasks"
         /\ now \in 0 .. MaxTime /\ calls' \in 0 .. MaxCalls /\ calls \in Nat /\ now \in Nat
         /\ ev.fiber[f].status = "alive" /\ ev.fiber[f].isTask
BY EvAssumption, IInvIsGood DEF IInv, WaitsAreSound, TypeOK, Call

LEMMA AwaitKeeps ==
  ASSUME IInv, NEW f \in Fibers, NEW w, NEW causes \in SUBSET Reasons, Good(w), Kept(ev, w, timeouts),
         causes # {} => CanBeWoken(w, timeouts', f),
         running = f, f # None, phase = "tasks", timeouts \subseteq timeouts', CountersOK', Await(w, f, causes)
  PROVE  IInv'
<1>1. Leaves(w, f, "event", causes) /\ "event" \in Signals
  BY DEF Await, Signals
<1> QED BY <1>1, LeavesKeeps

LEMMA ReturnsKeeps ==
  ASSUME IInv, NEW f \in Fibers, Call(f), NEW w, Good(w), SameDoings(ev, w),
         \A g \in Fibers : ev.fiber[g].status = "suspended" /\ CanBeWoken(ev, timeouts, g) => CanBeWoken(w, timeouts, g),
         Returns(w)
  PROVE  IInv'
<1>1. ev' = w /\ timeouts' = timeouts /\ listeners' = listeners /\ phase' = phase /\ running' = running /\ now' = now /\ awaits' = awaits
  BY DEF Returns
<1>2. CountersOK'
  BY <1>1, CallFacts DEF CountersOK, IInv, WaitsAreSound, TypeOK
<1>3. phase' = "tasks"
  BY <1>1, CallFacts
<1>4. Good(ev') /\ SameDoings(ev, ev')
  BY <1>1
<1> QED BY <1>1, <1>2, <1>3, <1>4, Continues

LEMMA GiveStep ==
  ASSUME IInv, NEW f \in Fibers, NEW c \in Channels, Give(f, c)
  PROVE  IInv'
<1> DEFINE w == Push(ev, f, c, calls + 1, "plain")
<1>0. Call(f) /\ ~ev.chan[c].closed
  BY DEF Give
<1>1. /\ Good(w) /\ Kept(ev, w, timeouts)
      /\ PushBlocks(ev, c) => Queued(w, f)
  <2>1. "plain" \in Modes /\ "plain" # "event"
    BY DEF Modes
  <2> QED BY <1>0, <2>1, CallFacts, PushKeeps
<1>2. CASE PushBlocks(ev, c)
  <2>1. Await(w, f, {<<"give", c>>, <<"close", c>>}) /\ timeouts' = timeouts
    BY <1>2 DEF Give
  <2> HIDE DEF w
  <2>2. CanBeWoken(w, timeouts', f)
    BY <1>1, <1>2 DEF CanBeWoken
  <2>3. CountersOK'
    BY <1>0, <2>1, CallFacts DEF CountersOK, IInv, WaitsAreSound, TypeOK, Await, Leaves
  <2>4. timeouts \subseteq timeouts' /\ {<<"give", c>>, <<"close", c>>} \in SUBSET Reasons
    BY <2>1 DEF Reasons, Kinds
  <2> QED BY <1>0, <1>1, <2>1, <2>2, <2>3, <2>4, CallFacts, AwaitKeeps
<1>3. CASE ~PushBlocks(ev, c)
  <2>1. Returns(w)
    BY <1>3 DEF Give
  <2> HIDE DEF w
  <2>2. SameDoings(ev, w) /\ \A g \in Fibers : CanBeWoken(ev, timeouts, g) => CanBeWoken(w, timeouts, g)
    BY <1>1 DEF Kept
  <2> QED BY <1>0, <1>1, <2>1, <2>2, ReturnsKeeps
<1> QED BY <1>2, <1>3

LEMMA TakeStep ==
  ASSUME IInv, NEW f \in Fibers, NEW c \in Channels, Take(f, c)
  PROVE  IInv'
<1> DEFINE w == Pop(ev, f, c)
           r == PopResult(ev, c)
<1>0. Call(f) /\ timeouts' = timeouts
  BY DEF Take
<1>1. /\ Good(w) /\ Kept(ev, w, timeouts)
      /\ PopBlocks(ev, c) => Queued(w, f)
  BY <1>0, CallFacts, PopKeeps
<1>2. timeouts \subseteq timeouts'
  BY <1>0
<1>3. CASE PopBlocks(ev, c)
  <2>1. Await(w, f, {<<"take", c>>, <<"close", c>>})
    BY <1>3 DEF Take
  <2> HIDE DEF w
  <2>2. CanBeWoken(w, timeouts', f)
    BY <1>1, <1>3 DEF CanBeWoken
  <2>3. CountersOK'
    BY <1>0, <2>1, CallFacts DEF CountersOK, IInv, WaitsAreSound, TypeOK, Await, Leaves
  <2>4. {<<"take", c>>, <<"close", c>>} \in SUBSET Reasons
    BY DEF Reasons, Kinds
  <2> QED BY <1>0, <1>1, <1>2, <2>1, <2>2, <2>3, <2>4, CallFacts, AwaitKeeps
<1>4. CASE ~PopBlocks(ev, c)
  <2> DEFINE v == Enqueue(w, f, r, "ok")
  <2>1. Await(v, f, {<<r.kind, c>>})
    BY <1>4 DEF Take
  <2>2. r \in Causes
    <3>1. CASE ev.chan[c].closed
      BY <3>1 DEF PopResult, Cause, Causes, Kinds
    <3>2. CASE ~ev.chan[c].closed
      <4>1. ev.chan[c].items \in Seq(Nat) /\ ev.chan[c].items # <<>>
        BY <1>0, <1>4, <3>2, CallFacts DEF PopBlocks, Good, Ev, ChannelStates
      <4>2. Head(ev.chan[c].items) \in Nat
        BY <4>1
      <4> QED BY <3>2, <4>2 DEF PopResult, Cause, Causes, Kinds
    <3> QED BY <3>1, <3>2
  <2> HIDE DEF w, r
  <2>3. Good(v) /\ Kept(w, v, timeouts) /\ HasTask(v, f)
    BY <1>1, <2>2, EnqueueKeeps
  <2> HIDE DEF v
  <2>4. Kept(ev, v, timeouts) /\ CanBeWoken(v, timeouts', f)
    BY <1>1, <2>3, KeptTrans DEF CanBeWoken
  <2>5. CountersOK'
    BY <1>0, <2>1, CallFacts DEF CountersOK, IInv, WaitsAreSound, TypeOK, Await, Leaves
  <2>6. {<<r.kind, c>>} \in SUBSET Reasons
    BY <2>2 DEF Causes, Reasons
  <2> QED BY <1>0, <1>2, <2>1, <2>3, <2>4, <2>5, <2>6, CallFacts, AwaitKeeps
<1> QED BY <1>3, <1>4

LEMMA SelectStep ==
  ASSUME IInv, NEW f \in Fibers, NEW clauses \in SelectMenu, Select(f, clauses)
  PROVE  IInv'
<1>0. Call(f)
  BY DEF Select
<1>1. clauses \in Seq(Clauses)
  BY SelectAssumption DEF Clauses
<1>2. CASE \E i \in DOMAIN clauses : ClauseReady(ev, clauses[i])
  <2> DEFINE w == SelectReady(ev, f, clauses, calls + 1)
  <2>1. Returns(w)
    BY <1>2 DEF Select
  <2>2. Good(w) /\ Kept(ev, w, timeouts)
    BY <1>0, <1>1, <1>2, CallFacts, SelectReadyKeeps
  <2> HIDE DEF w
  <2>3. SameDoings(ev, w) /\ \A g \in Fibers : CanBeWoken(ev, timeouts, g) => CanBeWoken(w, timeouts, g)
    BY <2>2 DEF Kept
  <2> QED BY <1>0, <2>1, <2>2, <2>3, ReturnsKeeps
<1>3. CASE ~\E i \in DOMAIN clauses : ClauseReady(ev, clauses[i])
  <2> DEFINE w == SelectWaits(ev, f, clauses, calls + 1)
             causes == SelectAwaits(ev, f, clauses, calls + 1)
  <2>1. Await(w, f, causes) /\ timeouts' = timeouts
    BY <1>3 DEF Select
  <2>2. Good(w) /\ Kept(ev, w, timeouts) /\ (causes # {} => CanBeWoken(w, timeouts, f))
    BY <1>0, <1>1, CallFacts, SelectWaitsKeeps
  <2>3. causes \in SUBSET Reasons
    <3>1. \A i \in DOMAIN clauses : clauses[i] \in Clauses
      BY <1>1
    <3> QED BY <3>1 DEF SelectAwaits, Reasons, Kinds, Clauses
  <2> HIDE DEF w, causes
  <2>4. CountersOK'
    BY <1>0, <2>1, CallFacts DEF CountersOK, IInv, WaitsAreSound, TypeOK, Await, Leaves
  <2>5. timeouts \subseteq timeouts' /\ (causes # {} => CanBeWoken(w, timeouts', f))
    BY <2>1, <2>2
  <2> QED BY <1>0, <2>1, <2>2, <2>3, <2>4, <2>5, CallFacts, AwaitKeeps
<1> QED BY <1>2, <1>3

LEMMA CloseStep ==
  ASSUME IInv, NEW f \in Fibers, NEW c \in Channels, Close(f, c)
  PROVE  IInv'
<1> DEFINE w == CloseChan(ev, c)
<1>1. Call(f) /\ Returns(w)
  BY DEF Close
<1>2. /\ Good(w) /\ SameDoings(ev, w)
      /\ \A g \in Fibers : CanBeWoken(ev, timeouts, g) /\ ev.fiber[g].status \notin {"dead", "error"} => CanBeWoken(w, timeouts, g)
  BY <1>1, CallFacts, CloseChanKeeps
<1> HIDE DEF w
<1> QED BY <1>1, <1>2, ReturnsKeeps

LEMMA GoStep ==
  ASSUME IInv, NEW f \in Fibers, NEW g \in Fibers, Go(f, g)
  PROVE  IInv'
<1> DEFINE gg == [ev.fiber[g] EXCEPT !.supervisor = Supervisor]
           u == WithFiber(ev, g, gg, ev.active)
           w == Schedule(u, g, Cause("go", None, 0), "ok")
<1>1. Call(f) /\ Good(ev) /\ ev.fiber[g].status = "new" /\ (g \in ev.active \/ ~ev.fiber[g].isTask)
  BY CallFacts DEF Go, Good, TasksAreActive
<1>2. ev \in Ev /\ ev.fiber[g] \in FiberStates /\ ev.active \in SUBSET Fibers
  BY <1>1 DEF Good, Ev
<1>3. /\ gg \in FiberStates /\ gg.id = ev.fiber[g].id /\ gg.canceled = ev.fiber[g].canceled
      /\ gg.isTask = ev.fiber[g].isTask /\ gg.status = ev.fiber[g].status /\ gg.suspended = ev.fiber[g].suspended
  BY <1>2, EvAssumption DEF FiberStates
<1>4. u = [ev EXCEPT !.fiber[g].supervisor = Supervisor]
  BY <1>2 DEF Ev, WithFiber
<1>5. Returns(w)
  BY <1>4 DEF Go
<1> HIDE DEF gg
<1>6. /\ Good(u) /\ KeptBut(ev, u, timeouts, g) /\ u.active = ev.active /\ u.fiber[g] = gg
      /\ (HasTask(ev, g) => HasTask(u, g)) /\ (CanBeWoken(ev, timeouts, g) => CanBeWoken(u, timeouts, g))
  BY <1>1, <1>2, <1>3, FiberPut
<1>7. Cause("go", None, 0) \in Causes
  BY DEF Cause, Causes, Kinds
<1> HIDE DEF u
<1>8. Good(w) /\ Kept(u, w, timeouts)
  BY <1>6, <1>7, ScheduleKeeps
<1>9. SameDoings(ev, w)
  BY <1>1, <1>3, <1>6, <1>8 DEF KeptBut, Kept, SameDoings
<1>10. \A h \in Fibers : CanBeWoken(ev, timeouts, h) => CanBeWoken(w, timeouts, h)
  BY <1>6, <1>8 DEF KeptBut, Kept
<1> HIDE DEF w
<1> QED BY <1>1, <1>5, <1>8, <1>9, <1>10, ReturnsKeeps

LEMMA CancelStep ==
  ASSUME IInv, NEW f \in Fibers, NEW g \in Fibers, Cancel(f, g)
  PROVE  IInv'
<1> DEFINE w == Schedule(ev, g, Cause("cancel", None, 0), "error")
<1>1. Call(f) /\ Returns(w)
  BY DEF Cancel
<1>2. Cause("cancel", None, 0) \in Causes
  BY DEF Cause, Causes, Kinds
<1>3. Good(w) /\ Kept(ev, w, timeouts)
  BY <1>2, IInvIsGood, ScheduleKeeps
<1> HIDE DEF w
<1>4. SameDoings(ev, w) /\ \A h \in Fibers : CanBeWoken(ev, timeouts, h) => CanBeWoken(w, timeouts, h)
  BY <1>3 DEF Kept
<1> QED BY <1>1, <1>3, <1>4, ReturnsKeeps

LEMMA TimeoutType ==
  ASSUME IInv, NEW f \in Fibers, Call(f), NEW sec \in 0 .. MaxTime - now, NEW check \in Fibers \cup {None}
  PROVE  Timeout(f, sec, check, FALSE) \in Timeouts
<1>1. now + sec \in Nat /\ calls \in Nat
  BY EvAssumption, CallFacts
<1>2. ev.fiber[f].id \in Nat
  BY CallFacts DEF Good, Ev, FiberStates
<1> QED BY <1>1, <1>2 DEF Timeout, Timeouts

LEMMA SleepStep ==
  ASSUME IInv, NEW f \in Fibers, NEW sec \in 0 .. MaxTime - now, Sleep(f, sec)
  PROVE  IInv'
<1> DEFINE t == Timeout(f, sec, None, FALSE)
<1>1. Call(f) /\ timeouts' = timeouts \cup {t} /\ Await(ev, f, {<<"time", None>>})
  BY DEF Sleep
<1>2. t \in Timeouts /\ t.fiber = f /\ t.check = None /\ Live(ev, t)
  BY <1>1, TimeoutType DEF Timeout, Live
<1> HIDE DEF t
<1>3. CanBeWoken(ev, timeouts', f)
  BY <1>1, <1>2 DEF CanBeWoken, Sleeps
<1>4. CountersOK'
  BY <1>1, <1>2, CallFacts DEF CountersOK, IInv, WaitsAreSound, TypeOK, Await, Leaves
<1>5. Kept(ev, ev, timeouts) /\ timeouts \subseteq timeouts'
  BY <1>1 DEF Kept, SameDoings
<1>6. {<<"time", None>>} \in SUBSET Reasons
  BY DEF Reasons, Kinds
<1> QED BY <1>1, <1>3, <1>4, <1>5, <1>6, CallFacts, AwaitKeeps

LEMMA DeadlineStep ==
  ASSUME IInv, NEW f \in Fibers, NEW sec \in 0 .. MaxTime - now, Deadline(f, sec)
  PROVE  IInv'
<1> DEFINE t == Timeout(f, sec, f, FALSE)
<1>1. /\ Call(f) /\ timeouts' = timeouts \cup {t} /\ ev' = ev
      /\ listeners' = listeners /\ phase' = phase /\ running' = running /\ now' = now /\ awaits' = awaits
  BY DEF Deadline
<1>2. t \in Timeouts
  BY <1>1, TimeoutType
<1> HIDE DEF t
<1>3. CountersOK'
  BY <1>1, <1>2, CallFacts DEF CountersOK, IInv, WaitsAreSound, TypeOK
<1>4. Good(ev') /\ SameDoings(ev, ev') /\ phase' = "tasks"
  BY <1>1, CallFacts DEF SameDoings
<1>5. \A g \in Fibers : CanBeWoken(ev, timeouts, g) => CanBeWoken(ev', timeouts', g)
  BY <1>1, LongerSleep
<1> QED BY <1>1, <1>3, <1>4, <1>5, Continues

-----------------------------------------------------------------------------
(* A fiber gives the VM back without having registered anything.             *)

LEMMA LeavesAsItIs ==
  ASSUME IInv, NEW f \in Fibers, NEW sig \in Signals, running = f, f # None, phase = "tasks", Leaves(ev, f, sig, {}),
         timeouts' = timeouts, calls' \in 0 .. MaxCalls
  PROVE  IInv'
<1>1. Good(ev) /\ Kept(ev, ev, timeouts) /\ {} \in SUBSET Reasons /\ timeouts \subseteq timeouts'
  BY IInvIsGood DEF Kept, SameDoings
<1>2. CountersOK'
  BY DEF CountersOK, IInv, WaitsAreSound, TypeOK, Leaves
<1> QED BY <1>1, <1>2, LeavesKeeps

LEMMA FinishStep ==
  ASSUME IInv, NEW f \in Fibers, NEW sig \in {"ok", "error"}, Finish(f, sig)
  PROVE  IInv'
<1>1. /\ running = f /\ f # None /\ phase = "tasks" /\ Leaves(ev, f, sig, {}) /\ timeouts' = timeouts
      /\ calls' \in 0 .. MaxCalls /\ sig \in Signals
  BY DEF Finish, IInv, WaitsAreSound, TypeOK, Signals
<1> QED BY <1>1, LeavesAsItIs

LEMMA RaiseStep ==
  ASSUME IInv, NEW f \in Fibers, NEW sig \in {"event", "yield", "debug"}, Raise(f, sig)
  PROVE  IInv'
<1>1. Call(f) /\ Leaves(ev, f, sig, {}) /\ timeouts' = timeouts /\ sig \in Signals
  BY DEF Raise, Signals
<1> QED BY <1>1, CallFacts, LeavesAsItIs

LEMMA InterruptStep ==
  ASSUME IInv, NEW f \in Fibers, Interrupt(f)
  PROVE  IInv'
<1> DEFINE v == Settle(ev, f, "interrupt")
<1>1. /\ Call(f) /\ ev' = Schedule(v, f, Cause("interrupt", None, 0), "ok")
      /\ listeners' = listeners + 1 /\ awaits' = [awaits EXCEPT ![f] = {}] /\ running' = None
      /\ phase' \in {"timers", "exited"} /\ timeouts' = timeouts /\ now' = now
  BY DEF Interrupt
<1>2. /\ Good(ev) /\ ev.fiber[f].status = "alive" /\ ~ev.fiber[f].suspended /\ ev.fiber[f].isTask
      /\ listeners \in Nat /\ f \in ev.active
  BY <1>1, IInvIsGood, CallFacts DEF IInv, WaitsAreSound, TypeOK, TasksAreActive
<1>3. /\ "interrupt" \in Signals /\ "interrupt" \in Suspends /\ StatusAfter("interrupt") = "interrupted"
      /\ Cause("interrupt", None, 0) \in Causes
  BY DEF Signals, Suspends, StatusAfter, Cause, Causes, Kinds
<1>4. Good(v) /\ KeptBut(ev, v, timeouts, f) /\ v.fiber[f].suspended = ("interrupt" \in Suspends) /\ (Stays("interrupt") => f \in v.active)
      /\ v.fiber[f].status = StatusAfter("interrupt")
  BY <1>2, <1>3, SettleKeeps
<1> HIDE DEF v
<1>5. Good(ev') /\ Kept(v, ev', timeouts) /\ HasTask(ev', f)
  BY <1>1, <1>3, <1>4, ScheduleKeeps
<1>6. f \in ev'.active /\ ev'.fiber[f].suspended = TRUE /\ ev'.fiber[f].status = "interrupted"
  BY <1>3, <1>4, <1>5 DEF Stays, Kept, SameDoings
<1>7. KeptBut(ev, ev', timeouts', f)
  BY <1>1, <1>4, <1>5 DEF Kept, SameDoings, KeptBut
<1>8. Kept(ev, ev, timeouts) /\ {} \in SUBSET Reasons /\ timeouts \subseteq timeouts'
  BY <1>1 DEF Kept, SameDoings
<1>9. Others(f) /\ awaits' \in [Fibers -> SUBSET Reasons]
  BY <1>1, <1>7, <1>8, OthersLeft
<1>10. CountersOK'
  BY <1>1, CallFacts DEF CountersOK, IInv, WaitsAreSound, TypeOK
<1>11. listeners' = listeners + Flag(ev', f) - Flag(ev, f)
  BY <1>1, <1>2, <1>6 DEF Flag
<1>12. /\ Waits(ev', f) => f \in ev'.active /\ (ev'.fiber[f].suspended \/ HasTask(ev', f))
       /\ ev'.fiber[f].status = "suspended" /\ awaits'[f] # {} => CanBeWoken(ev', timeouts', f)
       /\ phase' \in {"timers", "tasks", "exited"}
  BY <1>1, <1>6
<1> QED BY <1>1, <1>2, <1>5, <1>9, <1>10, <1>11, <1>12, Moves

-----------------------------------------------------------------------------
(* The steps of the loop.                                                    *)

\* Dropping a timeout that is stale or a deadline takes nobody's wait away.
LEMMA DroppedTimeout ==
  ASSUME NEW w, NEW ts, NEW t, NEW g, t.check # None \/ ~Live(w, t) \/ t.fiber # g, CanBeWoken(w, ts, g)
  PROVE  CanBeWoken(w, ts \ {t}, g)
BY DEF CanBeWoken, Sleeps

LEMMA ExpireStep ==
  ASSUME IInv, ExpireTimeout
  PROVE  IInv'
<1> PICK t \in timeouts :
      /\ timeouts' = timeouts \ {t}
      /\ ev' = IF t.check # None
               THEN IF Resumable(t.check) THEN Schedule(ev, t.fiber, Cause("deadline", None, 0), "error") ELSE ev
               ELSE IF ~Live(ev, t) THEN ev
               ELSE IF t.isError THEN Schedule(ev, t.fiber, Cause("timeout", None, 0), "error")
               ELSE Schedule(ev, t.fiber, Cause("time", None, 0), "ok")
  BY DEF ExpireTimeout
<1>1. phase = "timers" /\ phase' = phase /\ listeners' = listeners /\ running' = running /\ now' = now /\ calls' = calls /\ awaits' = awaits
  BY DEF ExpireTimeout
<1>2. t \in Timeouts
  BY DEF IInv, WaitsAreSound, TypeOK
<1>3. t.fiber \in Fibers /\ Good(ev)
  BY <1>2, IInvIsGood DEF Timeouts
<1>4. CountersOK'
  BY <1>1 DEF CountersOK, IInv, WaitsAreSound, TypeOK
<1>5. CASE ev' = ev /\ (t.check # None \/ ~Live(ev, t))
  <2>1. Good(ev') /\ SameDoings(ev, ev')
    BY <1>3, <1>5 DEF SameDoings
  <2>2. \A g \in Fibers : CanBeWoken(ev, timeouts, g) => CanBeWoken(ev', timeouts', g)
    BY <1>5, DroppedTimeout
  <2> QED BY <1>1, <1>4, <2>1, <2>2, Continues
<1>6. ASSUME NEW cause \in Causes, NEW sig \in {"ok", "error"}, ev' = Schedule(ev, t.fiber, cause, sig)
      PROVE  IInv'
  <2>1. Good(ev') /\ Kept(ev, ev', timeouts') /\ HasTask(ev', t.fiber)
    BY <1>3, <1>6, ScheduleKeeps
  <2>2. \A g \in Fibers : CanBeWoken(ev, timeouts, g) => CanBeWoken(ev', timeouts', g)
    <3> SUFFICES ASSUME NEW g \in Fibers, CanBeWoken(ev, timeouts, g) PROVE CanBeWoken(ev', timeouts', g)
      OBVIOUS
    <3>1. CASE g = t.fiber
      BY <2>1, <3>1 DEF CanBeWoken
    <3>2. CASE g # t.fiber
      <4>1. CanBeWoken(ev, timeouts', g)
        BY <3>2, DroppedTimeout
      <4> QED BY <2>1, <4>1 DEF Kept
    <3> QED BY <3>1, <3>2
  <2> QED BY <1>1, <1>4, <2>1, <2>2, Continues DEF Kept
<1>7. Cause("deadline", None, 0) \in Causes /\ Cause("timeout", None, 0) \in Causes /\ Cause("time", None, 0) \in Causes
  BY DEF Cause, Causes, Kinds
<1>8. CASE t.check # None /\ Resumable(t.check)
  BY <1>6, <1>7, <1>8
<1>9. CASE t.check # None /\ ~Resumable(t.check)
  BY <1>5, <1>9
<1>10. CASE t.check = None /\ ~Live(ev, t)
  BY <1>5, <1>10
<1>11. CASE t.check = None /\ Live(ev, t) /\ t.isError
  BY <1>6, <1>7, <1>11
<1>12. CASE t.check = None /\ Live(ev, t) /\ ~t.isError
  BY <1>6, <1>7, <1>12
<1> QED BY <1>8, <1>9, <1>10, <1>11, <1>12

LEMMA TimersDoneStep ==
  ASSUME IInv, TimersDone
  PROVE  IInv'
<1>1. /\ ev' = ev /\ timeouts' = timeouts /\ listeners' = listeners /\ running' = running /\ now' = now /\ calls' = calls
      /\ phase' = "tasks" /\ awaits' = awaits
  BY DEF TimersDone
<1>2. Good(ev') /\ SameDoings(ev, ev')
  BY <1>1, IInvIsGood DEF SameDoings
<1>3. CountersOK' /\ \A g \in Fibers : CanBeWoken(ev, timeouts, g) => CanBeWoken(ev', timeouts', g)
  BY <1>1 DEF CountersOK, IInv, WaitsAreSound, TypeOK
<1> QED BY <1>1, <1>2, <1>3, Continues

LEMMA TaskTaken ==
  ASSUME NEW w, Good(w), w.spawn # <<>>, NEW f, f = Head(w.spawn).fiber, NEW ts,
         NEW u, u = Unsuspended([w EXCEPT !.spawn = Tail(w.spawn)], f)
  PROVE  /\ Good(u) /\ KeptBut(w, u, ts, f) /\ u.active = w.active /\ f \in Fibers
         /\ u.fiber[f].status = w.fiber[f].status /\ ~u.fiber[f].suspended /\ u.fiber[f].isTask
         /\ ~Live(w, Head(w.spawn)) => HasTask(u, f)
<1> DEFINE ff == [w.fiber[f] EXCEPT !.canceled = FALSE, !.suspended = FALSE]
           n == Len(w.spawn)
<1>1. w \in Ev /\ w.spawn \in Seq(Tasks) /\ w.fiber \in [Fibers -> FiberStates] /\ w.chan \in [Channels -> ChannelStates]
  BY DEF Good, Ev
<1>2. /\ Tail(w.spawn) \in Seq(Tasks) /\ Head(w.spawn) \in Tasks /\ Head(w.spawn) = w.spawn[1]
      /\ n \in Nat /\ n > 0 /\ DOMAIN w.spawn = 1 .. n /\ DOMAIN Tail(w.spawn) = 1 .. n - 1
      /\ \A i \in 1 .. n - 1 : Tail(w.spawn)[i] = w.spawn[i + 1]
      /\ \A i \in 1 .. n : w.spawn[i] \in Tasks
  BY <1>1, HeadTailProperties
<1>3. f \in Fibers /\ \A i \in 1 .. n : w.spawn[i].fiber \in Fibers
  BY <1>2 DEF Tasks
<1>4. /\ ff \in FiberStates /\ ff.id = w.fiber[f].id /\ ff.canceled = FALSE /\ ff.suspended = FALSE
      /\ ff.isTask = w.fiber[f].isTask /\ ff.status = w.fiber[f].status
  <2>1. w.fiber[f] \in FiberStates
    BY <1>1, <1>3
  <2> QED BY <2>1 DEF FiberStates
<1> HIDE DEF ff
<1>5. u.fiber = [w.fiber EXCEPT ![f] = ff] /\ u.chan = w.chan /\ u.active = w.active /\ u.spawn = Tail(w.spawn) /\ u.stray = w.stray
  BY <1>1 DEF Ev, Unsuspended, ff
<1>6. u = [fiber |-> u.fiber, active |-> u.active, stray |-> u.stray, spawn |-> u.spawn, chan |-> u.chan]
  BY <1>1 DEF Ev, Unsuspended
<1>7. /\ u.fiber \in [Fibers -> FiberStates] /\ u.fiber[f] = ff /\ \A g \in Fibers : g # f => u.fiber[g] = w.fiber[g]
      /\ DOMAIN u.spawn = 1 .. n - 1 /\ \A i \in 1 .. n - 1 : u.spawn[i] = w.spawn[i + 1]
  BY <1>1, <1>2, <1>3, <1>4, <1>5
<1>8. u \in Ev
  <2>1. w.active \in SUBSET Fibers /\ w.stray \in SUBSET Fibers
    BY <1>1 DEF Ev
  <2> QED BY <1>1, <1>2, <1>5, <1>6, <1>7, <2>1 DEF Ev
<1> HIDE DEF n
<1>9. \A g \in Fibers : u.fiber[g].id = w.fiber[g].id /\ u.fiber[g].isTask = w.fiber[g].isTask /\ u.fiber[g].status = w.fiber[g].status
  BY <1>4, <1>7
<1>10. \A r : r.fiber \in Fibers => (Live(u, r) <=> Live(w, r))
  BY <1>9 DEF Live
<1>11. \A i \in 1 .. n - 1 : i + 1 \in 1 .. n /\ u.spawn[i] = w.spawn[i + 1]
  <2>1. \A i \in 1 .. n - 1 : i + 1 \in 1 .. n
    BY <1>2
  <2> QED BY <1>7, <2>1
<1>12. \A i \in 1 .. n : i # 1 => i - 1 \in 1 .. n - 1 /\ (i - 1) + 1 = i
  BY <1>2
<1>13. \A i \in 1 .. n : i # 1 => i - 1 \in DOMAIN u.spawn /\ u.spawn[i - 1] = w.spawn[i]
  BY <1>7, <1>11, <1>12
<1>14. \A i \in 1 .. n : Live(u, w.spawn[i]) <=> Live(w, w.spawn[i])
  BY <1>3, <1>10
<1>15. TasksEndLive(u)
  <2> SUFFICES ASSUME NEW i \in 1 .. n - 1
               PROVE  \E j \in DOMAIN u.spawn : i <= j /\ u.spawn[j].fiber = u.spawn[i].fiber /\ Live(u, u.spawn[j])
    BY <1>7 DEF TasksEndLive
  <2>1. i + 1 \in 1 .. n /\ u.spawn[i] = w.spawn[i + 1]
    BY <1>11
  <2>2. PICK j \in 1 .. n : i + 1 <= j /\ w.spawn[j].fiber = w.spawn[i + 1].fiber /\ Live(w, w.spawn[j])
    BY <1>2, <2>1 DEF Good, TasksEndLive
  <2>3. j # 1 /\ i <= j - 1
    BY <2>2
  <2> QED BY <1>13, <1>14, <2>1, <2>2, <2>3
<1>16. TasksAreActive(u)
  <2>1. \A i \in DOMAIN u.spawn : u.fiber[u.spawn[i].fiber].isTask
    <3>1. \A i \in 1 .. n : w.fiber[w.spawn[i].fiber].isTask
      BY <1>2 DEF Good, TasksAreActive
    <3>2. \A i \in 1 .. n : u.fiber[w.spawn[i].fiber].isTask
      BY <1>3, <1>9, <3>1
    <3>3. DOMAIN u.spawn = 1 .. n - 1
      BY <1>7
    <3>4. ASSUME NEW i \in 1 .. n - 1 PROVE u.fiber[u.spawn[i].fiber].isTask
      <4>1. i + 1 \in 1 .. n /\ u.spawn[i] = w.spawn[i + 1]
        BY <1>11
      <4> QED BY <3>2, <4>1
    <3> QED BY <3>3, <3>4
  <2>2. \A g \in Fibers : u.fiber[g].isTask => g \in u.active \/ u.fiber[g].status \in {"dead", "error"}
    BY <1>5, <1>9 DEF Good, TasksAreActive
  <2> QED BY <2>1, <2>2 DEF TasksAreActive
<1>17. NoWaitWithoutReason(u)
  BY <1>5 DEF Good, NoWaitWithoutReason
<1>18. CancelIsKept(u)
  <2> SUFFICES ASSUME NEW g \in Fibers, u.fiber[g].canceled
               PROVE  \E i \in DOMAIN u.spawn : u.spawn[i].fiber = g /\ Live(u, u.spawn[i]) /\ u.spawn[i].sig = "error"
    BY DEF CancelIsKept
  <2>1. g # f /\ w.fiber[g].canceled
    BY <1>4, <1>7
  <2>2. PICK i \in 1 .. n : w.spawn[i].fiber = g /\ Live(w, w.spawn[i]) /\ w.spawn[i].sig = "error"
    BY <1>2, <2>1 DEF Good, CancelIsKept
  <2>3. i # 1
    BY <1>2, <2>1, <2>2
  <2> QED BY <1>13, <1>14, <2>2, <2>3
<1>19. \A g \in Fibers : g # f /\ HasTask(w, g) => HasTask(u, g)
  <2> SUFFICES ASSUME NEW g \in Fibers, g # f, HasTask(w, g) PROVE HasTask(u, g)
    OBVIOUS
  <2>1. PICK i \in 1 .. n : w.spawn[i].fiber = g /\ Live(w, w.spawn[i])
    BY <1>2 DEF HasTask
  <2>2. i # 1
    BY <1>2, <2>1
  <2> QED BY <1>13, <1>14, <2>1, <2>2 DEF HasTask
<1>20. \A q : \A g \in Fibers : InQueue(u, g, q) <=> InQueue(w, g, q)
  BY <1>10 DEF InQueue
<1>21. \A g \in Fibers : (Queued(w, g) => Queued(u, g)) /\ (Sleeps(w, ts, g) => Sleeps(u, ts, g))
  BY <1>5, <1>10, <1>20 DEF Queued, Sleeps
<1>22. KeptBut(w, u, ts, f)
  BY <1>5, <1>7, <1>19, <1>21 DEF KeptBut, CanBeWoken
<1>23. ~Live(w, Head(w.spawn)) => HasTask(u, f)
  <2> SUFFICES ASSUME ~Live(w, Head(w.spawn)) PROVE HasTask(u, f)
    OBVIOUS
  <2>1. 1 \in 1 .. n
    BY <1>2
  <2>2. PICK j \in 1 .. n : w.spawn[j].fiber = w.spawn[1].fiber /\ Live(w, w.spawn[j])
    BY <1>2, <2>1 DEF Good, TasksEndLive
  <2>3. j # 1 /\ w.spawn[j].fiber = f
    BY <1>2, <2>2
  <2> QED BY <1>13, <1>14, <2>2, <2>3 DEF HasTask
<1>24. u.fiber[f].isTask
  <2>1. 1 \in 1 .. n /\ w.spawn[1].fiber = f
    BY <1>2
  <2> QED BY <1>2, <1>3, <1>9, <2>1 DEF Good, TasksAreActive
<1> QED BY <1>3, <1>4, <1>5, <1>7, <1>8, <1>15, <1>16, <1>17, <1>18, <1>22, <1>23, <1>24 DEF Good

LEMMA Turns ==
  ASSUME IInv, NEW f \in Fibers, Good(ev'), KeptBut(ev, ev', timeouts, f), timeouts' = timeouts, awaits' = awaits, CountersOK',
         ~ev'.fiber[f].suspended, listeners' = listeners - (IF ev.fiber[f].suspended THEN 1 ELSE 0),
         Waits(ev', f) => f \in ev'.active /\ HasTask(ev', f), ev'.fiber[f].status = "suspended" => HasTask(ev', f),
         running' = None \/ (running' = f /\ ev'.fiber[f].status = "alive" /\ ev'.fiber[f].isTask),
         phase' \in {"tasks", "exited"}
  PROVE  IInv'
<1>1. Others(f)
  BY DEF Others, KeptBut
<1>2. awaits' \in [Fibers -> SUBSET Reasons] /\ listeners \in Nat
  BY DEF IInv, WaitsAreSound, TypeOK
<1>3. listeners' = listeners + Flag(ev', f) - Flag(ev, f)
  BY <1>2 DEF Flag
<1>4. ev'.fiber[f].status = "suspended" => CanBeWoken(ev', timeouts', f)
  BY DEF CanBeWoken
<1> QED BY <1>1, <1>2, <1>3, <1>4, Moves

LEMMA RunTaskStep ==
  ASSUME IInv, RunTask
  PROVE  IInv'
<1> DEFINE t == Head(ev.spawn)
           f == t.fiber
           u == Unsuspended([ev EXCEPT !.spawn = Tail(ev.spawn)], f)
<1>1. /\ phase = "tasks" /\ running = None /\ ev.spawn # <<>>
      /\ timeouts' = timeouts /\ now' = now /\ calls' = calls /\ awaits' = awaits
      /\ listeners' = listeners - (IF ev.fiber[f].suspended THEN 1 ELSE 0)
  BY DEF RunTask
<1>2. Good(ev) /\ CountersOK'
  BY <1>1, IInvIsGood DEF CountersOK, IInv, WaitsAreSound, TypeOK
<1>3. /\ Good(u) /\ KeptBut(ev, u, timeouts, f) /\ u.active = ev.active /\ f \in Fibers
      /\ u.fiber[f].status = ev.fiber[f].status /\ ~u.fiber[f].suspended /\ u.fiber[f].isTask
      /\ ~Live(ev, t) => HasTask(u, f)
  BY <1>1, <1>2, TaskTaken
<1>4. u.fiber[f].status \in {"dead", "error"} \/ f \in u.active
  BY <1>3 DEF Good, TasksAreActive
<1>5. u.active \in SUBSET Fibers /\ u \in Ev /\ u.fiber[f] \in FiberStates
  BY <1>3 DEF Good, Ev
<1>6. CASE ~Live(ev, t)
  <2>1. ev' = u /\ running' = running /\ phase' = phase
    BY <1>6 DEF RunTask
  <2>2. Waits(ev, f) => f \in ev.active
    BY <1>3 DEF IInv, WaitsAreSound, WaitingKeepsLoopAlive
  <2> HIDE DEF u, f, t
  <2>3. Waits(ev', f) => f \in ev'.active /\ HasTask(ev', f)
    BY <1>3, <1>6, <2>1, <2>2 DEF Waits
  <2>4. ev'.fiber[f].status = "suspended" => HasTask(ev', f)
    BY <2>3 DEF Waits
  <2> QED BY <1>1, <1>2, <1>3, <2>1, <2>3, <2>4, Turns
<1>7. CASE Live(ev, t) /\ Resumable(f)
  <2> DEFINE w == WithStatus(u, f, "alive", "ok", u.active)
  <2>1. ev' = [u EXCEPT !.fiber[f].status = "alive"] /\ running' = f /\ phase' = phase
    BY <1>7 DEF RunTask
  <2> HIDE DEF u, f, t
  <2>2. [u EXCEPT !.fiber[f].status = "alive"] = w
    <3> DEFINE a == [u.fiber[f] EXCEPT !.status = "alive"]
               b == [u.fiber[f] EXCEPT !.status = "alive", !.suspended = ("ok" \in Suspends)]
    <3>1. u.fiber[f].suspended = FALSE
      BY <1>3, <1>5 DEF FiberStates
    <3>2. a = b
      <4>1. ("ok" \in Suspends) = FALSE
        BY DEF Suspends
      <4> QED BY <1>5, <3>1, <4>1 DEF FiberStates
    <3>3. [u EXCEPT !.fiber[f].status = "alive"] = [u EXCEPT !.fiber[f] = a]
      OBVIOUS
    <3>4. w = [u EXCEPT !.fiber[f] = b, !.active = u.active]
      BY DEF WithStatus
    <3> HIDE DEF a, b, w
    <3>5. [u EXCEPT !.fiber[f] = b, !.active = u.active] = [u EXCEPT !.fiber[f] = b]
      BY <1>5 DEF Ev
    <3> QED BY <3>2, <3>3, <3>4, <3>5
  <2>3. f \in u.active
    BY <1>3, <1>4, <1>7 DEF Resumable
  <2>4. "alive" \in Statuses /\ "ok" \in Signals
    BY DEF Statuses, Signals
  <2>5. w = WithStatus(u, f, "alive", "ok", u.active)
    OBVIOUS
  <2> HIDE DEF w
  <2>6. /\ Good(w) /\ KeptBut(u, w, timeouts, f) /\ w.active = u.active
        /\ w.fiber[f].status = "alive" /\ w.fiber[f].suspended = ("ok" \in Suspends)
    <3>1. u.active \in SUBSET Fibers
      BY <1>5 DEF Ev
    <3>2. IsPut(u, w, timeouts, f, "alive", "ok", u.active)
      BY <1>3, <2>3, <2>4, <2>5, <3>1, StatusPut
    <3> QED BY <3>2 DEF IsPut
  <2>7. KeptBut(ev, w, timeouts, f)
    BY <1>3, <2>6 DEF KeptBut
  <2>8. ev' = w
    BY <2>1, <2>2
  <2>9. ev'.fiber[f].isTask
    BY <1>3, <1>5, <2>1 DEF Ev, FiberStates
  <2>10. ~ev'.fiber[f].suspended /\ ev'.fiber[f].status = "alive"
    BY <2>6, <2>8 DEF Suspends
  <2>11. phase' \in {"tasks", "exited"} /\ ~Waits(ev', f) /\ ev'.fiber[f].status # "suspended"
    BY <1>1, <2>1, <2>10 DEF Waits
  <2> QED BY <1>1, <1>2, <1>3, <2>1, <2>6, <2>7, <2>8, <2>9, <2>10, <2>11, Turns
<1>8. CASE Live(ev, t) /\ ~Resumable(f)
  <2> DEFINE s == Settle(u, f, "error")
             status == ev.fiber[f].status
             w == WithStatus(s, f, status, "ok", s.active)
  <2>1. ev' = [s EXCEPT !.fiber[f].status = status] /\ running' = running /\ phase' \in {"tasks", "exited"}
    BY <1>1, <1>8 DEF RunTask
  <2>2. status \in {"dead", "error"}
    BY <1>8 DEF Resumable
  <2> HIDE DEF u, f, t, status
  <2>3. "error" \in Signals /\ ~Stays("error") /\ "error" \notin Suspends /\ "ok" \notin Suspends
    BY DEF Signals, Stays, StatusAfter, Suspends
  <2>4. s = Settle(u, f, "error")
    OBVIOUS
  <2> HIDE DEF s
  <2>5. Good(s) /\ KeptBut(u, s, timeouts, f) /\ s.fiber[f].suspended = ("error" \in Suspends)
    BY <1>3, <2>3, <2>4, SettleKeeps
  <2>6. s.active \in SUBSET Fibers /\ s \in Ev /\ s.fiber[f] \in FiberStates
    BY <1>3, <2>5 DEF Good, Ev
  <2>7. [s EXCEPT !.fiber[f].status = status] = w
    <3> DEFINE a == [s.fiber[f] EXCEPT !.status = status]
               b == [s.fiber[f] EXCEPT !.status = status, !.suspended = ("ok" \in Suspends)]
    <3>1. a = b
      <4>1. ("ok" \in Suspends) = FALSE
        BY <2>3
      <4>2. ~s.fiber[f].suspended
        BY <2>3, <2>5
      <4> QED BY <2>6, <4>1, <4>2 DEF FiberStates
    <3>2. [s EXCEPT !.fiber[f].status = status] = [s EXCEPT !.fiber[f] = a]
      OBVIOUS
    <3>3. w = [s EXCEPT !.fiber[f] = b, !.active = s.active]
      BY DEF WithStatus
    <3> HIDE DEF a, b, w
    <3>4. [s EXCEPT !.fiber[f] = b, !.active = s.active] = [s EXCEPT !.fiber[f] = b]
      BY <2>6 DEF Ev
    <3> QED BY <3>1, <3>2, <3>3, <3>4
  <2>8. w = WithStatus(s, f, status, "ok", s.active) /\ status \in Statuses
    BY <2>2 DEF Statuses
  <2> HIDE DEF w
  <2>9. /\ Good(w) /\ KeptBut(s, w, timeouts, f)
        /\ w.fiber[f].status = status /\ w.fiber[f].suspended = ("ok" \in Suspends)
    <3>1. /\ f \in Fibers /\ Good(s) /\ s.active \in SUBSET Fibers
          /\ status \in {"dead", "error"} \/ f \in s.active \/ ~s.fiber[f].isTask
      BY <1>3, <2>2, <2>5, <2>6
    <3>2. "ok" \in Signals /\ status \in Statuses
      BY <2>8 DEF Signals
    <3>3. IsPut(s, w, timeouts, f, status, "ok", s.active)
      <4> HIDE DEF s, u, f, status
      <4> QED BY <2>8, <3>1, <3>2, StatusPut
    <3> QED BY <3>3 DEF IsPut
  <2>10. KeptBut(ev, w, timeouts, f)
    BY <1>3, <2>5, <2>9 DEF KeptBut
  <2>11. ev' = w
    BY <2>1, <2>7
  <2>12. ~ev'.fiber[f].suspended /\ ~Waits(ev', f) /\ ev'.fiber[f].status # "suspended"
    BY <2>2, <2>3, <2>9, <2>11 DEF Waits
  <2>13. running' = None
    BY <1>1, <2>1
  <2> QED BY <1>1, <1>2, <1>3, <2>1, <2>9, <2>10, <2>11, <2>12, <2>13, Turns
<1> QED BY <1>6, <1>7, <1>8

LEMMA PollStep ==
  ASSUME IInv, Poll
  PROVE  IInv'
<1> DEFINE kept == {t \in timeouts : \E u \in NeededTimeouts : u.when <= t.when}
           next == {t.when : t \in {u \in kept : \A v \in kept : u.when <= v.when}}
<1>1. /\ phase = "tasks" /\ running = None /\ ev.spawn = <<>>
      /\ ev' = ev /\ listeners' = listeners /\ running' = running /\ calls' = calls /\ awaits' = awaits
  BY DEF Poll
<1>2. \A t \in timeouts : t \in Timeouts /\ t.when \in Nat
  BY DEF IInv, WaitsAreSound, TypeOK, Timeouts
<1>3. kept \subseteq timeouts' /\ timeouts' \subseteq timeouts
  <2>1. timeouts' \in {kept \cup late : late \in SUBSET {t \in timeouts \ NeededTimeouts :
                                                  kept # {} /\ \A w \in next : t.when = w}}
    BY DEF Poll
  <2> QED BY <2>1
<1>4. NeededTimeouts \subseteq timeouts'
  <2>1. NeededTimeouts \subseteq kept
    BY <1>2 DEF NeededTimeouts
  <2> QED BY <1>3, <2>1
<1>5. \A g \in Fibers : CanBeWoken(ev, timeouts, g) => CanBeWoken(ev', timeouts', g)
  <2>1. \A t \in timeouts : t.check = None /\ Live(ev, t) => t \in timeouts'
    BY <1>4 DEF NeededTimeouts
  <2>2. \A g \in Fibers : Sleeps(ev, timeouts, g) => Sleeps(ev, timeouts', g)
    BY <2>1 DEF Sleeps
  <2> QED BY <1>1, <2>2 DEF CanBeWoken
<1>6. Good(ev') /\ SameDoings(ev, ev')
  BY <1>1, IInvIsGood DEF SameDoings
<1>7. CASE timeouts' = {} /\ listeners = 0
  <2>1. phase' = "done" /\ now' = now
    BY <1>7 DEF Poll
  <2>2. \A g \in Fibers : ~ev.fiber[g].suspended
    <3>1. Suspended(ev) \in SUBSET Fibers /\ IsFiniteSet(Fibers)
      BY EvAssumption DEF Suspended
    <3>2. IsFiniteSet(Suspended(ev)) /\ Cardinality(Suspended(ev)) = 0
      BY <1>7, <3>1, FS_Subset, IInvIsGood
    <3>3. Suspended(ev) = {}
      BY <3>2, FS_EmptySet
    <3> QED BY <3>3 DEF Suspended
  <2>3. \A g \in Fibers : ~HasTask(ev, g)
    BY <1>1 DEF HasTask
  <2>4. \A g \in Fibers : ~Waits(ev, g)
    BY <2>2, <2>3 DEF IInv, WaitsAreSound, WaitingKeepsLoopAlive
  <2>5. TypeOK'
    BY <1>1, <1>2, <1>3, <2>1 DEF IInv, WaitsAreSound, TypeOK
  <2>6. NoLostWakeup' /\ WaitingKeepsLoopAlive'
    BY <1>1, <2>1, <2>4 DEF IInv, WaitsAreSound, NoLostWakeup, WaitingKeepsLoopAlive, Waits
  <2> QED BY <1>6, <2>5, <2>6 DEF IInv, WaitsAreSound, Good
<1>8. CASE ~(timeouts' = {} /\ listeners = 0)
  <2>1. PICK w \in next : now' \in (IF w > now THEN w ELSE now) .. MaxTime
    BY <1>8 DEF Poll
  <2>2. phase' = "timers"
    BY <1>8 DEF Poll
  <2>3. w \in Nat /\ now \in 0 .. MaxTime
    BY <1>2, <2>1 DEF IInv, WaitsAreSound, TypeOK
  <2>4. now' \in 0 .. MaxTime
    <3>1. MaxTime \in Nat
      BY EvAssumption
    <3> HIDE DEF next
    <3>2. CASE w > now
      BY <2>1, <2>3, <3>1, <3>2
    <3>3. CASE ~(w > now)
      BY <2>1, <2>3, <3>1, <3>3
    <3> QED BY <3>2, <3>3
  <2>5. CountersOK'
    BY <1>1, <1>2, <1>3, <2>4 DEF CountersOK, IInv, WaitsAreSound, TypeOK
  <2> QED BY <1>1, <1>5, <1>6, <2>2, <2>5, Continues
<1> QED BY <1>7, <1>8

-----------------------------------------------------------------------------

NewFiber == [status |-> "new", id |-> 0, canceled |-> FALSE, suspended |-> FALSE, isTask |-> FALSE, supervisor |-> None]
NewChannel == [items |-> <<>>, readers |-> <<>>, writers |-> <<>>, closed |-> FALSE]
Blank == [fiber |-> [f \in Fibers |-> NewFiber], active |-> {}, stray |-> {}, spawn |-> <<>>,
          chan |-> [c \in Channels |-> NewChannel]]

LEMMA BlankFacts ==
  /\ Good(Blank) /\ DOMAIN Blank.spawn = {}
  /\ \A f \in Fibers : Blank.fiber[f].status = "new" /\ Blank.fiber[f].suspended = FALSE
  /\ \A c \in Channels : Blank.chan[c].readers = <<>> /\ Blank.chan[c].writers = <<>>
<1>1. NewFiber \in FiberStates
  BY DEF FiberStates, NewFiber
<1>2. NewChannel \in ChannelStates
  <2>1. <<>> \in Seq(Nat) /\ <<>> \in Seq(Records)
    OBVIOUS
  <2> QED BY <2>1 DEF ChannelStates, NewChannel
<1>3. <<>> \in Seq(Tasks)
  OBVIOUS
<1>4. [f \in Fibers |-> NewFiber] \in [Fibers -> FiberStates] /\ [c \in Channels |-> NewChannel] \in [Channels -> ChannelStates]
  BY <1>1, <1>2
<1>5. Blank \in Ev
  BY <1>3, <1>4 DEF Ev, Blank
<1>6. Good(Blank)
  BY <1>5 DEF Good, NoWaitWithoutReason, CancelIsKept, TasksEndLive, TasksAreActive, Blank, NewFiber, NewChannel
<1> QED BY <1>6 DEF Blank, NewFiber, NewChannel

\* The loop starts with one task.
LEMMA InitIs ==
  ASSUME NEW start \in {"timers", "exited"}, InitAt(start)
  PROVE  /\ ev = Schedule(Blank, Main, Cause("go", None, 0), "ok")
         /\ timeouts = {} /\ listeners = 0 /\ phase = start /\ running = None /\ now = 0 /\ calls = 0
         /\ awaits = [f \in Fibers |-> {<<"go", None>>}]
         /\ Main \in Fibers /\ Main # None /\ Cause("go", None, 0) \in Causes
BY EvAssumption DEF InitAt, Blank, NewFiber, NewChannel, Cause, Causes, Kinds

LEMMA InitHolds ==
  ASSUME NEW start \in {"timers", "exited"}, InitAt(start)
  PROVE  IInv
<1>1. Good(ev) /\ Kept(Blank, ev, timeouts)
  BY InitIs, BlankFacts, ScheduleKeeps
<1>2. \A f \in Fibers : ev.fiber[f].status = "new" /\ ev.fiber[f].suspended = FALSE
  BY <1>1, BlankFacts DEF Kept, SameDoings
<1>3. Cardinality({f \in Fibers : ev.fiber[f].suspended}) = 0
  <2>1. {f \in Fibers : ev.fiber[f].suspended} = {}
    BY <1>2
  <2> QED BY <2>1, FS_EmptySet
<1>4. TypeOK
  <2>1. awaits \in [Fibers -> SUBSET Reasons]
    BY InitIs DEF Reasons, Kinds
  <2> QED BY <1>1, <2>1, InitIs, EvAssumption DEF TypeOK, Good
<1>5. NoLostWakeup /\ WaitingKeepsLoopAlive
  BY <1>2, <1>3, InitIs DEF NoLostWakeup, WaitingKeepsLoopAlive, Waits
<1> QED BY <1>1, <1>4, <1>5 DEF IInv, WaitsAreSound, Good

LEMMA NextHolds ==
  ASSUME IInv, Next
  PROVE  IInv'
<1>1. ASSUME NEW f \in Fibers, FiberStep(f) PROVE IInv'
  <2>1. CASE \E c \in Channels : Give(f, c) \/ Take(f, c) \/ Close(f, c)
    BY <2>1, GiveStep, TakeStep, CloseStep
  <2>2. CASE \E clauses \in SelectMenu : Select(f, clauses)
    BY <2>2, SelectStep
  <2>3. CASE \E g \in Fibers : Go(f, g) \/ Cancel(f, g)
    BY <2>3, GoStep, CancelStep
  <2>4. CASE \E sec \in 0 .. MaxTime - now : Sleep(f, sec) \/ Deadline(f, sec)
    BY <2>4, SleepStep, DeadlineStep
  <2>5. CASE \E sig \in {"ok", "error"} : Finish(f, sig)
    BY <2>5, FinishStep
  <2>6. CASE Interrupt(f) \/ \E sig \in {"event", "yield", "debug"} : Raise(f, sig)
    BY <2>6, InterruptStep, RaiseStep
  <2> QED BY <1>1, <2>1, <2>2, <2>3, <2>4, <2>5, <2>6 DEF FiberStep
<1>2. CASE LoopStep
  BY <1>2, ExpireStep, TimersDoneStep, RunTaskStep, PollStep DEF LoopStep
<1> QED BY <1>1, <1>2 DEF Next

LEMMA StutterHolds ==
  ASSUME IInv, UNCHANGED vars
  PROVE  IInv'
<1>1. /\ ev' = ev /\ timeouts' = timeouts /\ listeners' = listeners /\ phase' = phase
      /\ running' = running /\ now' = now /\ calls' = calls /\ awaits' = awaits
  BY DEF vars
<1>2. TypeOK'
  BY <1>1 DEF IInv, WaitsAreSound, TypeOK
<1>3. NoLostWakeup' /\ WaitingKeepsLoopAlive'
  BY <1>1 DEF IInv, WaitsAreSound, NoLostWakeup, WaitingKeepsLoopAlive, Waits
<1> QED BY <1>1, <1>2, <1>3, IInvIsGood DEF IInv, WaitsAreSound, Good

(* The invariant holds of the loop, whatever its fibers call.                *)
THEOREM Invariance == Spec => []IInv
<1>1. IInv /\ [Next]_vars => IInv'
  BY NextHolds, StutterHolds
<1>2. Init => IInv
  BY InitHolds DEF Init
<1> QED BY <1>1, <1>2, PTL DEF Spec

(* Whoever waits can be found, waits for something that is not there yet,    *)
(* keeps the loop going, and if it was cancelled hears of that and of        *)
(* nothing else.                                                             *)
THEOREM WaitsAreSoundHolds == Spec => []WaitsAreSound
<1>1. IInv => WaitsAreSound
  BY DEF IInv
<1> QED BY <1>1, Invariance, PTL

-----------------------------------------------------------------------------
(* What ends a wait is what it was for.                                      *)

InLine(q, f, id) == \E i \in DOMAIN q : q[i].fiber = f /\ q[i].id = id

\* Something is kept that would, while f's sched_id is id, resume f with (k, c).
Claim(w, ts, f, id, k, c) ==
  \/ k \in {"take", "close"} /\ c \in Channels /\ InLine(w.chan[c].readers, f, id)
  \/ k \in {"give", "close"} /\ c \in Channels /\ InLine(w.chan[c].writers, f, id)
  \/ k = "time" /\ c = None /\ \E t \in ts : t.check = None /\ t.fiber = f /\ t.id = id
Claimable == {"give", "take", "close", "time"}
Places == Channels \cup {None}

\* Sched_ids only grow, so what is stale stays so.
OfThePast(w, ts) ==
  /\ \A f \in Fibers, id \in Nat, k \in Claimable, c \in Places : Claim(w, ts, f, id, k, c) => id <= w.fiber[f].id
  /\ \A i \in DOMAIN w.spawn : w.spawn[i].id <= w.fiber[w.spawn[i].fiber].id

\* What can resume a fiber that is not stray is what it waits for; if it has the
\* VM it can be resumed by nothing, and if it has been scheduled by nothing else.
ClaimsAsked(w, ts, aw, run) ==
  \A f \in Fibers, k \in Claimable, c \in Places :
    f \notin w.stray /\ Claim(w, ts, f, w.fiber[f].id, k, c) => <<k, c>> \in aw[f] /\ f # run /\ ~HasTask(w, f)
AskedOf(aw, f, cause) == cause.kind \in Unasked \/ <<cause.kind, cause.chan>> \in aw[f]
TasksAsked(w, aw, run) ==
  \A i \in DOMAIN w.spawn : Live(w, w.spawn[i]) /\ w.spawn[i].fiber \notin w.stray =>
    /\ AskedOf(aw, w.spawn[i].fiber, w.spawn[i].cause) /\ w.spawn[i].fiber # run
    /\ \A j \in DOMAIN w.spawn : w.spawn[j].fiber = w.spawn[i].fiber /\ Live(w, w.spawn[j]) => i = j
Asked(w, ts, aw, run) == OfThePast(w, ts) /\ ClaimsAsked(w, ts, aw, run) /\ TasksAsked(w, aw, run)

WakesAreAsked ==
  /\ DOMAIN awaits = Fibers
  /\ phase = "timers" => running = None
  /\ Asked(ev, timeouts, awaits, running)

ClaimsPass(w, ts, v, us) ==
  \A f \in Fibers, id \in Nat, k \in Claimable, c \in Places : Claim(v, us, f, id, k, c) => Claim(w, ts, f, id, k, c)
SameIds(w, v) == \A f \in Fibers : v.fiber[f].id = w.fiber[f].id

LEMMA SpawnFacts ==
  ASSUME NEW w, w \in Ev
  PROVE  /\ w.spawn \in Seq(Tasks) /\ Len(w.spawn) \in Nat /\ DOMAIN w.spawn = 1 .. Len(w.spawn)
         /\ \A i \in DOMAIN w.spawn : w.spawn[i].fiber \in Fibers /\ w.spawn[i].id \in Nat
         /\ \A f \in Fibers : w.fiber[f] \in FiberStates /\ w.fiber[f].id \in Nat
<1>1. w.spawn \in Seq(Tasks) /\ w.fiber \in [Fibers -> FiberStates]
  BY DEF Ev
<1>2. \A i \in DOMAIN w.spawn : w.spawn[i] \in Tasks
  BY <1>1
<1>3. \A i \in DOMAIN w.spawn : w.spawn[i].fiber \in Fibers /\ w.spawn[i].id \in Nat
  BY <1>2 DEF Tasks
<1>4. \A f \in Fibers : w.fiber[f] \in FiberStates /\ w.fiber[f].id \in Nat
  BY <1>1 DEF FiberStates
<1> QED BY <1>1, <1>3, <1>4

\* Claims that are dropped do no harm, nor do fibers that stray.
LEMMA AskedOfFewer ==
  ASSUME NEW w, w \in Ev, NEW v, v.spawn = w.spawn, SameIds(w, v), w.stray \subseteq v.stray, NEW ts, NEW us, NEW aw, NEW run,
         Asked(w, ts, aw, run), ClaimsPass(w, ts, v, us)
  PROVE  Asked(v, us, aw, run)
<1>1. \A i \in DOMAIN w.spawn : Live(v, w.spawn[i]) <=> Live(w, w.spawn[i])
  BY SpawnFacts DEF Live, SameIds
<1>2. \A f : HasTask(v, f) <=> HasTask(w, f)
  BY <1>1 DEF HasTask
<1>3. OfThePast(v, us)
  BY SpawnFacts DEF Asked, OfThePast, ClaimsPass, SameIds
<1>4. ClaimsAsked(v, us, aw, run)
  <2> SUFFICES ASSUME NEW f \in Fibers, NEW k \in Claimable, NEW c \in Places, f \notin v.stray,
                      Claim(v, us, f, v.fiber[f].id, k, c)
               PROVE  <<k, c>> \in aw[f] /\ f # run /\ ~HasTask(v, f)
    BY DEF ClaimsAsked
  <2>1. v.fiber[f].id = w.fiber[f].id /\ w.fiber[f].id \in Nat
    BY SpawnFacts DEF SameIds
  <2>2. Claim(w, ts, f, w.fiber[f].id, k, c)
    BY <2>1 DEF ClaimsPass
  <2> QED BY <1>2, <2>2 DEF Asked, ClaimsAsked
<1>5. TasksAsked(v, aw, run)
  BY <1>1 DEF Asked, TasksAsked
<1> QED BY <1>3, <1>4, <1>5 DEF Asked

\* A channel whose queues hold nobody new makes no new claims.
LEMMA ChanClaims ==
  ASSUME NEW w, NEW v, NEW c \in Channels, NEW ts,
         \A d \in Channels : d # c => v.chan[d] = w.chan[d],
         \A f \in Fibers, id \in Nat : InLine(v.chan[c].readers, f, id) => InLine(w.chan[c].readers, f, id),
         \A f \in Fibers, id \in Nat : InLine(v.chan[c].writers, f, id) => InLine(w.chan[c].writers, f, id)
  PROVE  ClaimsPass(w, ts, v, ts)
<1> SUFFICES ASSUME NEW f \in Fibers, NEW id \in Nat, NEW k \in Claimable, NEW d \in Places, Claim(v, ts, f, id, k, d)
             PROVE  Claim(w, ts, f, id, k, d)
  BY DEF ClaimsPass
<1>1. CASE d = c
  BY <1>1 DEF Claim
<1>2. CASE d # c
  BY <1>2 DEF Claim
<1> QED BY <1>1, <1>2

LEMMA SameClaims ==
  ASSUME NEW w, NEW v, v.chan = w.chan, NEW ts, NEW us, us \subseteq ts
  PROVE  ClaimsPass(w, ts, v, us)
BY DEF ClaimsPass, Claim

IdsGrow(w, v) == \A f \in Fibers : w.fiber[f].id <= v.fiber[f].id

\* Nobody who runs has a task, unless he is stray.
Idle(w, f) == f \in w.stray \/ ~HasTask(w, f)
StaysIdle(w, v) ==
  \A f \in Fibers : w.fiber[f].status = "alive" /\ Idle(w, f) => v.fiber[f].status = "alive" /\ Idle(v, f)

\* A fiber is scheduled for what it waits for: whatever else could have resumed it is stale.
LEMMA AskedOfEnqueued ==
  ASSUME NEW w, w \in Ev, NEW g \in Fibers, NEW cause \in Causes, NEW sig \in {"ok", "error"},
         NEW ts, NEW aw, NEW run, Asked(w, ts, aw, run), g \in w.stray \/ (g # run /\ AskedOf(aw, g, cause)),
         NEW v, v = Enqueue(w, g, cause, sig)
  PROVE  /\ Asked(v, ts, aw, run) /\ IdsGrow(w, v) /\ v.stray = w.stray
         /\ \A f \in Fibers : v.fiber[f].status = w.fiber[f].status
         /\ \A f \in Fibers : f # g /\ HasTask(v, f) => HasTask(w, f)
<1>1. CASE w.fiber[g].canceled
  <2>1. v = w
    BY <1>1 DEF Enqueue
  <2>2. \A m \in Nat : m <= m
    OBVIOUS
  <2> QED BY <2>1, <2>2, SpawnFacts DEF IdsGrow
<1>2. CASE ~w.fiber[g].canceled
  <2> DEFINE task == TaskOf(w, g, cause, sig)
             n == Len(w.spawn)
  <2>1. /\ v \in Ev /\ v.chan = w.chan /\ v.stray = w.stray
        /\ v.spawn = Append(w.spawn, task)
        /\ v.fiber[g] = FiberOf(w, g, sig)
        /\ \A f \in Fibers : f # g => v.fiber[f] = w.fiber[f]
    BY <1>2, EnqueueShape
  <2>2. /\ w.spawn \in Seq(Tasks) /\ n \in Nat /\ DOMAIN w.spawn = 1 .. n
        /\ \A i \in 1 .. n : w.spawn[i].fiber \in Fibers /\ w.spawn[i].id \in Nat
        /\ \A f \in Fibers : w.fiber[f] \in FiberStates /\ w.fiber[f].id \in Nat
    BY SpawnFacts
  <2>3. v.fiber[g].id = w.fiber[g].id + 1
    <3>1. w.fiber[g] \in FiberStates
      BY <2>2
    <3> QED BY <2>1, <3>1 DEF FiberStates, FiberOf
  <2>4. /\ DOMAIN v.spawn = 1 .. n + 1 /\ v.spawn[n + 1] = task /\ \A i \in 1 .. n : v.spawn[i] = w.spawn[i]
    BY <2>1, <2>2, AppendProperties
  <2>5. task.fiber = g /\ task.cause = cause /\ task.id = w.fiber[g].id + 1
    BY DEF TaskOf
  <2> HIDE DEF task, n
  <2>6. \A f \in Fibers : w.fiber[f].id <= v.fiber[f].id /\ (f # g => v.fiber[f].id = w.fiber[f].id)
    <3>1. \A m \in Nat : m <= m /\ m <= m + 1
      OBVIOUS
    <3> QED BY <2>1, <2>2, <2>3, <3>1
  <2>7. ClaimsPass(w, ts, v, ts)
    BY <2>1, SameClaims
  <2>8. \A i \in 1 .. n : w.spawn[i].id <= w.fiber[w.spawn[i].fiber].id
    BY <2>2 DEF Asked, OfThePast
  <2>9. \A i \in 1 .. n + 1 : i \in 1 .. n \/ i = n + 1
    BY <2>2
  <2>10. OfThePast(v, ts)
    <3>1. ASSUME NEW f \in Fibers, NEW id \in Nat, NEW k \in Claimable, NEW c \in Places, Claim(v, ts, f, id, k, c)
          PROVE  id <= v.fiber[f].id
      <4>1. id <= w.fiber[f].id
        BY <2>7, <3>1 DEF ClaimsPass, Asked, OfThePast
      <4>2. w.fiber[f].id <= v.fiber[f].id /\ w.fiber[f].id \in Nat /\ v.fiber[f].id \in Nat
        BY <2>1, <2>2, <2>6, SpawnFacts
      <4> QED BY <4>1, <4>2
    <3>2. ASSUME NEW i \in 1 .. n PROVE v.spawn[i].id <= v.fiber[v.spawn[i].fiber].id
      <4> DEFINE f == w.spawn[i].fiber
      <4>1. f \in Fibers /\ v.spawn[i] = w.spawn[i] /\ w.spawn[i].id \in Nat /\ w.spawn[i].id <= w.fiber[f].id
        BY <2>2, <2>4, <2>8
      <4> HIDE DEF f
      <4>2. w.fiber[f].id <= v.fiber[f].id /\ w.fiber[f].id \in Nat /\ v.fiber[f].id \in Nat
        BY <2>1, <2>2, <2>6, <4>1, SpawnFacts
      <4>3. w.spawn[i].id <= v.fiber[f].id
        BY <4>1, <4>2
      <4> QED BY <4>1, <4>3 DEF f
    <3>3. v.spawn[n + 1].id <= v.fiber[v.spawn[n + 1].fiber].id
      <4>1. \A m \in Nat : m <= m
        OBVIOUS
      <4>2. w.fiber[g].id + 1 \in Nat
        BY <2>2
      <4> QED BY <2>3, <2>4, <2>5, <4>1, <4>2
    <3> QED BY <2>4, <2>9, <3>1, <3>2, <3>3 DEF OfThePast
  <2>11. \A i \in 1 .. n : Live(v, v.spawn[i]) => w.spawn[i].fiber # g /\ Live(w, w.spawn[i])
    <3> SUFFICES ASSUME NEW i \in 1 .. n, Live(v, v.spawn[i]) PROVE w.spawn[i].fiber # g /\ Live(w, w.spawn[i])
      OBVIOUS
    <3>1. v.spawn[i] = w.spawn[i] /\ w.spawn[i].fiber \in Fibers /\ w.spawn[i].id = v.fiber[w.spawn[i].fiber].id
      BY <2>2, <2>4 DEF Live
    <3>2. w.spawn[i].fiber # g
      <4> SUFFICES ASSUME w.spawn[i].fiber = g PROVE FALSE
        OBVIOUS
      <4>1. w.spawn[i].id = w.fiber[g].id + 1 /\ w.spawn[i].id <= w.fiber[g].id /\ w.fiber[g].id \in Nat
        BY <2>2, <2>3, <2>8, <3>1
      <4> QED BY <4>1
    <3> QED BY <2>6, <3>1, <3>2 DEF Live
  <2>12. \A f \in Fibers : f # g /\ HasTask(v, f) => HasTask(w, f)
    <3> SUFFICES ASSUME NEW f \in Fibers, f # g, HasTask(v, f) PROVE HasTask(w, f)
      OBVIOUS
    <3>1. PICK i \in 1 .. n + 1 : v.spawn[i].fiber = f /\ Live(v, v.spawn[i])
      BY <2>4 DEF HasTask
    <3>2. i \in 1 .. n
      BY <2>4, <2>5, <2>9, <3>1
    <3> QED BY <2>2, <2>4, <2>11, <3>1, <3>2 DEF HasTask
  <2>13. ClaimsAsked(v, ts, aw, run)
    <3> SUFFICES ASSUME NEW f \in Fibers, NEW k \in Claimable, NEW c \in Places, f \notin w.stray,
                        Claim(v, ts, f, v.fiber[f].id, k, c)
                 PROVE  <<k, c>> \in aw[f] /\ f # run /\ ~HasTask(v, f)
      BY <2>1 DEF ClaimsAsked
    <3>1. v.fiber[f].id \in Nat /\ w.fiber[f].id \in Nat
      BY <2>1, SpawnFacts
    <3>2. Claim(w, ts, f, v.fiber[f].id, k, c)
      BY <2>7, <3>1 DEF ClaimsPass
    <3>3. v.fiber[f].id <= w.fiber[f].id
      BY <3>1, <3>2 DEF Asked, OfThePast
    <3>4. f # g
      <4> SUFFICES ASSUME f = g PROVE FALSE
        OBVIOUS
      <4> QED BY <2>3, <3>1, <3>3
    <3>5. Claim(w, ts, f, w.fiber[f].id, k, c)
      BY <2>6, <3>2, <3>4
    <3> QED BY <2>12, <3>4, <3>5 DEF Asked, ClaimsAsked
  <2>14. TasksAsked(v, aw, run)
    <3>1. ASSUME NEW i \in 1 .. n, Live(v, v.spawn[i]), v.spawn[i].fiber \notin w.stray
          PROVE  AskedOf(aw, v.spawn[i].fiber, v.spawn[i].cause) /\ v.spawn[i].fiber # run /\ v.spawn[i].fiber # g
      BY <2>2, <2>4, <2>11, <3>1 DEF Asked, TasksAsked
    <3>2. ASSUME NEW i \in 1 .. n, NEW j \in 1 .. n, Live(v, v.spawn[i]), Live(v, v.spawn[j]),
                 v.spawn[j].fiber = v.spawn[i].fiber, v.spawn[i].fiber \notin w.stray
          PROVE  i = j
      BY <2>2, <2>4, <2>11, <3>2 DEF Asked, TasksAsked
    <3>3. /\ v.spawn[n + 1].fiber = g
          /\ g \notin w.stray => AskedOf(aw, v.spawn[n + 1].fiber, v.spawn[n + 1].cause) /\ g # run
      BY <2>4, <2>5
    <3>4. \A i \in 1 .. n : Live(v, v.spawn[i]) => v.spawn[i].fiber # g
      BY <2>4, <2>11
    <3> SUFFICES ASSUME NEW i \in 1 .. n + 1, Live(v, v.spawn[i]), v.spawn[i].fiber \notin w.stray
                 PROVE  /\ AskedOf(aw, v.spawn[i].fiber, v.spawn[i].cause) /\ v.spawn[i].fiber # run
                        /\ \A j \in 1 .. n + 1 : v.spawn[j].fiber = v.spawn[i].fiber /\ Live(v, v.spawn[j]) => i = j
      BY <2>1, <2>4 DEF TasksAsked
    <3>5. AskedOf(aw, v.spawn[i].fiber, v.spawn[i].cause) /\ v.spawn[i].fiber # run
      BY <2>9, <3>1, <3>3
    <3>6. ASSUME NEW j \in 1 .. n + 1, v.spawn[j].fiber = v.spawn[i].fiber, Live(v, v.spawn[j]) PROVE i = j
      <4>1. CASE i \in 1 .. n /\ j \in 1 .. n
        BY <3>2, <3>6, <4>1
      <4>2. CASE i = n + 1 /\ j \in 1 .. n
        BY <3>3, <3>4, <3>6, <4>2
      <4>3. CASE i \in 1 .. n /\ j = n + 1
        BY <3>3, <3>4, <3>6, <4>3
      <4> QED BY <2>9, <4>1, <4>2, <4>3
    <3> QED BY <3>5, <3>6
  <2>15. \A f \in Fibers : v.fiber[f].status = w.fiber[f].status
    <3>1. v.fiber[g].status = w.fiber[g].status
      BY <2>1, <2>2 DEF FiberStates, FiberOf
    <3> QED BY <2>1, <3>1
  <2> QED BY <2>1, <2>6, <2>10, <2>12, <2>13, <2>14, <2>15 DEF Asked, IdsGrow
<1> QED BY <1>1, <1>2

\* A fiber that is scheduled while it runs is stray from then on.
LEMMA AskedOfScheduled ==
  ASSUME NEW w, w \in Ev, NEW g \in Fibers, NEW cause \in Causes, NEW sig \in {"ok", "error"},
         NEW ts, NEW aw, NEW run, Asked(w, ts, aw, run),
         g \in w.stray \/ w.fiber[g].status = "alive" \/ (g # run /\ AskedOf(aw, g, cause)),
         NEW v, v = Schedule(w, g, cause, sig)
  PROVE  Asked(v, ts, aw, run) /\ IdsGrow(w, v) /\ w.stray \subseteq v.stray /\ StaysIdle(w, v)
<1> DEFINE u == Marked(w, g)
<1>1. v = Enqueue(u, g, cause, sig)
  BY DEF Schedule, Marked
<1>2. /\ u \in Ev /\ u.fiber = w.fiber /\ u.spawn = w.spawn /\ u.chan = w.chan /\ w.stray \subseteq u.stray
      /\ w.fiber[g].status = "alive" => g \in u.stray
  <2>1. CASE w.fiber[g].status = "alive"
    BY <2>1, AstrayShape DEF Marked
  <2>2. CASE w.fiber[g].status # "alive"
    BY <2>2 DEF Marked
  <2> QED BY <2>1, <2>2
<1> HIDE DEF u
<1>3. ClaimsPass(w, ts, u, ts) /\ SameIds(w, u)
  BY <1>2, SameClaims DEF SameIds
<1>4. Asked(u, ts, aw, run)
  BY <1>2, <1>3, AskedOfFewer
<1>5. g \in u.stray \/ (g # run /\ AskedOf(aw, g, cause))
  BY <1>2
<1>6. /\ Asked(v, ts, aw, run) /\ IdsGrow(u, v) /\ v.stray = u.stray
      /\ \A f \in Fibers : v.fiber[f].status = u.fiber[f].status
      /\ \A f \in Fibers : f # g /\ HasTask(v, f) => HasTask(u, f)
  BY <1>1, <1>2, <1>4, <1>5, AskedOfEnqueued
<1>7. \A f : HasTask(u, f) <=> HasTask(w, f)
  BY <1>2 DEF HasTask, Live
<1>8. StaysIdle(w, v)
  BY <1>2, <1>6, <1>7 DEF StaysIdle, Idle
<1> QED BY <1>2, <1>6, <1>8 DEF IdsGrow

\* Who is in a queue that is cut or grows.
LEMMA LineGrows ==
  ASSUME NEW q \in Seq(Records), NEW r \in Records, NEW f, NEW id, InLine(Append(q, r), f, id)
  PROVE  InLine(q, f, id) \/ (f = r.fiber /\ id = r.id)
<1>1. /\ Len(q) \in Nat /\ DOMAIN q = 1 .. Len(q) /\ DOMAIN Append(q, r) = 1 .. Len(q) + 1
      /\ Append(q, r)[Len(q) + 1] = r /\ \A i \in 1 .. Len(q) : Append(q, r)[i] = q[i]
  BY AppendProperties
<1>2. PICK i \in 1 .. Len(q) + 1 : Append(q, r)[i].fiber = f /\ Append(q, r)[i].id = id
  BY <1>1 DEF InLine
<1>3. i \in 1 .. Len(q) \/ i = Len(q) + 1
  BY <1>1
<1> QED BY <1>1, <1>2, <1>3 DEF InLine

LEMMA LineCut ==
  ASSUME NEW q \in Seq(Records), NEW n \in 0 .. Len(q), NEW f, NEW id, InLine(SubSeq(q, n + 1, Len(q)), f, id)
  PROVE  InLine(q, f, id)
<1> DEFINE m == Len(q)
           p == SubSeq(q, n + 1, m)
<1>1. m \in Nat /\ n \in Nat /\ DOMAIN q = 1 .. m
  OBVIOUS
<1>2. DOMAIN p = 1 .. m - n /\ \A i \in 1 .. m - n : p[i] = q[n + i]
  BY <1>1, SubSeqProperties
<1>3. PICK i \in DOMAIN p : p[i].fiber = f /\ p[i].id = id
  BY DEF InLine
<1> HIDE DEF m, p
<1>4. n + i \in 1 .. m /\ p[i] = q[n + i]
  BY <1>1, <1>2
<1> QED BY <1>1, <1>3, <1>4 DEF InLine

LEMMA LineTail ==
  ASSUME NEW q \in Seq(Records), q # <<>>
  PROVE  /\ \A f, id : InLine(Tail(q), f, id) => InLine(q, f, id)
         /\ Head(q) \in Records /\ InLine(q, Head(q).fiber, Head(q).id) /\ Tail(q) \in Seq(Records)
<1>1. /\ Head(q) \in Records /\ Head(q) = q[1] /\ Tail(q) \in Seq(Records)
      /\ Len(q) \in Nat /\ Len(q) > 0 /\ DOMAIN q = 1 .. Len(q) /\ DOMAIN Tail(q) = 1 .. Len(q) - 1
      /\ \A i \in 1 .. Len(q) - 1 : Tail(q)[i] = q[i + 1]
  BY HeadTailProperties
<1>2. ASSUME NEW f, NEW id, InLine(Tail(q), f, id) PROVE InLine(q, f, id)
  <2>1. PICK i \in 1 .. Len(q) - 1 : Tail(q)[i].fiber = f /\ Tail(q)[i].id = id
    BY <1>1, <1>2 DEF InLine
  <2>2. i + 1 \in 1 .. Len(q) /\ Tail(q)[i] = q[i + 1]
    BY <1>1
  <2> QED BY <1>1, <2>1, <2>2 DEF InLine
<1>3. 1 \in 1 .. Len(q)
  BY <1>1
<1> QED BY <1>1, <1>2, <1>3 DEF InLine

LEMMA EmptyLine == \A f, id : ~InLine(<<>>, f, id)
BY DEF InLine

\* What a record in a queue says of its fiber.
LEMMA ClaimHolds ==
  ASSUME NEW w, NEW ts, NEW aw, NEW run, Asked(w, ts, aw, run), NEW r \in Records, Live(w, r),
         r.fiber \notin w.stray, NEW k \in Claimable, NEW c \in Places, Claim(w, ts, r.fiber, r.id, k, c)
  PROVE  r.fiber \in Fibers /\ <<k, c>> \in aw[r.fiber] /\ r.fiber # run /\ ~HasTask(w, r.fiber)
<1>1. r.fiber \in Fibers /\ r.id = w.fiber[r.fiber].id
  BY DEF Records, Live
<1> QED BY <1>1 DEF Asked, ClaimsAsked

\* w and v differ in one channel.
OneChan(w, v, c, ch) ==
  /\ v \in Ev /\ v.fiber = w.fiber /\ v.spawn = w.spawn /\ v.active = w.active /\ v.stray = w.stray
  /\ v.chan[c] = ch /\ \A d \in Channels : d # c => v.chan[d] = w.chan[d]

LEMMA ChanIsPut ==
  ASSUME NEW w, w \in Ev, NEW c \in Channels, NEW ch \in ChannelStates, NEW v, v = [w EXCEPT !.chan[c] = ch]
  PROVE  OneChan(w, v, c, ch)
<1>1. v.stray = w.stray
  BY DEF Ev
<1> QED BY <1>1, ChanPut DEF OneChan

LEMMA ChanFacts ==
  ASSUME NEW w, w \in Ev, NEW c \in Channels
  PROVE  LET ch == w.chan[c] IN
         /\ ch \in ChannelStates /\ ch.items \in Seq(Nat) /\ ch.readers \in Seq(Records) /\ ch.writers \in Seq(Records)
         /\ ch.closed \in BOOLEAN /\ Len(ch.items) \in Nat
         /\ DOMAIN ch.readers = 1 .. Len(ch.readers) /\ Len(ch.readers) \in Nat
<1>1. w.chan[c] \in ChannelStates
  BY DEF Ev
<1>2. /\ w.chan[c].items \in Seq(Nat) /\ w.chan[c].readers \in Seq(Records) /\ w.chan[c].writers \in Seq(Records)
      /\ w.chan[c].closed \in BOOLEAN
  BY <1>1 DEF ChannelStates
<1> QED BY <1>1, <1>2

LEMMA OneChanIdle ==
  ASSUME NEW w, NEW v, NEW c, NEW ch, OneChan(w, v, c, ch)
  PROVE  StaysIdle(w, v)
BY DEF OneChan, StaysIdle, Idle, HasTask, Live

LEMMA IdleTrans ==
  ASSUME NEW w, NEW v, NEW u, StaysIdle(w, v), StaysIdle(v, u)
  PROVE  StaysIdle(w, u)
BY DEF StaysIdle

LEMMA AskedOneChan ==
  ASSUME NEW w, w \in Ev, NEW v, NEW c \in Channels, NEW ch, OneChan(w, v, c, ch), NEW ts, NEW aw, NEW run,
         Asked(w, ts, aw, run),
         \A f, id : InLine(ch.readers, f, id) => InLine(w.chan[c].readers, f, id),
         \A f, id : InLine(ch.writers, f, id) => InLine(w.chan[c].writers, f, id)
  PROVE  Asked(v, ts, aw, run)
<1>1. ClaimsPass(w, ts, v, ts)
  BY ChanClaims DEF OneChan
<1> QED BY <1>1, AskedOfFewer DEF OneChan, SameIds

\* A value handed to a reader resumes it with what it waits for.
LEMMA PushToReaderAsks ==
  ASSUME NEW w, w \in Ev, NEW f, NEW c \in Channels, NEW x \in Nat, NEW mode, LiveReaders(w, c) # {},
         NEW ts, NEW aw, NEW run, Asked(w, ts, aw, run), NEW v, v = Push(w, f, c, x, mode)
  PROVE  Asked(v, ts, aw, run) /\ StaysIdle(w, v)
<1> DEFINE live == LiveReaders(w, c)
           ch == w.chan[c]
           i == CHOOSE k \in live : \A j \in live : k <= j
           rest == SubSeq(ch.readers, i + 1, Len(ch.readers))
           nch == [ch EXCEPT !.readers = rest]
           u == [w EXCEPT !.chan[c] = nch]
           r == ch.readers[i]
           g == r.fiber
           cause == Cause("take", c, x)
<1>1. /\ ch \in ChannelStates /\ ch.readers \in Seq(Records) /\ Len(ch.readers) \in Nat
      /\ DOMAIN ch.readers = 1 .. Len(ch.readers)
  BY ChanFacts
<1>2. i \in live
  <2>1. live \in SUBSET Nat
    BY <1>1 DEF LiveReaders
  <2>2. \E k \in live : \A j \in live : k <= j
    BY <2>1, LeastExists
  <2> HIDE DEF live
  <2> QED BY <2>2
<1>4. v = Schedule(u, g, cause, "ok")
  BY DEF Push
<1> HIDE DEF i
<1>3. i \in 1 .. Len(ch.readers) /\ i \in 0 .. Len(ch.readers) /\ Live(w, r) /\ r \in Records
  <2>1. i \in DOMAIN ch.readers /\ Live(w, ch.readers[i])
    BY <1>2 DEF LiveReaders
  <2>2. i \in 1 .. Len(ch.readers)
    BY <1>1, <2>1
  <2>3. i \in 0 .. Len(ch.readers) /\ r \in Records
    BY <1>1, <2>2
  <2> QED BY <2>1, <2>2, <2>3
<1>5. rest \in Seq(Records) /\ \A h, id : InLine(rest, h, id) => InLine(ch.readers, h, id)
  <2>1. rest \in Seq(Records)
    BY <1>1, <1>3
  <2> QED BY <1>1, <1>3, <2>1, LineCut
<1>6. nch \in ChannelStates /\ nch.readers = rest /\ nch.writers = ch.writers
  <2> HIDE DEF rest
  <2> QED BY <1>1, <1>5 DEF ChannelStates
<1> HIDE DEF nch
<1>7. OneChan(w, u, c, nch)
  BY <1>6, ChanIsPut
<1> HIDE DEF u
<1>8. Asked(u, ts, aw, run)
  BY <1>5, <1>6, <1>7, AskedOneChan
<1>9. g \in Fibers /\ cause \in Causes
  BY <1>3 DEF Records, Cause, Causes, Kinds
<1>10. g \in w.stray \/ (g # run /\ AskedOf(aw, g, cause))
  <2> SUFFICES ASSUME g \notin w.stray PROVE g # run /\ AskedOf(aw, g, cause)
    OBVIOUS
  <2>1. InLine(ch.readers, g, r.id)
    BY <1>1, <1>3 DEF InLine
  <2>2. "take" \in Claimable /\ c \in Places
    BY DEF Claimable, Places
  <2>3. Claim(w, ts, g, r.id, "take", c)
    BY <2>1 DEF Claim
  <2> HIDE DEF r
  <2>4. <<"take", c>> \in aw[g] /\ g # run
    BY <1>3, <2>2, <2>3, ClaimHolds
  <2> QED BY <2>4 DEF AskedOf, Cause
<1>11. u \in Ev /\ u.stray = w.stray
  BY <1>7 DEF OneChan
<1> HIDE DEF g, cause
<1>12. Asked(v, ts, aw, run) /\ StaysIdle(u, v)
  BY <1>4, <1>8, <1>9, <1>10, <1>11, AskedOfScheduled
<1> QED BY <1>7, <1>12, OneChanIdle, IdleTrans

\* Who waits to give when nobody takes.
WritersAfter(w, f, c, mode) ==
  IF Overfull(w, c) /\ mode # "event" THEN Append(w.chan[c].writers, Pending(w, f)) ELSE w.chan[c].writers

LEMMA PushToNobodyShape ==
  ASSUME NEW w, w \in Ev, NEW f \in Fibers, NEW c \in Channels, NEW x \in Nat, NEW mode, LiveReaders(w, c) = {},
         NEW v, v = Push(w, f, c, x, mode)
  PROVE  \E ch \in ChannelStates :
           /\ OneChan(w, v, c, ch) /\ ch.readers = <<>> /\ ch.items = Append(w.chan[c].items, x) /\ ch.closed = w.chan[c].closed
           /\ ch.writers = WritersAfter(w, f, c, mode)
<1> DEFINE ch == w.chan[c]
           ws == WritersAfter(w, f, c, mode)
           items == Append(ch.items, x)
           nch == [ch EXCEPT !.readers = <<>>, !.items = items, !.writers = ws]
<1>1. /\ ch \in ChannelStates /\ ch.items \in Seq(Nat) /\ ch.writers \in Seq(Records)
  BY ChanFacts
<1>2. Pending(w, f) \in Records
  BY SpawnFacts DEF Pending, Records
<1>3. ws \in Seq(Records) /\ items \in Seq(Nat) /\ <<>> \in Seq(Records)
  BY <1>1, <1>2 DEF WritersAfter
<1>4. v = [w EXCEPT !.chan[c] = nch]
  BY DEF Push, WritersAfter
<1> HIDE DEF ws, items
<1>5. nch \in ChannelStates /\ nch.readers = <<>> /\ nch.items = items /\ nch.closed = ch.closed /\ nch.writers = ws
  BY <1>1, <1>3 DEF ChannelStates
<1> HIDE DEF nch
<1>6. OneChan(w, v, c, nch)
  BY <1>4, <1>5, ChanIsPut
<1> QED BY <1>5, <1>6 DEF ws, items

\* A value that is taken at once, or kept, leaves its giver with nothing to wait for.
LEMMA PushAsks ==
  ASSUME NEW w, w \in Ev, NEW f \in Fibers, NEW c \in Channels, NEW x \in Nat, NEW mode, mode = "event" \/ ~PushBlocks(w, c),
         NEW ts, NEW aw, NEW run, Asked(w, ts, aw, run), NEW v, v = Push(w, f, c, x, mode)
  PROVE  Asked(v, ts, aw, run) /\ StaysIdle(w, v)
<1>1. CASE LiveReaders(w, c) = {}
  <2>1. ~(Overfull(w, c) /\ mode # "event")
    BY <1>1 DEF PushBlocks
  <2>2. PICK ch \in ChannelStates : OneChan(w, v, c, ch) /\ ch.readers = <<>> /\ ch.writers = w.chan[c].writers
    <3>1. WritersAfter(w, f, c, mode) = w.chan[c].writers
      BY <2>1 DEF WritersAfter
    <3> QED BY <1>1, <3>1, PushToNobodyShape
  <2>3. \A g, id : InLine(ch.readers, g, id) => InLine(w.chan[c].readers, g, id)
    BY <2>2, EmptyLine
  <2> QED BY <2>2, <2>3, AskedOneChan, OneChanIdle
<1>2. CASE LiveReaders(w, c) # {}
  BY <1>2, PushToReaderAsks
<1> QED BY <1>1, <1>2

\* v is w, but for records of f that resume it with what is in S.
OwnClaims(w, ts, v, us, f, S) ==
  /\ v.spawn = w.spawn /\ v.fiber = w.fiber /\ v.stray = w.stray
  /\ \A g \in Fibers, id \in Nat, k \in Claimable, c \in Places :
       Claim(v, us, g, id, k, c) => Claim(w, ts, g, id, k, c) \/ (g = f /\ id = w.fiber[f].id /\ <<k, c>> \in S)

\* A record of f is appended to a queue of c.
LEMMA OneChanOwnClaims ==
  ASSUME NEW w, w \in Ev, NEW v, NEW c \in Channels, NEW ch, OneChan(w, v, c, ch), NEW f \in Fibers, NEW ts, NEW S,
         \/ /\ \A g, id : InLine(ch.readers, g, id) => InLine(w.chan[c].readers, g, id)
            /\ ch.writers = Append(w.chan[c].writers, Pending(w, f)) /\ <<"give", c>> \in S
         \/ /\ \A g, id : InLine(ch.writers, g, id) => InLine(w.chan[c].writers, g, id)
            /\ ch.readers = Append(w.chan[c].readers, Pending(w, f)) /\ <<"take", c>> \in S,
         <<"close", c>> \in S
  PROVE  OwnClaims(w, ts, v, ts, f, S)
<1>1. w.chan[c].readers \in Seq(Records) /\ w.chan[c].writers \in Seq(Records)
  BY ChanFacts
<1>2. Pending(w, f) \in Records /\ Pending(w, f).fiber = f /\ Pending(w, f).id = w.fiber[f].id
  BY SpawnFacts DEF Pending, Records
<1>3. SUFFICES ASSUME NEW g \in Fibers, NEW id \in Nat, NEW k \in Claimable, NEW d \in Places, Claim(v, ts, g, id, k, d)
               PROVE  Claim(w, ts, g, id, k, d) \/ (g = f /\ id = w.fiber[f].id /\ <<k, d>> \in S)
  BY DEF OwnClaims, OneChan
<1>4. CASE d # c
  BY <1>3, <1>4 DEF Claim, OneChan
<1>5. CASE d = c
  <2>1. \/ k \in {"take", "close"} /\ InLine(ch.readers, g, id)
        \/ k \in {"give", "close"} /\ InLine(ch.writers, g, id)
        \/ k = "time" /\ c = None
    BY <1>3, <1>5 DEF Claim, OneChan
  <2>2. c # None
    BY EvAssumption
  <2>3. InLine(w.chan[c].readers, g, id) /\ k \in {"take", "close"} => Claim(w, ts, g, id, k, d)
    BY <1>5 DEF Claim
  <2>4. InLine(w.chan[c].writers, g, id) /\ k \in {"give", "close"} => Claim(w, ts, g, id, k, d)
    BY <1>5 DEF Claim
  <2>5. CASE /\ \A h, n : InLine(ch.readers, h, n) => InLine(w.chan[c].readers, h, n)
             /\ ch.writers = Append(w.chan[c].writers, Pending(w, f)) /\ <<"give", c>> \in S
    <3>1. InLine(ch.writers, g, id) => InLine(w.chan[c].writers, g, id) \/ (g = f /\ id = w.fiber[f].id)
      BY <1>1, <1>2, <2>5, LineGrows
    <3>2. k = "give" \/ k = "close" => <<k, d>> \in S
      BY <1>5, <2>5
    <3> QED BY <2>1, <2>2, <2>3, <2>4, <2>5, <3>1, <3>2
  <2>6. CASE /\ \A h, n : InLine(ch.writers, h, n) => InLine(w.chan[c].writers, h, n)
             /\ ch.readers = Append(w.chan[c].readers, Pending(w, f)) /\ <<"take", c>> \in S
    <3>1. InLine(ch.readers, g, id) => InLine(w.chan[c].readers, g, id) \/ (g = f /\ id = w.fiber[f].id)
      BY <1>1, <1>2, <2>6, LineGrows
    <3>2. k = "take" \/ k = "close" => <<k, d>> \in S
      BY <1>5, <2>6
    <3> QED BY <2>1, <2>2, <2>3, <2>4, <2>6, <3>1, <3>2
  <2> QED BY <2>5, <2>6
<1> QED BY <1>4, <1>5

LEMMA PushWaits ==
  ASSUME NEW w, w \in Ev, NEW f \in Fibers, NEW c \in Channels, NEW x \in Nat, NEW mode, mode # "event", PushBlocks(w, c),
         NEW ts, NEW S, {<<"give", c>>, <<"close", c>>} \subseteq S, NEW v, v = Push(w, f, c, x, mode)
  PROVE  OwnClaims(w, ts, v, ts, f, S)
<1>1. LiveReaders(w, c) = {} /\ Overfull(w, c)
  BY DEF PushBlocks
<1> DEFINE ws == Append(w.chan[c].writers, Pending(w, f))
<1>2. PICK ch \in ChannelStates : OneChan(w, v, c, ch) /\ ch.readers = <<>> /\ ch.writers = ws
  <2>1. WritersAfter(w, f, c, mode) = ws
    BY <1>1 DEF WritersAfter
  <2> HIDE DEF ws
  <2> QED BY <1>1, <2>1, PushToNobodyShape
<1>3. \A g, id : InLine(ch.readers, g, id) => InLine(w.chan[c].readers, g, id)
  BY <1>2, EmptyLine
<1>4. <<"give", c>> \in S /\ <<"close", c>> \in S
  OBVIOUS
<1> QED BY <1>2, <1>3, <1>4, OneChanOwnClaims

LEMMA PopWaits ==
  ASSUME NEW w, w \in Ev, NEW f \in Fibers, NEW c \in Channels, PopBlocks(w, c),
         NEW ts, NEW S, {<<"take", c>>, <<"close", c>>} \subseteq S, NEW v, v = Pop(w, f, c)
  PROVE  OwnClaims(w, ts, v, ts, f, S)
<1> DEFINE ch == w.chan[c]
           rs == Append(ch.readers, Pending(w, f))
           nch == [ch EXCEPT !.readers = rs]
<1>1. ch \in ChannelStates /\ ch.readers \in Seq(Records)
  BY ChanFacts
<1>2. Pending(w, f) \in Records
  BY SpawnFacts DEF Pending, Records
<1>3. v = [w EXCEPT !.chan[c] = nch]
  BY DEF Pop, PopBlocks
<1>4. rs \in Seq(Records)
  BY <1>1, <1>2
<1> HIDE DEF rs
<1>5. nch \in ChannelStates /\ nch.readers = rs /\ nch.writers = ch.writers /\ nch.items = ch.items /\ nch.closed = ch.closed
  BY <1>1, <1>4 DEF ChannelStates
<1> HIDE DEF nch
<1>6. OneChan(w, v, c, nch)
  BY <1>3, <1>5, ChanIsPut
<1>7. <<"take", c>> \in S /\ <<"close", c>> \in S
  OBVIOUS
<1>8. nch.readers = Append(w.chan[c].readers, Pending(w, f)) /\ nch.writers = w.chan[c].writers
  BY <1>5 DEF rs
<1> QED BY <1>6, <1>7, <1>8, OneChanOwnClaims

\* Taking a value schedules the first writer, which strays when its record is stale.
LEMMA PopAsks ==
  ASSUME NEW w, w \in Ev, NEW f, NEW c \in Channels, ~PopBlocks(w, c),
         NEW ts, NEW aw, NEW run, Asked(w, ts, aw, run), NEW v, v = Pop(w, f, c)
  PROVE  Asked(v, ts, aw, run) /\ StaysIdle(w, v)
<1> DEFINE ch == w.chan[c]
           items == Tail(ch.items)
<1>1. ch \in ChannelStates /\ ch.items \in Seq(Nat) /\ ch.writers \in Seq(Records) /\ ch.closed \in BOOLEAN
  BY ChanFacts
<1>2. CASE ch.closed
  <2>1. v = w
    BY <1>2 DEF Pop
  <2> QED BY <2>1 DEF StaysIdle
<1>3. CASE ~ch.closed /\ ch.items # <<>> /\ ch.writers = <<>>
  <2> DEFINE nch == [ch EXCEPT !.items = items]
  <2>1. v = [w EXCEPT !.chan[c] = nch]
    BY <1>3 DEF Pop
  <2>2. items \in Seq(Nat)
    BY <1>1, <1>3
  <2> HIDE DEF items
  <2>3. nch \in ChannelStates /\ nch.readers = ch.readers /\ nch.writers = ch.writers
    BY <1>1, <2>2 DEF ChannelStates
  <2> HIDE DEF nch
  <2>4. OneChan(w, v, c, nch)
    BY <2>1, <2>3, ChanIsPut
  <2> QED BY <2>3, <2>4, AskedOneChan, OneChanIdle
<1>4. CASE ~ch.closed /\ ch.items # <<>> /\ ch.writers # <<>>
  <2> DEFINE ws == Tail(ch.writers)
             r == Head(ch.writers)
             g == r.fiber
             cause == Cause("give", c, 0)
             nch == [ch EXCEPT !.items = items, !.writers = ws]
             y == [w EXCEPT !.chan[c] = nch]
             u == IF Live(w, r) THEN y ELSE Astray(y, g)
  <2>1. v = Schedule(u, g, cause, "ok")
    BY <1>4 DEF Pop
  <2>2. /\ items \in Seq(Nat) /\ ws \in Seq(Records) /\ r \in Records /\ InLine(ch.writers, g, r.id)
        /\ \A h, id : InLine(ws, h, id) => InLine(ch.writers, h, id)
    BY <1>1, <1>4, LineTail
  <2> HIDE DEF items, ws, r
  <2>3. nch \in ChannelStates /\ nch.readers = ch.readers /\ nch.writers = ws
    BY <1>1, <2>2 DEF ChannelStates
  <2> HIDE DEF nch
  <2>4. OneChan(w, y, c, nch)
    BY <2>3, ChanIsPut
  <2>5. Asked(y, ts, aw, run)
    BY <2>2, <2>3, <2>4, AskedOneChan
  <2>6. y \in Ev /\ y.stray = w.stray /\ y.fiber = w.fiber
    BY <2>4 DEF OneChan
  <2> HIDE DEF y
  <2>7. g \in Fibers /\ cause \in Causes
    BY <2>2 DEF Records, Cause, Causes, Kinds
  <2>8. /\ u \in Ev /\ u.fiber = y.fiber /\ u.spawn = y.spawn /\ u.chan = y.chan /\ y.stray \subseteq u.stray
        /\ ~Live(w, r) => g \in u.stray
    <3> HIDE DEF g
    <3>1. CASE Live(w, r)
      BY <2>6, <3>1
    <3>2. CASE ~Live(w, r)
      BY <2>6, <2>7, <3>2, AstrayShape
    <3> QED BY <3>1, <3>2
  <2> HIDE DEF u
  <2>9. ClaimsPass(y, ts, u, ts) /\ SameIds(y, u)
    BY <2>8, SameClaims DEF SameIds
  <2>10. Asked(u, ts, aw, run)
    BY <2>5, <2>6, <2>8, <2>9, AskedOfFewer
  <2>11. g \in u.stray \/ (g # run /\ AskedOf(aw, g, cause))
    <3> SUFFICES ASSUME g \notin u.stray PROVE g # run /\ AskedOf(aw, g, cause)
      OBVIOUS
    <3>1. g \notin w.stray /\ Live(w, r)
      BY <2>6, <2>8
    <3>2. "give" \in Claimable /\ c \in Places
      BY DEF Claimable, Places
    <3>3. Claim(w, ts, g, r.id, "give", c)
      BY <2>2 DEF Claim
    <3>4. <<"give", c>> \in aw[g] /\ g # run
      BY <2>2, <3>1, <3>2, <3>3, ClaimHolds
    <3> QED BY <3>4 DEF AskedOf, Cause
  <2> HIDE DEF g, cause
  <2>12. Asked(v, ts, aw, run) /\ StaysIdle(u, v)
    BY <2>1, <2>7, <2>8, <2>10, <2>11, AskedOfScheduled
  <2>13. StaysIdle(y, u)
    BY <2>8 DEF StaysIdle, Idle, HasTask, Live
  <2> QED BY <2>4, <2>12, <2>13, OneChanIdle, IdleTrans
<1> QED BY <1>1, <1>2, <1>3, <1>4 DEF PopBlocks

\* A fiber that gives the VM back may wait for anything: nothing it has left behind ends that.
LEMMA AskedAtRest ==
  ASSUME NEW w, w \in Ev, NEW f \in Fibers, NEW ts, NEW aw, DOMAIN aw = Fibers, Asked(w, ts, aw, f), NEW S
  PROVE  Asked(w, ts, [aw EXCEPT ![f] = S], None) /\ Idle(w, f)
<1> DEFINE bw == [aw EXCEPT ![f] = S]
<1>1. bw[f] = S /\ \A g \in Fibers : g # f => bw[g] = aw[g]
  OBVIOUS
<1> HIDE DEF bw
<1>2. \A g \in Fibers : g # None
  BY EvAssumption
<1>3. Idle(w, f)
  BY DEF Asked, TasksAsked, HasTask, Idle
<1>4. ClaimsAsked(w, ts, bw, None)
  BY <1>1, <1>2 DEF Asked, ClaimsAsked
<1>5. TasksAsked(w, bw, None)
  <2> SUFFICES ASSUME NEW i \in DOMAIN w.spawn, Live(w, w.spawn[i]), w.spawn[i].fiber \notin w.stray
               PROVE  /\ AskedOf(bw, w.spawn[i].fiber, w.spawn[i].cause) /\ w.spawn[i].fiber # None
                      /\ \A j \in DOMAIN w.spawn : w.spawn[j].fiber = w.spawn[i].fiber /\ Live(w, w.spawn[j]) => i = j
    BY DEF TasksAsked
  <2>1. /\ AskedOf(aw, w.spawn[i].fiber, w.spawn[i].cause) /\ w.spawn[i].fiber # f
        /\ \A j \in DOMAIN w.spawn : w.spawn[j].fiber = w.spawn[i].fiber /\ Live(w, w.spawn[j]) => i = j
    BY DEF Asked, TasksAsked
  <2>2. w.spawn[i].fiber \in Fibers
    BY SpawnFacts
  <2> QED BY <1>1, <1>2, <2>1, <2>2 DEF AskedOf
<1> QED BY <1>3, <1>4, <1>5 DEF Asked, bw

\* A fiber without a task may add what it waits for.
LEMMA AskedOfOwn ==
  ASSUME NEW w, w \in Ev, NEW f \in Fibers, NEW ts, NEW aw, Asked(w, ts, aw, None), Idle(w, f),
         NEW v, NEW us, OwnClaims(w, ts, v, us, f, aw[f])
  PROVE  Asked(v, us, aw, None)
<1>1. v.spawn = w.spawn /\ v.fiber = w.fiber /\ v.stray = w.stray
  BY DEF OwnClaims
<1>2. \A r : Live(v, r) <=> Live(w, r)
  BY <1>1 DEF Live
<1>3. \A g : HasTask(v, g) <=> HasTask(w, g)
  BY <1>1, <1>2 DEF HasTask
<1>4. \A g \in Fibers : g # None
  BY EvAssumption
<1>5. OfThePast(v, us)
  <2>1. \A m \in Nat : m <= m
    OBVIOUS
  <2>2. ASSUME NEW g \in Fibers, NEW id \in Nat, NEW k \in Claimable, NEW c \in Places, Claim(v, us, g, id, k, c)
        PROVE  id <= v.fiber[g].id
    <3>1. Claim(w, ts, g, id, k, c) \/ (g = f /\ id = w.fiber[f].id)
      BY <2>2 DEF OwnClaims
    <3> QED BY <1>1, <2>1, <3>1, SpawnFacts DEF Asked, OfThePast
  <2> QED BY <1>1, <2>2 DEF Asked, OfThePast
<1>6. ClaimsAsked(v, us, aw, None)
  <2> SUFFICES ASSUME NEW g \in Fibers, NEW k \in Claimable, NEW c \in Places, g \notin w.stray,
                      Claim(v, us, g, v.fiber[g].id, k, c)
               PROVE  <<k, c>> \in aw[g] /\ ~HasTask(v, g)
    BY <1>1, <1>4 DEF ClaimsAsked
  <2>1. w.fiber[g].id \in Nat /\ v.fiber[g].id = w.fiber[g].id
    BY <1>1, SpawnFacts
  <2>2. Claim(w, ts, g, w.fiber[g].id, k, c) \/ (g = f /\ <<k, c>> \in aw[f])
    BY <2>1 DEF OwnClaims
  <2>3. Claim(w, ts, g, w.fiber[g].id, k, c) => <<k, c>> \in aw[g] /\ ~HasTask(w, g)
    BY DEF Asked, ClaimsAsked
  <2> QED BY <1>3, <2>2, <2>3 DEF Idle
<1>7. TasksAsked(v, aw, None)
  BY <1>1, <1>2 DEF Asked, TasksAsked
<1> QED BY <1>5, <1>6, <1>7 DEF Asked

\* What a fiber that has the VM begins to wait for is all it waits for.
LEMMA AskedOfWaiting ==
  ASSUME NEW w, w \in Ev, NEW f \in Fibers, NEW ts, NEW aw, DOMAIN aw = Fibers, Asked(w, ts, aw, f),
         NEW v, NEW us, NEW S, OwnClaims(w, ts, v, us, f, S)
  PROVE  Asked(v, us, [aw EXCEPT ![f] = S], None)
<1> DEFINE bw == [aw EXCEPT ![f] = S]
<1>1. bw[f] = S
  OBVIOUS
<1>2. Asked(w, ts, bw, None) /\ Idle(w, f)
  BY AskedAtRest
<1> HIDE DEF bw
<1>3. Asked(v, us, bw, None)
  BY <1>1, <1>2, AskedOfOwn
<1> QED BY <1>3 DEF bw

LEMMA StatusLeaves ==
  ASSUME NEW w, w \in Ev, NEW f \in Fibers, NEW status, NEW sig, NEW active, NEW v, v = WithStatus(w, f, status, sig, active)
  PROVE  v.spawn = w.spawn /\ v.stray = w.stray /\ v.chan = w.chan /\ SameIds(w, v)
<1> DEFINE s == sig \in Suspends
           ff == [w.fiber[f] EXCEPT !.status = status, !.suspended = s]
<1>1. w.fiber[f] \in FiberStates
  BY SpawnFacts
<1>2. ff.id = w.fiber[f].id
  <2> HIDE DEF s
  <2> QED BY <1>1 DEF FiberStates
<1>3. v = [w EXCEPT !.fiber[f] = ff, !.active = active]
  BY DEF WithStatus
<1> HIDE DEF ff
<1>4. v.spawn = w.spawn /\ v.stray = w.stray /\ v.chan = w.chan /\ v.fiber = [w.fiber EXCEPT ![f] = ff]
  BY <1>3 DEF Ev
<1>5. \A g \in Fibers : v.fiber[g].id = w.fiber[g].id
  BY <1>2, <1>4 DEF Ev
<1> QED BY <1>4, <1>5 DEF SameIds

\* The event a fiber pushes when it gives the VM back resumes only who waits for it.
LEMMA SettleAsks ==
  ASSUME NEW w, Good(w), NEW f \in Fibers, NEW sig \in Signals, Stays(sig) => f \in w.active,
         NEW ts, NEW aw, NEW run, Asked(w, ts, aw, run), NEW v, v = Settle(w, f, sig)
  PROVE  Asked(v, ts, aw, run)
<1> DEFINE status == StatusAfter(sig)
           active == IF status \in {"dead", "error"} THEN w.active \ {f} ELSE w.active
           u == WithStatus(w, f, status, sig, active)
           sv == w.fiber[f].supervisor
           hears == Tells(w, f, sig) /\ ~w.chan[sv].closed
<1>1. v = IF hears THEN Push(u, f, sv, 0, "event") ELSE u
  BY DEF Settle, WithStatus
<1>2. w \in Ev /\ w.fiber[f] \in FiberStates /\ w.active \in SUBSET Fibers
  BY DEF Good, Ev
<1>3. sv \in Channels \cup {None} /\ (hears => sv # None)
  BY <1>2 DEF FiberStates, Tells
<1>4. /\ status \in Statuses /\ active \in SUBSET Fibers
      /\ (active = w.active \/ active = w.active \ {f})
      /\ (status \in {"dead", "error"} \/ f \in active \/ ~w.fiber[f].isTask)
  BY <1>2 DEF Stays, StatusAfter, Statuses
<1>5. u = WithStatus(w, f, status, sig, active)
  OBVIOUS
<1> HIDE DEF status, active, u, sv, hears
<1>6. Good(u)
  BY <1>4, <1>5, StatusPut DEF IsPut
<1>7. Asked(u, ts, aw, run)
  <2>1. u.spawn = w.spawn /\ u.stray = w.stray /\ u.chan = w.chan /\ SameIds(w, u)
    BY <1>2, <1>5, StatusLeaves
  <2>2. ClaimsPass(w, ts, u, ts)
    BY <2>1, SameClaims
  <2> QED BY <1>2, <2>1, <2>2, AskedOfFewer
<1>8. CASE hears
  <2>1. v = Push(u, f, sv, 0, "event") /\ sv \in Channels /\ 0 \in Nat /\ u \in Ev
    BY <1>1, <1>3, <1>6, <1>8 DEF Good
  <2> QED BY <1>7, <2>1, PushAsks
<1>9. CASE ~hears
  BY <1>1, <1>7, <1>9
<1> QED BY <1>8, <1>9

-----------------------------------------------------------------------------
(* Several clauses, several records, and what they ask for.                  *)

\* A clause in the second pass of ev/select: it waits, or leaves its fiber with nothing.
LEMMA ClauseAsks ==
  ASSUME NEW w, w \in Ev, NEW f \in Fibers, NEW cl \in Clauses, NEW x \in Nat, NEW ts, NEW aw,
         Asked(w, ts, aw, None), Idle(w, f), w.fiber[f].status = "alive",
         Registers(w, cl) => {<<cl.op, cl.chan>>, <<"close", cl.chan>>} \subseteq aw[f],
         NEW v, v = DoClause(w, f, cl, x)
  PROVE  Asked(v, ts, aw, None) /\ Idle(v, f) /\ v.fiber[f].status = "alive"
<1> DEFINE c == cl.chan
           S == aw[f]
<1>1. c \in Channels /\ cl.op \in {"give", "take"}
  BY DEF Clauses
<1>2. CASE w.chan[c].closed
  BY <1>2 DEF DoClause
<1>3. CASE ~w.chan[c].closed /\ Registers(w, cl)
  <2>1. OwnClaims(w, ts, v, ts, f, S)
    <3>1. CASE cl.op = "give"
      <4>1. v = Push(w, f, c, x, "choice") /\ PushBlocks(w, c) /\ {<<"give", c>>, <<"close", c>>} \subseteq S
        BY <1>3, <3>1 DEF DoClause, Registers
      <4>2. "choice" # "event"
        OBVIOUS
      <4> HIDE DEF c, S
      <4> QED BY <1>1, <4>1, <4>2, PushWaits
    <3>2. CASE cl.op = "take"
      <4>1. v = Pop(w, f, c) /\ PopBlocks(w, c) /\ {<<"take", c>>, <<"close", c>>} \subseteq S
        BY <1>3, <3>2 DEF DoClause, Registers
      <4> HIDE DEF c, S
      <4> QED BY <1>1, <4>1, PopWaits
    <3> QED BY <1>1, <3>1, <3>2
  <2>2. Idle(v, f) /\ v.fiber[f].status = "alive"
    BY <2>1 DEF OwnClaims, Idle, HasTask, Live
  <2> QED BY <2>1, <2>2, AskedOfOwn
<1>4. CASE ~w.chan[c].closed /\ ~Registers(w, cl)
  <2>1. Asked(v, ts, aw, None) /\ StaysIdle(w, v)
    <3>1. CASE cl.op = "give"
      <4>1. v = Push(w, f, c, x, "choice") /\ ~PushBlocks(w, c)
        BY <1>4, <3>1 DEF DoClause, Registers
      <4> HIDE DEF c
      <4> QED BY <1>1, <4>1, PushAsks
    <3>2. CASE cl.op = "take"
      <4>1. v = Pop(w, f, c) /\ ~PopBlocks(w, c)
        BY <1>4, <3>2 DEF DoClause, Registers
      <4> HIDE DEF c
      <4> QED BY <1>1, <4>1, PopAsks
    <3> QED BY <1>1, <3>1, <3>2
  <2> QED BY <2>1 DEF StaysIdle
<1> QED BY <1>2, <1>3, <1>4

LEMMA ReadyClauseAsks ==
  ASSUME NEW w, w \in Ev, NEW f \in Fibers, NEW cl \in Clauses, NEW x \in Nat, ClauseReady(w, cl),
         NEW ts, NEW aw, NEW run, Asked(w, ts, aw, run), NEW v, v = DoClause(w, f, cl, x)
  PROVE  Asked(v, ts, aw, run)
<1> DEFINE c == cl.chan
<1>1. c \in Channels /\ cl.op \in {"give", "take"}
  BY DEF Clauses
<1>2. Len(w.chan[c].items) \in Nat /\ Limit[c] \in Nat
  BY <1>1, ChanFacts, EvAssumption
<1>3. CASE w.chan[c].closed
  BY <1>3 DEF DoClause
<1>4. CASE ~w.chan[c].closed /\ cl.op = "give"
  <2>1. v = Push(w, f, c, x, "choice")
    BY <1>4 DEF DoClause
  <2>2. Len(w.chan[c].items) < Limit[c]
    BY <1>4 DEF ClauseReady
  <2>3. ~PushBlocks(w, c)
    <3>1. ~(Len(w.chan[c].items) >= Limit[c])
      BY <1>2, <2>2
    <3> QED BY <3>1 DEF PushBlocks, Overfull
  <2> HIDE DEF c
  <2> QED BY <1>1, <2>1, <2>3, PushAsks
<1>5. CASE ~w.chan[c].closed /\ cl.op = "take"
  <2>1. v = Pop(w, f, c)
    BY <1>5 DEF DoClause
  <2>2. ~PopBlocks(w, c)
    BY <1>5 DEF ClauseReady, PopBlocks
  <2> HIDE DEF c
  <2> QED BY <1>1, <2>1, <2>2, PopAsks
<1> QED BY <1>1, <1>3, <1>4, <1>5

LEMMA SelectReadyAsks ==
  ASSUME NEW w, w \in Ev, NEW f \in Fibers, NEW clauses \in Seq(Clauses), NEW x \in Nat,
         \E i \in DOMAIN clauses : ClauseReady(w, clauses[i]),
         NEW ts, NEW aw, NEW run, Asked(w, ts, aw, run), NEW v, v = SelectReady(w, f, clauses, x)
  PROVE  Asked(v, ts, aw, run)
<1> DEFINE ready == {i \in DOMAIN clauses : ClauseReady(w, clauses[i])}
           first == CHOOSE i \in ready : \A j \in ready : i <= j
<1>1. ready \in SUBSET Nat /\ ready # {}
  OBVIOUS
<1>2. first \in ready
  <2>1. \E i \in ready : \A j \in ready : i <= j
    BY <1>1, LeastExists
  <2> HIDE DEF ready
  <2> QED BY <2>1
<1>3. v = DoClause(w, f, clauses[first], x)
  BY DEF SelectReady
<1> HIDE DEF first
<1>4. clauses[first] \in Clauses /\ ClauseReady(w, clauses[first])
  BY <1>2
<1> QED BY <1>3, <1>4, ReadyClauseAsks

\* What a fiber waits for in ev/select.
LEMMA SelectWaitsAsks ==
  ASSUME NEW w, Good(w), NEW f \in Fibers, NEW clauses \in Seq(Clauses), NEW x \in Nat, NEW ts,
         NEW aw, DOMAIN aw = Fibers, Asked(w, ts, aw, f), w.fiber[f].status = "alive",
         NEW S, S = SelectAwaits(w, f, clauses, x), NEW v, v = SelectWaits(w, f, clauses, x)
  PROVE  Asked(v, ts, [aw EXCEPT ![f] = S], None)
<1> DEFINE n == Len(clauses)
           bw == [aw EXCEPT ![f] = S]
<1>1. n \in Nat /\ DOMAIN clauses = 1 .. n /\ \A i \in 1 .. n : clauses[i] \in Clauses
  OBVIOUS
<1>2. PICK after : IsSelectRun(after, w, f, clauses, x)
  BY SelectRuns
<1>3. /\ after[0] = w /\ \A i \in 1 .. n : after[i] = DoClause(after[i - 1], f, clauses[i], x)
      /\ \A i \in 0 .. n : Good(after[i])
      /\ SelectPass(w, f, clauses, x) = after
  BY <1>2 DEF IsSelectRun
<1>4. v = after[n]
  BY <1>3 DEF SelectWaits
<1>5. \A i \in 1 .. n : Registers(after[i - 1], clauses[i]) => {<<clauses[i].op, clauses[i].chan>>, <<"close", clauses[i].chan>>} \subseteq S
  BY <1>1, <1>3 DEF SelectAwaits
<1>6. bw[f] = S
  OBVIOUS
<1>7. Asked(w, ts, bw, None) /\ Idle(w, f)
  BY AskedAtRest DEF Good
<1> HIDE DEF n, bw
<1> DEFINE Fine(u) == Asked(u, ts, bw, None) /\ Idle(u, f) /\ u.fiber[f].status = "alive"
           T == {i \in Nat : i <= n => Fine(after[i])}
<1>8. 0 \in T
  BY <1>3, <1>7
<1>9. ASSUME NEW i \in Nat, i \in T, i + 1 <= n PROVE i + 1 \in T
  <2> DEFINE u == after[i]
             y == after[i + 1]
             cl == clauses[i + 1]
  <2>1. i + 1 \in 1 .. n /\ (i + 1) - 1 = i /\ i <= n /\ i \in 0 .. n
    BY <1>1, <1>9
  <2>2. Fine(u) /\ u \in Ev
    BY <1>3, <1>9, <2>1 DEF Good
  <2>3. y = DoClause(u, f, cl, x) /\ cl \in Clauses
    BY <1>1, <1>3, <2>1
  <2>4. Registers(u, cl) => {<<cl.op, cl.chan>>, <<"close", cl.chan>>} \subseteq bw[f]
    BY <1>5, <1>6, <2>1
  <2> HIDE DEF u, y, cl
  <2>5. Fine(y)
    BY <2>2, <2>3, <2>4, ClauseAsks
  <2> QED BY <1>9, <2>5 DEF y
<1>10. \A i \in Nat : i \in T => i + 1 \in T
  <2>1. \A i \in Nat : ~(i + 1 <= n) => i + 1 \in T
    OBVIOUS
  <2> QED BY <1>9, <2>1
<1> HIDE DEF T
<1>11. n \in T /\ n <= n
  BY <1>1, <1>8, <1>10, SetInduction
<1> QED BY <1>4, <1>11 DEF T, bw

\* r, a record of a closed channel, was of one who waits for that too.
MayHearOfClose(w, c, aw, run, r) ==
  r.id <= w.fiber[r.fiber].id /\ (Live(w, r) /\ r.fiber \notin w.stray => <<"close", c>> \in aw[r.fiber] /\ r.fiber # run)

LEMMA MayStillHear ==
  ASSUME NEW w, w \in Ev, NEW v, v \in Ev, IdsGrow(w, v), w.stray \subseteq v.stray, NEW c, NEW aw, NEW run, NEW r \in Records, MayHearOfClose(w, c, aw, run, r)
  PROVE  MayHearOfClose(v, c, aw, run, r)
<1>1. /\ w.fiber[r.fiber].id \in Nat /\ v.fiber[r.fiber].id \in Nat /\ r.id \in Nat
      /\ w.fiber[r.fiber].id <= v.fiber[r.fiber].id
  BY SpawnFacts DEF Records, IdsGrow
<1>2. r.id <= v.fiber[r.fiber].id /\ (r.id = v.fiber[r.fiber].id => r.id = w.fiber[r.fiber].id)
  BY <1>1 DEF MayHearOfClose
<1> QED BY <1>2 DEF MayHearOfClose, Live

LEMMA CloseRecordAsks ==
  ASSUME NEW w, w \in Ev, NEW c \in Channels, NEW r \in Records, NEW ts, NEW aw, NEW run,
         Asked(w, ts, aw, run), MayHearOfClose(w, c, aw, run, r), NEW v, v = CloseRecord(w, c, r)
  PROVE  Asked(v, ts, aw, run) /\ IdsGrow(w, v) /\ w.stray \subseteq v.stray
<1> DEFINE cause == Cause("close", c, 0)
<1>1. CASE Live(w, r) /\ w.fiber[r.fiber].status \notin {"dead", "error"}
  <2>1. v = Schedule(w, r.fiber, cause, "ok")
    BY <1>1 DEF CloseRecord
  <2>2. r.fiber \in Fibers /\ cause \in Causes
    BY DEF Records, Cause, Causes, Kinds
  <2>3. r.fiber \in w.stray \/ (r.fiber # run /\ AskedOf(aw, r.fiber, cause))
    BY <1>1 DEF MayHearOfClose, AskedOf, Cause
  <2> HIDE DEF cause
  <2> QED BY <2>1, <2>2, <2>3, AskedOfScheduled
<1>2. CASE ~(Live(w, r) /\ w.fiber[r.fiber].status \notin {"dead", "error"})
  <2>1. v = w
    BY <1>2 DEF CloseRecord
  <2>2. \A m \in Nat : m <= m
    OBVIOUS
  <2> QED BY <2>1, <2>2, SpawnFacts DEF IdsGrow
<1> QED BY <1>1, <1>2

LEMMA IdsGrowTrans ==
  ASSUME NEW u, u \in Ev, NEW v, v \in Ev, NEW w, w \in Ev, IdsGrow(u, v), IdsGrow(v, w)
  PROVE  IdsGrow(u, w)
<1> SUFFICES ASSUME NEW f \in Fibers PROVE u.fiber[f].id <= w.fiber[f].id
  BY DEF IdsGrow
<1>1. u.fiber[f].id \in Nat /\ v.fiber[f].id \in Nat /\ w.fiber[f].id \in Nat
  BY SpawnFacts
<1>2. u.fiber[f].id <= v.fiber[f].id /\ v.fiber[f].id <= w.fiber[f].id
  BY DEF IdsGrow
<1> QED BY <1>1, <1>2

LEMMA CloseRecordsAsk ==
  ASSUME NEW w, Good(w), NEW c \in Channels, NEW rs \in Seq(Records), NEW ts, NEW aw, NEW run, Asked(w, ts, aw, run),
         \A i \in DOMAIN rs : MayHearOfClose(w, c, aw, run, rs[i]),
         NEW v, v = CloseRecords(w, c, rs)
  PROVE  Asked(v, ts, aw, run)
<1> DEFINE n == Len(rs)
<1>1. n \in Nat /\ DOMAIN rs = 1 .. n /\ \A i \in 1 .. n : rs[i] \in Records
  OBVIOUS
<1>2. PICK after : IsCloseRun(after, w, c, rs)
  BY CloseRuns
<1>3. v = after[n]
  BY <1>2 DEF IsCloseRun
<1>4. /\ after[0] = w /\ \A i \in 1 .. n : after[i] = CloseRecord(after[i - 1], c, rs[i])
      /\ \A i \in 0 .. n : Good(after[i])
  BY <1>2 DEF IsCloseRun
<1> HIDE DEF n
<1> DEFINE Fine(u) == Asked(u, ts, aw, run) /\ IdsGrow(w, u) /\ w.stray \subseteq u.stray
           T == {i \in Nat : i <= n => Fine(after[i])}
<1>5. 0 \in T
  <2>1. \A m \in Nat : m <= m
    OBVIOUS
  <2>2. IdsGrow(w, w)
    BY <2>1, SpawnFacts DEF IdsGrow, Good
  <2> QED BY <1>4, <2>2
<1>6. ASSUME NEW i \in Nat, i \in T, i + 1 <= n PROVE i + 1 \in T
  <2> DEFINE u == after[i]
             y == after[i + 1]
             r == rs[i + 1]
  <2>1. i + 1 \in 1 .. n /\ (i + 1) - 1 = i /\ i <= n /\ i \in 0 .. n /\ i + 1 \in 0 .. n
    BY <1>1, <1>6
  <2>2. Fine(u) /\ Good(u) /\ Good(y)
    BY <1>4, <1>6, <2>1
  <2>3. y = CloseRecord(u, c, r) /\ r \in Records
    BY <1>1, <1>4, <2>1
  <2>4. MayHearOfClose(w, c, aw, run, r)
    BY <1>1, <2>1
  <2>5. u \in Ev /\ y \in Ev /\ w \in Ev
    BY <2>2 DEF Good
  <2> HIDE DEF u, y, r
  <2>6. MayHearOfClose(u, c, aw, run, r)
    BY <2>2, <2>3, <2>4, <2>5, MayStillHear
  <2>7. Asked(y, ts, aw, run) /\ IdsGrow(u, y) /\ u.stray \subseteq y.stray
    BY <2>2, <2>3, <2>5, <2>6, CloseRecordAsks
  <2>8. Fine(y)
    BY <2>2, <2>5, <2>7, IdsGrowTrans
  <2> QED BY <1>6, <2>8 DEF y
<1>7. \A i \in Nat : i \in T => i + 1 \in T
  <2>1. \A i \in Nat : ~(i + 1 <= n) => i + 1 \in T
    OBVIOUS
  <2> QED BY <1>6, <2>1
<1> HIDE DEF T
<1>8. n \in T /\ n <= n
  BY <1>1, <1>5, <1>7, SetInduction
<1> QED BY <1>3, <1>8 DEF T

LEMMA CloseChanAsks ==
  ASSUME NEW w, Good(w), NEW c \in Channels, NEW ts, NEW aw, NEW run, Asked(w, ts, aw, run),
         NEW v, v = CloseChan(w, c)
  PROVE  Asked(v, ts, aw, run)
<1> DEFINE ch == w.chan[c]
           rs == ch.writers \o ch.readers
           nch == [ch EXCEPT !.closed = TRUE, !.readers = <<>>, !.writers = <<>>]
           u == Closed(w, c)
<1>1. CASE ch.closed
  BY <1>1 DEF CloseChan
<1>2. CASE ~ch.closed
  <2>1. v = CloseRecords(u, c, rs)
    BY <1>2 DEF CloseChan
  <2>2. w \in Ev /\ ch \in ChannelStates /\ ch.readers \in Seq(Records) /\ ch.writers \in Seq(Records)
    BY ChanFacts DEF Good
  <2>3. nch \in ChannelStates /\ nch.readers = <<>> /\ nch.writers = <<>> /\ nch.closed = TRUE /\ nch.items = ch.items
    <3>1. <<>> \in Seq(Records)
      OBVIOUS
    <3>2. ASSUME NEW s \in ChannelStates, NEW t, t = [s EXCEPT !.closed = TRUE, !.readers = <<>>, !.writers = <<>>]
          PROVE  t \in ChannelStates /\ t.readers = <<>> /\ t.writers = <<>> /\ t.closed = TRUE /\ t.items = s.items
      BY <3>1, <3>2 DEF ChannelStates
    <3> QED BY <2>2, <3>2
  <2>4. u = [w EXCEPT !.chan[c] = nch]
    BY DEF Closed
  <2> HIDE DEF u, nch
  <2>5. OneChan(w, u, c, nch)
    BY <2>2, <2>3, <2>4, ChanIsPut
  <2>6. Good(u)
    BY <2>3, <2>5, ChanChanged DEF OneChan
  <2>7. Asked(u, ts, aw, run)
    BY <2>2, <2>3, <2>5, EmptyLine, AskedOneChan
  <2>8. /\ rs \in Seq(Records)
        /\ \A i \in DOMAIN rs : InLine(ch.writers, rs[i].fiber, rs[i].id) \/ InLine(ch.readers, rs[i].fiber, rs[i].id)
    <3>1. ASSUME NEW p \in Seq(Records), NEW q \in Seq(Records), NEW i \in DOMAIN (p \o q)
          PROVE  InLine(p, (p \o q)[i].fiber, (p \o q)[i].id) \/ InLine(q, (p \o q)[i].fiber, (p \o q)[i].id)
      <4>1. /\ Len(p) \in Nat /\ Len(q) \in Nat /\ i \in 1 .. Len(p) + Len(q)
            /\ DOMAIN p = 1 .. Len(p) /\ DOMAIN q = 1 .. Len(q)
            /\ (p \o q)[i] = IF i <= Len(p) THEN p[i] ELSE q[i - Len(p)]
        OBVIOUS
      <4>2. i \in 1 .. Len(p) \/ (~(i <= Len(p)) /\ i - Len(p) \in 1 .. Len(q))
        BY <4>1
      <4>3. i \in 1 .. Len(p) => (p \o q)[i] = p[i]
        BY <4>1
      <4> QED BY <4>1, <4>2, <4>3 DEF InLine
    <3>2. rs \in Seq(Records)
      BY <2>2
    <3> QED BY <2>2, <3>1, <3>2
  <2>9. \A i \in DOMAIN rs : MayHearOfClose(u, c, aw, run, rs[i])
    <3> SUFFICES ASSUME NEW i \in DOMAIN rs PROVE MayHearOfClose(u, c, aw, run, rs[i])
      OBVIOUS
    <3> DEFINE r == rs[i]
    <3>1. r \in Records /\ (InLine(ch.writers, r.fiber, r.id) \/ InLine(ch.readers, r.fiber, r.id))
      <4> HIDE DEF ch, rs
      <4>1. rs \in Seq(Records) /\ i \in DOMAIN rs
        BY <2>8
      <4> QED BY <2>8, <4>1
    <3>2. "close" \in Claimable /\ c \in Places
      BY DEF Claimable, Places
    <3>3. Claim(w, ts, r.fiber, r.id, "close", c)
      BY <3>1 DEF Claim
    <3> HIDE DEF r, rs
    <3>4. Live(w, r) /\ r.fiber \notin w.stray => <<"close", c>> \in aw[r.fiber] /\ r.fiber # run
      BY <3>1, <3>2, <3>3, ClaimHolds
    <3>5. r.fiber \in Fibers /\ r.id \in Nat
      BY <3>1 DEF Records
    <3>6. r.id <= w.fiber[r.fiber].id
      BY <3>2, <3>3, <3>5 DEF Asked, OfThePast
    <3>7. MayHearOfClose(u, c, aw, run, r)
      BY <2>5, <3>4, <3>6 DEF MayHearOfClose, Live, OneChan
    <3> QED BY <3>7 DEF r
  <2> HIDE DEF rs
  <2> QED BY <2>1, <2>6, <2>7, <2>8, <2>9, CloseRecordsAsk
<1> QED BY <1>1, <1>2

-----------------------------------------------------------------------------
(* One step for each call and each step of the loop, for what wakes whom.    *)

LEMMA ToldFacts ==
  ASSUME IInv, WakesAreAsked
  PROVE  /\ Good(ev) /\ ev \in Ev /\ DOMAIN awaits = Fibers /\ Asked(ev, timeouts, awaits, running)
         /\ (phase = "timers" => running = None)
BY IInvIsGood DEF WakesAreAsked, Good

LEMMA ReturnsTold ==
  ASSUME IInv, WakesAreAsked, NEW f \in Fibers, Call(f), NEW w, Returns(w), Asked(w, timeouts, awaits, f)
  PROVE  WakesAreAsked'
<1>1. /\ ev' = w /\ timeouts' = timeouts /\ phase' = phase /\ running' = running /\ awaits' = awaits
      /\ running = f /\ phase = "tasks"
  BY DEF Returns, Call
<1> QED BY <1>1, ToldFacts DEF WakesAreAsked

LEMMA LeavesTold ==
  ASSUME IInv, WakesAreAsked, NEW f \in Fibers, running = f, f # None, phase = "tasks",
         NEW w, Good(w), SameDoings(ev, w), NEW sig \in Signals, NEW causes, Leaves(w, f, sig, causes),
         Asked(w, timeouts', [awaits EXCEPT ![f] = causes], None)
  PROVE  WakesAreAsked'
<1>1. /\ ev' = Settle(w, f, sig) /\ awaits' = [awaits EXCEPT ![f] = causes] /\ running' = None
      /\ phase' \in {"tasks", "exited"}
  BY DEF Leaves
<1>2. f \in w.active
  <2>1. ev.fiber[f].status = "alive" /\ ev.fiber[f].isTask
    BY DEF IInv, WaitsAreSound, TypeOK
  <2> QED BY <2>1 DEF IInv, TasksAreActive, SameDoings
<1>3. Asked(ev', timeouts', awaits', None)
  <2> DEFINE v == ev'
             ts == timeouts'
             aw == awaits'
  <2>1. v = Settle(w, f, sig) /\ Asked(w, ts, aw, None)
    BY <1>1
  <2> HIDE DEF v, ts, aw
  <2>2. Asked(v, ts, aw, None)
    BY <1>2, <2>1, SettleAsks
  <2> QED BY <2>2 DEF v, ts, aw
<1>4. DOMAIN awaits' = Fibers
  BY <1>1, ToldFacts
<1> QED BY <1>1, <1>3, <1>4 DEF WakesAreAsked

LEMMA AwaitTold ==
  ASSUME IInv, WakesAreAsked, NEW f \in Fibers, Call(f), NEW w, Good(w), Kept(ev, w, timeouts), NEW causes, Await(w, f, causes),
         Asked(w, timeouts', [awaits EXCEPT ![f] = causes], None)
  PROVE  WakesAreAsked'
<1>1. Leaves(w, f, "event", causes) /\ "event" \in Signals /\ SameDoings(ev, w) /\ running = f /\ f # None /\ phase = "tasks"
  BY DEF Await, Signals, Kept, Call
<1> QED BY <1>1, LeavesTold

LEMMA GiveTold ==
  ASSUME IInv, WakesAreAsked, NEW f \in Fibers, NEW c \in Channels, Give(f, c)
  PROVE  WakesAreAsked'
<1> DEFINE x == calls + 1
           w == Push(ev, f, c, x, "plain")
           S == {<<"give", c>>, <<"close", c>>}
<1>1. Call(f) /\ ~ev.chan[c].closed
  BY DEF Give
<1>2. /\ ev \in Ev /\ Good(ev) /\ DOMAIN awaits = Fibers /\ Asked(ev, timeouts, awaits, f) /\ x \in Nat
  BY <1>1, ToldFacts, CallFacts
<1>3. CASE PushBlocks(ev, c)
  <2>1. Await(w, f, S) /\ timeouts' = timeouts
    BY <1>3 DEF Give
  <2>2. "plain" # "event" /\ {<<"give", c>>, <<"close", c>>} \subseteq S
    OBVIOUS
  <2>3. "plain" \in Modes
    BY DEF Modes
  <2> HIDE DEF x, S
  <2>4. OwnClaims(ev, timeouts, w, timeouts, f, S)
    BY <1>2, <1>3, <2>2, PushWaits
  <2>5. Good(w) /\ Kept(ev, w, timeouts)
    BY <1>1, <1>2, <2>3, PushKeeps
  <2> HIDE DEF w
  <2>6. Asked(w, timeouts, [awaits EXCEPT ![f] = S], None)
    BY <1>2, <2>4, AskedOfWaiting
  <2> QED BY <1>1, <2>1, <2>5, <2>6, AwaitTold
<1>4. CASE ~PushBlocks(ev, c)
  <2>1. Returns(w)
    BY <1>4 DEF Give
  <2> HIDE DEF x
  <2>2. Asked(w, timeouts, awaits, f)
    BY <1>2, <1>4, PushAsks
  <2> HIDE DEF w
  <2> QED BY <1>1, <2>1, <2>2, ReturnsTold
<1> QED BY <1>3, <1>4

LEMMA TakeTold ==
  ASSUME IInv, WakesAreAsked, NEW f \in Fibers, NEW c \in Channels, Take(f, c)
  PROVE  WakesAreAsked'
<1> DEFINE w == Pop(ev, f, c)
           r == PopResult(ev, c)
<1>1. Call(f) /\ timeouts' = timeouts
  BY DEF Take
<1>2. /\ ev \in Ev /\ Good(ev) /\ DOMAIN awaits = Fibers /\ Asked(ev, timeouts, awaits, f)
  BY <1>1, ToldFacts, CallFacts
<1>3. w \in Ev /\ Good(w) /\ Kept(ev, w, timeouts)
  BY <1>2, PopKeeps DEF Good
<1>4. CASE PopBlocks(ev, c)
  <2> DEFINE S == {<<"take", c>>, <<"close", c>>}
  <2>1. Await(w, f, S)
    BY <1>4 DEF Take
  <2>2. {<<"take", c>>, <<"close", c>>} \subseteq S
    OBVIOUS
  <2> HIDE DEF S
  <2>3. OwnClaims(ev, timeouts, w, timeouts, f, S)
    BY <1>2, <1>4, <2>2, PopWaits
  <2> HIDE DEF w
  <2>4. Asked(w, timeouts, [awaits EXCEPT ![f] = S], None)
    BY <1>2, <2>3, AskedOfWaiting
  <2> QED BY <1>1, <1>3, <2>1, <2>4, AwaitTold
<1>5. CASE ~PopBlocks(ev, c)
  <2> DEFINE v == Enqueue(w, f, r, "ok")
             S == {<<r.kind, c>>}
             aw == [awaits EXCEPT ![f] = S]
  <2>1. Await(v, f, S)
    BY <1>5 DEF Take
  <2>2. r \in Causes /\ r.chan = c
    <3>1. CASE ev.chan[c].closed
      BY <3>1 DEF PopResult, Cause, Causes, Kinds
    <3>2. CASE ~ev.chan[c].closed
      <4>1. ev.chan[c].items \in Seq(Nat) /\ ev.chan[c].items # <<>>
        BY <1>2, <1>5, <3>2, ChanFacts DEF PopBlocks
      <4>2. Head(ev.chan[c].items) \in Nat
        BY <4>1
      <4> QED BY <3>2, <4>2 DEF PopResult, Cause, Causes, Kinds
    <3> QED BY <3>1, <3>2
  <2>4. Asked(w, timeouts, awaits, f)
    BY <1>2, <1>5, PopAsks
  <2> HIDE DEF w, r
  <2>5. OwnClaims(w, timeouts, w, timeouts, f, S)
    BY DEF OwnClaims
  <2>6. Asked(w, timeouts, aw, None)
    <3> HIDE DEF S
    <3> QED BY <1>2, <1>3, <2>4, <2>5, AskedOfWaiting
  <2>7. AskedOf(aw, f, r)
    BY <1>2, <2>2 DEF AskedOf
  <2>8. f # None
    BY EvAssumption
  <2> HIDE DEF aw
  <2>9. Asked(v, timeouts, aw, None)
    BY <1>3, <2>2, <2>6, <2>7, <2>8, AskedOfEnqueued
  <2>10. Good(v) /\ Kept(ev, v, timeouts)
    BY <1>3, <2>2, EnqueueKeeps, KeptTrans
  <2> HIDE DEF v, S
  <2> QED BY <1>1, <2>1, <2>9, <2>10, AwaitTold DEF aw
<1> QED BY <1>4, <1>5

LEMMA SelectTold ==
  ASSUME IInv, WakesAreAsked, NEW f \in Fibers, NEW clauses \in SelectMenu, Select(f, clauses)
  PROVE  WakesAreAsked'
<1> DEFINE x == calls + 1
<1>1. Call(f)
  BY DEF Select
<1>2. /\ ev \in Ev /\ Good(ev) /\ DOMAIN awaits = Fibers /\ Asked(ev, timeouts, awaits, f) /\ x \in Nat
      /\ ev.fiber[f].status = "alive"
  BY <1>1, ToldFacts, CallFacts
<1>3. clauses \in Seq(Clauses)
  BY SelectAssumption DEF Clauses
<1>4. CASE \E i \in DOMAIN clauses : ClauseReady(ev, clauses[i])
  <2> DEFINE w == SelectReady(ev, f, clauses, x)
  <2>1. Returns(w)
    BY <1>4 DEF Select
  <2> HIDE DEF x
  <2>2. Asked(w, timeouts, awaits, f)
    BY <1>2, <1>3, <1>4, SelectReadyAsks
  <2> HIDE DEF w
  <2> QED BY <1>1, <2>1, <2>2, ReturnsTold
<1>5. CASE ~\E i \in DOMAIN clauses : ClauseReady(ev, clauses[i])
  <2> DEFINE w == SelectWaits(ev, f, clauses, x)
             S == SelectAwaits(ev, f, clauses, x)
  <2>1. Await(w, f, S) /\ timeouts' = timeouts
    BY <1>5 DEF Select
  <2> HIDE DEF x
  <2>2. Good(w) /\ Kept(ev, w, timeouts)
    BY <1>2, <1>3, SelectWaitsKeeps
  <2>3. Asked(w, timeouts, [awaits EXCEPT ![f] = S], None)
    BY <1>2, <1>3, SelectWaitsAsks
  <2> HIDE DEF w, S
  <2> QED BY <1>1, <2>1, <2>2, <2>3, AwaitTold
<1> QED BY <1>4, <1>5

LEMMA CloseTold ==
  ASSUME IInv, WakesAreAsked, NEW f \in Fibers, NEW c \in Channels, Close(f, c)
  PROVE  WakesAreAsked'
<1> DEFINE w == CloseChan(ev, c)
<1>1. Call(f) /\ Returns(w)
  BY DEF Close
<1>2. Good(ev) /\ Asked(ev, timeouts, awaits, f)
  BY <1>1, ToldFacts, CallFacts
<1>3. Asked(w, timeouts, awaits, f)
  BY <1>2, CloseChanAsks
<1> HIDE DEF w
<1> QED BY <1>1, <1>3, ReturnsTold

LEMMA GoTold ==
  ASSUME IInv, WakesAreAsked, NEW f \in Fibers, NEW g \in Fibers, Go(f, g)
  PROVE  WakesAreAsked'
<1> DEFINE gg == [ev.fiber[g] EXCEPT !.supervisor = Supervisor]
           u == WithFiber(ev, g, gg, ev.active)
           cause == Cause("go", None, 0)
           w == Schedule(u, g, cause, "ok")
<1>1. /\ Call(f) /\ Good(ev) /\ ev.fiber[g].status = "new" /\ ev.fiber[f].status = "alive"
      /\ Asked(ev, timeouts, awaits, f)
  BY CallFacts, ToldFacts DEF Go
<1>2. ev \in Ev /\ ev.fiber[g] \in FiberStates /\ ev.active \in SUBSET Fibers
  BY <1>1 DEF Good, Ev
<1>3. /\ gg \in FiberStates /\ gg.id = ev.fiber[g].id /\ gg.canceled = ev.fiber[g].canceled
      /\ gg.isTask = ev.fiber[g].isTask /\ gg.status = ev.fiber[g].status /\ gg.suspended = ev.fiber[g].suspended
  BY <1>2, EvAssumption DEF FiberStates
<1>4. u = [ev EXCEPT !.fiber[g].supervisor = Supervisor]
  BY <1>2 DEF Ev, WithFiber
<1>5. Returns(w)
  BY <1>4 DEF Go
<1> HIDE DEF gg
<1>6. Good(u)
  <2>1. ev.active = ev.active /\ (gg.status \in {"dead", "error"} \/ g \in ev.active \/ ~ev.fiber[g].isTask)
    BY <1>1, <1>3 DEF Good, TasksAreActive
  <2> QED BY <1>1, <1>2, <1>3, <2>1, FiberPut
<1>7. u.spawn = ev.spawn /\ u.stray = ev.stray /\ u.chan = ev.chan /\ SameIds(ev, u)
  <2>1. u.spawn = ev.spawn /\ u.stray = ev.stray /\ u.chan = ev.chan /\ u.fiber = [ev.fiber EXCEPT ![g] = gg]
    BY <1>2 DEF Ev, WithFiber
  <2> QED BY <1>2, <1>3, <2>1 DEF Ev, SameIds
<1>8. cause \in Causes /\ AskedOf(awaits, g, cause)
  BY DEF Cause, Causes, Kinds, AskedOf, Unasked
<1> HIDE DEF u, cause
<1>9. ClaimsPass(ev, timeouts, u, timeouts)
  BY <1>7, SameClaims
<1>10. Asked(u, timeouts, awaits, f)
  BY <1>1, <1>2, <1>7, <1>9, AskedOfFewer
<1>11. g # f /\ u \in Ev
  BY <1>1, <1>6 DEF Good
<1>12. Asked(w, timeouts, awaits, f)
  BY <1>8, <1>10, <1>11, AskedOfScheduled
<1> HIDE DEF w
<1> QED BY <1>1, <1>5, <1>12, ReturnsTold

LEMMA CancelTold ==
  ASSUME IInv, WakesAreAsked, NEW f \in Fibers, NEW g \in Fibers, Cancel(f, g)
  PROVE  WakesAreAsked'
<1> DEFINE cause == Cause("cancel", None, 0)
           w == Schedule(ev, g, cause, "error")
<1>1. Call(f) /\ Returns(w)
  BY DEF Cancel
<1>2. cause \in Causes /\ AskedOf(awaits, g, cause)
  BY DEF Cause, Causes, Kinds, AskedOf, Unasked
<1>3. ev \in Ev /\ Asked(ev, timeouts, awaits, f) /\ ev.fiber[f].status = "alive"
  BY <1>1, ToldFacts, CallFacts
<1> HIDE DEF cause
<1>4. Asked(w, timeouts, awaits, f)
  BY <1>1, <1>2, <1>3, AskedOfScheduled
<1> HIDE DEF w
<1> QED BY <1>1, <1>4, ReturnsTold

LEMMA SleepTold ==
  ASSUME IInv, WakesAreAsked, NEW f \in Fibers, NEW sec \in 0 .. MaxTime - now, Sleep(f, sec)
  PROVE  WakesAreAsked'
<1> DEFINE t == Timeout(f, sec, None, FALSE)
           S == {<<"time", None>>}
<1>1. Call(f) /\ timeouts' = timeouts \cup {t} /\ Await(ev, f, S)
  BY DEF Sleep
<1>2. ev \in Ev /\ DOMAIN awaits = Fibers /\ Asked(ev, timeouts, awaits, f)
  BY <1>1, ToldFacts, CallFacts
<1>3. t.fiber = f /\ t.check = None /\ t.id = ev.fiber[f].id
  BY DEF Timeout
<1> HIDE DEF t
<1>4. OwnClaims(ev, timeouts, ev, timeouts', f, S)
  <2> SUFFICES ASSUME NEW g \in Fibers, NEW id \in Nat, NEW k \in Claimable, NEW c \in Places, Claim(ev, timeouts', g, id, k, c)
               PROVE  Claim(ev, timeouts, g, id, k, c) \/ (g = f /\ id = ev.fiber[f].id /\ <<k, c>> \in S)
    BY DEF OwnClaims
  <2>1. CASE k = "time" /\ c = None
    BY <1>1, <1>3, <2>1 DEF Claim
  <2>2. CASE ~(k = "time" /\ c = None)
    BY <2>2 DEF Claim
  <2> QED BY <2>1, <2>2
<1> HIDE DEF S
<1>5. Asked(ev, timeouts', [awaits EXCEPT ![f] = S], None)
  BY <1>2, <1>4, AskedOfWaiting
<1>6. Good(ev) /\ Kept(ev, ev, timeouts)
  BY ToldFacts DEF Kept, SameDoings
<1> QED BY <1>1, <1>5, <1>6, AwaitTold

LEMMA DeadlineTold ==
  ASSUME IInv, WakesAreAsked, NEW f \in Fibers, NEW sec \in 0 .. MaxTime - now, Deadline(f, sec)
  PROVE  WakesAreAsked'
<1> DEFINE t == Timeout(f, sec, f, FALSE)
<1>1. /\ timeouts' = timeouts \cup {t} /\ ev' = ev /\ phase' = phase /\ running' = running /\ awaits' = awaits
  BY DEF Deadline
<1>2. t.check # None
  BY EvAssumption DEF Timeout
<1> HIDE DEF t
<1>3. ClaimsPass(ev, timeouts, ev, timeouts')
  BY <1>1, <1>2 DEF ClaimsPass, Claim
<1>4. Asked(ev, timeouts', awaits, running)
  BY <1>3, ToldFacts, AskedOfFewer DEF SameIds
<1> QED BY <1>1, <1>4, ToldFacts DEF WakesAreAsked

\* With nothing to wait for.
LEMMA LeftAtRest ==
  ASSUME IInv, WakesAreAsked, NEW f \in Fibers, running = f
  PROVE  Asked(ev, timeouts, [awaits EXCEPT ![f] = {}], None) /\ Good(ev) /\ SameDoings(ev, ev)
BY ToldFacts, AskedAtRest DEF SameDoings

LEMMA RaiseTold ==
  ASSUME IInv, WakesAreAsked, NEW f \in Fibers, NEW sig \in {"event", "yield", "debug"}, Raise(f, sig)
  PROVE  WakesAreAsked'
<1>1. Leaves(ev, f, sig, {}) /\ timeouts' = timeouts /\ running = f /\ f # None /\ phase = "tasks" /\ sig \in Signals
  BY DEF Raise, Call, Signals
<1> QED BY <1>1, LeftAtRest, LeavesTold

LEMMA FinishTold ==
  ASSUME IInv, WakesAreAsked, NEW f \in Fibers, NEW sig \in {"ok", "error"}, Finish(f, sig)
  PROVE  WakesAreAsked'
<1>1. Leaves(ev, f, sig, {}) /\ timeouts' = timeouts /\ running = f /\ f # None /\ phase = "tasks" /\ sig \in Signals
  BY DEF Finish, Signals
<1> QED BY <1>1, LeftAtRest, LeavesTold

LEMMA InterruptTold ==
  ASSUME IInv, WakesAreAsked, NEW f \in Fibers, Interrupt(f)
  PROVE  WakesAreAsked'
<1> DEFINE w == Settle(ev, f, "interrupt")
           cause == Cause("interrupt", None, 0)
           aw == [awaits EXCEPT ![f] = {}]
<1>1. /\ Call(f) /\ ev' = Schedule(w, f, cause, "ok") /\ awaits' = aw /\ running' = None
      /\ timeouts' = timeouts
  BY DEF Interrupt
<1>2. running = f /\ f # None /\ ev.fiber[f].status = "alive" /\ ev.fiber[f].isTask
  BY <1>1, CallFacts
<1>3. Good(ev) /\ f \in ev.active /\ "interrupt" \in Signals
  BY <1>2, ToldFacts DEF IInv, TasksAreActive, Signals
<1>4. DOMAIN aw = Fibers /\ Asked(ev, timeouts, aw, None)
  BY <1>2, ToldFacts, LeftAtRest
<1>5. cause \in Causes /\ AskedOf(aw, f, cause)
  BY DEF Cause, Causes, Kinds, AskedOf, Unasked
<1> HIDE DEF aw, cause
<1>6. Asked(w, timeouts, aw, None) /\ w \in Ev
  BY <1>3, <1>4, SettleAsks, SettleKeeps DEF Good
<1> HIDE DEF w
<1>7. Asked(ev', timeouts, aw, None)
  BY <1>1, <1>2, <1>5, <1>6, AskedOfScheduled
<1> QED BY <1>1, <1>4, <1>7 DEF WakesAreAsked

LEMMA ExpireTold ==
  ASSUME IInv, WakesAreAsked, ExpireTimeout
  PROVE  WakesAreAsked'
<1>1. phase = "timers" /\ phase' = phase /\ running' = running /\ awaits' = awaits /\ running = None
  BY ToldFacts DEF ExpireTimeout
<1>2. PICK t \in timeouts :
        /\ timeouts' = timeouts \ {t}
        /\ ev' = IF t.check # None
                 THEN IF Resumable(t.check) THEN Schedule(ev, t.fiber, Cause("deadline", None, 0), "error") ELSE ev
                 ELSE IF ~Live(ev, t) THEN ev
                 ELSE IF t.isError THEN Schedule(ev, t.fiber, Cause("timeout", None, 0), "error")
                 ELSE Schedule(ev, t.fiber, Cause("time", None, 0), "ok")
  BY DEF ExpireTimeout
<1>3. t \in Timeouts /\ t.fiber \in Fibers /\ t.fiber # None /\ t.id \in Nat
  <2>1. t \in Timeouts
    BY DEF IInv, WaitsAreSound, TypeOK
  <2> QED BY <2>1, EvAssumption DEF Timeouts
<1>4. ev \in Ev /\ Asked(ev, timeouts, awaits, None)
  BY <1>1, ToldFacts
<1> DEFINE Scheduled(cause, sig) == ev' = Schedule(ev, t.fiber, cause, sig)
<1>5. ASSUME NEW cause \in Causes, NEW sig \in {"ok", "error"}, t.fiber \in ev.stray \/ AskedOf(awaits, t.fiber, cause),
             Scheduled(cause, sig)
      PROVE  Asked(ev', timeouts, awaits, None)
  BY <1>3, <1>4, <1>5, AskedOfScheduled
<1>6. Asked(ev', timeouts, awaits, None)
  <2>1. CASE ev' = ev
    BY <1>4, <2>1
  <2>2. CASE Scheduled(Cause("deadline", None, 0), "error")
    <3>1. Cause("deadline", None, 0) \in Causes /\ AskedOf(awaits, t.fiber, Cause("deadline", None, 0))
      BY DEF Cause, Causes, Kinds, AskedOf, Unasked
    <3> QED BY <1>5, <2>2, <3>1
  <2>3. CASE Scheduled(Cause("timeout", None, 0), "error")
    <3>1. Cause("timeout", None, 0) \in Causes /\ AskedOf(awaits, t.fiber, Cause("timeout", None, 0))
      BY DEF Cause, Causes, Kinds, AskedOf, Unasked
    <3> QED BY <1>5, <2>3, <3>1
  <2>4. CASE Scheduled(Cause("time", None, 0), "ok") /\ t.check = None /\ Live(ev, t)
    <3>1. Cause("time", None, 0) \in Causes
      BY DEF Cause, Causes, Kinds
    <3>2. ASSUME t.fiber \notin ev.stray PROVE AskedOf(awaits, t.fiber, Cause("time", None, 0))
      <4>1. "time" \in Claimable /\ None \in Places
        BY DEF Claimable, Places
      <4>2. t.id = ev.fiber[t.fiber].id
        BY <2>4 DEF Live
      <4>3. Claim(ev, timeouts, t.fiber, ev.fiber[t.fiber].id, "time", None)
        BY <2>4, <4>2 DEF Claim
      <4>4. <<"time", None>> \in awaits[t.fiber]
        BY <1>3, <1>4, <3>2, <4>1, <4>3 DEF Asked, ClaimsAsked
      <4> QED BY <4>4 DEF AskedOf, Cause
    <3>3. t.fiber \in ev.stray \/ AskedOf(awaits, t.fiber, Cause("time", None, 0))
      BY <3>2
    <3> QED BY <1>5, <2>4, <3>1, <3>3
  <2> QED BY <1>2, <2>1, <2>2, <2>3, <2>4
<1>7. ev' \in Ev
  <2>1. IInv'
    BY ExpireStep
  <2> QED BY <2>1, IInvIsGood DEF IInv, WaitsAreSound, TypeOK
<1>8. ClaimsPass(ev', timeouts, ev', timeouts')
  BY <1>2, SameClaims
<1>9. Asked(ev', timeouts', awaits, None)
  BY <1>6, <1>7, <1>8, AskedOfFewer DEF SameIds
<1> QED BY <1>1, <1>9, ToldFacts DEF WakesAreAsked

LEMMA TimersDoneTold ==
  ASSUME IInv, WakesAreAsked, TimersDone
  PROVE  WakesAreAsked'
BY DEF TimersDone, WakesAreAsked

LEMMA PollTold ==
  ASSUME IInv, WakesAreAsked, Poll
  PROVE  WakesAreAsked'
<1>1. ev' = ev /\ running' = running /\ awaits' = awaits /\ running = None
  BY DEF Poll
<1>2. timeouts' \subseteq timeouts
  BY DEF Poll
<1>3. ClaimsPass(ev, timeouts, ev, timeouts')
  BY <1>2, SameClaims
<1>4. Asked(ev, timeouts', awaits, running)
  BY <1>3, ToldFacts, AskedOfFewer DEF SameIds
<1> QED BY <1>1, <1>4, ToldFacts DEF WakesAreAsked

\* The first task is taken: when it is live, its fiber is left with nothing.
LEMMA AskedOfTaken ==
  ASSUME NEW w, w \in Ev, w.spawn # <<>>, NEW v, v.spawn = Tail(w.spawn), SameIds(w, v), v.chan = w.chan, v.stray = w.stray,
         NEW ts, NEW aw, Asked(w, ts, aw, None)
  PROVE  /\ Asked(v, ts, aw, None)
         /\ Live(w, Head(w.spawn)) => Asked(v, ts, aw, Head(w.spawn).fiber)
         /\ Live(w, Head(w.spawn)) /\ Head(w.spawn).fiber \notin w.stray => AskedOf(aw, Head(w.spawn).fiber, Head(w.spawn).cause)
<1> DEFINE n == Len(w.spawn)
           t == Head(w.spawn)
<1>1. /\ w.spawn \in Seq(Tasks) /\ n \in Nat /\ DOMAIN w.spawn = 1 .. n
      /\ \A i \in 1 .. n : w.spawn[i].fiber \in Fibers /\ w.spawn[i].id \in Nat
      /\ \A f \in Fibers : w.fiber[f].id \in Nat
  BY SpawnFacts
<1>2. /\ n > 0 /\ t = w.spawn[1] /\ DOMAIN v.spawn = 1 .. n - 1
      /\ \A i \in 1 .. n - 1 : v.spawn[i] = w.spawn[i + 1]
  BY <1>1, HeadTailProperties
<1> HIDE DEF n
<1>3. 1 \in 1 .. n /\ \A i \in 1 .. n - 1 : i + 1 \in 1 .. n /\ i + 1 # 1
  BY <1>1, <1>2
<1>4. \A i \in 1 .. n : Live(v, w.spawn[i]) <=> Live(w, w.spawn[i])
  BY <1>1 DEF SameIds, Live
<1>5. \A f : HasTask(v, f) => HasTask(w, f)
  <2> SUFFICES ASSUME NEW f, NEW i \in 1 .. n - 1, v.spawn[i].fiber = f, Live(v, v.spawn[i]) PROVE HasTask(w, f)
    BY <1>2 DEF HasTask
  <2>1. i + 1 \in 1 .. n /\ v.spawn[i] = w.spawn[i + 1]
    BY <1>2, <1>3
  <2> QED BY <1>1, <1>4, <2>1 DEF HasTask
<1>6. ClaimsPass(w, ts, v, ts)
  BY SameClaims
<1>7. OfThePast(v, ts)
  <2>1. ASSUME NEW f \in Fibers, NEW id \in Nat, NEW k \in Claimable, NEW c \in Places, Claim(v, ts, f, id, k, c)
        PROVE  id <= v.fiber[f].id
    BY <1>6, <2>1 DEF ClaimsPass, Asked, OfThePast, SameIds
  <2>2. ASSUME NEW i \in 1 .. n - 1 PROVE v.spawn[i].id <= v.fiber[v.spawn[i].fiber].id
    <3>1. i + 1 \in 1 .. n /\ v.spawn[i] = w.spawn[i + 1]
      BY <1>2, <1>3
    <3>2. w.spawn[i + 1].id <= w.fiber[w.spawn[i + 1].fiber].id
      BY <1>1, <3>1 DEF Asked, OfThePast
    <3> QED BY <1>1, <3>1, <3>2 DEF SameIds
  <2> QED BY <1>2, <2>1, <2>2 DEF OfThePast
<1>8. Live(w, t) => HasTask(w, t.fiber) /\ (t.fiber \notin w.stray => AskedOf(aw, t.fiber, t.cause))
  BY <1>1, <1>2, <1>3 DEF HasTask, Asked, TasksAsked
<1>9. ASSUME NEW r, r = None \/ (Live(w, t) /\ r = t.fiber) PROVE ClaimsAsked(v, ts, aw, r)
  <2> SUFFICES ASSUME NEW f \in Fibers, NEW k \in Claimable, NEW c \in Places, f \notin w.stray,
                      Claim(v, ts, f, v.fiber[f].id, k, c)
               PROVE  <<k, c>> \in aw[f] /\ f # r /\ ~HasTask(v, f)
    BY DEF ClaimsAsked
  <2>1. v.fiber[f].id = w.fiber[f].id /\ w.fiber[f].id \in Nat
    BY <1>1 DEF SameIds
  <2>2. Claim(w, ts, f, w.fiber[f].id, k, c)
    BY <1>6, <2>1 DEF ClaimsPass
  <2>3. <<k, c>> \in aw[f] /\ f # None /\ ~HasTask(w, f)
    BY <2>2 DEF Asked, ClaimsAsked
  <2> QED BY <1>5, <1>8, <1>9, <2>3
<1>10. ASSUME NEW r, r = None \/ (Live(w, t) /\ r = t.fiber) PROVE TasksAsked(v, aw, r)
  <2> SUFFICES ASSUME NEW i \in 1 .. n - 1, Live(v, v.spawn[i]), v.spawn[i].fiber \notin w.stray
               PROVE  /\ AskedOf(aw, v.spawn[i].fiber, v.spawn[i].cause) /\ v.spawn[i].fiber # r
                      /\ \A j \in 1 .. n - 1 : v.spawn[j].fiber = v.spawn[i].fiber /\ Live(v, v.spawn[j]) => i = j
    BY <1>2 DEF TasksAsked
  <2>1. i + 1 \in 1 .. n /\ v.spawn[i] = w.spawn[i + 1] /\ i + 1 # 1 /\ Live(w, w.spawn[i + 1])
    BY <1>2, <1>3, <1>4
  <2>2. /\ AskedOf(aw, w.spawn[i + 1].fiber, w.spawn[i + 1].cause) /\ w.spawn[i + 1].fiber # None
        /\ \A j \in 1 .. n : w.spawn[j].fiber = w.spawn[i + 1].fiber /\ Live(w, w.spawn[j]) => i + 1 = j
    BY <1>1, <2>1 DEF Asked, TasksAsked
  <2>3. v.spawn[i].fiber # r
    BY <1>2, <1>3, <1>10, <2>1, <2>2
  <2>4. ASSUME NEW j \in 1 .. n - 1, v.spawn[j].fiber = v.spawn[i].fiber, Live(v, v.spawn[j]) PROVE i = j
    <3>1. j + 1 \in 1 .. n /\ v.spawn[j] = w.spawn[j + 1] /\ Live(w, w.spawn[j + 1])
      BY <1>2, <1>3, <1>4, <2>4
    <3>2. i + 1 = j + 1
      BY <2>1, <2>2, <2>4, <3>1
    <3> QED BY <1>1, <3>2
  <2> QED BY <2>1, <2>2, <2>3, <2>4
<1> QED BY <1>7, <1>8, <1>9, <1>10 DEF Asked

LEMMA RunTaskTold ==
  ASSUME IInv, WakesAreAsked, RunTask
  PROVE  WakesAreAsked' /\ (running' \notin ev.stray => AwaitedWake)
<1> DEFINE t == Head(ev.spawn)
           f == t.fiber
           u == Unsuspended([ev EXCEPT !.spawn = Tail(ev.spawn)], f)
<1>1. /\ running = None /\ ev.spawn # <<>> /\ timeouts' = timeouts /\ awaits' = awaits /\ phase = "tasks"
      /\ phase' \in {"tasks", "exited"}
  BY DEF RunTask
<1>2. Good(ev) /\ ev \in Ev /\ Asked(ev, timeouts, awaits, None)
  BY <1>1, ToldFacts
<1>3. Good(u) /\ f \in Fibers
  BY <1>1, <1>2, TaskTaken
<1>4. u.spawn = Tail(ev.spawn) /\ u.stray = ev.stray /\ u.chan = ev.chan /\ SameIds(ev, u)
  <2> DEFINE ff == [ev.fiber[f] EXCEPT !.canceled = FALSE, !.suspended = FALSE]
  <2>1. ff.id = ev.fiber[f].id
    <3>1. ev.fiber[f] \in FiberStates
      BY <1>2, <1>3, SpawnFacts
    <3> QED BY <3>1 DEF FiberStates
  <2>2. u.spawn = Tail(ev.spawn) /\ u.stray = ev.stray /\ u.chan = ev.chan /\ u.fiber = [ev.fiber EXCEPT ![f] = ff]
    BY <1>2 DEF Ev, Unsuspended
  <2> HIDE DEF ff, u
  <2> QED BY <1>2, <2>1, <2>2 DEF Ev, SameIds
<1>5. /\ Asked(u, timeouts, awaits, None)
      /\ Live(ev, t) => Asked(u, timeouts, awaits, f)
      /\ f \notin ev.stray /\ Live(ev, t) => AskedOf(awaits, f, t.cause)
  <2> HIDE DEF u
  <2> QED BY <1>1, <1>2, <1>4, AskedOfTaken
<1>6. u \in Ev
  BY <1>3 DEF Good
<1>7. CASE ~Live(ev, t)
  <2>1. ev' = u /\ running' = None
    BY <1>1, <1>7 DEF RunTask
  <2> HIDE DEF u
  <2> QED BY <1>1, <1>5, <2>1, ToldFacts DEF WakesAreAsked, AwaitedWake, Wakes
<1>8. CASE Live(ev, t) /\ Resumable(f)
  <2>1. ev' = [u EXCEPT !.fiber[f].status = "alive"] /\ running' = f /\ phase' = phase
    BY <1>8 DEF RunTask
  <2> HIDE DEF u, f
  <2> DEFINE ff == [u.fiber[f] EXCEPT !.status = "alive"]
  <2>2. ff.id = u.fiber[f].id
    <3>1. u.fiber[f] \in FiberStates
      BY <1>3, <1>6, SpawnFacts
    <3> QED BY <3>1 DEF FiberStates
  <2>3. ev'.spawn = u.spawn /\ ev'.stray = u.stray /\ ev'.chan = u.chan /\ ev'.fiber = [u.fiber EXCEPT ![f] = ff]
    BY <1>6, <2>1 DEF Ev
  <2> HIDE DEF ff
  <2>4. SameIds(u, ev')
    BY <1>6, <2>2, <2>3 DEF Ev, SameIds
  <2>5. ClaimsPass(u, timeouts, ev', timeouts)
    BY <2>3, SameClaims
  <2>6. Asked(ev', timeouts, awaits, f)
    BY <1>5, <1>6, <1>8, <2>3, <2>4, <2>5, AskedOfFewer
  <2>7. WakesAreAsked'
    BY <1>1, <2>1, <2>6, ToldFacts DEF WakesAreAsked
  <2>8. running' \notin ev.stray => AwaitedWake
    BY <1>5, <1>8, <2>1 DEF AwaitedWake, AskedOf, Woken, f
  <2> QED BY <2>7, <2>8
<1>9. CASE Live(ev, t) /\ ~Resumable(f)
  <2> DEFINE y == Settle(u, f, "error")
             status == ev.fiber[f].status
  <2>1. ev' = [y EXCEPT !.fiber[f].status = status] /\ running' = None
    BY <1>1, <1>9 DEF RunTask
  <2> HIDE DEF u, f
  <2>2. "error" \in Signals /\ ~Stays("error")
    BY DEF Signals, Stays, StatusAfter
  <2>3. Asked(y, timeouts, awaits, None)
    BY <1>3, <1>5, <2>2, SettleAsks
  <2>4. y \in Ev
    BY <1>3, <2>2, SettleKeeps DEF Good
  <2> HIDE DEF y, status
  <2> DEFINE ff == [y.fiber[f] EXCEPT !.status = status]
  <2>5. ff.id = y.fiber[f].id
    <3>1. y.fiber[f] \in FiberStates
      BY <1>3, <2>4, SpawnFacts
    <3> QED BY <3>1 DEF FiberStates
  <2>6. ev'.spawn = y.spawn /\ ev'.stray = y.stray /\ ev'.chan = y.chan /\ ev'.fiber = [y.fiber EXCEPT ![f] = ff]
    BY <2>1, <2>4 DEF Ev
  <2> HIDE DEF ff
  <2>7. SameIds(y, ev')
    BY <2>4, <2>5, <2>6 DEF Ev, SameIds
  <2>8. ClaimsPass(y, timeouts, ev', timeouts)
    BY <2>6, SameClaims
  <2>9. Asked(ev', timeouts, awaits, None)
    BY <2>3, <2>4, <2>6, <2>7, <2>8, AskedOfFewer
  <2> QED BY <1>1, <2>1, <2>9, ToldFacts DEF WakesAreAsked, AwaitedWake, Wakes
<1> QED BY <1>7, <1>8, <1>9

LEMMA InitTold ==
  ASSUME NEW start \in {"timers", "exited"}, InitAt(start)
  PROVE  WakesAreAsked
<1> DEFINE go == Cause("go", None, 0)
<1>1. Blank \in Ev /\ go \in Causes /\ AskedOf(awaits, Main, go)
  BY InitIs, BlankFacts DEF Good, AskedOf, Unasked, Cause
<1> HIDE DEF go
<1>2. \A f, id, k, c : ~Claim(Blank, timeouts, f, id, k, c)
  BY InitIs, BlankFacts, EmptyLine DEF Claim
<1>3. Asked(Blank, timeouts, awaits, None)
  BY <1>2, BlankFacts DEF Asked, OfThePast, ClaimsAsked, TasksAsked
<1>4. ev = Schedule(Blank, Main, go, "ok") /\ Main \in Fibers /\ Main # None
  BY InitIs DEF go
<1>5. Asked(ev, timeouts, awaits, None)
  BY <1>1, <1>3, <1>4, AskedOfScheduled
<1> QED BY <1>5, InitIs DEF WakesAreAsked

LEMMA NextTold ==
  ASSUME IInv, WakesAreAsked, [Next]_vars
  PROVE  WakesAreAsked' /\ [running' \notin ev.stray => AwaitedWake]_vars
<1>1. ASSUME NEW f \in Fibers, FiberStep(f) PROVE WakesAreAsked'
  <2>1. CASE \E c \in Channels : Give(f, c) \/ Take(f, c) \/ Close(f, c)
    BY <2>1, GiveTold, TakeTold, CloseTold
  <2>2. CASE \E clauses \in SelectMenu : Select(f, clauses)
    BY <2>2, SelectTold
  <2>3. CASE \E g \in Fibers : Go(f, g) \/ Cancel(f, g)
    BY <2>3, GoTold, CancelTold
  <2>4. CASE \E sec \in 0 .. MaxTime - now : Sleep(f, sec) \/ Deadline(f, sec)
    BY <2>4, SleepTold, DeadlineTold
  <2>5. CASE (\E sig \in {"event", "yield", "debug"} : Raise(f, sig)) \/ Interrupt(f)
    BY <2>5, RaiseTold, InterruptTold
  <2>6. CASE \E sig \in {"ok", "error"} : Finish(f, sig)
    BY <2>6, FinishTold
  <2> QED BY <1>1, <2>1, <2>2, <2>3, <2>4, <2>5, <2>6 DEF FiberStep
<1>2. CASE UNCHANGED vars
  BY <1>2 DEF vars, WakesAreAsked
<1>3. ASSUME LoopStep PROVE WakesAreAsked'
  BY <1>3, ExpireTold, TimersDoneTold, RunTaskTold, PollTold DEF LoopStep
<1>4. WakesAreAsked'
  BY <1>1, <1>2, <1>3 DEF Next
<1>5. running' \notin ev.stray => AwaitedWake
  BY RunTaskTold DEF AwaitedWake, Wakes
<1> QED BY <1>4, <1>5

(* A fiber is resumed only by what it waits for, or by a cancellation: what a *)
(* cancelled, timed out or answered wait has left in the queues and among    *)
(* the timeouts is stale by then (janet_schedule_general,                    *)
(* janet_channel_push_with_lock, janet_cfun_channel_close, janet_loop1).     *)
(* Excepted is a fiber that was once popped as a writer under a number no    *)
(* longer its own (janet_channel_pop_with_lock), or scheduled while it ran.  *)
THEOREM OnlyStraysAreMisledHolds == Spec => OnlyStraysAreMisled
<1>1. Init => WakesAreAsked
  BY InitTold DEF Init
<1>2. IInv /\ WakesAreAsked /\ [Next]_vars => WakesAreAsked' /\ [running' \notin ev.stray => AwaitedWake]_vars
  BY NextTold
<1> QED BY <1>1, <1>2, Invariance, PTL DEF Spec, OnlyStraysAreMisled

-----------------------------------------------------------------------------
(* The loop beside a shared channel, as they are checked together.           *)

(* What ThreadChanProofs shows of a channel between VMs holds where only     *)
(* some steps are the channel's: its counts, records and values are right.   *)
THEOREM SharedSoundHolds == SpecAny => []SharedSound
<1>1. InitAny => Shared!IInv
  BY SharedAssumption, Shared!InitHolds DEF InitAny
<1>2. ASSUME Shared!IInv, [NextAny]_<<part, vars, sharedVars>> PROVE Shared!IInv'
  <2>1. [Shared!Next]_Shared!vars
    BY <1>2 DEF NextAny, sharedVars, Shared!vars
  <2> QED BY <1>2, <2>1, SharedAssumption, Shared!NextKeeps
<1>3. Shared!IInv => SharedSound
  BY SharedAssumption, Shared!IInvIsSound DEF SharedSound
<1> QED BY <1>1, <1>2, <1>3, PTL DEF SpecAny

(* Whatever ends a wait is what the wait was for: in the loop for every      *)
(* fiber janet_channel_pop_with_lock has not scheduled out of turn and       *)
(* nobody has scheduled while it ran, in the handler of a shared channel     *)
(* (janet_thread_chan_cb) without exception.                                 *)
THEOREM WokenForItsWaitHolds == SpecAny => WokenForItsWait
<1> DEFINE Both == IInv /\ WakesAreAsked /\ Shared!IInv
           Step == [NextAny]_<<part, vars, sharedVars>>
           Right == [running' \notin ev.stray => AwaitedWake]_vars
           SharedRight == [Shared!EventWakesItsWait]_Shared!vars
<1>1. InitAny => Both
  BY SharedAssumption, Shared!InitHolds, InitHolds, InitTold DEF InitAny, Init
<1>2. Both /\ Step => Both' /\ Right /\ SharedRight
  <2> SUFFICES ASSUME Both, Step PROVE Both' /\ Right /\ SharedRight
    OBVIOUS
  <2>1. [Next]_vars
    BY DEF NextAny
  <2>2. [Shared!Next]_Shared!vars
    BY DEF NextAny, sharedVars, Shared!vars
  <2>3. Shared!IInv' /\ SharedRight
    BY <2>2, SharedAssumption, Shared!NextKeeps, Shared!StepWakesItsWait
  <2>4. IInv' /\ WakesAreAsked' /\ Right
    BY <2>1, NextHolds, StutterHolds, NextTold
  <2> QED BY <2>3, <2>4
<1> QED BY <1>1, <1>2, PTL DEF SpecAny, WokenForItsWait, OnlyStraysAreMisled, Shared!WokenByItsOwnWait
=============================================================================
