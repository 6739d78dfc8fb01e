---------------------------- MODULE JanetVMProofs ----------------------------
(***************************************************************************)
(* VMIsItsThreads for any number of threads, handles and VMs.              *)
(*                                                                         *)
(* The check of isOnOwnThread compares handles, which are reused.  It is   *)
(* enough because the handle of a live VM belongs to its home, which runs  *)
(* as long as the VM lives (HomesRun), and no other thread that runs has   *)
(* it (HandlesDiffer).                                                     *)
(*                                                                         *)
(* Then EvalReports of JanetEval for any number of evals, forms and levels *)
(* of nesting.  It needs to be known how the C stack of fibers and that of *)
(* evals go together (Stacked, RunsLastForms), that no form is in two      *)
(* evals (FormsApart), that a fiber's state and value say what its form    *)
(* has come to (HowIsKnown), where the loop finds a form that waits        *)
(* (WaitersAreFound), and that the form whose value an eval is going to    *)
(* answer with is not freed (LastFormLives).                               *)
(***************************************************************************)
EXTENDS JanetVM, JanetEval, SequenceTheorems, WellFoundedInduction, TLAPS

HandlesDiffer == \A t, u \in Thread : Runs(t) /\ Runs(u) /\ handle[t] = handle[u] => t = u

HomesRun ==
  \A v \in VM : Live(v) =>
    /\ home[v] \in Thread /\ Runs(home[v])
    /\ owner[v] = handle[home[v]] /\ interp[home[v]] = v /\ home[v] \in marker

MarksAreLive == \A t \in Thread : Runs(t) /\ t \in marker => \E v \in VM : Live(v) /\ home[v] = t

IInv == TypeOK /\ HandlesDiffer /\ HomesRun /\ MarksAreLive

\* Two VMs do not share a thread, as interp holds one.
LEMMA OnePerThread ==
  ASSUME IInv, NEW v \in VM, NEW w \in VM, Live(v), Live(w), home[v] = home[w]
  PROVE  v = w
  BY DEF IInv, HomesRun

\* The thread that passes the check of isOnOwnThread is the VM's own.
LEMMA OwnerIsHome ==
  ASSUME IInv, NEW t \in Thread, NEW v \in VM, Runs(t), Live(v), OnOwnThread(t, v)
  PROVE  home[v] = t
  BY DEF IInv, HomesRun, HandlesDiffer, OnOwnThread

LEMMA InitHolds == Init => IInv
  BY DEF Init, IInv, TypeOK, HandlesDiffer, HomesRun, MarksAreLive, Runs, Live

\* A new thread takes a handle nobody has, and no VM lives on it yet.
LEMMA StartKeeps ==
  ASSUME IInv, NEW t \in Thread, ThreadStarts(t)
  PROVE  IInv'
<1>1. PICK h \in Handle : /\ \A u \in Thread : handle[u] # h
                          /\ handle' = [handle EXCEPT ![t] = h]
  BY DEF ThreadStarts
<1>2. /\ ~Runs(t) /\ marker' = marker \ {t} /\ interp' = [interp EXCEPT ![t] = Nothing]
      /\ UNCHANGED <<owner, home, trapped>>
  BY DEF ThreadStarts
<1>3. h # Nothing
  BY NothingAssumption
<1>4. TypeOK'
  BY <1>1, <1>2 DEF IInv, TypeOK
<1>5. HandlesDiffer'
  BY <1>1, <1>2 DEF IInv, TypeOK, HandlesDiffer, Runs
<1>6. \A v \in VM : Live(v) => home[v] # t
  BY <1>2 DEF IInv, HomesRun
<1>7. HomesRun'
  BY <1>1, <1>2, <1>6 DEF IInv, TypeOK, HomesRun, Runs, Live
<1>8. MarksAreLive'
  BY <1>1, <1>2 DEF IInv, TypeOK, MarksAreLive, Runs, Live
<1> QED
  BY <1>4, <1>5, <1>7, <1>8 DEF IInv

\* Only a thread without a VM ends.
LEMMA EndKeeps ==
  ASSUME IInv, NEW t \in Thread, ThreadEnds(t)
  PROVE  IInv'
<1>1. /\ \A v \in VM : Live(v) => home[v] # t
      /\ handle' = [handle EXCEPT ![t] = Nothing]
      /\ UNCHANGED <<marker, interp, owner, home, trapped>>
  BY DEF ThreadEnds, MayEnd
<1>2. TypeOK'
  BY <1>1 DEF IInv, TypeOK
<1>3. HandlesDiffer'
  BY <1>1 DEF IInv, TypeOK, HandlesDiffer, Runs
<1>4. HomesRun'
  BY <1>1 DEF IInv, TypeOK, HomesRun, Runs, Live
<1>5. MarksAreLive'
  BY <1>1 DEF IInv, TypeOK, MarksAreLive, Runs, Live
<1> QED
  BY <1>2, <1>3, <1>4, <1>5 DEF IInv

LEMMA TrapKeeps ==
  ASSUME IInv, Trap
  PROVE  IInv'
  BY DEF Trap, IInv, TypeOK, HandlesDiffer, HomesRun, MarksAreLive, Runs, Live

\* A VM is made on a thread that has none: no home is given twice.
LEMMA InitVMKeeps ==
  ASSUME IInv, NEW t \in Thread, NEW v \in VM, InitVM(t, v)
  PROVE  IInv'
<1>1. CASE InitTraps(t)
  BY <1>1, TrapKeeps DEF InitVM
<1>2. CASE ~InitTraps(t)
  <2>1. /\ Runs(t) /\ ~Live(v) /\ t \notin marker
        /\ marker' = marker \cup {t}
        /\ owner' = [owner EXCEPT ![v] = handle[t]] /\ home' = [home EXCEPT ![v] = t]
        /\ interp' = [interp EXCEPT ![t] = v] /\ UNCHANGED <<handle, trapped>>
    BY <1>2 DEF InitVM, InitTraps
  <2>2. \A w \in VM : Live(w) => home[w] # t
    BY <2>1 DEF IInv, HomesRun
  <2>3. TypeOK'
    BY <2>1 DEF IInv, TypeOK
  <2>4. HandlesDiffer'
    BY <2>1 DEF IInv, HandlesDiffer, Runs
  <2>5. HomesRun'
    BY <2>1, <2>2 DEF IInv, TypeOK, HomesRun, Runs, Live
  <2>6. MarksAreLive'
    <3>1. SUFFICES ASSUME NEW u \in Thread, Runs(u)', u \in marker'
                   PROVE  \E w \in VM : Live(w)' /\ home'[w] = u
      BY DEF MarksAreLive
    <3>2. CASE u = t
      BY <3>2, <2>1 DEF IInv, TypeOK, Live, Runs
    <3>3. CASE u # t
      <4>1. PICK w \in VM : Live(w) /\ home[w] = u
        BY <3>1, <3>3, <2>1 DEF IInv, MarksAreLive, Runs
      <4>2. w # v /\ Live(w)' /\ home'[w] = u
        BY <4>1, <2>1 DEF IInv, TypeOK, Live
      <4> QED
        BY <4>2
    <3> QED
      BY <3>2, <3>3
  <2> QED
    BY <2>3, <2>4, <2>5, <2>6 DEF IInv
<1> QED
  BY <1>1, <1>2

\* A call on its own thread leaves that thread's state the VM's.
LEMMA CallKeeps ==
  ASSUME IInv, NEW t \in Thread, NEW v \in VM, Call(t, v)
  PROVE  IInv'
<1>1. CASE ~OnOwnThread(t, v)
  BY <1>1, TrapKeeps DEF Call
<1>2. CASE OnOwnThread(t, v)
  <2>1. /\ Runs(t) /\ Live(v) /\ home[v] = t
        /\ interp' \in {interp, [interp EXCEPT ![t] = v]}
        /\ UNCHANGED <<handle, marker, owner, home, trapped>>
    BY <1>2, OwnerIsHome DEF Call
  <2>2. interp' = interp
    BY <2>1 DEF IInv, TypeOK, HomesRun
  <2> QED
    BY <2>1, <2>2 DEF IInv, TypeOK, HandlesDiffer, HomesRun, MarksAreLive, Runs, Live
<1> QED
  BY <1>1, <1>2

\* What deinit takes away was its own: no other VM lives on this thread.
LEMMA DeinitKeeps ==
  ASSUME IInv, NEW t \in Thread, NEW v \in VM, Deinit(t, v)
  PROVE  IInv'
<1>1. CASE ~OnOwnThread(t, v)
  BY <1>1, TrapKeeps DEF Deinit
<1>2. CASE OnOwnThread(t, v)
  <2>1. /\ Runs(t) /\ Live(v) /\ home[v] = t
        /\ interp' = [interp EXCEPT ![t] = Nothing] /\ marker' = marker \ {t}
        /\ owner' = [owner EXCEPT ![v] = Nothing] /\ home' = [home EXCEPT ![v] = Nothing]
        /\ UNCHANGED <<handle, trapped>>
    BY <1>2, OwnerIsHome DEF Deinit, MarkerAfter
  <2>2. \A w \in VM : Live(w) /\ w # v => home[w] # t
    BY <2>1, OnePerThread
  <2>3. TypeOK'
    BY <2>1 DEF IInv, TypeOK
  <2>4. HandlesDiffer'
    BY <2>1 DEF IInv, HandlesDiffer, Runs
  <2>5. HomesRun'
    BY <2>1, <2>2 DEF IInv, TypeOK, HomesRun, Runs, Live
  <2>6. MarksAreLive'
    BY <2>1 DEF IInv, TypeOK, MarksAreLive, Runs, Live
  <2> QED
    BY <2>3, <2>4, <2>5, <2>6 DEF IInv
<1> QED
  BY <1>1, <1>2

LEMMA NextKeeps == IInv /\ [Next]_vars => IInv'
<1> SUFFICES ASSUME IInv, [Next]_vars PROVE IInv'
  OBVIOUS
<1>1. ASSUME NEW t \in Thread, ThreadStarts(t) \/ ThreadEnds(t) PROVE IInv'
  BY <1>1, StartKeeps, EndKeeps
<1>2. ASSUME NEW t \in Thread, NEW v \in VM, InitVM(t, v) \/ Call(t, v) \/ Deinit(t, v) PROVE IInv'
  BY <1>2, InitVMKeeps, CallKeeps, DeinitKeeps
<1>3. CASE UNCHANGED vars
  BY <1>3 DEF vars, IInv, TypeOK, HandlesDiffer, HomesRun, MarksAreLive, Runs, Live
<1> QED
  BY <1>1, <1>2, <1>3 DEF Next, Trapped

(* The inductive invariant: a live VM's handle is that of its home, which    *)
(* runs, is marked and holds the VM's state (JanetVM.init, deinit).          *)
THEOREM Invariance == Spec => []IInv
<1>1. IInv /\ [Next]_vars => IInv'
  BY NextKeeps
<1> QED
  BY InitHolds, <1>1, PTL DEF Spec

(* A VM that passes isOnOwnThread works on its own state although pthread_t  *)
(* is reused, and the marker is set on just the threads that have a VM.      *)
THEOREM VMIsItsThreadsHolds == Spec => []VMIsItsThreads
<1>1. IInv => UsesItsOwnState
  BY OwnerIsHome DEF UsesItsOwnState, IInv, HomesRun
<1>2. IInv => MarkerIsTrue
  BY DEF IInv, HomesRun, MarksAreLive, MarkerIsTrue, InitTraps
<1> QED
  BY Invariance, <1>1, <1>2, PTL DEF VMIsItsThreads

-----------------------------------------------------------------------------
(* What becomes of the forms of an eval.                                     *)

Frames == [forms : Seq(Nat), errs : SUBSET {"parse", "compile", "runtime"},
           ret : [of : Nat, is : {"nil", "message", "freed message", "value", "error"}],
           inLoop : BOOLEAN, nested : BOOLEAN]
Registered == [fiber : DOMAIN state, for : {"timer", "channel"}]

States == {"running", "waiting", "dead"}
Values == {"nil", "value", "error"}
Fates == {"ok", "failed", "failed in loop", "going on"}

EvalTypeOK ==
  /\ state \in Seq(States) /\ last \in Seq(Values) /\ how \in Seq(Fates) /\ level \in Seq(Nat)
  /\ Len(last) = Len(state) /\ Len(how) = Len(state) /\ Len(level) = Len(state)
  /\ frames \in Seq(Frames) /\ answer \in Frames /\ run \in Seq(DOMAIN state)
  /\ waits \in SUBSET Registered /\ tasks \in SUBSET DOMAIN state /\ gone \in SUBSET DOMAIN state

\* The C stack: only the outermost eval gets into the loop, and only there can it have failed.
Stacked ==
  /\ IF frames = <<>> THEN run = <<>> ELSE Len(run) \in {Len(frames) - 1, Len(frames)}
  /\ \A i \in DOMAIN frames : /\ frames[i].nested <=> i > 1
                              /\ frames[i].inLoop => i = 1
                              /\ frames[i].errs # {} => frames[i].inLoop

\* Each fiber on it is the last form of its eval, but for one that the loop has resumed.
RunsLastForms ==
  /\ \A i \in DOMAIN run : i > 1 \/ ~frames[1].inLoop => frames[i].forms # <<>> /\ run[i] = LastForm(frames[i])
  /\ \A i \in DOMAIN run : state[run[i]] = "running" /\ (i > 1 => level[run[i]] > 1)
  /\ \A i, j \in DOMAIN run : run[i] = run[j] => i = j

FormsOf(f) == Range(f.forms)
FormsApart ==
  /\ \A i \in DOMAIN frames : FormsOf(frames[i]) \subseteq DOMAIN state /\ FormsOf(frames[i]) \cap FormsOf(answer) = {}
  /\ \A i, j \in DOMAIN frames : i # j => FormsOf(frames[i]) \cap FormsOf(frames[j]) = {}
  /\ FormsOf(answer) \subseteq DOMAIN state

\* What a form has come to is what its fiber says.
HowIsKnown ==
  \A x \in DOMAIN state : /\ how[x] = "going on" <=> state[x] # "dead"
                          /\ last[x] = "value" <=> how[x] = "ok"
                          /\ last[x] = "error" <=> how[x] \in {"failed", "failed in loop"}

\* A form of an outermost eval that waits is where the loop can find it.
WaitersAreFound ==
  \A x \in DOMAIN state : state[x] = "waiting" /\ level[x] = 1 => x \in tasks \/ \E w \in waits : w.fiber = x

\* The last form of the outermost eval is not freed.
LastFormLives == frames # <<>> /\ frames[1].forms # <<>> => LastForm(frames[1]) \notin gone

EvalInv ==
  /\ EvalTypeOK /\ Stacked /\ RunsLastForms /\ FormsApart /\ HowIsKnown /\ WaitersAreFound /\ LastFormLives
  /\ EvalReports

LEMMA PutLast ==
  ASSUME NEW S, NEW s \in Seq(S), s # <<>>, NEW e \in S, NEW v, v = [s EXCEPT ![Len(s)] = e]
  PROVE  /\ v \in Seq(S) /\ Len(v) = Len(s) /\ v # <<>> /\ DOMAIN v = DOMAIN s /\ v[Len(s)] = e
         /\ \A i \in DOMAIN s : i # Len(s) => v[i] = s[i]
<1>1. Len(s) \in Nat /\ Len(s) > 0 /\ DOMAIN s = 1 .. Len(s) /\ Len(s) \in 1 .. Len(s)
  OBVIOUS
<1>2. v \in Seq(S) /\ Len(v) = Len(s) /\ \A j \in 1 .. Len(s) : v[j] = IF j = Len(s) THEN e ELSE s[j]
  BY <1>1, ExceptSeq
<1>3. DOMAIN v = 1 .. Len(v) /\ v # <<>>
  BY <1>1, <1>2
<1> QED BY <1>1, <1>2, <1>3

LEMMA FrontOf ==
  ASSUME NEW S, NEW s \in Seq(S), s # <<>>
  PROVE  /\ Front(s) \in Seq(S) /\ Len(Front(s)) = Len(s) - 1 /\ DOMAIN Front(s) = 1 .. Len(s) - 1
         /\ \A i \in 1 .. Len(s) - 1 : Front(s)[i] = s[i]
         /\ Len(s) \in Nat /\ Len(s) > 0 /\ DOMAIN s = 1 .. Len(s) /\ Len(s) \in DOMAIN s /\ Last(s) = s[Len(s)] /\ Last(s) \in S
<1>1. Len(s) \in Nat /\ Len(s) > 0 /\ DOMAIN s = 1 .. Len(s) /\ Len(s) \in DOMAIN s
  OBVIOUS
<1>2. Front(s) = SubSeq(s, 1, Len(s) - 1) /\ Last(s) = s[Len(s)] /\ Last(s) \in S
  BY <1>1 DEF Front, Last
<1>3. Len(s) - 1 \in 0 .. Len(s) /\ Len(s) - 1 \in Nat
  BY <1>1
<1>4. \A i \in 1 .. Len(s) - 1 : i \in 1 .. Len(s)
  BY <1>1
<1>5. /\ SubSeq(s, 1, Len(s) - 1) \in Seq(S) /\ Len(SubSeq(s, 1, Len(s) - 1)) = Len(s) - 1
      /\ \A i \in 1 .. Len(s) - 1 : SubSeq(s, 1, Len(s) - 1)[i] = s[i]
  BY <1>1, <1>3, <1>4
<1> QED BY <1>1, <1>2, <1>5

LEMMA Grown ==
  ASSUME NEW S, NEW s \in Seq(S), NEW e \in S
  PROVE  /\ Append(s, e) \in Seq(S) /\ Append(s, e) # <<>> /\ Len(Append(s, e)) = Len(s) + 1 /\ Len(s) \in Nat
         /\ DOMAIN s = 1 .. Len(s) /\ DOMAIN Append(s, e) = 1 .. Len(s) + 1
         /\ Append(s, e)[Len(s) + 1] = e /\ \A i \in 1 .. Len(s) : Append(s, e)[i] = s[i]
         /\ Range(Append(s, e)) = Range(s) \cup {e}
<1>1. /\ Append(s, e) \in Seq(S) /\ Len(Append(s, e)) = Len(s) + 1 /\ Len(s) \in Nat
      /\ DOMAIN s = 1 .. Len(s) /\ DOMAIN Append(s, e) = 1 .. Len(s) + 1
      /\ Append(s, e)[Len(s) + 1] = e /\ \A i \in 1 .. Len(s) : Append(s, e)[i] = s[i]
  BY AppendProperties
<1>2. \A i \in 1 .. Len(s) + 1 : i \in 1 .. Len(s) \/ i = Len(s) + 1
  BY <1>1
<1>3. \A i \in 1 .. Len(s) : i \in 1 .. Len(s) + 1
  BY <1>1
<1>4. Len(s) + 1 \in 1 .. Len(s) + 1
  BY <1>1
<1>5. Range(Append(s, e)) = Range(s) \cup {e}
  BY <1>1, <1>2, <1>3, <1>4 DEF Range
<1> QED BY <1>1, <1>4, <1>5

\* What StopsAtFirstFailure says of one eval, where h is what forms have come to.
Told(h, f) ==
  /\ \A i \in 1 .. Len(f.forms) - 1 : h[f.forms[i]] # "failed" /\ f.forms[i] < f.forms[i + 1]
  /\ f.errs # {} => f.errs = {Phase(f.errs)}
  /\ "runtime" \in f.errs <=> f.forms # <<>> /\ h[LastForm(f)] = "failed"
  /\ "runtime" \in f.errs => f.ret = [of |-> LastForm(f), is |-> "error"]
AllTold(h, fs, a) == Told(h, a) /\ \A i \in DOMAIN fs : Told(h, fs[i])

LEMMA ToldOfAll == StopsAtFirstFailure <=> AllTold(how, frames, answer)
<1>1. StopsAtFirstFailure <=> \A f \in Range(frames) \cup {answer} : Told(how, f)
  BY DEF StopsAtFirstFailure, Told
<1> QED BY <1>1 DEF AllTold, Range

LEMMA FrameFacts ==
  ASSUME NEW f \in Frames
  PROVE  /\ f.forms \in Seq(Nat) /\ Len(f.forms) \in Nat /\ DOMAIN f.forms = 1 .. Len(f.forms)
         /\ f.errs \subseteq {"parse", "compile", "runtime"} /\ f.inLoop \in BOOLEAN /\ f.nested \in BOOLEAN
         /\ f.forms # <<>> => LastForm(f) = f.forms[Len(f.forms)] /\ LastForm(f) \in FormsOf(f) /\ Len(f.forms) > 0
<1>1. f.forms \in Seq(Nat) /\ f.errs \subseteq {"parse", "compile", "runtime"} /\ f.inLoop \in BOOLEAN /\ f.nested \in BOOLEAN
  BY DEF Frames
<1>2. Len(f.forms) \in Nat /\ DOMAIN f.forms = 1 .. Len(f.forms)
  BY <1>1
<1>3. ASSUME f.forms # <<>> PROVE LastForm(f) = f.forms[Len(f.forms)] /\ LastForm(f) \in FormsOf(f) /\ Len(f.forms) > 0
  BY <1>1, <1>3, FrontOf DEF LastForm, FormsOf, Range
<1> QED BY <1>1, <1>2, <1>3

\* An eval is told of alike while its forms that have failed are the same.
LEMMA ToldStill ==
  ASSUME NEW f \in Frames, NEW g \in Frames, g.forms = f.forms, g.errs = f.errs, "runtime" \in f.errs => g.ret = f.ret,
         NEW h, NEW k, Told(h, f), \A x \in FormsOf(f) : k[x] = "failed" <=> h[x] = "failed"
  PROVE  Told(k, g)
<1>1. \A i \in 1 .. Len(f.forms) - 1 : f.forms[i] \in FormsOf(f)
  BY FrameFacts DEF FormsOf, Range
<1>2. LastForm(g) = LastForm(f) /\ (f.forms # <<>> => LastForm(f) \in FormsOf(f))
  BY FrameFacts DEF LastForm
<1> QED BY <1>1, <1>2 DEF Told

LEMMA EvalFacts ==
  ASSUME EvalInv
  PROVE  /\ frames \in Seq(Frames) /\ Len(frames) \in Nat /\ DOMAIN frames = 1 .. Len(frames) /\ answer \in Frames
         /\ \A i \in DOMAIN frames : frames[i] \in Frames
         /\ run \in Seq(DOMAIN state) /\ Len(run) \in Nat /\ DOMAIN run = 1 .. Len(run) /\ \A i \in DOMAIN run : run[i] \in DOMAIN state
         /\ Len(state) \in Nat /\ DOMAIN state = 1 .. Len(state) /\ DOMAIN how = 1 .. Len(state)
         /\ DOMAIN last = 1 .. Len(state) /\ DOMAIN level = 1 .. Len(state)
         /\ AllTold(how, frames, answer)
<1>1. EvalTypeOK /\ AllTold(how, frames, answer)
  BY ToldOfAll DEF EvalInv, EvalReports
<1>2. frames \in Seq(Frames) /\ answer \in Frames /\ run \in Seq(DOMAIN state)
  BY <1>1 DEF EvalTypeOK
<1>3. /\ Len(state) \in Nat /\ DOMAIN state = 1 .. Len(state) /\ DOMAIN how = 1 .. Len(state)
      /\ DOMAIN last = 1 .. Len(state) /\ DOMAIN level = 1 .. Len(state)
  <2>1. ASSUME NEW S, NEW s \in Seq(S) PROVE Len(s) \in Nat /\ DOMAIN s = 1 .. Len(s)
    OBVIOUS
  <2>2. Len(last) = Len(state) /\ Len(how) = Len(state) /\ Len(level) = Len(state)
    BY <1>1 DEF EvalTypeOK
  <2>3. Len(state) \in Nat /\ DOMAIN state = 1 .. Len(state)
    BY <1>1, <2>1 DEF EvalTypeOK
  <2>4. DOMAIN how = 1 .. Len(how) /\ DOMAIN last = 1 .. Len(last) /\ DOMAIN level = 1 .. Len(level)
    BY <1>1, <2>1 DEF EvalTypeOK
  <2> QED BY <2>2, <2>3, <2>4
<1>4. /\ Len(frames) \in Nat /\ DOMAIN frames = 1 .. Len(frames) /\ Len(run) \in Nat /\ DOMAIN run = 1 .. Len(run)
      /\ \A i \in DOMAIN frames : frames[i] \in Frames
      /\ \A i \in DOMAIN run : run[i] \in DOMAIN state
  BY <1>2
<1> QED BY <1>1, <1>2, <1>3, <1>4

\* The eval on top of the stack.
LEMMA TopFacts ==
  ASSUME EvalInv, frames # <<>>
  PROVE  /\ Top = frames[Len(frames)] /\ Top \in Frames /\ Len(frames) \in DOMAIN frames /\ Len(frames) > 0 /\ 1 \in DOMAIN frames
         /\ Told(how, Top) /\ (Top.nested <=> Len(frames) > 1) /\ (Top.inLoop => Len(frames) = 1)
         /\ (~Top.inLoop => Top.errs = {})
<1>1. Top = frames[Len(frames)] /\ Top \in Frames /\ Len(frames) \in DOMAIN frames /\ Len(frames) > 0 /\ 1 \in DOMAIN frames
  BY EvalFacts, FrontOf DEF Top
<1> QED BY <1>1, EvalFacts DEF EvalInv, Stacked, AllTold

LEMMA ReportsNext ==
  ASSUME AllTold(how', frames', answer'), frames' # <<>>
  PROVE  EvalReports'
<1>1. StopsAtFirstFailure' <=> \A f \in Range(frames') \cup {answer'} : Told(how', f)
  BY DEF StopsAtFirstFailure, Told
<1>2. StopsAtFirstFailure'
  BY <1>1 DEF AllTold, Range
<1> QED BY <1>2 DEF EvalReports, AnswersWithLastForm, NothingIsLeft

LEMMA BlankAnswer ==
  NoAnswer \in Frames /\ NoAnswer.forms = <<>> /\ NoAnswer.errs = {} /\ NoAnswer.inLoop = FALSE /\ NoAnswer.nested = FALSE
<1>1. <<>> \in Seq(Nat) /\ {} \in SUBSET {"parse", "compile", "runtime"}
  OBVIOUS
<1>2. Nil \in [of : Nat, is : {"nil", "message", "freed message", "value", "error"}]
  BY DEF Nil
<1> QED BY <1>1, <1>2 DEF Frames, NoAnswer

LEMMA BeginKeeps ==
  ASSUME EvalInv, Begin
  PROVE  EvalInv'
<1>0. PICK isNested \in BOOLEAN : isNested <=> frames # <<>>
  OBVIOUS
<1> DEFINE new == [NoAnswer EXCEPT !.nested = isNested]
           n == Len(frames)
<1>1. /\ frames' = Append(frames, new) /\ (frames = <<>> \/ InJanet)
      /\ run' = run /\ state' = state /\ last' = last /\ level' = level /\ how' = how
      /\ waits' = waits /\ tasks' = tasks /\ gone' = gone /\ answer' = answer
  BY <1>0 DEF Begin
<1>2. /\ new.forms = <<>> /\ new.errs = {} /\ new.inLoop = FALSE /\ (new.nested <=> frames # <<>>)
      /\ new \in Frames
  <2>1. NoAnswer.forms = <<>> /\ NoAnswer.errs = {} /\ NoAnswer.inLoop = FALSE /\ NoAnswer \in Frames
    BY BlankAnswer
  <2>2. new \in Frames /\ new.forms = NoAnswer.forms /\ new.errs = NoAnswer.errs /\ new.inLoop = NoAnswer.inLoop /\ new.nested = isNested
    BY <2>1 DEF Frames
  <2> QED BY <1>0, <2>1, <2>2
<1> HIDE DEF new
<1>3. /\ n \in Nat /\ DOMAIN frames = 1 .. n /\ DOMAIN frames' = 1 .. n + 1 /\ frames' \in Seq(Frames) /\ frames' # <<>>
      /\ frames'[n + 1] = new /\ (\A i \in 1 .. n : frames'[i] = frames[i]) /\ (frames # <<>> <=> n > 0)
      /\ Len(frames') = n + 1
  BY <1>1, <1>2, EvalFacts, Grown
<1>4. (\A i \in DOMAIN run : i \in 1 .. n) /\ Len(run) = n
  <2>1. Len(run) = n
    BY <1>1, <1>3 DEF EvalInv, Stacked, InJanet
  <2> QED BY <2>1, EvalFacts
<1> HIDE DEF n
<1>5. \A i \in 1 .. n + 1 : i \in 1 .. n \/ i = n + 1
  BY <1>3
<1>6. EvalTypeOK'
  BY <1>1, <1>3 DEF EvalInv, EvalTypeOK, Registered
<1>7. Stacked'
  <2>1. ASSUME NEW i \in 1 .. n + 1
        PROVE  (frames'[i].nested <=> i > 1) /\ (frames'[i].inLoop => i = 1) /\ (frames'[i].errs # {} => frames'[i].inLoop)
    <3>1. CASE i \in 1 .. n
      BY <1>3, <3>1 DEF EvalInv, Stacked
    <3>2. CASE i = n + 1
      BY <1>2, <1>3, <3>2
    <3> QED BY <1>5, <3>1, <3>2
  <2> QED BY <1>1, <1>3, <1>4, <2>1 DEF Stacked
<1>8. RunsLastForms'
  <2>1. \A i \in DOMAIN run : frames'[i] = frames[i] /\ frames'[1] = frames[1]
    BY <1>3, <1>4
  <2> QED BY <1>1, <2>1 DEF EvalInv, RunsLastForms
<1>9. FormsApart'
  <2>1. FormsOf(frames'[n + 1]) = {}
    BY <1>2, <1>3 DEF FormsOf, Range
  <2> QED BY <1>1, <1>3, <1>5, <2>1 DEF EvalInv, FormsApart
<1>10. HowIsKnown' /\ WaitersAreFound'
  BY <1>1 DEF EvalInv, HowIsKnown, WaitersAreFound
<1>11. LastFormLives'
  <2>1. CASE n = 0
    BY <1>2, <1>3, <2>1 DEF LastFormLives
  <2>2. CASE n > 0
    <3>1. frames'[1] = frames[1] /\ frames # <<>>
      BY <1>3, <2>2
    <3> QED BY <1>1, <3>1 DEF EvalInv, LastFormLives
  <2> QED BY <1>3, <2>1, <2>2
<1>12. EvalReports'
  <2>1. Told(how, new)
    BY <1>2 DEF Told
  <2>2. AllTold(how', frames', answer')
    BY <1>1, <1>3, <1>5, <2>1, EvalFacts DEF AllTold
  <2> QED BY <1>3, <2>2, ReportsNext
<1> QED BY <1>6, <1>7, <1>8, <1>9, <1>10, <1>11, <1>12 DEF EvalInv

LEMMA UpTo ==
  ASSUME NEW m \in Nat, m > 0
  PROVE  /\ m \in 1 .. m /\ m \notin 1 .. m - 1 /\ m - 1 \in Nat
         /\ \A x \in 1 .. m : x \in 1 .. m - 1 \/ x = m
         /\ \A x \in 1 .. m - 1 : x \in 1 .. m /\ x < m /\ x # m /\ x \in Nat
OBVIOUS

\* v is s with e at its end, and m long.
IsGrown(v, s, e, m, S) ==
  /\ v \in Seq(S) /\ v # <<>> /\ Len(v) = m /\ DOMAIN s = 1 .. m - 1 /\ DOMAIN v = 1 .. m
  /\ v[m] = e /\ (\A x \in 1 .. m - 1 : v[x] = s[x]) /\ Range(v) = Range(s) \cup {e}

LEMMA GrownTo ==
  ASSUME NEW S, NEW s \in Seq(S), NEW e \in S, NEW m \in Nat, Len(s) = m - 1, NEW v, v = Append(s, e)
  PROVE  IsGrown(v, s, e, m, S)
<1>1. Len(s) + 1 = m
  OBVIOUS
<1> QED BY <1>1, Grown DEF IsGrown

IsNewFiber(st, la, ho, le, s, a, h, l, m, n) ==
  /\ DOMAIN st = 1 .. m - 1 /\ DOMAIN s = 1 .. m
  /\ Len(s) = m /\ Len(a) = m /\ Len(h) = m /\ Len(l) = m
  /\ \A x \in 1 .. m - 1 : s[x] = st[x] /\ a[x] = la[x] /\ h[x] = ho[x] /\ l[x] = le[x]
  /\ s[m] = "running" /\ a[m] = "nil" /\ h[m] = "going on" /\ l[m] = n
  /\ s \in Seq(States) /\ a \in Seq(Values) /\ h \in Seq(Fates) /\ l \in Seq(Nat)

LEMMA NewFiber ==
  ASSUME NEW m \in Nat, NEW n \in Nat, NEW st \in Seq(States), NEW la \in Seq(Values), NEW ho \in Seq(Fates), NEW le \in Seq(Nat),
         Len(st) = m - 1, Len(la) = m - 1, Len(ho) = m - 1, Len(le) = m - 1,
         NEW s, s = Append(st, "running"), NEW a, a = Append(la, "nil"), NEW h, h = Append(ho, "going on"), NEW l, l = Append(le, n)
  PROVE  IsNewFiber(st, la, ho, le, s, a, h, l, m, n)
<1>1. "running" \in States /\ "nil" \in Values /\ "going on" \in Fates
  BY DEF States, Values, Fates
<1>2. IsGrown(s, st, "running", m, States)
  BY <1>1, GrownTo
<1>3. IsGrown(a, la, "nil", m, Values)
  BY <1>1, GrownTo
<1>4. IsGrown(h, ho, "going on", m, Fates)
  BY <1>1, GrownTo
<1>5. IsGrown(l, le, n, m, Nat)
  BY GrownTo
<1> QED BY <1>2, <1>3, <1>4, <1>5 DEF IsGrown, IsNewFiber

LEMMA InMore == ASSUME NEW S, NEW T, S \subseteq T, NEW s \in Seq(S) PROVE s \in Seq(T)
<1>1. Len(s) \in Nat /\ DOMAIN s = 1 .. Len(s) /\ s \in [1 .. Len(s) -> S]
  OBVIOUS
<1>2. s \in [1 .. Len(s) -> T]
  BY <1>1
<1> QED BY <1>1, <1>2

\* The eval on top is replaced by g.
LEMMA TopPut ==
  ASSUME EvalInv, frames # <<>>, NEW g \in Frames, NEW fs, fs = WithTop(g)
  PROVE  /\ fs \in Seq(Frames) /\ Len(fs) = Len(frames) /\ fs # <<>> /\ DOMAIN fs = DOMAIN frames /\ fs[Len(frames)] = g
         /\ \A i \in DOMAIN frames : i # Len(frames) => fs[i] = frames[i]
BY EvalFacts, PutLast DEF WithTop

\* A form ends or begins in the eval on top: the rest of the stack is as before.
LEMMA StackedWithTop ==
  ASSUME EvalInv, frames # <<>>, NEW g \in Frames, frames' = WithTop(g), g.nested = Top.nested,
         g.inLoop => Len(frames) = 1, g.errs # {} => g.inLoop, Len(run') \in {Len(frames) - 1, Len(frames)}
  PROVE  Stacked'
<1>1. /\ frames' # <<>> /\ Len(frames') = Len(frames) /\ DOMAIN frames' = DOMAIN frames /\ frames'[Len(frames)] = g
      /\ \A i \in DOMAIN frames : i # Len(frames) => frames'[i] = frames[i]
  BY TopPut
<1>2. ASSUME NEW i \in DOMAIN frames
      PROVE  (frames'[i].nested <=> i > 1) /\ (frames'[i].inLoop => i = 1) /\ (frames'[i].errs # {} => frames'[i].inLoop)
  <2>1. CASE i = Len(frames)
    BY <1>1, <2>1, TopFacts
  <2>2. CASE i # Len(frames)
    BY <1>1, <2>2 DEF EvalInv, Stacked
  <2> QED BY <2>1, <2>2
<1> QED BY <1>1, <1>2 DEF Stacked

LEMMA StartFormKeeps ==
  ASSUME EvalInv, StartForm
  PROVE  EvalInv'
<1> DEFINE m == Len(state) + 1
           n == Len(frames)
           k == Len(Top.forms)
           top == [Top EXCEPT !.forms = Append(Top.forms, m)]
<1>1. /\ frames # <<>> /\ Len(run) = n - 1 /\ ~Top.inLoop
      /\ state' = Append(state, "running") /\ last' = Append(last, "nil") /\ how' = Append(how, "going on")
      /\ level' = Append(level, n) /\ run' = Append(run, m) /\ frames' = WithTop(top)
      /\ waits' = waits /\ tasks' = tasks /\ gone' = gone /\ answer' = answer
  BY DEF StartForm, Reading, InC
<1>2. /\ top \in Frames /\ top.forms = Append(Top.forms, m) /\ top.errs = {} /\ top.inLoop = FALSE /\ top.nested = Top.nested
      /\ Top.forms \in Seq(Nat) /\ m \in Nat
  <2>1. Top \in Frames /\ Top.errs = {} /\ Len(state) \in Nat
    BY <1>1, TopFacts, EvalFacts
  <2>2. Top.forms \in Seq(Nat) /\ m \in Nat /\ Append(Top.forms, m) \in Seq(Nat)
    BY <2>1, FrameFacts
  <2>3. top \in Frames /\ top.forms = Append(Top.forms, m) /\ top.errs = Top.errs /\ top.inLoop = Top.inLoop /\ top.nested = Top.nested
    BY <2>1, <2>2 DEF Frames
  <2> QED BY <1>1, <2>1, <2>2, <2>3, FrameFacts
<1>t. Top = frames[n] /\ n \in Nat /\ n > 0 /\ DOMAIN frames = 1 .. n /\ k \in Nat /\ m \in Nat /\ m > 0 /\ m - 1 = Len(state)
      /\ (Top.forms # <<>> => k > 0) /\ (k > 0 => Top.forms # <<>>)
  <2>1. Top.forms \in Seq(Nat) /\ Len(state) \in Nat
    BY <1>2, EvalFacts
  <2>2. k \in Nat /\ (Top.forms # <<>> <=> k > 0)
    BY <2>1
  <2>3. Top = frames[n] /\ n \in Nat /\ n > 0 /\ DOMAIN frames = 1 .. n
    BY <1>1, TopFacts, EvalFacts
  <2>4. m \in Nat /\ m > 0 /\ m - 1 = Len(state)
    BY <2>1
  <2> QED BY <2>2, <2>3, <2>4
<1>n. Len(run) = n - 1 /\ Len(frames) = n /\ level' = Append(level, n) /\ Len(Top.forms) = k
  BY <1>1
<1>k. \A i \in 1 .. k + 1 : i = k + 1 \/ i \in 1 .. k
  BY <1>t
<1> HIDE DEF top, m, n, k
<1>3. /\ DOMAIN state = 1 .. m - 1 /\ DOMAIN state' = 1 .. m
      /\ Len(state') = m /\ Len(last') = m /\ Len(how') = m /\ Len(level') = m
      /\ \A x \in 1 .. m - 1 : state'[x] = state[x] /\ last'[x] = last[x] /\ how'[x] = how[x] /\ level'[x] = level[x]
      /\ state'[m] = "running" /\ last'[m] = "nil" /\ how'[m] = "going on" /\ level'[m] = n
      /\ state' \in Seq(States) /\ last' \in Seq(Values) /\ how' \in Seq(Fates) /\ level' \in Seq(Nat)
  <2>1. /\ state \in Seq(States) /\ last \in Seq(Values) /\ how \in Seq(Fates) /\ level \in Seq(Nat)
        /\ Len(last) = m - 1 /\ Len(how) = m - 1 /\ Len(level) = m - 1 /\ Len(state) = m - 1
    BY <1>t DEF EvalInv, EvalTypeOK
  <2>2. state' = Append(state, "running") /\ last' = Append(last, "nil") /\ how' = Append(how, "going on") /\ level' = Append(level, n)
    BY <1>1, <1>n
  <2>3. m \in Nat /\ n \in Nat
    BY <1>t
  <2>4. IsNewFiber(state, last, how, level, state', last', how', level', m, n)
    BY <2>1, <2>2, <2>3, NewFiber
  <2> QED BY <2>4 DEF IsNewFiber
<1>4. /\ frames' \in Seq(Frames) /\ Len(frames') = n /\ frames' # <<>> /\ DOMAIN frames' = 1 .. n /\ frames'[n] = top
      /\ \A i \in 1 .. n : i # n => frames'[i] = frames[i]
  <2>1. frames # <<>> /\ top \in Frames /\ frames' = WithTop(top)
    BY <1>1, <1>2
  <2>2. /\ frames' \in Seq(Frames) /\ Len(frames') = Len(frames) /\ frames' # <<>> /\ DOMAIN frames' = DOMAIN frames
        /\ frames'[Len(frames)] = top /\ \A i \in DOMAIN frames : i # Len(frames) => frames'[i] = frames[i]
    BY <2>1, TopPut
  <2> QED BY <2>2, <1>n, <1>t
<1>5. /\ run' \in Seq(1 .. m) /\ Len(run') = n /\ DOMAIN run' = 1 .. n /\ run'[n] = m /\ DOMAIN run = 1 .. n - 1
      /\ \A i \in 1 .. n - 1 : run'[i] = run[i] /\ run[i] \in 1 .. m - 1
  <2>1. run \in Seq(1 .. m - 1) /\ \A i \in DOMAIN run : run[i] \in 1 .. m - 1
    BY <1>3, EvalFacts
  <2>2. run \in Seq(1 .. m)
    <3>1. 1 .. m - 1 \subseteq 1 .. m
      BY <1>t
    <3> QED BY <2>1, <3>1, InMore
  <2>3. m \in 1 .. m
    BY <1>t
  <2>4. /\ run' \in Seq(1 .. m) /\ Len(run') = n /\ DOMAIN run' = 1 .. n /\ run'[n] = m /\ DOMAIN run = 1 .. n - 1
        /\ \A i \in 1 .. n - 1 : run'[i] = run[i]
    <3>1. run' = Append(run, m) /\ m \in Nat /\ n \in Nat
      BY <1>1, <1>t
    <3>2. IsGrown(run', run, m, n, 1 .. m)
      BY <1>n, <2>2, <2>3, <3>1, GrownTo
    <3> QED BY <3>2 DEF IsGrown
  <2> QED BY <2>1, <2>4
<1>6. /\ DOMAIN Top.forms = 1 .. k /\ DOMAIN top.forms = 1 .. k + 1 /\ Len(top.forms) = k + 1 /\ top.forms[k + 1] = m
      /\ top.forms # <<>> /\ LastForm(top) = m /\ FormsOf(top) = FormsOf(Top) \cup {m}
      /\ \A i \in 1 .. k : top.forms[i] = Top.forms[i] /\ Top.forms[i] \in 1 .. m - 1
  <2>1. FormsOf(Top) \subseteq 1 .. m - 1
    <3>1. n \in DOMAIN frames
      BY <1>t
    <3> QED BY <1>3, <1>t, <3>1 DEF EvalInv, FormsApart
  <2>2. \A i \in DOMAIN Top.forms : Top.forms[i] \in FormsOf(Top)
    BY DEF FormsOf, Range
  <2>3. /\ DOMAIN Top.forms = 1 .. k /\ DOMAIN top.forms = 1 .. k + 1 /\ Len(top.forms) = k + 1 /\ top.forms[k + 1] = m
        /\ top.forms # <<>> /\ Range(top.forms) = Range(Top.forms) \cup {m}
        /\ \A i \in 1 .. k : top.forms[i] = Top.forms[i]
    <3>1. Top.forms \in Seq(Nat) /\ m \in Nat /\ top.forms = Append(Top.forms, m)
      BY <1>2
    <3> HIDE DEF Top
    <3>2. k + 1 \in Nat /\ Len(Top.forms) = (k + 1) - 1 /\ (k + 1) - 1 = k
      BY <1>n, <1>t
    <3>3. IsGrown(top.forms, Top.forms, m, k + 1, Nat)
      BY <3>1, <3>2, GrownTo
    <3> QED BY <3>2, <3>3 DEF IsGrown
  <2>4. LastForm(top) = m
    BY <2>3 DEF LastForm, Last
  <2> QED BY <2>1, <2>2, <2>3, <2>4 DEF FormsOf
<1>7. EvalTypeOK'
  <2>1. waits' \in SUBSET [fiber : 1 .. m, for : {"timer", "channel"}] /\ tasks' \in SUBSET (1 .. m) /\ gone' \in SUBSET (1 .. m)
    <3>1. 1 .. m - 1 \subseteq 1 .. m
      BY <1>t
    <3>2. waits \in SUBSET [fiber : 1 .. m - 1, for : {"timer", "channel"}] /\ tasks \subseteq 1 .. m - 1 /\ gone \subseteq 1 .. m - 1
      BY <1>3 DEF EvalInv, EvalTypeOK, Registered
    <3> QED BY <1>1, <3>1, <3>2
  <2> QED BY <1>1, <1>3, <1>4, <1>5, <2>1, EvalFacts DEF EvalTypeOK, Registered
<1>8. Stacked'
  BY <1>1, <1>2, <1>4, <1>5, <1>n, StackedWithTop
<1>9. RunsLastForms'
  <2>1. ASSUME NEW i \in 1 .. n, i > 1 \/ ~frames'[1].inLoop PROVE frames'[i].forms # <<>> /\ run'[i] = LastForm(frames'[i])
    <3>1. CASE i = n
      BY <1>4, <1>5, <1>6, <3>1
    <3>2. CASE i \in 1 .. n - 1
      <4>1. 1 \in 1 .. n /\ n # 1 /\ i \in 1 .. n /\ i # n
        BY <1>t, <3>2
      <4>2. frames'[i] = frames[i] /\ run'[i] = run[i] /\ frames'[1] = frames[1]
        BY <1>4, <1>5, <3>2, <4>1
      <4> QED BY <1>5, <2>1, <3>2, <4>2 DEF EvalInv, RunsLastForms
    <3> QED BY <1>t, <3>1, <3>2, UpTo
  <2>2. ASSUME NEW i \in 1 .. n PROVE state'[run'[i]] = "running" /\ (i > 1 => level'[run'[i]] > 1)
    <3>1. CASE i = n
      BY <1>3, <1>5, <3>1
    <3>2. CASE i \in 1 .. n - 1
      <4>1. run'[i] = run[i] /\ run[i] \in 1 .. m - 1 /\ i \in DOMAIN run
        BY <1>5, <3>2
      <4>2. state[run[i]] = "running" /\ (i > 1 => level[run[i]] > 1)
        BY <4>1 DEF EvalInv, RunsLastForms
      <4> QED BY <1>3, <4>1, <4>2
    <3> QED BY <1>t, <3>1, <3>2, UpTo
  <2>3. ASSUME NEW i \in 1 .. n, NEW j \in 1 .. n, run'[i] = run'[j] PROVE i = j
    <3>1. CASE i \in 1 .. n - 1 /\ j \in 1 .. n - 1
      BY <1>5, <2>3, <3>1 DEF EvalInv, RunsLastForms
    <3>2. (i \in 1 .. n - 1 \/ i = n) /\ (j \in 1 .. n - 1 \/ j = n)
      BY <1>t, UpTo
    <3> QED BY <1>5, <1>t, <2>3, <3>1, <3>2, UpTo
  <2> QED BY <1>5, <2>1, <2>2, <2>3 DEF RunsLastForms
<1>10. FormsApart'
  <2>1. ASSUME NEW i \in 1 .. n PROVE FormsOf(frames'[i]) \subseteq FormsOf(frames[i]) \cup {m} /\ (i # n => FormsOf(frames'[i]) = FormsOf(frames[i]))
    <3>1. CASE i = n
      BY <1>4, <1>6, <1>t, <3>1
    <3>2. CASE i # n
      BY <1>4, <3>2
    <3> QED BY <3>1, <3>2
  <2>2. ASSUME NEW i \in 1 .. n PROVE FormsOf(frames[i]) \subseteq 1 .. m - 1
    BY <1>3, <1>t DEF EvalInv, FormsApart
  <2>3. FormsOf(answer) \subseteq 1 .. m - 1
    BY <1>3 DEF EvalInv, FormsApart
  <2>4. ASSUME NEW i \in 1 .. n PROVE FormsOf(frames'[i]) \subseteq 1 .. m /\ FormsOf(frames'[i]) \cap FormsOf(answer) = {}
    <3>1. FormsOf(frames[i]) \cap FormsOf(answer) = {} /\ m \notin FormsOf(answer) /\ m \in 1 .. m /\ 1 .. m - 1 \subseteq 1 .. m
      BY <1>t, <2>3, UpTo DEF EvalInv, FormsApart
    <3> QED BY <2>1, <2>2, <3>1
  <2>5. ASSUME NEW i \in 1 .. n, NEW j \in 1 .. n, i # j PROVE FormsOf(frames'[i]) \cap FormsOf(frames'[j]) = {}
    <3>1. FormsOf(frames[i]) \cap FormsOf(frames[j]) = {}
      BY <1>t, <2>5 DEF EvalInv, FormsApart
    <3>2. m \notin FormsOf(frames[i]) /\ m \notin FormsOf(frames[j])
      BY <1>t, <2>2, UpTo
    <3>3. i # n \/ j # n
      BY <2>5
    <3> QED BY <2>1, <3>1, <3>2, <3>3
  <2>6. FormsOf(answer) \subseteq 1 .. m
    BY <1>t, <2>3, UpTo
  <2> QED BY <1>1, <1>3, <1>4, <2>4, <2>5, <2>6 DEF FormsApart
<1>11. HowIsKnown'
  <2>1. ASSUME NEW x \in 1 .. m - 1
        PROVE  /\ how[x] = "going on" <=> state[x] # "dead"
               /\ last[x] = "value" <=> how[x] = "ok"
               /\ last[x] = "error" <=> how[x] \in {"failed", "failed in loop"}
    BY <1>3 DEF EvalInv, HowIsKnown
  <2>2. \A x \in 1 .. m : x \in 1 .. m - 1 \/ x = m
    BY <1>t
  <2> QED BY <1>3, <2>1, <2>2 DEF HowIsKnown
<1>12. WaitersAreFound'
  <2>1. \A x \in 1 .. m : x \in 1 .. m - 1 \/ x = m
    BY <1>t
  <2>2. ASSUME NEW x \in 1 .. m - 1, state[x] = "waiting", level[x] = 1 PROVE x \in tasks \/ \E w \in waits : w.fiber = x
    BY <1>3, <2>2 DEF EvalInv, WaitersAreFound
  <2>3. ASSUME NEW x \in 1 .. m, state'[x] = "waiting", level'[x] = 1 PROVE x \in 1 .. m - 1
    BY <1>3, <2>1, <2>3
  <2> QED BY <1>1, <1>3, <2>2, <2>3 DEF WaitersAreFound
<1>13. LastFormLives'
  <2>1. gone \subseteq 1 .. m - 1
    BY <1>3 DEF EvalInv, EvalTypeOK
  <2>2. CASE n = 1
    <3>1. m \notin gone
      BY <1>t, <2>1
    <3> QED BY <1>1, <1>4, <1>6, <2>2, <3>1 DEF LastFormLives
  <2>3. CASE n # 1
    <3>1. frames'[1] = frames[1]
      BY <1>4, <1>t, <2>3
    <3> QED BY <1>1, <3>1 DEF EvalInv, LastFormLives
  <2> QED BY <2>2, <2>3
<1>14. EvalReports'
  <2>1. Told(how, Top) /\ "runtime" \notin Top.errs /\ (Top.forms # <<>> => LastForm(Top) = Top.forms[k])
    <3>1. Top \in Frames /\ Told(how, Top) /\ Top.errs = {}
      BY <1>1, TopFacts
    <3> QED BY <1>n, <3>1, FrameFacts
  <2>2. Told(how', top)
    <3>1. ASSUME NEW i \in 1 .. k PROVE how'[top.forms[i]] # "failed" /\ top.forms[i] < top.forms[i + 1]
      <4>1. top.forms[i] = Top.forms[i] /\ Top.forms[i] \in 1 .. m - 1 /\ how'[top.forms[i]] = how[Top.forms[i]]
        BY <1>3, <1>6
      <4>2. CASE i = k
        <5>1. Top.forms # <<>> /\ LastForm(Top) = Top.forms[k] /\ how[Top.forms[k]] # "failed"
          BY <1>t, <2>1, <4>2 DEF Told
        <5>2. Top.forms[k] < m
          BY <1>t, <4>1, <4>2
        <5> QED BY <1>6, <4>1, <4>2, <5>1, <5>2
      <4>3. CASE i # k
        <5>1. i \in 1 .. k - 1 /\ i + 1 \in 1 .. k
          BY <1>t, <4>3
        <5> QED BY <1>6, <1>n, <2>1, <4>1, <5>1 DEF Told
      <4> QED BY <4>2, <4>3
    <3>2. Len(top.forms) - 1 = k
      BY <1>6, <1>t
    <3> QED BY <1>2, <1>3, <1>6, <3>1, <3>2 DEF Told
  <2>3. ASSUME NEW f \in Frames, Told(how, f), FormsOf(f) \subseteq 1 .. m - 1 PROVE Told(how', f)
    BY <1>3, <2>3, ToldStill
  <2>4. Told(how', answer)
    <3>1. FormsOf(answer) \subseteq 1 .. m - 1
      BY <1>3 DEF EvalInv, FormsApart
    <3> QED BY <2>3, <3>1, EvalFacts DEF AllTold
  <2>5. ASSUME NEW i \in 1 .. n PROVE Told(how', frames'[i])
    <3>1. CASE i = n
      BY <1>4, <2>2, <3>1
    <3>2. CASE i # n
      <4>1. FormsOf(frames[i]) \subseteq 1 .. m - 1
        BY <1>3, <1>t DEF EvalInv, FormsApart
      <4> QED BY <1>4, <1>t, <2>3, <3>2, <4>1, EvalFacts DEF AllTold
    <3> QED BY <3>1, <3>2
  <2> QED BY <1>1, <1>4, <2>4, <2>5, ReportsNext DEF AllTold
<1> QED BY <1>7, <1>8, <1>9, <1>10, <1>11, <1>12, <1>13, <1>14 DEF EvalInv

\* An eval leaves with f: what is left of the stack, and of what it has been told.
Left ==
  /\ frames' \in Seq(Frames) /\ answer' \in Frames /\ frames' # <<>>
  /\ Stacked' /\ FormsApart' /\ LastFormLives' /\ EvalReports'
  /\ \A i \in DOMAIN run' : i > 1 \/ ~frames'[1].inLoop => frames'[i].forms # <<>> /\ run'[i] = LastForm(frames'[i])

LEMMA LeaveLeaves ==
  ASSUME EvalInv, frames # <<>>, ~Top.inLoop, NEW f \in Frames, f.forms = Top.forms, f.nested = Top.nested, Leave(f),
         Len(run') = Len(frames) - 1, DOMAIN run' = 1 .. Len(frames) - 1,
         \A i \in 1 .. Len(frames) - 1 : i \in DOMAIN run /\ run'[i] = run[i],
         DOMAIN state' = DOMAIN state, gone' = gone,
         Told(how', f), Told(how', answer), \A i \in 1 .. Len(frames) - 1 : Told(how', frames[i])
  PROVE  Left
<1> DEFINE n == Len(frames)
           g == [f EXCEPT !.inLoop = TRUE]
<1>1. /\ n \in Nat /\ n > 0 /\ DOMAIN frames = 1 .. n /\ Top = frames[n] /\ Top \in Frames /\ frames \in Seq(Frames)
      /\ (f.nested <=> n > 1) /\ n \in 1 .. n
  BY EvalFacts, TopFacts
<1>n. Len(run') = n - 1 /\ DOMAIN run' = 1 .. n - 1 /\ Len(frames) = n
  OBVIOUS
<1>2. \A i \in 1 .. n - 1 : i \in 1 .. n /\ i # n /\ run'[i] = run[i] /\ i \in DOMAIN run /\ Told(how', frames[i])
  BY <1>1
<1>3. FormsOf(f) = FormsOf(Top)
  BY DEF FormsOf
<1> HIDE DEF n
<1>4. CASE f.nested
  <2>1. frames' = Front(frames) /\ answer' = f /\ n > 1
    BY <1>1, <1>4 DEF Leave
  <2>2. /\ frames' \in Seq(Frames) /\ Len(frames') = n - 1 /\ DOMAIN frames' = 1 .. n - 1
        /\ \A i \in 1 .. n - 1 : frames'[i] = frames[i]
    BY <1>1, <1>n, <2>1, FrontOf
  <2>3. frames' # <<>> /\ 1 \in 1 .. n - 1 /\ frames'[1] = frames[1]
    BY <1>1, <2>1, <2>2
  <2>4. Stacked'
    <3>1. \A i \in 1 .. n - 1 : (frames'[i].nested <=> i > 1) /\ (frames'[i].inLoop => i = 1) /\ (frames'[i].errs # {} => frames'[i].inLoop)
      BY <1>1, <1>2, <2>2 DEF EvalInv, Stacked
    <3> QED BY <1>n, <2>2, <2>3, <3>1 DEF Stacked
  <2>5. FormsApart'
    <3>1. \A i \in 1 .. n : FormsOf(frames[i]) \subseteq DOMAIN state
      BY <1>1 DEF EvalInv, FormsApart
    <3>2. \A i, j \in 1 .. n : i # j => FormsOf(frames[i]) \cap FormsOf(frames[j]) = {}
      BY <1>1 DEF EvalInv, FormsApart
    <3>3. \A i \in 1 .. n - 1 : FormsOf(frames'[i]) \subseteq DOMAIN state /\ FormsOf(frames'[i]) \cap FormsOf(f) = {}
      BY <1>1, <1>2, <1>3, <2>2, <3>1, <3>2
    <3>4. \A i, j \in 1 .. n - 1 : i # j => FormsOf(frames'[i]) \cap FormsOf(frames'[j]) = {}
      BY <1>2, <2>2, <3>2
    <3>5. FormsOf(f) \subseteq DOMAIN state
      BY <1>1, <1>3, <3>1
    <3> QED BY <2>1, <2>2, <3>3, <3>4, <3>5 DEF FormsApart
  <2>6. LastFormLives'
    <3>1. frames[1].forms # <<>> => LastForm(frames[1]) \notin gone
      BY DEF EvalInv, LastFormLives
    <3> QED BY <2>3, <3>1 DEF LastFormLives
  <2>7. EvalReports'
    BY <1>2, <2>1, <2>2, <2>3, ReportsNext DEF AllTold
  <2>8. \A i \in 1 .. n - 1 : i > 1 \/ ~frames'[1].inLoop => frames'[i].forms # <<>> /\ run'[i] = LastForm(frames'[i])
    BY <1>2, <2>2, <2>3 DEF EvalInv, RunsLastForms
  <2> QED BY <1>n, <2>1, <2>2, <2>3, <2>4, <2>5, <2>6, <2>7, <2>8 DEF Left
<1>5. CASE ~f.nested
  <2>1. frames' = WithTop(g) /\ answer' = answer /\ n = 1
    BY <1>1, <1>5 DEF Leave
  <2>2. g \in Frames /\ g.forms = f.forms /\ g.errs = f.errs /\ g.ret = f.ret /\ g.nested = f.nested
    BY DEF Frames
  <2>3. /\ frames' \in Seq(Frames) /\ Len(frames') = 1 /\ DOMAIN frames' = {1} /\ frames'[1] = g /\ frames' # <<>>
    <3> HIDE DEF g
    <3> QED BY <1>1, <1>n, <2>1, <2>2, TopPut
  <2>4. g.inLoop = TRUE
    BY DEF Frames
  <2> HIDE DEF g
  <2>5. DOMAIN run' = {} /\ Len(run') = 0
    BY <1>n, <2>1
  <2>6. Stacked'
    BY <1>5, <2>2, <2>3, <2>4, <2>5 DEF Stacked
  <2>7. FormsApart'
    <3>1. FormsOf(g) = FormsOf(frames[1]) /\ 1 \in DOMAIN frames
      BY <1>1, <1>3, <2>1, <2>2 DEF FormsOf
    <3>2. FormsOf(g) \subseteq DOMAIN state /\ FormsOf(g) \cap FormsOf(answer) = {} /\ FormsOf(answer) \subseteq DOMAIN state
      BY <3>1 DEF EvalInv, FormsApart
    <3> QED BY <2>1, <2>3, <3>2 DEF FormsApart
  <2>8. LastFormLives'
    <3>1. frames[1].forms # <<>> => LastForm(frames[1]) \notin gone
      BY DEF EvalInv, LastFormLives
    <3>2. g.forms = frames[1].forms
      BY <1>1, <2>1, <2>2
    <3> QED BY <2>3, <3>1, <3>2 DEF LastFormLives, LastForm
  <2>9. Told(how', g)
    BY <2>2, ToldStill
  <2>10. EvalReports'
    BY <2>1, <2>3, <2>9, ReportsNext DEF AllTold
  <2> QED BY <2>1, <2>3, <2>5, <2>6, <2>7, <2>8, <2>10, EvalFacts DEF Left
<1> QED BY <1>4, <1>5

\* A text ends, or has a form that is none.
LEMMA LeaveKeeps ==
  ASSUME EvalInv, Reading, NEW f \in Frames, f.forms = Top.forms, f.nested = Top.nested, Leave(f), Told(how, f),
         UNCHANGED <<run, state, last, level, how, waits, tasks, gone>>
  PROVE  EvalInv'
<1>1. /\ run' = run /\ state' = state /\ last' = last /\ level' = level /\ how' = how
      /\ waits' = waits /\ tasks' = tasks /\ gone' = gone
  OBVIOUS
<1>2. frames # <<>> /\ Len(run) = Len(frames) - 1 /\ ~Top.inLoop
  BY DEF Reading, InC
<1>3. DOMAIN run' = 1 .. Len(frames) - 1 /\ \A i \in 1 .. Len(frames) - 1 : i \in DOMAIN frames
  BY <1>1, <1>2, EvalFacts
<1>4. Left
  <2>1. Told(how, answer) /\ \A i \in DOMAIN frames : Told(how, frames[i])
    BY EvalFacts DEF AllTold
  <2> QED BY <1>1, <1>2, <1>3, <2>1, LeaveLeaves
<1>5. EvalTypeOK'
  BY <1>1, <1>4 DEF EvalInv, EvalTypeOK, Left, Registered
<1>6. RunsLastForms'
  BY <1>1, <1>4 DEF EvalInv, RunsLastForms, Left
<1>7. HowIsKnown' /\ WaitersAreFound'
  BY <1>1 DEF EvalInv, HowIsKnown, WaitersAreFound
<1> QED BY <1>4, <1>5, <1>6, <1>7 DEF EvalInv, Left

LEMMA EndOfTextKeeps ==
  ASSUME EvalInv, EndOfText
  PROVE  EvalInv'
<1>1. Reading /\ Leave(Top) /\ UNCHANGED <<run, state, last, level, how, waits, tasks, gone>>
  BY DEF EndOfText
<1>2. Top \in Frames /\ Told(how, Top)
  BY <1>1, TopFacts DEF Reading, InC
<1> QED BY <1>1, <1>2, LeaveKeeps

LEMMA BadFormKeeps ==
  ASSUME EvalInv, NEW phase \in {"parse", "compile"}, BadForm(phase)
  PROVE  EvalInv'
<1> DEFINE f == [Top EXCEPT !.errs = Top.errs \cup {phase}, !.ret = Message]
<1>1. Reading /\ Leave(f) /\ UNCHANGED <<run, state, last, level, how, waits, tasks, gone>>
  BY DEF BadForm
<1>2. Top \in Frames /\ Told(how, Top) /\ Top.errs = {}
  BY <1>1, TopFacts DEF Reading, InC
<1>3. f \in Frames /\ f.forms = Top.forms /\ f.nested = Top.nested /\ f.errs = {phase}
  <2>1. Message \in [of : Nat, is : {"nil", "message", "freed message", "value", "error"}]
    BY DEF Message
  <2> HIDE DEF Message
  <2> QED BY <1>2, <2>1 DEF Frames
<1> HIDE DEF f
<1>4. Told(how, f)
  <2>1. LastForm(f) = LastForm(Top) /\ "runtime" \notin f.errs /\ {phase} = {Phase({phase})}
    BY <1>3 DEF LastForm, Phase
  <2> QED BY <1>2, <1>3, <2>1 DEF Told
<1> QED BY <1>1, <1>3, <1>4, LeaveKeeps

LEMMA LeastExists ==
  ASSUME NEW S \in SUBSET Nat, S # {}
  PROVE  \E m \in S : \A n \in S : m <= n
<1>1. PICK m \in S : \A n \in S : <<n, m>> \notin OpToRel(<, Nat)
  BY NatLessThanWellFounded, WFMin
<1>2. \A n \in S : m <= n
  <2> TAKE n \in S
  <2>1. ~(n < m)
    BY <1>1 DEF OpToRel
  <2> QED BY <2>1
<1> QED BY <1>2

\* A sequence whose neighbours ascend has its greatest element at its end.
LEMMA LastIsGreatest ==
  ASSUME NEW s \in Seq(Nat), \A i \in 1 .. Len(s) - 1 : s[i] < s[i + 1]
  PROVE  \A i \in 1 .. Len(s) - 1 : s[i] < s[Len(s)]
<1> DEFINE n == Len(s)
           S == {k \in Nat : k \in 1 .. n - 1 /\ ~(s[n - k] < s[n])}
<1>1. n \in Nat /\ \A i \in 1 .. n : s[i] \in Nat
  OBVIOUS
<1>2. \A i \in 1 .. n - 1 : s[i] < s[i + 1]
  OBVIOUS
<1> HIDE DEF n
<1>3. S = {}
  <2> SUFFICES ASSUME S # {} PROVE FALSE
    OBVIOUS
  <2>1. PICK k \in S : \A j \in S : k <= j
    BY LeastExists
  <2>2. k \in Nat /\ k \in 1 .. n - 1 /\ ~(s[n - k] < s[n]) /\ n - k \in 1 .. n - 1 /\ n \in 1 .. n
    BY <1>1, <2>1
  <2>3. s[n - k] < s[(n - k) + 1]
    BY <1>2, <2>2
  <2>4. k # 1
    <3> SUFFICES ASSUME k = 1 PROVE FALSE
      OBVIOUS
    <3>1. (n - k) + 1 = n
      BY <1>1
    <3> QED BY <2>2, <2>3, <3>1
  <2>5. k - 1 \in Nat /\ k - 1 \in 1 .. n - 1 /\ n - (k - 1) = (n - k) + 1 /\ (n - k) + 1 \in 1 .. n /\ n - k \in 1 .. n
    BY <1>1, <2>2, <2>4
  <2>6. k - 1 \notin S
    BY <2>1, <2>2
  <2>7. s[(n - k) + 1] < s[n]
    BY <2>5, <2>6
  <2> HIDE DEF S
  <2>8. PICK a \in Nat, b \in Nat, c \in Nat : a = s[n - k] /\ b = s[(n - k) + 1] /\ c = s[n]
    BY <1>1, <2>2, <2>5
  <2>9. a < b /\ b < c /\ ~(a < c)
    BY <2>2, <2>3, <2>7, <2>8
  <2> QED BY <2>9
<1>4. ASSUME NEW i \in 1 .. n - 1 PROVE s[i] < s[n]
  <2>1. n - i \in Nat /\ n - i \in 1 .. n - 1 /\ n - (n - i) = i
    BY <1>1
  <2> QED BY <1>3, <2>1
<1> QED BY <1>4 DEF n

\* The eval on top goes on with g, which has the same forms.
LEMMA GoesOn ==
  ASSUME EvalInv, frames # <<>>, ~Top.inLoop, NEW g \in Frames, frames' = WithTop(g), answer' = answer,
         g.forms = Top.forms, g.nested = Top.nested, ~g.inLoop, g.errs = {},
         Len(run') = Len(frames) - 1, DOMAIN run' = 1 .. Len(frames) - 1,
         \A i \in 1 .. Len(frames) - 1 : i \in DOMAIN run /\ run'[i] = run[i],
         DOMAIN state' = DOMAIN state, gone' = gone,
         Told(how', g), Told(how', answer), \A i \in 1 .. Len(frames) - 1 : Told(how', frames[i])
  PROVE  Left
<1> DEFINE n == Len(frames)
<1>1. /\ n \in Nat /\ n > 0 /\ DOMAIN frames = 1 .. n /\ Top = frames[n] /\ n \in 1 .. n /\ 1 \in 1 .. n
  BY EvalFacts, TopFacts
<1>n. Len(run') = n - 1 /\ DOMAIN run' = 1 .. n - 1 /\ Len(frames) = n
  OBVIOUS
<1>2. \A i \in 1 .. n - 1 : i \in 1 .. n /\ i # n /\ run'[i] = run[i] /\ i \in DOMAIN run /\ Told(how', frames[i])
  BY <1>1
<1>3. /\ frames' \in Seq(Frames) /\ frames' # <<>> /\ DOMAIN frames' = 1 .. n /\ frames'[n] = g
      /\ \A i \in 1 .. n : i # n => frames'[i] = frames[i]
  <2>1. /\ frames' \in Seq(Frames) /\ frames' # <<>> /\ DOMAIN frames' = DOMAIN frames /\ frames'[Len(frames)] = g
        /\ \A i \in DOMAIN frames : i # Len(frames) => frames'[i] = frames[i]
    BY TopPut
  <2> QED BY <1>1, <2>1
<1>4. \A i \in 1 .. n : i = n \/ i \in 1 .. n - 1
  BY <1>1
<1> HIDE DEF n
<1>5. \A i \in 1 .. n : frames'[i].forms = frames[i].forms
  BY <1>1, <1>3
<1>6. Stacked'
  BY <1>1, <1>n, StackedWithTop
<1>7. FormsApart'
  <2>1. \A i \in 1 .. n : FormsOf(frames'[i]) = FormsOf(frames[i])
    BY <1>5 DEF FormsOf
  <2> QED BY <1>1, <1>3, <2>1 DEF EvalInv, FormsApart
<1>8. LastFormLives'
  <2>1. frames'[1].forms = frames[1].forms
    BY <1>1, <1>5
  <2>2. frames[1].forms # <<>> => LastForm(frames[1]) \notin gone
    BY DEF EvalInv, LastFormLives
  <2> QED BY <2>1, <2>2 DEF LastFormLives, LastForm
<1>9. EvalReports'
  <2>1. \A i \in 1 .. n : Told(how', frames'[i])
    BY <1>2, <1>3, <1>4
  <2> QED BY <1>3, <2>1, ReportsNext DEF AllTold
<1>10. \A i \in 1 .. n - 1 : i > 1 \/ ~frames'[1].inLoop => frames'[i].forms # <<>> /\ run'[i] = LastForm(frames'[i])
  <2> TAKE i \in 1 .. n - 1
  <2>1. frames'[i] = frames[i] /\ 1 # n
    BY <1>1, <1>2, <1>3
  <2>2. frames'[1] = frames[1]
    BY <1>1, <1>3, <2>1
  <2> QED BY <1>2, <2>1, <2>2 DEF EvalInv, RunsLastForms
<1> QED BY <1>n, <1>3, <1>6, <1>7, <1>8, <1>9, <1>10, EvalFacts DEF Left

\* The fiber that runs gives the VM back: those below it on the stack run still.
LEMMA FiberLeaves ==
  ASSUME EvalInv, InJanet, NEW s \in States, s # "running", state' = [state EXCEPT ![Current] = s], run' = Front(run), level' = level
  PROVE  /\ frames # <<>> /\ Len(run) = Len(frames) /\ Len(run') = Len(frames) - 1 /\ DOMAIN run' = 1 .. Len(frames) - 1
         /\ run' \in Seq(DOMAIN state) /\ Len(frames) > 0 /\ Len(frames) \in Nat
         /\ \A i \in 1 .. Len(frames) - 1 : i \in DOMAIN run /\ run'[i] = run[i]
         /\ Current = run[Len(frames)] /\ Current \in DOMAIN state /\ state[Current] = "running" /\ how[Current] = "going on"
         /\ (Len(frames) > 1 => level[Current] > 1)
         /\ state' \in Seq(States) /\ Len(state') = Len(state) /\ DOMAIN state' = DOMAIN state
         /\ state'[Current] = s /\ \A x \in DOMAIN state : x # Current => state'[x] = state[x]
         /\ \A i \in DOMAIN run' : state'[run'[i]] = "running" /\ (i > 1 => level'[run'[i]] > 1)
         /\ \A i, j \in DOMAIN run' : run'[i] = run'[j] => i = j
<1> DEFINE n == Len(frames)
<1>1. frames # <<>> /\ Len(run) = n /\ n \in Nat /\ n > 0
  BY TopFacts, EvalFacts DEF InJanet
<1>2. run # <<>> /\ run \in Seq(DOMAIN state)
  BY <1>1, EvalFacts
<1>3. /\ run' \in Seq(DOMAIN state) /\ Len(run') = n - 1 /\ DOMAIN run' = 1 .. n - 1 /\ DOMAIN run = 1 .. n
      /\ Current = run[n] /\ Current \in DOMAIN state /\ n \in 1 .. n
      /\ \A i \in 1 .. n - 1 : run'[i] = run[i]
  BY <1>1, <1>2, FrontOf DEF Current
<1> HIDE DEF n
<1>4. \A i \in 1 .. n - 1 : i \in 1 .. n /\ i # n
  BY <1>1
<1>5. state[Current] = "running" /\ (n > 1 => level[Current] > 1)
  BY <1>3 DEF EvalInv, RunsLastForms
<1>6. how[Current] = "going on"
  BY <1>3, <1>5 DEF EvalInv, HowIsKnown
<1>7. /\ state' \in Seq(States) /\ Len(state') = Len(state) /\ DOMAIN state' = DOMAIN state
      /\ state'[Current] = s /\ \A x \in DOMAIN state : x # Current => state'[x] = state[x]
  <2>1. state \in Seq(States) /\ Current \in 1 .. Len(state)
    BY <1>3, EvalFacts DEF EvalInv, EvalTypeOK
  <2> HIDE DEF Current
  <2>2. state' \in Seq(States) /\ Len(state') = Len(state) /\ \A j \in 1 .. Len(state) : state'[j] = IF j = Current THEN s ELSE state[j]
    BY <2>1, ExceptSeq
  <2>3. DOMAIN state = 1 .. Len(state) /\ DOMAIN state' = 1 .. Len(state')
    BY <2>1, <2>2
  <2> QED BY <2>1, <2>2, <2>3
<1> HIDE DEF Current
<1>8. ASSUME NEW i \in 1 .. n - 1 PROVE run'[i] # Current /\ run'[i] \in DOMAIN state /\ state[run'[i]] = "running" /\ (i > 1 => level[run'[i]] > 1)
  <2>1. run'[i] = run[i] /\ i \in DOMAIN run /\ n \in DOMAIN run /\ i # n
    BY <1>3, <1>4
  <2> QED BY <1>3, <2>1, EvalFacts DEF EvalInv, RunsLastForms
<1>9. \A i \in DOMAIN run' : state'[run'[i]] = "running" /\ (i > 1 => level'[run'[i]] > 1)
  BY <1>3, <1>7, <1>8
<1>10. \A i, j \in DOMAIN run' : run'[i] = run'[j] => i = j
  BY <1>3, <1>4 DEF EvalInv, RunsLastForms
<1> QED BY <1>1, <1>3, <1>4, <1>5, <1>6, <1>7, <1>9, <1>10 DEF n

\* v is s but for its element i, which is e.
IsPut(v, s, i, e, S) ==
  v \in Seq(S) /\ Len(v) = Len(s) /\ DOMAIN v = DOMAIN s /\ v[i] = e /\ \A x \in DOMAIN s : x # i => v[x] = s[x]

LEMMA PutAt ==
  ASSUME NEW S, NEW s \in Seq(S), NEW i \in DOMAIN s, NEW e \in S, NEW v, v = [s EXCEPT ![i] = e]
  PROVE  IsPut(v, s, i, e, S)
<1>1. Len(s) \in Nat /\ DOMAIN s = 1 .. Len(s) /\ i \in 1 .. Len(s)
  OBVIOUS
<1>2. v \in Seq(S) /\ Len(v) = Len(s) /\ \A j \in 1 .. Len(s) : v[j] = IF j = i THEN e ELSE s[j]
  BY <1>1, ExceptSeq
<1>3. DOMAIN v = 1 .. Len(v)
  BY <1>2
<1> QED BY <1>1, <1>2, <1>3 DEF IsPut

\* What a fiber that leaves the C stack disturbs, besides the evals on it.
LEMMA LeavingKeeps ==
  ASSUME EvalInv, InJanet, NEW s \in {"dead", "waiting"}, NEW l \in Values, NEW h \in Fates, Left,
         state' = [state EXCEPT ![Current] = s], last' = [last EXCEPT ![Current] = l], IsPut(how', how, Current, h, Fates),
         run' = Front(run), UNCHANGED <<level, tasks, gone>>, waits \subseteq waits', waits' \subseteq Registered,
         h = "going on" <=> s # "dead", l = "value" <=> h = "ok", l = "error" <=> h \in {"failed", "failed in loop"},
         s = "waiting" /\ level[Current] = 1 => \E w \in waits' : w.fiber = Current
  PROVE  EvalInv'
<1>1. level' = level /\ tasks' = tasks /\ gone' = gone
  OBVIOUS
<1>2. /\ run' \in Seq(DOMAIN state) /\ Current \in DOMAIN state
      /\ state' \in Seq(States) /\ Len(state') = Len(state) /\ DOMAIN state' = DOMAIN state
      /\ state'[Current] = s /\ \A x \in DOMAIN state : x # Current => state'[x] = state[x]
      /\ \A i \in DOMAIN run' : state'[run'[i]] = "running" /\ (i > 1 => level'[run'[i]] > 1)
      /\ \A i, j \in DOMAIN run' : run'[i] = run'[j] => i = j
  <2>1. s \in States /\ s # "running"
    BY DEF States
  <2> QED BY <1>1, <2>1, FiberLeaves
<1>3. IsPut(last', last, Current, l, Values)
  <2>1. last \in Seq(Values) /\ Current \in DOMAIN last
    BY <1>2, EvalFacts DEF EvalInv, EvalTypeOK
  <2> HIDE DEF Current
  <2> QED BY <2>1, PutAt
<1>4. DOMAIN state = 1 .. Len(state) /\ DOMAIN how = DOMAIN state /\ DOMAIN last = DOMAIN state
  BY EvalFacts
<1>5. EvalTypeOK'
  <2>1. /\ last' \in Seq(Values) /\ Len(last') = Len(last) /\ how' \in Seq(Fates) /\ Len(how') = Len(how)
    BY <1>3 DEF IsPut
  <2>2. /\ Len(last) = Len(state) /\ Len(how) = Len(state) /\ Len(level) = Len(state) /\ level \in Seq(Nat)
        /\ tasks \in SUBSET DOMAIN state /\ gone \in SUBSET DOMAIN state
    BY DEF EvalInv, EvalTypeOK
  <2>3. Registered' = Registered
    BY <1>2 DEF Registered
  <2>4. waits' \in SUBSET Registered'
    BY <2>3
  <2>5. frames' \in Seq(Frames) /\ answer' \in Frames
    BY DEF Left
  <2> QED BY <1>1, <1>2, <2>1, <2>2, <2>4, <2>5 DEF EvalTypeOK
<1>6. RunsLastForms'
  <2>1. \A i \in DOMAIN run' : i > 1 \/ ~frames'[1].inLoop => frames'[i].forms # <<>> /\ run'[i] = LastForm(frames'[i])
    BY DEF Left
  <2> QED BY <1>2, <2>1 DEF RunsLastForms
<1>7. HowIsKnown'
  <2> SUFFICES ASSUME NEW x \in DOMAIN state
               PROVE  /\ how'[x] = "going on" <=> state'[x] # "dead"
                      /\ last'[x] = "value" <=> how'[x] = "ok"
                      /\ last'[x] = "error" <=> how'[x] \in {"failed", "failed in loop"}
    BY <1>2 DEF HowIsKnown
  <2>1. CASE x = Current
    BY <1>2, <1>3, <2>1 DEF IsPut
  <2>2. CASE x # Current
    <3>1. how'[x] = how[x] /\ state'[x] = state[x] /\ last'[x] = last[x]
      BY <1>2, <1>3, <1>4, <2>2 DEF IsPut
    <3> QED BY <3>1 DEF EvalInv, HowIsKnown
  <2> QED BY <2>1, <2>2
<1>8. WaitersAreFound'
  <2>1. ASSUME NEW x \in DOMAIN state, state'[x] = "waiting", level[x] = 1
        PROVE  x \in tasks \/ \E w \in waits' : w.fiber = x
    <3>1. CASE x = Current
      BY <1>2, <2>1, <3>1
    <3>2. CASE x # Current
      BY <1>2, <2>1, <3>2 DEF EvalInv, WaitersAreFound
    <3> QED BY <3>1, <3>2
  <2> HIDE DEF Registered
  <2> QED BY <1>1, <1>2, <2>1 DEF WaitersAreFound
<1> QED BY <1>5, <1>6, <1>7, <1>8 DEF EvalInv, Left

\* A fiber that runs and is not one the loop has resumed is the last form of the eval on top.
LEMMA RunsForTop ==
  ASSUME EvalInv, InJanet, ~RunByLoop
  PROVE  /\ ~Top.inLoop /\ Top.forms # <<>> /\ Current = LastForm(Top)
         /\ Current \notin FormsOf(answer) /\ \A i \in 1 .. Len(frames) - 1 : Current \notin FormsOf(frames[i])
<1> DEFINE n == Len(frames)
<1>1. frames # <<>> /\ Len(run) = n /\ n \in Nat /\ n > 0 /\ Top = frames[n] /\ n \in DOMAIN frames /\ DOMAIN frames = 1 .. n
      /\ (Top.inLoop => n = 1) /\ Top \in Frames
  BY TopFacts, EvalFacts DEF InJanet
<1>2. Current = run[n] /\ n \in DOMAIN run
  <2>1. run # <<>> /\ run \in Seq(DOMAIN state)
    BY <1>1, EvalFacts
  <2> QED BY <1>1, <2>1, FrontOf DEF Current
<1> HIDE DEF n
<1>3. ~Top.inLoop
  BY <1>1 DEF RunByLoop
<1>4. n > 1 \/ ~frames[1].inLoop
  BY <1>1, <1>3
<1>5. Top.forms # <<>> /\ Current = LastForm(Top)
  BY <1>1, <1>2, <1>4 DEF EvalInv, RunsLastForms
<1>6. Current \in FormsOf(frames[n])
  BY <1>1, <1>5, FrameFacts
<1>7. \A i \in 1 .. n - 1 : i \in 1 .. n /\ i # n
  BY <1>1
<1> QED BY <1>1, <1>3, <1>5, <1>6, <1>7 DEF EvalInv, FormsApart, n

\* What has been told of evals stays so when the fiber that leaves is in none of them, or has not failed.
LEMMA ToldOfOthers ==
  ASSUME EvalInv, InJanet, NEW h \in Fates, IsPut(how', how, Current, h, Fates), NEW f \in Frames, Told(how, f),
         FormsOf(f) \subseteq DOMAIN state, h # "failed" \/ Current \notin FormsOf(f)
  PROVE  Told(how', f)
<1>1. Current \in DOMAIN state /\ how[Current] = "going on" /\ DOMAIN how = DOMAIN state
  <2>1. frames # <<>> /\ Len(run) = Len(frames) /\ Len(frames) > 0
    BY TopFacts DEF InJanet
  <2>2. Current = run[Len(frames)] /\ Len(frames) \in DOMAIN run
    <3>1. run # <<>> /\ run \in Seq(DOMAIN state)
      BY <2>1, EvalFacts
    <3> QED BY <2>1, <3>1, FrontOf DEF Current
  <2>3. state[Current] = "running" /\ Current \in DOMAIN state
    BY <2>2, EvalFacts DEF EvalInv, RunsLastForms
  <2> QED BY <2>3, EvalFacts DEF EvalInv, HowIsKnown
<1>2. \A x \in FormsOf(f) : how'[x] = "failed" <=> how[x] = "failed"
  BY <1>1 DEF IsPut
<1> QED BY <1>2, ToldStill

\* The loop's own fiber leaves: no eval on the stack is touched.
LEMMA LoopsOwn ==
  ASSUME EvalInv, InJanet, RunByLoop, NEW h \in Fates, h # "failed", IsPut(how', how, Current, h, Fates),
         run' = Front(run), DOMAIN state' = DOMAIN state, UNCHANGED <<frames, answer, gone>>
  PROVE  Left
<1>1. frames' = frames /\ answer' = answer /\ gone' = gone
  OBVIOUS
<1>2. frames # <<>> /\ Len(frames) = 1 /\ DOMAIN frames = {1} /\ run' = <<>>
  <2>1. Len(run) = 1 /\ run \in Seq(DOMAIN state) /\ frames # <<>> /\ Len(frames) = 1 /\ run # <<>>
    BY EvalFacts DEF RunByLoop, InJanet
  <2>2. Len(Front(run)) = 0 /\ Front(run) \in Seq(DOMAIN state)
    BY <2>1, FrontOf
  <2> QED BY <2>1, <2>2, EvalFacts
<1>3. Stacked'
  <2>1. Len(run') = 0 /\ 0 = Len(frames) - 1
    BY <1>2
  <2> QED BY <1>1, <1>2, <2>1 DEF EvalInv, Stacked
<1>4. FormsApart'
  BY <1>1 DEF EvalInv, FormsApart
<1>5. LastFormLives'
  BY <1>1 DEF EvalInv, LastFormLives
<1>6. EvalReports'
  <2>1. Told(how', answer)
    BY ToldOfOthers, EvalFacts DEF EvalInv, FormsApart, AllTold
  <2>2. \A i \in DOMAIN frames : Told(how', frames[i])
    BY ToldOfOthers, EvalFacts DEF EvalInv, FormsApart, AllTold
  <2> QED BY <1>1, <1>2, <2>1, <2>2, ReportsNext DEF AllTold
<1>7. DOMAIN run' = {}
  BY <1>2
<1> QED BY <1>1, <1>2, <1>3, <1>4, <1>5, <1>6, <1>7, EvalFacts DEF Left

\* A form ends with a value or an error, and with an error its eval is over.
LEMMA FormEnds ==
  ASSUME EvalInv, InJanet, ~RunByLoop, NEW is \in {"value", "error"}, NEW h \in Fates,
         h = (IF is = "value" THEN "ok" ELSE "failed"), IsPut(how', how, Current, h, Fates),
         run' = Front(run), state' = [state EXCEPT ![Current] = "dead"], level' = level, gone' = gone,
         NEW done, done = [Top EXCEPT !.ret = [of |-> Current, is |-> is]],
         \/ is = "value" /\ frames' = WithTop(done) /\ UNCHANGED answer
         \/ is = "error" /\ Failed(done)
  PROVE  Left
<1>1. /\ frames # <<>> /\ Len(run') = Len(frames) - 1 /\ DOMAIN run' = 1 .. Len(frames) - 1
      /\ \A i \in 1 .. Len(frames) - 1 : i \in DOMAIN run /\ run'[i] = run[i]
      /\ DOMAIN state' = DOMAIN state /\ Current \in DOMAIN state
  <2>1. "dead" \in States /\ "dead" # "running"
    BY DEF States
  <2> QED BY <2>1, FiberLeaves
<1>2. ~Top.inLoop /\ Top \in Frames /\ Top.errs = {} /\ Told(how, Top) /\ Top = frames[Len(frames)] /\ Len(frames) \in DOMAIN frames
  BY <1>1, RunsForTop, TopFacts
<1>3. \A i \in 1 .. Len(frames) - 1 : i \in DOMAIN frames
  BY EvalFacts
<1>4. Told(how', answer)
  BY RunsForTop, ToldOfOthers, EvalFacts DEF EvalInv, FormsApart, AllTold
<1>5. \A i \in 1 .. Len(frames) - 1 : Told(how', frames[i])
  BY <1>3, RunsForTop, ToldOfOthers, EvalFacts DEF EvalInv, FormsApart, AllTold
<1>6. /\ done \in Frames /\ done.forms = Top.forms /\ done.errs = {} /\ done.inLoop = Top.inLoop /\ done.nested = Top.nested
      /\ done.ret = [of |-> Current, is |-> is]
  <2>1. Current \in Nat /\ is \in {"nil", "message", "freed message", "value", "error"}
    <3>1. Current \in 1 .. Len(state) /\ Len(state) \in Nat
      BY <1>1, EvalFacts
    <3>2. \A x \in 1 .. Len(state) : x \in Nat
      BY <3>1
    <3> QED BY <3>1, <3>2
  <2>2. [of |-> Current, is |-> is] \in [of : Nat, is : {"nil", "message", "freed message", "value", "error"}]
    BY <2>1
  <2> HIDE DEF Current, Top
  <2> QED BY <1>2, <2>2 DEF Frames
<1>7. FormsOf(Top) \subseteq DOMAIN state
  BY <1>2 DEF EvalInv, FormsApart
<1>8. CASE is = "value"
  <2>1. frames' = WithTop(done) /\ answer' = answer
    BY <1>8
  <2>2. Told(how', Top)
    <3>1. h # "failed"
      BY <1>8
    <3> QED BY <1>2, <1>7, <3>1, ToldOfOthers
  <2>3. Told(how', done)
    BY <1>2, <1>6, <2>2, ToldStill
  <2> QED BY <1>1, <1>2, <1>4, <1>5, <1>6, <2>1, <2>3, GoesOn
<1>9. CASE is = "error"
  <2> DEFINE f == [done EXCEPT !.errs = done.errs \cup {"runtime"}]
             k == Len(Top.forms)
  <2>1. Leave(f)
    BY <1>9 DEF Failed
  <2>2. f \in Frames /\ f.forms = Top.forms /\ f.errs = {"runtime"} /\ f.nested = Top.nested /\ f.ret = [of |-> Current, is |-> "error"]
    BY <1>6, <1>9 DEF Frames
  <2> HIDE DEF f
  <2>3. /\ Top.forms # <<>> /\ Current = LastForm(Top) /\ Top.forms \in Seq(Nat) /\ k \in Nat /\ k > 0 /\ Current = Top.forms[k]
        /\ \A i \in 1 .. k : Top.forms[i] \in DOMAIN state
    BY <1>2, <1>7, RunsForTop, FrameFacts DEF FormsOf, Range
  <2>k. Len(f.forms) = k /\ LastForm(f) = Current /\ Len(Top.forms) = k
    BY <2>2, <2>3 DEF LastForm
  <2> HIDE DEF k
  <2>4. ASSUME NEW i \in 1 .. k - 1 PROVE how'[f.forms[i]] # "failed" /\ f.forms[i] < f.forms[i + 1]
    <3>1. i \in 1 .. k /\ Top.forms[i] \in DOMAIN state
      BY <2>3
    <3>2. how[Top.forms[i]] # "failed" /\ Top.forms[i] < Top.forms[i + 1]
      BY <1>2, <2>k DEF Told
    <3>3. Top.forms[i] < Top.forms[k]
      BY <1>2, <2>3, <2>k, LastIsGreatest DEF Told
    <3>4. Top.forms[i] # Current
      <4>1. Top.forms[i] \in Nat /\ Top.forms[k] \in Nat
        BY <2>3, <2>k, <3>1
      <4> QED BY <2>3, <3>3, <4>1
    <3>5. how'[Top.forms[i]] = how[Top.forms[i]]
      BY <3>1, <3>4, EvalFacts DEF IsPut
    <3> QED BY <2>2, <3>2, <3>5
  <2>5. how'[Current] = "failed"
    BY <1>9 DEF IsPut
  <2>6. Told(how', f)
    <3>1. f.errs = {Phase(f.errs)} /\ "runtime" \in f.errs
      BY <2>2 DEF Phase
    <3> QED BY <2>2, <2>3, <2>k, <2>4, <2>5, <3>1 DEF Told
  <2> QED BY <1>1, <1>2, <1>4, <1>5, <2>1, <2>2, <2>6, LeaveLeaves
<1> QED BY <1>8, <1>9

LEMMA EndsKeeps ==
  ASSUME EvalInv, NEW is \in {"value", "error"}, Ends(is)
  PROVE  EvalInv'
<1>0. PICK h \in Fates : /\ h = IF is = "value" THEN "ok" ELSE IF RunByLoop THEN "failed in loop" ELSE "failed"
                         /\ h # "going on" /\ (is = "value" <=> h = "ok") /\ (is = "error" <=> h \in {"failed", "failed in loop"})
  BY DEF Fates
<1>1. /\ InJanet /\ state' = [state EXCEPT ![Current] = "dead"] /\ last' = [last EXCEPT ![Current] = is]
      /\ how' = [how EXCEPT ![Current] = h] /\ run' = Front(run)
      /\ level' = level /\ waits' = waits /\ tasks' = tasks /\ gone' = gone
  BY <1>0 DEF Ends
<1>2. Current \in DOMAIN state /\ DOMAIN state' = DOMAIN state
  <2>1. "dead" \in States /\ "dead" # "running"
    BY DEF States
  <2> QED BY <1>1, <2>1, FiberLeaves
<1>3. IsPut(how', how, Current, h, Fates)
  <2>1. how \in Seq(Fates) /\ Current \in DOMAIN how
    BY <1>2, EvalFacts DEF EvalInv, EvalTypeOK
  <2> HIDE DEF Current
  <2> QED BY <1>1, <2>1, PutAt
<1>4. Left
  <2>1. CASE RunByLoop
    <3>1. h # "failed" /\ frames' = frames /\ answer' = answer
      BY <1>0, <2>1 DEF Ends
    <3> QED BY <1>1, <1>2, <1>3, <2>1, <3>1, LoopsOwn
  <2>2. CASE ~RunByLoop
    <3>1. PICK done : done = [Top EXCEPT !.ret = [of |-> Current, is |-> is]]
      OBVIOUS
    <3>2. \/ is = "value" /\ frames' = WithTop(done) /\ UNCHANGED answer
          \/ is = "error" /\ Failed(done)
      BY <2>2, <3>1 DEF Ends
    <3>3. h = IF is = "value" THEN "ok" ELSE "failed"
      BY <1>0, <2>2
    <3> QED BY <1>1, <1>3, <2>2, <3>1, <3>2, <3>3, FormEnds
  <2> QED BY <2>1, <2>2
<1>5. waits' \subseteq Registered
  BY <1>1 DEF EvalInv, EvalTypeOK
<1>6. is \in Values /\ "dead" \in {"dead", "waiting"} /\ is # "nil"
  BY DEF Values
<1> QED BY <1>0, <1>1, <1>3, <1>4, <1>5, <1>6, LeavingKeeps

LEMMA SuspendsKeeps ==
  ASSUME EvalInv, NEW for \in {"timer", "channel"}, Suspends(for)
  PROVE  EvalInv'
<1> DEFINE new == [fiber |-> Root, for |-> for]
           g == [Top EXCEPT !.ret = Nil]
<1>1. /\ InJanet /\ state' = [state EXCEPT ![Current] = "waiting"] /\ last' = [last EXCEPT ![Current] = "nil"]
      /\ run' = Front(run) /\ waits' = waits \cup {new}
      /\ level' = level /\ how' = how /\ tasks' = tasks /\ gone' = gone /\ answer' = answer
  BY DEF Suspends
<1>2. "waiting" \in States /\ "waiting" # "running" /\ "nil" \in Values /\ "going on" \in Fates
  BY DEF States, Values, Fates
<1>3. /\ frames # <<>> /\ Len(run) = Len(frames) /\ Len(run') = Len(frames) - 1 /\ DOMAIN run' = 1 .. Len(frames) - 1
      /\ Len(frames) > 0 /\ Len(frames) \in Nat
      /\ \A i \in 1 .. Len(frames) - 1 : i \in DOMAIN run /\ run'[i] = run[i]
      /\ Current = run[Len(frames)] /\ Current \in DOMAIN state /\ how[Current] = "going on"
      /\ (Len(frames) > 1 => level[Current] > 1) /\ DOMAIN state' = DOMAIN state
  BY <1>1, <1>2, FiberLeaves
<1>4. IsPut(how', how, Current, "going on", Fates)
  BY <1>1, <1>3 DEF IsPut, EvalInv, EvalTypeOK
<1>5. Left
  <2>1. CASE RunByLoop
    <3>1. frames' = frames
      BY <2>1 DEF Suspends
    <3> QED BY <1>1, <1>2, <1>3, <1>4, <2>1, <3>1, LoopsOwn
  <2>2. CASE ~RunByLoop
    <3>1. frames' = WithTop(g)
      BY <2>2 DEF Suspends
    <3>2. ~Top.inLoop /\ Top \in Frames /\ Top.errs = {} /\ Told(how, Top)
      BY <1>1, <1>3, <2>2, RunsForTop, TopFacts
    <3>3. g \in Frames /\ g.forms = Top.forms /\ g.nested = Top.nested /\ g.inLoop = Top.inLoop /\ g.errs = {}
      <4>1. Nil \in [of : Nat, is : {"nil", "message", "freed message", "value", "error"}]
        BY DEF Nil
      <4> HIDE DEF Nil, Top
      <4> QED BY <3>2, <4>1 DEF Frames
    <3> HIDE DEF g
    <3>4. Told(how, g)
      BY <3>2, <3>3, ToldStill
    <3>5. Told(how, answer) /\ \A i \in 1 .. Len(frames) - 1 : Told(how, frames[i])
      <4>1. \A i \in 1 .. Len(frames) - 1 : i \in DOMAIN frames
        BY EvalFacts
      <4> QED BY <4>1, EvalFacts DEF AllTold
    <3> QED BY <1>1, <1>3, <3>1, <3>2, <3>3, <3>4, <3>5, GoesOn
  <2> QED BY <2>1, <2>2
<1>6. waits' \subseteq Registered /\ waits \subseteq waits' /\ new \in waits' /\ new.fiber = Root
  <2>1. Root \in DOMAIN state
    <3>1. 1 \in DOMAIN run
      <4>1. PICK n \in Nat : n = Len(run) /\ n > 0
        BY <1>3
      <4> QED BY <4>1, EvalFacts
    <3> QED BY <3>1, EvalFacts DEF Root
  <2>2. new \in Registered
    BY <2>1 DEF Registered
  <2> HIDE DEF Registered
  <2> QED BY <1>1, <2>2 DEF EvalInv, EvalTypeOK
<1>7. level[Current] = 1 => \E w \in waits' : w.fiber = Current
  <2>1. level[Current] = 1 => Len(frames) = 1
    <3>1. PICK n \in Nat : n = Len(frames) /\ n > 0
      BY <1>3
    <3>2. n > 1 => level[Current] > 1
      BY <1>3, <3>1
    <3>3. level[Current] = 1 => ~(n > 1)
      BY <3>2
    <3> QED BY <3>1, <3>3
  <2> QED BY <1>3, <1>6, <2>1 DEF Root
<1> QED BY <1>1, <1>2, <1>4, <1>5, <1>6, <1>7, LeavingKeeps

\* A wait comes to its end: the fiber it is for has a task instead.
LEMMA ScheduleKeeps ==
  ASSUME EvalInv, frames # <<>>, NEW w \in waits, Schedule(w.fiber),
         UNCHANGED <<frames, run, state, last, level, how, gone, answer>>
  PROVE  EvalInv'
<1>1. /\ frames' = frames /\ run' = run /\ state' = state /\ last' = last /\ level' = level /\ how' = how
      /\ gone' = gone /\ answer' = answer /\ tasks' = tasks \cup {w.fiber} /\ waits' = {v \in waits : v.fiber # w.fiber}
  BY DEF Schedule
<1>2. w.fiber \in DOMAIN state
  BY DEF EvalInv, EvalTypeOK, Registered
<1>3. EvalTypeOK'
  <2>1. tasks' \in SUBSET DOMAIN state /\ waits' \in SUBSET Registered /\ Registered' = Registered
    BY <1>1, <1>2 DEF EvalInv, EvalTypeOK, Registered
  <2> HIDE DEF Registered
  <2> QED BY <1>1, <2>1 DEF EvalInv, EvalTypeOK
<1>4. Stacked' /\ RunsLastForms' /\ FormsApart' /\ HowIsKnown' /\ LastFormLives'
  BY <1>1 DEF EvalInv, Stacked, RunsLastForms, FormsApart, HowIsKnown, LastFormLives
<1>5. WaitersAreFound'
  BY <1>1 DEF EvalInv, WaitersAreFound
<1>6. EvalReports'
  BY <1>1, EvalFacts, ReportsNext
<1> QED BY <1>3, <1>4, <1>5, <1>6 DEF EvalInv

LEMMA GivesKeeps ==
  ASSUME EvalInv, NEW w \in waits, Gives(w) \/ TimerFires(w)
  PROVE  EvalInv'
<1>1. frames # <<>> /\ Schedule(w.fiber) /\ UNCHANGED <<frames, run, state, last, level, how, gone, answer>>
  BY DEF Gives, TimerFires, InJanet, Looping, InC
<1> QED BY <1>1, ScheduleKeeps

LEMMA CollectKeeps ==
  ASSUME EvalInv, Collect
  PROVE  EvalInv'
<1> DEFINE old == frames[1]
           r == IF old.ret = Message THEN [Message EXCEPT !.is = "freed message"] ELSE old.ret
           g == [old EXCEPT !.ret = r]
<1>1. /\ InJanet /\ run' = run /\ state' = state /\ last' = last /\ level' = level /\ how' = how
      /\ waits' = waits /\ tasks' = tasks /\ answer' = answer
  BY DEF Collect
<1>2. /\ frames # <<>> /\ 1 \in DOMAIN frames /\ Len(frames) > 0 /\ Len(run) = Len(frames) /\ 1 \in DOMAIN run
      /\ old \in Frames
  <2>1. frames # <<>> /\ 1 \in DOMAIN frames /\ Len(frames) > 0 /\ Len(run) = Len(frames)
    BY <1>1, TopFacts DEF InJanet
  <2> QED BY <2>1, EvalFacts
<1>3. frames' = [frames EXCEPT ![1] = g]
  BY <1>2 DEF Collect
<1>4. g \in Frames /\ g.forms = old.forms /\ g.errs = old.errs /\ g.inLoop = old.inLoop /\ g.nested = old.nested /\ g.ret = r
  <2>1. r \in [of : Nat, is : {"nil", "message", "freed message", "value", "error"}]
    <3>1. old.ret \in [of : Nat, is : {"nil", "message", "freed message", "value", "error"}]
      BY <1>2 DEF Frames
    <3>2. [Message EXCEPT !.is = "freed message"] \in [of : Nat, is : {"nil", "message", "freed message", "value", "error"}]
      BY DEF Message
    <3> QED BY <3>1, <3>2
  <2> HIDE DEF old, r
  <2> QED BY <1>2, <2>1 DEF Frames
<1>5. Told(how, old) /\ \A i \in DOMAIN frames : Told(how, frames[i])
  BY <1>2, EvalFacts DEF AllTold
<1>6. Told(how, g)
  <2>1. "runtime" \in old.errs => g.ret = old.ret
    <3>1. "runtime" \in old.errs => old.ret.is = "error"
      BY <1>5 DEF Told
    <3>2. Message.is = "message"
      BY DEF Message
    <3> QED BY <1>4, <3>1, <3>2
  <2> HIDE DEF g, old
  <2> QED BY <1>2, <1>4, <1>5, <2>1, ToldStill
<1>7. IsPut(frames', frames, 1, g, Frames)
  <2> HIDE DEF g
  <2> QED BY <1>2, <1>3, <1>4, PutAt, EvalFacts
<1> HIDE DEF g
<1>8. \A i \in DOMAIN frames : /\ frames'[i].forms = frames[i].forms /\ frames'[i].errs = frames[i].errs
                              /\ frames'[i].inLoop = frames[i].inLoop /\ frames'[i].nested = frames[i].nested
                              /\ FormsOf(frames'[i]) = FormsOf(frames[i])
  BY <1>4, <1>7 DEF IsPut, FormsOf
<1>9. frames' # <<>> /\ DOMAIN frames' = DOMAIN frames /\ Len(frames') = Len(frames) /\ frames' \in Seq(Frames)
  BY <1>2, <1>7 DEF IsPut
<1>10. EvalTypeOK'
  <2>1. gone' \in SUBSET DOMAIN state
    BY DEF Collect
  <2> QED BY <1>1, <1>9, <2>1 DEF EvalInv, EvalTypeOK, Registered
<1>11. Stacked'
  BY <1>1, <1>2, <1>8, <1>9 DEF EvalInv, Stacked
<1>12. RunsLastForms'
  <2>1. ASSUME NEW i \in DOMAIN run, i > 1 \/ ~frames'[1].inLoop PROVE frames'[i].forms # <<>> /\ run[i] = LastForm(frames'[i])
    <3>1. i \in DOMAIN frames
      BY <1>2, EvalFacts
    <3>2. frames[i].forms # <<>> /\ run[i] = LastForm(frames[i])
      BY <1>2, <1>8, <2>1 DEF EvalInv, RunsLastForms
    <3> QED BY <1>8, <3>1, <3>2 DEF LastForm
  <2> QED BY <1>1, <2>1 DEF EvalInv, RunsLastForms
<1>13. FormsApart'
  BY <1>1, <1>8, <1>9 DEF EvalInv, FormsApart
<1>14. HowIsKnown' /\ WaitersAreFound'
  BY <1>1 DEF EvalInv, HowIsKnown, WaitersAreFound
<1>15. LastFormLives'
  <2>1. ASSUME old.forms # <<>> PROVE LastForm(old) \notin gone'
    <3>1. CASE old.inLoop
      BY <2>1, <3>1 DEF Collect, Rooted
    <3>2. CASE ~old.inLoop
      <4>1. run[1] = LastForm(old)
        BY <1>2, <3>2 DEF EvalInv, RunsLastForms
      <4>2. Contains(run, LastForm(old))
        BY <1>2, <4>1, EvalFacts DEF Contains
      <4> QED BY <4>2 DEF Collect
    <3> QED BY <3>1, <3>2
  <2> QED BY <1>2, <1>8, <2>1 DEF LastFormLives, LastForm
<1>16. EvalReports'
  <2>1. \A i \in DOMAIN frames : Told(how, frames'[i])
    BY <1>5, <1>6, <1>7 DEF IsPut
  <2>2. Told(how, answer)
    BY EvalFacts DEF AllTold
  <2> QED BY <1>1, <1>9, <2>1, <2>2, ReportsNext DEF AllTold
<1> QED BY <1>10, <1>11, <1>12, <1>13, <1>14, <1>15, <1>16 DEF EvalInv

LEMMA RunTaskKeeps ==
  ASSUME EvalInv, NEW f \in tasks, RunTask(f)
  PROVE  EvalInv'
<1>1. /\ frames # <<>> /\ Top.inLoop /\ Len(run) = Len(frames) - 1
      /\ frames' = frames /\ level' = level /\ how' = how /\ waits' = waits /\ gone' = gone /\ answer' = answer
      /\ tasks' = tasks \ {f}
  BY DEF RunTask, Looping, InC
<1>2. Len(frames) = 1 /\ frames[1].inLoop /\ run = <<>> /\ f \in DOMAIN state
  <2>1. Len(frames) = 1 /\ Top = frames[1]
    BY <1>1, TopFacts
  <2>2. Len(run) = 0
    BY <1>1, <2>1
  <2> QED BY <1>1, <2>1, <2>2, EvalFacts DEF EvalInv, EvalTypeOK
<1>3. FormsApart' /\ LastFormLives' /\ Registered' = Registered
  <2>1. DOMAIN state' = DOMAIN state
    BY DEF RunTask
  <2> QED BY <1>1, <2>1 DEF EvalInv, FormsApart, LastFormLives, Registered
<1>4. EvalReports'
  BY <1>1, EvalFacts, ReportsNext
<1>5. CASE state[f] = "waiting"
  <2>1. run' = <<f>> /\ state' = [state EXCEPT ![f] = "running"] /\ last' = [last EXCEPT ![f] = "nil"]
    BY <1>5 DEF RunTask
  <2>2. IsPut(state', state, f, "running", States) /\ IsPut(last', last, f, "nil", Values)
    <3>1. state \in Seq(States) /\ last \in Seq(Values) /\ f \in DOMAIN last
      BY <1>2, EvalFacts DEF EvalInv, EvalTypeOK
    <3>2. "running" \in States /\ "nil" \in Values
      BY DEF States, Values
    <3>3. IsPut(state', state, f, "running", States)
      BY <1>2, <2>1, <3>1, <3>2, PutAt
    <3>4. IsPut(last', last, f, "nil", Values)
      BY <2>1, <3>1, <3>2, PutAt
    <3> QED BY <3>3, <3>4
  <2>3. run' \in Seq(DOMAIN state) /\ Len(run') = 1 /\ DOMAIN run' = {1} /\ run'[1] = f
    BY <1>2, <2>1
  <2>4. EvalTypeOK'
    <3>1. tasks' \in SUBSET DOMAIN state
      BY <1>1 DEF EvalInv, EvalTypeOK
    <3>2. DOMAIN state' = DOMAIN state /\ state' \in Seq(States) /\ last' \in Seq(Values) /\ Len(state') = Len(state) /\ Len(last') = Len(last)
      BY <2>2 DEF IsPut
    <3> HIDE DEF Registered
    <3> QED BY <1>1, <1>3, <2>3, <3>1, <3>2 DEF EvalInv, EvalTypeOK
  <2>5. Stacked'
    BY <1>1, <1>2, <2>3 DEF EvalInv, Stacked
  <2>6. RunsLastForms'
    BY <1>1, <1>2, <2>2, <2>3 DEF RunsLastForms, IsPut
  <2>7. HowIsKnown'
    <3>1. ASSUME NEW x \in DOMAIN state
          PROVE  /\ how[x] = "going on" <=> state'[x] # "dead"
                 /\ last'[x] = "value" <=> how[x] = "ok"
                 /\ last'[x] = "error" <=> how[x] \in {"failed", "failed in loop"}
      <4>1. CASE x = f
        BY <1>2, <1>5, <2>2, <4>1 DEF IsPut, EvalInv, HowIsKnown
      <4>2. CASE x # f
        <5>1. state'[x] = state[x] /\ last'[x] = last[x]
          BY <2>2, <4>2, EvalFacts DEF IsPut
        <5> QED BY <5>1 DEF EvalInv, HowIsKnown
      <4> QED BY <4>1, <4>2
    <3> QED BY <1>1, <2>2, <3>1 DEF HowIsKnown, IsPut
  <2>8. WaitersAreFound'
    <3>1. ASSUME NEW x \in DOMAIN state, state'[x] = "waiting", level[x] = 1
          PROVE  x \in tasks' \/ \E w \in waits : w.fiber = x
      <4>1. x # f /\ state[x] = "waiting"
        BY <2>2, <3>1 DEF IsPut
      <4> QED BY <1>1, <3>1, <4>1 DEF EvalInv, WaitersAreFound
    <3> QED BY <1>1, <2>2, <3>1 DEF WaitersAreFound, IsPut
  <2> QED BY <1>3, <1>4, <2>4, <2>5, <2>6, <2>7, <2>8 DEF EvalInv
<1>6. CASE state[f] # "waiting"
  <2>1. run' = run /\ state' = state /\ last' = last
    BY <1>6 DEF RunTask
  <2>2. EvalTypeOK'
    <3>1. tasks' \in SUBSET DOMAIN state
      BY <1>1 DEF EvalInv, EvalTypeOK
    <3> HIDE DEF Registered
    <3> QED BY <1>1, <1>3, <2>1, <3>1 DEF EvalInv, EvalTypeOK
  <2>3. Stacked' /\ RunsLastForms' /\ HowIsKnown'
    BY <1>1, <2>1 DEF EvalInv, Stacked, RunsLastForms, HowIsKnown
  <2>4. WaitersAreFound'
    BY <1>1, <1>6, <2>1 DEF EvalInv, WaitersAreFound
  <2> QED BY <1>3, <1>4, <2>2, <2>3, <2>4 DEF EvalInv
<1> QED BY <1>5, <1>6

LEMMA LoopDoneKeeps ==
  ASSUME EvalInv, LoopDone
  PROVE  EvalInv'
<1> DEFINE a == [Top EXCEPT !.ret = Value(Top)]
<1>1. /\ frames # <<>> /\ Top.inLoop /\ Len(run) = Len(frames) - 1
      /\ tasks = {} /\ counted = {} /\ (\A w \in waits : w.for # "timer") /\ answer' = a /\ frames' = <<>>
      /\ run' = run /\ state' = state /\ last' = last /\ level' = level /\ how' = how
      /\ waits' = waits /\ tasks' = tasks /\ counted' = counted /\ gone' = gone
  BY DEF LoopDone, Looping, InC
<1>2. /\ Len(frames) = 1 /\ run = <<>> /\ Top = frames[1] /\ Top \in Frames /\ 1 \in DOMAIN frames /\ Told(how, Top)
      /\ (Top.nested <=> FALSE)
  <2>1. Len(frames) = 1 /\ Top = frames[1]
    BY <1>1, TopFacts
  <2>2. Len(run) = 0
    BY <1>1, <2>1
  <2> QED BY <1>1, <2>1, <2>2, EvalFacts, TopFacts
<1>3. FormsOf(Top) \subseteq DOMAIN state
  BY <1>2 DEF EvalInv, FormsApart
<1>4. a \in Frames /\ a.forms = Top.forms /\ a.errs = Top.errs /\ a.ret = Value(Top)
  <2>1. Value(Top) \in [of : Nat, is : {"nil", "message", "freed message", "value", "error"}]
    <3>1. CASE Top.errs = {} /\ Top.forms # <<>>
      <4>1. LastForm(Top) \in DOMAIN state /\ LastForm(Top) \in Nat
        <5>1. LastForm(Top) \in DOMAIN state
          BY <1>2, <1>3, <3>1, FrameFacts
        <5>2. \A x \in DOMAIN state : x \in Nat
          BY EvalFacts
        <5> QED BY <5>1, <5>2
      <4>2. last[LastForm(Top)] \in Values
        BY <4>1, EvalFacts DEF EvalInv, EvalTypeOK
      <4>3. last[LastForm(Top)] \in {"nil", "message", "freed message", "value", "error"}
        BY <4>2 DEF Values
      <4> HIDE DEF Top
      <4> QED BY <3>1, <4>1, <4>3 DEF Value
    <3>2. CASE ~(Top.errs = {} /\ Top.forms # <<>>)
      <4>1. Value(Top) = Top.ret
        BY <3>2 DEF Value
      <4> QED BY <1>2, <4>1 DEF Frames
    <3> QED BY <3>1, <3>2
  <2> HIDE DEF Top
  <2> QED BY <1>2, <2>1 DEF Frames
<1> HIDE DEF a
<1>5. Told(how, a)
  <2>1. "runtime" \in Top.errs => Value(Top) = Top.ret
    BY DEF Value
  <2> HIDE DEF Top
  <2> QED BY <1>2, <1>4, <2>1, ToldStill
<1>6. FormsOf(a) = FormsOf(Top) /\ LastForm(a) = LastForm(Top)
  BY <1>4 DEF FormsOf, LastForm
<1>7. EvalTypeOK' /\ Stacked' /\ RunsLastForms' /\ HowIsKnown' /\ WaitersAreFound' /\ LastFormLives'
  <2>1. frames' \in Seq(Frames) /\ answer' \in Frames /\ Registered' = Registered
    BY <1>1, <1>4 DEF Registered
  <2>2. EvalTypeOK'
    <3> HIDE DEF Registered
    <3> QED BY <1>1, <2>1 DEF EvalInv, EvalTypeOK
  <2>3. Stacked' /\ RunsLastForms' /\ LastFormLives'
    BY <1>1, <1>2 DEF Stacked, RunsLastForms, LastFormLives
  <2>4. HowIsKnown' /\ WaitersAreFound'
    BY <1>1 DEF EvalInv, HowIsKnown, WaitersAreFound
  <2> QED BY <2>2, <2>3, <2>4
<1>8. FormsApart'
  BY <1>1, <1>3, <1>6 DEF FormsApart
<1>9. AnswersWithLastForm'
  <2>1. ASSUME a.errs = {}, a.forms # <<>>
        PROVE  /\ a.ret.of = LastForm(a)
               /\ a.ret.is = "value" <=> how[LastForm(a)] = "ok"
               /\ a.ret.is = "error" <=> how[LastForm(a)] = "failed in loop"
    <3> DEFINE x == LastForm(Top)
    <3>1. a.ret = [of |-> x, is |-> last[x]]
      BY <1>4, <2>1 DEF Value
    <3>2. x \in DOMAIN state
      BY <1>2, <1>3, <1>4, <2>1, FrameFacts
    <3>3. how[x] # "failed"
      BY <1>4, <1>5, <1>6, <2>1 DEF Told
    <3>4. (last[x] = "value" <=> how[x] = "ok") /\ (last[x] = "error" <=> how[x] \in {"failed", "failed in loop"})
      BY <3>2 DEF EvalInv, HowIsKnown
    <3> HIDE DEF x
    <3>5. a.ret.of = x /\ a.ret.is = last[x]
      BY <3>1
    <3> QED BY <1>6, <3>3, <3>4, <3>5 DEF x
  <2> QED BY <1>1, <2>1 DEF AnswersWithLastForm, Throws
<1>10. NothingIsLeft'
  <2>1. ASSUME NEW x \in DOMAIN state, state[x] = "waiting", level[x] = 1 PROVE [fiber |-> x, for |-> "channel"] \in waits
    <3>1. PICK w \in waits : w.fiber = x
      BY <1>1, <2>1 DEF EvalInv, WaitersAreFound
    <3>2. w \in Registered /\ w.for # "timer"
      BY <1>1, <3>1 DEF EvalInv, EvalTypeOK
    <3>3. w = [fiber |-> x, for |-> "channel"]
      BY <3>1, <3>2 DEF Registered
    <3> QED BY <3>1, <3>3
  <2>2. a.forms # <<>> => LastForm(a) \notin gone
    BY <1>1, <1>2, <1>4, <1>6 DEF EvalInv, LastFormLives
  <2> QED BY <1>1, <2>1, <2>2 DEF NothingIsLeft
<1>11. EvalReports'
  <2>1. StopsAtFirstFailure' <=> \A f \in Range(frames') \cup {answer'} : Told(how', f)
    BY DEF StopsAtFirstFailure, Told
  <2>2. Range(frames') = {}
    BY <1>1 DEF Range
  <2> QED BY <1>1, <1>5, <1>9, <1>10, <2>1, <2>2 DEF EvalReports
<1> QED BY <1>7, <1>8, <1>11 DEF EvalInv

LEMMA InitEvalHolds == InitEval => EvalInv
<1> SUFFICES ASSUME InitEval PROVE EvalInv
  OBVIOUS
<1>1. /\ frames = <<>> /\ run = <<>> /\ state = <<>> /\ last = <<>> /\ level = <<>> /\ how = <<>>
      /\ waits = {} /\ tasks = {} /\ counted = {} /\ gone = {} /\ answer = NoAnswer
  BY DEF InitEval
<1>2. NoAnswer \in Frames /\ NoAnswer.forms = <<>> /\ NoAnswer.errs = {}
  BY BlankAnswer
<1>3. EvalTypeOK
  <2>1. \A S : <<>> \in Seq(S) /\ Len(<<>>) = 0
    OBVIOUS
  <2> QED BY <1>1, <1>2, <2>1 DEF EvalTypeOK
<1>4. Stacked /\ RunsLastForms /\ HowIsKnown /\ WaitersAreFound /\ LastFormLives
  BY <1>1 DEF Stacked, RunsLastForms, HowIsKnown, WaitersAreFound, LastFormLives
<1>5. FormsApart
  <2>1. FormsOf(NoAnswer) = {}
    BY <1>2 DEF FormsOf, Range
  <2> QED BY <1>1, <2>1 DEF FormsApart
<1>6. EvalReports
  <2>1. Told(how, NoAnswer)
    BY <1>2 DEF Told
  <2>2. StopsAtFirstFailure
    BY <1>1, <2>1, ToldOfAll DEF AllTold
  <2>3. ~Outermost
    BY <1>1 DEF Outermost
  <2>4. AnswersWithLastForm
    BY <2>3 DEF AnswersWithLastForm
  <2>5. NothingIsLeft
    <3>1. DOMAIN state = {}
      BY <1>1
    <3> QED BY <1>1, <2>3, <3>1 DEF NothingIsLeft
  <2> QED BY <2>2, <2>4, <2>5 DEF EvalReports
<1> QED BY <1>3, <1>4, <1>5, <1>6 DEF EvalInv

LEMMA NextEvalKeeps == EvalInv /\ [NextEval]_evars => EvalInv'
<1> SUFFICES ASSUME EvalInv, [NextEval]_evars PROVE EvalInv'
  OBVIOUS
<1>1. CASE Begin
  BY <1>1, BeginKeeps
<1>2. CASE StartForm
  BY <1>2, StartFormKeeps
<1>3. CASE EndOfText
  BY <1>3, EndOfTextKeeps
<1>4. CASE Collect
  BY <1>4, CollectKeeps
<1>5. CASE LoopDone
  BY <1>5, LoopDoneKeeps
<1>6. CASE \E phase \in {"parse", "compile"} : BadForm(phase)
  BY <1>6, BadFormKeeps
<1>7. CASE \E is \in {"value", "error"} : Ends(is)
  BY <1>7, EndsKeeps
<1>8. CASE \E for \in {"timer", "channel"} : Suspends(for)
  BY <1>8, SuspendsKeeps
<1>9. CASE \E w \in waits : Gives(w) \/ TimerFires(w)
  BY <1>9, GivesKeeps
<1>10. CASE \E f \in tasks : RunTask(f)
  BY <1>10, RunTaskKeeps
<1>11. CASE UNCHANGED evars
  <2>1. /\ frames' = frames /\ run' = run /\ state' = state /\ last' = last /\ level' = level /\ how' = how
        /\ waits' = waits /\ tasks' = tasks /\ counted' = counted /\ gone' = gone /\ answer' = answer
    BY <1>11 DEF evars
  <2>2. EvalTypeOK' /\ Stacked' /\ RunsLastForms' /\ FormsApart'
    BY <2>1 DEF EvalInv, EvalTypeOK, Registered, Stacked, RunsLastForms, FormsApart
  <2>3. HowIsKnown' /\ WaitersAreFound' /\ LastFormLives'
    BY <2>1 DEF EvalInv, HowIsKnown, WaitersAreFound, LastFormLives
  <2>4. StopsAtFirstFailure'
    BY <2>1 DEF EvalInv, EvalReports, StopsAtFirstFailure
  <2>5. AnswersWithLastForm' /\ NothingIsLeft'
    BY <2>1 DEF EvalInv, EvalReports, AnswersWithLastForm, NothingIsLeft, Outermost, Throws
  <2> QED BY <2>2, <2>3, <2>4, <2>5 DEF EvalInv, EvalReports
<1> QED BY <1>1, <1>2, <1>3, <1>4, <1>5, <1>6, <1>7, <1>8, <1>9, <1>10, <1>11 DEF NextEval

EvalSpec == InitEval /\ [][NextEval]_evars

(* JanetVM.eval down to janet_dobytes, for any number of evals, forms and     *)
(* levels of nesting: an eval runs its forms in order up to the first that    *)
(* fails and throws that failure in its phase, answers with what its own last *)
(* form has come to in the loop, and leaves no task behind.                   *)
THEOREM EvalReportsHolds == EvalSpec => []EvalReports
<1>1. InitEval => EvalInv
  BY InitEvalHolds
<1>2. EvalInv /\ [NextEval]_evars => EvalInv'
  BY NextEvalKeeps
<1>3. EvalInv => EvalReports
  BY DEF EvalInv
<1> QED BY <1>1, <1>2, <1>3, PTL DEF EvalSpec
=============================================================================
