--------------------------- MODULE ThreadChanProofs ---------------------------
(***************************************************************************)
(* A channel between any VMs with any fibers, of any limit, keeps its      *)
(* counts, its records and its values.  First what the operations do to    *)
(* the pipes and where the values are; then one step per action.           *)
(***************************************************************************)
EXTENDS ThreadChan, FiniteSetTheorems, SequenceTheorems, WellFoundedInduction, TLAPS

Pipes == [VMs -> Seq(Messages)]

-----------------------------------------------------------------------------
(* Pipes.                                                                    *)

LEMMA PostedShape ==
  ASSUME NEW p \in Pipes, NEW r \in Records, r.vm \in VMs, NEW kind \in {"read", "write", "close"}, NEW x \in Nat,
         NEW q, q = Posted(p, r, kind, x)
  PROVE  /\ q \in Pipes
         /\ Len(q[r.vm]) = Len(p[r.vm]) + 1 /\ q[r.vm][Len(p[r.vm]) + 1] = Msg(r, kind, x)
         /\ \A w \in VMs : DOMAIN p[w] = 1 .. Len(p[w]) /\ DOMAIN q[w] = 1 .. Len(q[w]) /\ Len(p[w]) \in Nat
         /\ \A i \in 1 .. Len(p[r.vm]) : q[r.vm][i] = p[r.vm][i]
         /\ \A w \in VMs : w # r.vm => q[w] = p[w]
<1> DEFINE m == Msg(r, kind, x)
           v == r.vm
           s == p[v]
<1>1. m \in Messages
  BY DEF Msg, Messages, Records
<1>2. s \in Seq(Messages) /\ q = [p EXCEPT ![v] = Append(s, m)]
  BY DEF Pipes, Posted
<1>3. /\ Append(s, m) \in Seq(Messages) /\ Len(Append(s, m)) = Len(s) + 1
      /\ Append(s, m)[Len(s) + 1] = m /\ \A i \in 1 .. Len(s) : Append(s, m)[i] = s[i]
  BY <1>1, <1>2, AppendProperties
<1> HIDE DEF m
<1>4. q \in Pipes /\ q[v] = Append(s, m) /\ \A w \in VMs : w # v => q[w] = p[w]
  BY <1>2, <1>3 DEF Pipes
<1>5. \A w \in VMs : DOMAIN p[w] = 1 .. Len(p[w]) /\ DOMAIN q[w] = 1 .. Len(q[w]) /\ Len(p[w]) \in Nat
  BY <1>4 DEF Pipes
<1> QED BY <1>3, <1>4, <1>5 DEF m

\* q is p with the first event of v gone.
Beheaded(p, q, v) ==
  /\ q \in Pipes
  /\ Head(p[v]) = p[v][1] /\ Head(p[v]) \in Messages /\ 1 \in DOMAIN p[v]
  /\ Len(p[v]) \in Nat /\ Len(p[v]) > 0 /\ Len(q[v]) = Len(p[v]) - 1
  /\ \A w \in VMs : DOMAIN p[w] = 1 .. Len(p[w]) /\ DOMAIN q[w] = 1 .. Len(q[w])
  /\ \A i \in 1 .. Len(q[v]) : i + 1 \in DOMAIN p[v] /\ q[v][i] = p[v][i + 1]
  /\ \A w \in VMs : w # v => q[w] = p[w]

LEMMA TailShape ==
  ASSUME NEW p \in Pipes, NEW v \in VMs, p[v] # <<>>, NEW q, q = [p EXCEPT ![v] = Tail(p[v])]
  PROVE  Beheaded(p, q, v)
<1> DEFINE s == p[v]
<1>1. s \in Seq(Messages) /\ s # <<>>
  BY DEF Pipes
<1>2. Len(s) \in Nat /\ Len(s) > 0 /\ DOMAIN s = 1 .. Len(s) /\ Head(s) = s[1] /\ s[1] \in Messages
  BY <1>1
<1>3. Tail(s) \in Seq(Messages) /\ Len(Tail(s)) = Len(s) - 1 /\ \A i \in 1 .. Len(s) - 1 : Tail(s)[i] = s[i + 1]
  BY <1>1, HeadTailProperties
<1>4. q \in Pipes /\ q[v] = Tail(s) /\ \A w \in VMs : w # v => q[w] = p[w]
  BY <1>3 DEF Pipes
<1>5. \A w \in VMs : DOMAIN p[w] = 1 .. Len(p[w]) /\ DOMAIN q[w] = 1 .. Len(q[w])
  BY <1>4 DEF Pipes
<1>6. 1 \in DOMAIN s /\ \A i \in 1 .. Len(s) - 1 : i + 1 \in DOMAIN s
  BY <1>2
<1> QED BY <1>2, <1>3, <1>4, <1>5, <1>6 DEF Beheaded

-----------------------------------------------------------------------------
(* Where values are.                                                         *)

ReadsMovedUp(p, q, d) ==
  \A w \in VMs : \A i \in DOMAIN q[w] : q[w][i].mode = "read" => i + d[w] \in DOMAIN p[w] /\ q[w][i] = p[w][i + d[w]]

\* No value is newly on its way: what q carries p carried, places may move up by d.
LEMMA NoNewReads ==
  ASSUME NEW items, NEW p, NEW q, NEW rcvd, NEW n, NEW d \in [VMs -> Nat],
         InOnePlace(items, p, rcvd, n),
         \A w \in VMs : DOMAIN p[w] \subseteq Nat /\ DOMAIN q[w] \subseteq Nat,
         ReadsMovedUp(p, q, d)
  PROVE  InOnePlace(items, q, rcvd, n) /\ \A x : OnTheWay(q, x) => OnTheWay(p, x)
<1>1. \A x : OnTheWay(q, x) => OnTheWay(p, x)
  <2>1. ASSUME NEW x, NEW w \in VMs, NEW i \in DOMAIN q[w], Carries(q[w][i], x) PROVE OnTheWay(p, x)
    <3>1. i + d[w] \in DOMAIN p[w] /\ Carries(p[w][i + d[w]], x)
      BY <2>1 DEF Carries, ReadsMovedUp
    <3> QED BY <3>1 DEF OnTheWay
  <2> QED BY <2>1 DEF OnTheWay
<1>2. ASSUME NEW v \in VMs, NEW w \in VMs, NEW i \in DOMAIN q[v], NEW j \in DOMAIN q[w], q[v][i].mode = "read"
      PROVE  q[v][i].value <= n /\ (Carries(q[w][j], q[v][i].value) => v = w /\ i = j)
  <2>1. i + d[v] \in DOMAIN p[v] /\ q[v][i] = p[v][i + d[v]]
    BY <1>2 DEF ReadsMovedUp
  <2>2. q[v][i].value <= n
    BY <1>2, <2>1 DEF InOnePlace
  <2>3. ASSUME Carries(q[w][j], q[v][i].value) PROVE v = w /\ i = j
    <3>1. j + d[w] \in DOMAIN p[w] /\ q[w][j] = p[w][j + d[w]]
      BY <2>3 DEF Carries, ReadsMovedUp
    <3>2. v = w /\ i + d[v] = j + d[w]
      BY <1>2, <2>1, <2>3, <3>1 DEF InOnePlace
    <3>3. i \in Nat /\ j \in Nat /\ d[v] \in Nat
      OBVIOUS
    <3> QED BY <3>2, <3>3
  <2> QED BY <2>2, <2>3
<1> QED BY <1>1, <1>2 DEF InOnePlace

IsFresh(items, p, rcvd, x) == /\ ~OnTheWay(p, x) /\ \A i \in DOMAIN items : items[i] # x
                              /\ \A q \in rcvd : q[1] # x

LEMMA NextIsFresh ==
  ASSUME NEW items, NEW p, NEW rcvd, NEW n \in Nat, InOnePlace(items, p, rcvd, n), p \in Pipes, items \in Seq(Nat),
         \A q \in rcvd : q[1] \in Nat
  PROVE  IsFresh(items, p, rcvd, n + 1) /\ InOnePlace(items, p, rcvd, n + 1)
<1>1. \A v \in VMs : \A i \in DOMAIN p[v] : p[v][i].value \in Nat
  <2>1. ASSUME NEW v \in VMs, NEW i \in DOMAIN p[v] PROVE p[v][i].value \in Nat
    <3>1. p[v] \in Seq(Messages)
      BY DEF Pipes
    <3>2. p[v][i] \in Messages
      BY <3>1
    <3> QED BY <3>2 DEF Messages
  <2> QED BY <2>1
<1>2. \A x \in Nat : x <= n => x <= n + 1 /\ x # n + 1
  OBVIOUS
<1>3. ~OnTheWay(p, n + 1)
  BY <1>1, <1>2 DEF InOnePlace, OnTheWay, Carries
<1>4. \A i \in DOMAIN items : items[i] \in Nat
  OBVIOUS
<1>5. (\A i \in DOMAIN items : items[i] # n + 1) /\ \A q \in rcvd : q[1] # n + 1
  BY <1>2, <1>4 DEF InOnePlace
<1>6. InOnePlace(items, p, rcvd, n + 1)
  BY <1>1, <1>2, <1>4 DEF InOnePlace
<1> QED BY <1>3, <1>5, <1>6 DEF IsFresh

\* The event at the head gone, its value is nowhere in the pipes.
LEMMA HeadGone ==
  ASSUME NEW items, NEW p, NEW q, NEW rcvd, NEW n, NEW v \in VMs, Beheaded(p, q, v), InOnePlace(items, p, rcvd, n)
  PROVE  InOnePlace(items, q, rcvd, n) /\ (Head(p[v]).mode = "read" => ~OnTheWay(q, Head(p[v]).value))
<1> DEFINE d == [w \in VMs |-> IF w = v THEN 1 ELSE 0]
<1>1. d \in [VMs -> Nat] /\ d[v] = 1 /\ \A w \in VMs : w # v => d[w] = 0
  OBVIOUS
<1> HIDE DEF d
<1>2. \A w \in VMs : \A i \in DOMAIN q[w] : i \in Nat /\ i # 0 /\ i + d[w] \in DOMAIN p[w] /\ q[w][i] = p[w][i + d[w]]
  <2> SUFFICES ASSUME NEW w \in VMs, NEW i \in DOMAIN q[w]
               PROVE  i \in Nat /\ i # 0 /\ i + d[w] \in DOMAIN p[w] /\ q[w][i] = p[w][i + d[w]]
    OBVIOUS
  <2>1. i \in Nat /\ i # 0
    BY DEF Beheaded
  <2>2. CASE w = v
    BY <1>1, <2>1, <2>2 DEF Beheaded
  <2>3. CASE w # v
    <3>1. i + d[w] = i
      BY <1>1, <2>1, <2>3
    <3> QED BY <2>1, <2>3, <3>1 DEF Beheaded
  <2> QED BY <2>2, <2>3
<1>3. InOnePlace(items, q, rcvd, n)
  <2>1. \A w \in VMs : DOMAIN p[w] \subseteq Nat /\ DOMAIN q[w] \subseteq Nat
    BY DEF Beheaded
  <2>2. ReadsMovedUp(p, q, d)
    BY <1>2 DEF ReadsMovedUp
  <2> QED BY <1>1, <2>1, <2>2, NoNewReads
<1>4. ASSUME Head(p[v]).mode = "read", NEW w \in VMs, NEW i \in DOMAIN q[w], Carries(q[w][i], Head(p[v]).value) PROVE FALSE
  <2>1. i \in Nat /\ i # 0 /\ i + d[w] \in DOMAIN p[w] /\ Carries(p[w][i + d[w]], Head(p[v]).value)
    BY <1>2, <1>4
  <2>2. Head(p[v]) = p[v][1] /\ 1 \in DOMAIN p[v]
    BY DEF Beheaded
  <2>3. v = w /\ 1 = i + d[w]
    BY <1>4, <2>1, <2>2 DEF InOnePlace
  <2> QED BY <1>1, <2>1, <2>3
<1> QED BY <1>3, <1>4 DEF OnTheWay

LEMMA ValueGiven ==
  ASSUME NEW items \in Seq(Nat), NEW p, NEW rcvd, NEW n \in Nat, InOnePlace(items, p, rcvd, n),
         NEW x \in Nat, x <= n, IsFresh(items, p, rcvd, x)
  PROVE  InOnePlace(Append(items, x), p, rcvd, n)
<1> DEFINE s == Append(items, x)
<1>1. /\ Len(items) \in Nat /\ DOMAIN items = 1 .. Len(items) /\ DOMAIN s = 1 .. Len(items) + 1
      /\ s[Len(items) + 1] = x /\ \A i \in 1 .. Len(items) : s[i] = items[i]
  BY AppendProperties
<1> HIDE DEF s
<1>2. \A i \in DOMAIN s : i = Len(items) + 1 \/ i \in DOMAIN items
  BY <1>1
<1>3. \A i \in DOMAIN s : s[i] <= n /\ ~OnTheWay(p, s[i])
  BY <1>1, <1>2 DEF InOnePlace, IsFresh
<1>4. \A i, j \in DOMAIN s : s[i] = s[j] => i = j
  BY <1>1, <1>2 DEF InOnePlace, IsFresh
<1>5. \A q \in rcvd : \A i \in DOMAIN s : s[i] # q[1]
  BY <1>1, <1>2 DEF InOnePlace, IsFresh
<1> QED BY <1>3, <1>4, <1>5 DEF InOnePlace, s

LEMMA ValueTaken ==
  ASSUME NEW items \in Seq(Nat), items # <<>>, NEW p, NEW rcvd, NEW n, InOnePlace(items, p, rcvd, n)
  PROVE  InOnePlace(Tail(items), p, rcvd, n) /\ IsFresh(Tail(items), p, rcvd, Head(items)) /\ Head(items) <= n
<1> DEFINE s == Tail(items)
<1>1. /\ Len(items) \in Nat /\ Len(items) > 0 /\ DOMAIN items = 1 .. Len(items) /\ Head(items) = items[1]
      /\ DOMAIN s = 1 .. Len(items) - 1 /\ \A i \in 1 .. Len(items) - 1 : s[i] = items[i + 1]
  BY HeadTailProperties
<1> HIDE DEF s
<1>2. 1 \in DOMAIN items /\ \A i \in DOMAIN s : i \in Nat /\ i + 1 \in DOMAIN items /\ i + 1 # 1
  BY <1>1
<1>3. \A i, j \in DOMAIN s : s[i] = s[j] => i = j
  <2> SUFFICES ASSUME NEW i \in DOMAIN s, NEW j \in DOMAIN s, s[i] = s[j] PROVE i = j
    OBVIOUS
  <2>1. items[i + 1] = items[j + 1]
    BY <1>1
  <2>2. i + 1 = j + 1
    BY <1>2, <2>1 DEF InOnePlace
  <2> QED BY <1>2, <2>2
<1>4. \A i \in DOMAIN s : s[i] # items[1]
  BY <1>1, <1>2 DEF InOnePlace
<1> QED BY <1>1, <1>2, <1>3, <1>4 DEF InOnePlace, IsFresh, s

LEMMA ValueReceived ==
  ASSUME NEW items, NEW p, NEW rcvd, NEW n, InOnePlace(items, p, rcvd, n),
         NEW x, x <= n, IsFresh(items, p, rcvd, x), NEW f
  PROVE  InOnePlace(items, p, rcvd \cup {<<x, f>>}, n)
BY DEF InOnePlace, IsFresh

LEMMA ValuePosted ==
  ASSUME NEW items, NEW p \in Pipes, NEW rcvd, NEW n, InOnePlace(items, p, rcvd, n),
         NEW x \in Nat, x <= n, IsFresh(items, p, rcvd, x), NEW r \in Records, r.vm \in VMs
  PROVE  InOnePlace(items, Posted(p, r, "read", x), rcvd, n)
<1> DEFINE q == Posted(p, r, "read", x)
           v == r.vm
           k == Len(p[v]) + 1
<1>0. q = Posted(p, r, "read", x) /\ "read" \in {"read", "write", "close"}
  OBVIOUS
<1> HIDE DEF q
<1>1. /\ \A w \in VMs : DOMAIN p[w] = 1 .. Len(p[w]) /\ DOMAIN q[w] = 1 .. Len(q[w]) /\ Len(p[w]) \in Nat
      /\ Len(q[v]) = k /\ q[v][k] = Msg(r, "read", x)
      /\ \A i \in 1 .. Len(p[v]) : q[v][i] = p[v][i]
      /\ \A w \in VMs : w # v => q[w] = p[w]
  BY <1>0, PostedShape
<1>2. q[v][k].mode = "read" /\ q[v][k].value = x
  BY <1>1 DEF Msg
<1>3. \A w \in VMs : \A i \in DOMAIN q[w] : (w = v /\ i = k) \/ (i \in DOMAIN p[w] /\ q[w][i] = p[w][i])
  <2> SUFFICES ASSUME NEW w \in VMs, NEW i \in DOMAIN q[w]
               PROVE  (w = v /\ i = k) \/ (i \in DOMAIN p[w] /\ q[w][i] = p[w][i])
    OBVIOUS
  <2>1. CASE w # v
    BY <1>1, <2>1
  <2>2. CASE w = v
    <3>1. i \in 1 .. k /\ Len(p[v]) \in Nat /\ DOMAIN p[v] = 1 .. Len(p[v])
      BY <1>1, <2>2
    <3>2. i = k \/ i \in 1 .. Len(p[v])
      BY <3>1
    <3> HIDE DEF v, k
    <3>3. i \in 1 .. Len(p[v]) => q[v][i] = p[v][i]
      BY <1>1
    <3> QED BY <2>2, <3>1, <3>2, <3>3
  <2> QED BY <2>1, <2>2
<1> HIDE DEF k
<1>4. \A y : OnTheWay(q, y) => y = x \/ OnTheWay(p, y)
  BY <1>2, <1>3 DEF OnTheWay, Carries
<1>5. \A w \in VMs : \A i \in DOMAIN p[w] : ~Carries(p[w][i], x)
  BY DEF IsFresh, OnTheWay
<1>6. ASSUME NEW w \in VMs, NEW u \in VMs, NEW i \in DOMAIN q[w], NEW j \in DOMAIN q[u], q[w][i].mode = "read"
      PROVE  q[w][i].value <= n /\ (Carries(q[u][j], q[w][i].value) => w = u /\ i = j)
  <2>1. CASE i \in DOMAIN p[w] /\ q[w][i] = p[w][i]
    <3>1. q[w][i].value <= n
      BY <1>6, <2>1 DEF InOnePlace
    <3>2. CASE j \in DOMAIN p[u] /\ q[u][j] = p[u][j]
      BY <1>6, <2>1, <3>1, <3>2 DEF InOnePlace
    <3>3. CASE u = v /\ j = k
      <4>1. ~Carries(q[w][i], x)
        BY <1>5, <2>1
      <4> QED BY <1>2, <1>6, <3>1, <3>3, <4>1 DEF Carries
    <3> QED BY <1>3, <3>2, <3>3
  <2>2. CASE w = v /\ i = k
    <3>1. q[w][i].value = x
      BY <1>2, <2>2
    <3>2. CASE j \in DOMAIN p[u] /\ q[u][j] = p[u][j]
      BY <1>5, <3>1, <3>2
    <3>3. CASE u = v /\ j = k
      BY <2>2, <3>1, <3>3
    <3> QED BY <1>3, <3>1, <3>2, <3>3
  <2> QED BY <1>3, <2>1, <2>2
<1>7. (\A i \in DOMAIN items : ~OnTheWay(q, items[i])) /\ \A z \in rcvd : ~OnTheWay(q, z[1])
  BY <1>4 DEF InOnePlace, IsFresh
<1> QED BY <1>6, <1>7 DEF InOnePlace, q

-----------------------------------------------------------------------------
(* Records taken off a queue.                                                *)

LEMMA LeastExists ==
  ASSUME NEW S \in SUBSET Nat, S # {}
  PROVE  \E m \in S : \A n \in S : m <= n
<1>1. PICK m \in S : \A n \in S : <<n, m>> \notin OpToRel(<, Nat)
  BY NatLessThanWellFounded, WFMin
<1>2. \A n \in S : m <= n
  <2> TAKE n \in S
  <2>1. ~(n < m)
    BY <1>1 DEF OpToRel
  <2> QED BY <2>1
<1> QED BY <1>2

LEMMA FirstFacts ==
  ASSUME NEW q \in Seq(Records), NEW i, i = FirstWithVM(q)
  PROVE  /\ i \in 0 .. Len(q) /\ Len(q) \in Nat /\ DOMAIN q = 1 .. Len(q)
         /\ i = 0 => \A j \in DOMAIN q : q[j].vm = None
         /\ i # 0 => i \in DOMAIN q /\ q[i].vm # None /\ \A j \in DOMAIN q : j < i => q[j].vm = None
<1> DEFINE reached == {j \in DOMAIN q : q[j].vm # None}
<1>1. Len(q) \in Nat /\ DOMAIN q = 1 .. Len(q)
  OBVIOUS
<1>2. CASE reached = {}
  BY <1>1, <1>2 DEF FirstWithVM
<1>3. CASE reached # {}
  <2>1. \E j \in reached : \A k \in reached : j <= k
    <3>1. reached \in SUBSET Nat
      BY <1>1
    <3> HIDE DEF reached
    <3> QED BY <1>3, <3>1, LeastExists
  <2>2. i = CHOOSE j \in reached : \A k \in reached : j <= k
    BY <1>3 DEF FirstWithVM
  <2>3. i \in reached /\ \A k \in reached : i <= k
    <3> HIDE DEF reached
    <3> QED BY <2>1, <2>2
  <2>4. i \in DOMAIN q /\ q[i].vm # None /\ i # 0
    BY <1>1, <2>3
  <2>5. ASSUME NEW j \in DOMAIN q, j < i PROVE q[j].vm = None
    BY <1>1, <2>3, <2>4, <2>5
  <2> QED BY <1>1, <2>4, <2>5
<1> QED BY <1>2, <1>3

LEMMA FromFacts ==
  ASSUME NEW q \in Seq(Records), NEW i \in 0 .. Len(q)
  PROVE  /\ From(q, i) \in Seq(Records) /\ Len(From(q, i)) \in Nat /\ Len(From(q, i)) <= Len(q)
         /\ From(q, i) # <<>> => q # <<>>
         /\ \A j \in DOMAIN From(q, i) : From(q, i)[j] \in Range(q)
         /\ i # 0 => \A j \in DOMAIN q : j > i => q[j] \in Range(From(q, i))
<1> DEFINE p == From(q, i)
           n == Len(q)
<1>1. n \in Nat /\ i \in Nat /\ i <= n /\ DOMAIN q = 1 .. n
  OBVIOUS
<1>2. CASE i = 0
  <2>1. p = <<>>
    BY <1>2 DEF From
  <2> HIDE DEF p
  <2>2. p \in Seq(Records) /\ Len(p) = 0 /\ DOMAIN p = {}
    BY <2>1
  <2> QED BY <1>1, <1>2, <2>1, <2>2 DEF p
<1>3. CASE i # 0
  <2>1. p = SubSeq(q, i + 1, n)
    BY <1>3 DEF From
  <2>2. p \in Seq(Records) /\ Len(p) = n - i /\ DOMAIN p = 1 .. n - i /\ \A j \in 1 .. n - i : p[j] = q[i + j]
    <3> DEFINE c == SubSeq(q, i + 1, n)
    <3>1. \A j \in i + 1 .. n : q[j] \in Records
      BY <1>1
    <3> HIDE DEF n, p
    <3>2. i + 1 \in Int /\ n \in Int
      BY <1>1
    <3>3. c \in Seq(Records) /\ Len(c) = (IF i + 1 <= n THEN n - (i + 1) + 1 ELSE 0)
          /\ \A j \in 1 .. n - (i + 1) + 1 : c[j] = q[(i + 1) + j - 1]
      BY <3>1, <3>2, SubSeqProperties
    <3> HIDE DEF c
    <3>4. n - (i + 1) + 1 = n - i /\ (~(i + 1 <= n) => n - i = 0)
      BY <1>1
    <3>5. Len(c) = n - i
      BY <3>3, <3>4
    <3>6. \A j \in 1 .. n - i : c[j] = q[i + j]
      <4> TAKE j \in 1 .. n - i
      <4>1. (i + 1) + j - 1 = i + j
        BY <1>1
      <4> QED BY <3>3, <3>4, <4>1
    <3>7. DOMAIN c = 1 .. n - i
      BY <3>3, <3>5
    <3>8. p = c
      BY <2>1 DEF c
    <3> QED BY <3>3, <3>5, <3>6, <3>7, <3>8
  <2> HIDE DEF n, p
  <2>3. \A j \in DOMAIN p : i + j \in DOMAIN q
    BY <1>1, <2>2
  <2>4. ASSUME NEW j \in DOMAIN q, j > i PROVE q[j] \in Range(p)
    <3>1. j - i \in DOMAIN p /\ i + (j - i) = j
      BY <1>1, <2>2, <2>4
    <3>2. p[j - i] = q[j]
      BY <2>2, <3>1
    <3> QED BY <3>1, <3>2 DEF Range
  <2>5. \A j \in DOMAIN p : p[j] \in Range(q)
    BY <2>2, <2>3 DEF Range
  <2>6. p # <<>> => q # <<>>
    BY <1>1, <2>2 DEF n
  <2> QED BY <1>1, <2>2, <2>4, <2>5, <2>6 DEF n, p
<1> QED BY <1>2, <1>3

-----------------------------------------------------------------------------
(* The events that closing sends.                                            *)

LEMMA SetInduction ==
  ASSUME NEW S, 0 \in S, \A n \in Nat : n \in S => n + 1 \in S
  PROVE  Nat \subseteq S
<1>1. SUFFICES ASSUME Nat \ S # {} PROVE FALSE
  OBVIOUS
<1>2. PICK m \in Nat \ S : \A n \in Nat \ S : m <= n
  BY <1>1, LeastExists
<1>3. m - 1 \in Nat /\ (m - 1) + 1 = m
  BY <1>2
<1> QED BY <1>2, <1>3
\* Every sequence of steps within S can be taken.
IsRun(g, S, n, a, F) == g \in [0 .. n -> S] /\ g[0] = a /\ \A i \in 1 .. n : g[i] = F[i][g[i - 1]]

LEMMA RunExists ==
  ASSUME NEW S, NEW n \in Nat, NEW a \in S, NEW F, F \in [1 .. n -> [S -> S]]
  PROVE  \E g : IsRun(g, S, n, a, F)
<1> DEFINE T == {k \in Nat : k <= n => \E g \in [0 .. k -> S] : g[0] = a /\ \A i \in 1 .. k : g[i] = F[i][g[i - 1]]}
<1>1. 0 \in T
  <2> DEFINE h == [i \in 0 .. 0 |-> a]
  <2>1. h \in [0 .. 0 -> S] /\ h[0] = a
    OBVIOUS
  <2> HIDE DEF h
  <2>2. 1 .. 0 = {}
    OBVIOUS
  <2>3. \E g \in [0 .. 0 -> S] : g[0] = a /\ \A i \in 1 .. 0 : g[i] = F[i][g[i - 1]]
    BY <2>1, <2>2
  <2> QED BY <2>3
<1>2. ASSUME NEW k \in Nat, k \in T, k + 1 <= n PROVE k + 1 \in T
  <2>1. PICK g \in [0 .. k -> S] : g[0] = a /\ \A i \in 1 .. k : g[i] = F[i][g[i - 1]]
    BY <1>2
  <2> DEFINE h == [i \in 0 .. k + 1 |-> IF i \in 0 .. k THEN g[i] ELSE F[k + 1][g[k]]]
  <2>2. F[k + 1][g[k]] \in S
    <3>1. k + 1 \in 1 .. n /\ g[k] \in S
      BY <1>2, <2>1
    <3> QED BY <3>1
  <2>3. h \in [0 .. k + 1 -> S]
    BY <2>1, <2>2
  <2>4. h[k + 1] = F[k + 1][g[k]] /\ \A i \in 0 .. k : h[i] = g[i]
    BY <1>2
  <2> HIDE DEF h
  <2>5. h[0] = a /\ \A i \in 1 .. k + 1 : h[i] = F[i][h[i - 1]]
    <3>1. ASSUME NEW i \in 1 .. k PROVE h[i] = F[i][h[i - 1]]
      <4>1. i - 1 \in 0 .. k /\ i \in 0 .. k
        BY <1>2
      <4> QED BY <2>1, <2>4, <4>1
    <3>2. h[k + 1] = F[k + 1][h[(k + 1) - 1]]
      BY <1>2, <2>4
    <3>3. 0 \in 0 .. k
      BY <1>2
    <3>4. h[0] = a
      BY <2>1, <2>4, <3>3
    <3>5. \A i \in 1 .. k + 1 : i \in 1 .. k \/ i = k + 1
      BY <1>2
    <3> QED BY <3>1, <3>2, <3>4, <3>5
  <2> QED BY <1>2, <2>3, <2>5
<1>3. \A k \in Nat : k \in T => k + 1 \in T
  <2>1. \A k \in Nat : ~(k + 1 <= n) => k + 1 \in T
    OBVIOUS
  <2> QED BY <1>2, <2>1
<1> HIDE DEF T
<1>4. n \in T
  BY <1>1, <1>3, SetInduction
<1> QED BY <1>4 DEF T, IsRun


TellsOf(rs, w, n, t) ==
  /\ \A j \in DOMAIN t : \E i \in 1 .. n : rs[i].vm = w /\ t[j] = Msg(rs[i], "close", 0)
  /\ \A i \in 1 .. n : rs[i].vm = w => \E j \in DOMAIN t : t[j] = Msg(rs[i], "close", 0)

LEMMA ToldFacts ==
  ASSUME NEW rs \in Seq(Records), NEW w \in VMs, NEW t, t = Told(rs, w)
  PROVE  t \in Seq(Messages) /\ TellsOf(rs, w, Len(rs), t)
<1> DEFINE n == Len(rs)
           S == Seq(Messages)
           After(i, u) == IF rs[i].vm = w THEN Append(u, Msg(rs[i], "close", 0)) ELSE u
           F == [i \in 1 .. n |-> [u \in S |-> After(i, u)]]
           told[i \in 0 .. n] == IF i = 0 THEN <<>>
                                 ELSE IF rs[i].vm = w THEN Append(told[i - 1], Msg(rs[i], "close", 0)) ELSE told[i - 1]
<1>1. n \in Nat /\ DOMAIN rs = 1 .. n /\ \A i \in 1 .. n : rs[i] \in Records
  OBVIOUS
<1>2. t = told[n]
  BY DEF Told
<1>3. \A i \in 1 .. n : Msg(rs[i], "close", 0) \in Messages
  BY <1>1 DEF Msg, Messages, Records
<1>4. \A i \in 1 .. n : \A u \in S : After(i, u) \in S
  BY <1>3
<1>5. told = [i \in 0 .. n |-> IF i = 0 THEN <<>>
                               ELSE IF rs[i].vm = w THEN Append(told[i - 1], Msg(rs[i], "close", 0)) ELSE told[i - 1]]
  <2>1. F \in [1 .. n -> [S -> S]]
    <3> HIDE DEF S, After
    <3> QED BY <1>4
  <2>2. <<>> \in S
    OBVIOUS
  <2> HIDE DEF S, F
  <2>3. PICK g : g \in [0 .. n -> S] /\ g[0] = <<>> /\ \A i \in 1 .. n : g[i] = F[i][g[i - 1]]
    <3>1. n \in Nat
      BY <1>1
    <3> HIDE DEF n, told
    <3>2. \E g : IsRun(g, S, n, <<>>, F)
      BY <2>1, <2>2, <3>1, RunExists
    <3> QED BY <3>2 DEF IsRun
  <2>4. \A i \in 1 .. n : g[i] = After(i, g[i - 1])
    <3> TAKE i \in 1 .. n
    <3>1. g[i - 1] \in S
      BY <1>1, <2>3
    <3> HIDE DEF After
    <3> QED BY <2>3, <3>1 DEF F
  <2>5. g = [i \in 0 .. n |-> IF i = 0 THEN <<>>
                              ELSE IF rs[i].vm = w THEN Append(g[i - 1], Msg(rs[i], "close", 0)) ELSE g[i - 1]]
    <3>1. \A i \in 0 .. n : i = 0 \/ i \in 1 .. n
      BY <1>1
    <3>2. \A i \in 1 .. n : i # 0
      BY <1>1
    <3> HIDE DEF n, S
    <3> QED BY <2>3, <2>4, <3>1, <3>2, Zenon
  <2> HIDE DEF n
  <2> QED BY <2>5
<1> HIDE DEF F, told
<1>6. told[0] = <<>> /\ \A i \in 1 .. n : told[i] = After(i, told[i - 1])
  <2>1. 0 \in 0 .. n /\ \A i \in 1 .. n : i # 0 /\ i \in 0 .. n
    BY <1>1
  <2> HIDE DEF n
  <2> QED BY <1>5, <2>1, Zenon
<1> HIDE DEF n
<1> HIDE DEF After, S
<1> DEFINE T == {i \in Nat : i <= n => told[i] \in S /\ TellsOf(rs, w, i, told[i])}
<1>7. 0 \in T
  <2>1. told[0] \in S /\ DOMAIN told[0] = {}
    BY <1>6 DEF S
  <2>2. 1 .. 0 = {}
    OBVIOUS
  <2> QED BY <2>1, <2>2 DEF TellsOf
<1>8. ASSUME NEW i \in Nat, i \in T, i + 1 <= n PROVE i + 1 \in T
  <2> DEFINE u == told[i]
             y == told[i + 1]
             m == Msg(rs[i + 1], "close", 0)
  <2>1. i + 1 \in 1 .. n /\ (i + 1) - 1 = i /\ i <= n /\ \A k \in 1 .. i + 1 : k \in 1 .. i \/ k = i + 1
    BY <1>1, <1>8
  <2>2. u \in S /\ TellsOf(rs, w, i, u)
    BY <1>8, <2>1
  <2>3. y = After(i + 1, u) /\ m \in Messages
    BY <1>3, <1>6, <2>1
  <2>4. \A k \in 1 .. i : k \in 1 .. i + 1
    BY <2>1
  <2> HIDE DEF u, y
  <2>5. CASE rs[i + 1].vm = w
    <3>1. y = Append(u, m)
      BY <2>3, <2>5 DEF After
    <3> HIDE DEF m
    <3>2. /\ y \in S /\ Len(u) \in Nat /\ DOMAIN u = 1 .. Len(u) /\ DOMAIN y = 1 .. Len(u) + 1
          /\ y[Len(u) + 1] = m /\ \A j \in 1 .. Len(u) : y[j] = u[j]
      <4>1. u \in Seq(Messages)
        BY <2>2 DEF S
      <4>2. /\ Append(u, m) \in Seq(Messages) /\ Len(Append(u, m)) = Len(u) + 1
            /\ Append(u, m)[Len(u) + 1] = m /\ \A j \in 1 .. Len(u) : Append(u, m)[j] = u[j]
        BY <2>3, <4>1, AppendProperties
      <4>3. Len(u) \in Nat /\ DOMAIN u = 1 .. Len(u)
        BY <4>1
      <4> QED BY <3>1, <4>2, <4>3 DEF S
    <3>3. \A j \in DOMAIN u : j \in DOMAIN y /\ y[j] = u[j]
      BY <3>2
    <3>4. Len(u) + 1 \in DOMAIN y /\ \A j \in DOMAIN y : j \in DOMAIN u \/ j = Len(u) + 1
      BY <3>2
    <3>5. i + 1 \in 1 .. i + 1
      BY <2>1
    <3>6. TellsOf(rs, w, i + 1, y)
      <4>1. \A j \in DOMAIN y : \E k \in 1 .. i + 1 : rs[k].vm = w /\ y[j] = Msg(rs[k], "close", 0)
        BY <2>2, <2>4, <2>5, <3>2, <3>3, <3>4, <3>5 DEF TellsOf, m
      <4>2. \A k \in 1 .. i + 1 : rs[k].vm = w => \E j \in DOMAIN y : y[j] = Msg(rs[k], "close", 0)
        BY <2>1, <2>2, <3>2, <3>3, <3>4 DEF TellsOf, m
      <4> QED BY <4>1, <4>2 DEF TellsOf
    <3> QED BY <2>1, <3>2, <3>6 DEF y
  <2>6. CASE rs[i + 1].vm # w
    <3>1. y = u
      BY <2>3, <2>6 DEF After
    <3>2. TellsOf(rs, w, i + 1, y)
      BY <2>1, <2>2, <2>4, <2>6, <3>1 DEF TellsOf
    <3> QED BY <2>1, <2>2, <3>1, <3>2 DEF y
  <2> QED BY <2>5, <2>6
<1>9. \A i \in Nat : i \in T => i + 1 \in T
  <2>1. \A i \in Nat : ~(i + 1 <= n) => i + 1 \in T
    OBVIOUS
  <2> QED BY <1>8, <2>1
<1> HIDE DEF T
<1>10. n \in T
  BY <1>1, <1>7, <1>9, SetInduction
<1> QED BY <1>1, <1>2, <1>10 DEF T, S, n

-----------------------------------------------------------------------------
(* Records and events, when fibers and VMs move on.                          *)

\* A step leaves a fiber alone, raises its number, or finds it not waiting.
FiberMoves ==
  \A g \in Fibers : \/ fiber'[g] = fiber[g]
                    \/ fiber'[g].id = fiber[g].id + 1
                    \/ fiber'[g].id = fiber[g].id /\ fiber[g].wait = "none"
NobodyDies == \A v \in VMs : vm'[v] = "dead" <=> vm[v] = "dead"

LEMMA FiberFacts ==
  ASSUME Assumptions, TypeOK, NEW g \in Fibers
  PROVE  fiber[g] \in FiberStates /\ fiber[g].id \in Nat /\ VmOf[g] \in VMs /\ VmOf[g] # None
BY DEF Assumptions, TypeOK, FiberStates

LEMMA RecordStays ==
  ASSUME Assumptions, TypeOK, FiberMoves, NobodyDies,
         NEW r \in Records, NEW wait \in {"read", "write"}, RecordOK(r, wait)
  PROVE  RecordOK(r, wait)'
<1> DEFINE g == r.fiber
<1>1. g \in Fibers /\ r.id \in Nat
  BY DEF Records
<1>2. fiber[g].id \in Nat /\ VmOf[g] \in VMs
  BY <1>1, FiberFacts
<1>3. /\ r.vm \in {VmOf[g], None} /\ (r.vm = None) <=> (vm'[VmOf[g]] = "dead")
  BY <1>2 DEF RecordOK, NobodyDies
<1>4. /\ r.id <= fiber[g].id /\ (r.id = fiber[g].id => fiber[g].wait = wait) /\ wait # "none"
  BY DEF RecordOK
<1>5. \/ fiber'[g] = fiber[g] \/ fiber'[g].id = fiber[g].id + 1
      \/ fiber'[g].id = fiber[g].id /\ fiber[g].wait = "none"
  BY <1>1 DEF FiberMoves
<1>6. r.id <= fiber'[g].id /\ (r.id = fiber'[g].id => fiber'[g].wait = wait)
  <2>1. CASE fiber'[g] = fiber[g]
    BY <1>4, <2>1
  <2>2. CASE fiber'[g].id = fiber[g].id + 1
    BY <1>1, <1>2, <1>4, <2>2
  <2>3. CASE fiber'[g].id = fiber[g].id /\ fiber[g].wait = "none"
    BY <1>4, <2>3
  <2> QED BY <1>5, <2>1, <2>2, <2>3
<1> QED BY <1>3, <1>6 DEF RecordOK

LEMMA EventStays ==
  ASSUME Assumptions, TypeOK, FiberMoves, NEW m \in Messages, EventOK(m)
  PROVE  EventOK(m)'
<1> DEFINE g == m.fiber
<1>1. g \in Fibers /\ m.id \in Nat
  BY DEF Messages
<1>2. fiber[g].id \in Nat
  BY <1>1, FiberFacts
<1>3. \/ fiber'[g] = fiber[g] \/ fiber'[g].id = fiber[g].id + 1
      \/ fiber'[g].id = fiber[g].id /\ fiber[g].wait = "none"
  BY <1>1 DEF FiberMoves
<1>4. CASE fiber'[g] = fiber[g]
  BY <1>4 DEF EventOK
<1>5. CASE fiber'[g].id = fiber[g].id + 1
  <2>1. m.id <= fiber'[g].id /\ m.id # fiber'[g].id
    BY <1>1, <1>2, <1>5 DEF EventOK
  <2> QED BY <2>1 DEF EventOK
<1>6. CASE fiber'[g].id = fiber[g].id /\ fiber[g].wait = "none"
  BY <1>6 DEF EventOK
<1> QED BY <1>3, <1>4, <1>5, <1>6

\* The event for a record that is live is of its fiber's wait.
LEMMA EventOfRecord ==
  ASSUME NEW r \in Records, NEW wait \in {"read", "write"}, RecordOK(r, wait), r.vm # None,
         NEW kind \in {wait, "close"}, NEW x
  PROVE  EventOK(Msg(r, kind, x)) /\ VmOf[r.fiber] = r.vm
BY DEF RecordOK, EventOK, Msg

LEMMA RecordsKept ==
  ASSUME Assumptions, TypeOK, RecordsAreOfWaits, FiberMoves, NobodyDies,
         \A f \in Fibers : Waiting(f)' <=> fiber'[f].wait # "none",
         \A i \in DOMAIN chan'.readers : chan'.readers[i] \in Range(chan.readers) \/ RecordOK(chan.readers[i], "read")',
         \A i \in DOMAIN chan'.writers : chan'.writers[i] \in Range(chan.writers) \/ RecordOK(chan.writers[i], "write")',
         \A v \in VMs : \A i \in DOMAIN pipe'[v] :
           \/ pipe'[v][i] \in Range(pipe[v])
           \/ pipe'[v][i] \in Messages /\ VmOf[pipe'[v][i].fiber] = v /\ EventOK(pipe'[v][i])
  PROVE  RecordsAreOfWaits'
<1>1. chan.readers \in Seq(Records) /\ chan.writers \in Seq(Records) /\ pipe \in Pipes
  BY DEF TypeOK, ChannelStates, Pipes
<1>2. ASSUME NEW r \in Range(chan.readers) PROVE RecordOK(r, "read")'
  <2>1. r \in Records /\ RecordOK(r, "read")
    BY <1>1, <1>2 DEF Range, RecordsAreOfWaits
  <2> QED BY <2>1, RecordStays
<1>3. ASSUME NEW r \in Range(chan.writers) PROVE RecordOK(r, "write")'
  <2>1. r \in Records /\ RecordOK(r, "write")
    BY <1>1, <1>3 DEF Range, RecordsAreOfWaits
  <2> QED BY <2>1, RecordStays
<1>4. ASSUME NEW v \in VMs, NEW i \in DOMAIN pipe'[v]
      PROVE  VmOf[pipe'[v][i].fiber] = v /\ EventOK(pipe[v][i])'
  <2>1. pipe'[v][i] \in Messages /\ VmOf[pipe'[v][i].fiber] = v /\ EventOK(pipe'[v][i])
    <3>1. CASE pipe'[v][i] \in Range(pipe[v])
      <4>1. pipe[v] \in Seq(Messages)
        BY <1>1 DEF Pipes
      <4>2. PICK j \in DOMAIN pipe[v] : pipe'[v][i] = pipe[v][j]
        BY <3>1 DEF Range
      <4>3. pipe[v][j] \in Messages /\ VmOf[pipe[v][j].fiber] = v /\ EventOK(pipe[v][j])
        BY <4>1 DEF RecordsAreOfWaits
      <4> QED BY <4>2, <4>3
    <3> QED BY <1>4, <3>1
  <2>2. PICK m \in Messages : m = pipe'[v][i]
    BY <2>1
  <2>3. EventOK(m)'
    BY <2>1, <2>2, EventStays
  <2> QED BY <2>1, <2>2, <2>3 DEF EventOK
<1>5. \A i \in DOMAIN chan'.readers : RecordOK(chan.readers[i], "read")'
  BY <1>2
<1>6. \A i \in DOMAIN chan'.writers : RecordOK(chan.writers[i], "write")'
  BY <1>3
<1> QED BY <1>4, <1>5, <1>6 DEF RecordsAreOfWaits

LEMMA WritersKept ==
  ASSUME Assumptions, TypeOK, WritersAreKnown, AllLoop' => AllLoop,
         \A f \in Fibers : fiber'[f].wait = "write" =>
           fiber'[f] = fiber[f] \/ \E i \in DOMAIN chan'.writers : chan'.writers[i] = Record(f)',
         \A i \in DOMAIN chan.writers : LET r == chan.writers[i] IN
           \/ r \in Range(chan'.writers) \/ fiber'[r.fiber] # fiber[r.fiber]
           \/ r.id # fiber[r.fiber].id \/ r.vm # VmOf[r.fiber]
           \/ \E j \in DOMAIN pipe'[r.vm] : pipe'[r.vm][j].fiber = r.fiber /\ pipe'[r.vm][j].id = r.id,
         \A v \in VMs : \A i \in DOMAIN pipe[v] : LET m == pipe[v][i] IN
           \/ m \in Range(pipe'[v]) \/ fiber'[m.fiber] # fiber[m.fiber] \/ m.id # fiber[m.fiber].id
  PROVE  WritersAreKnown'
<1> SUFFICES ASSUME AllLoop', NEW f \in Fibers, fiber'[f].wait = "write"
             PROVE  \/ \E i \in DOMAIN chan'.writers : chan'.writers[i] = Record(f)'
                    \/ \E i \in DOMAIN pipe'[VmOf[f]] : pipe'[VmOf[f]][i].fiber = f /\ pipe'[VmOf[f]][i].id = fiber'[f].id
  BY DEF WritersAreKnown
<1>1. CASE \E i \in DOMAIN chan'.writers : chan'.writers[i] = Record(f)'
  BY <1>1
<1>2. CASE fiber'[f] = fiber[f]
  <2>0. VmOf[f] \in VMs
    BY FiberFacts
  <2>1. CASE \E i \in DOMAIN chan.writers : chan.writers[i] = Record(f)
    <3>1. PICK i \in DOMAIN chan.writers : chan.writers[i] = Record(f)
      BY <2>1
    <3>2. Record(f)' = Record(f) /\ Record(f).fiber = f /\ Record(f).id = fiber[f].id /\ Record(f).vm = VmOf[f]
      BY <1>2 DEF Record
    <3>3. \/ Record(f) \in Range(chan'.writers)
          \/ \E j \in DOMAIN pipe'[VmOf[f]] : pipe'[VmOf[f]][j].fiber = f /\ pipe'[VmOf[f]][j].id = fiber[f].id
      BY <1>2, <3>1, <3>2
    <3> QED BY <1>2, <3>2, <3>3 DEF Range
  <2>2. CASE \E i \in DOMAIN pipe[VmOf[f]] : pipe[VmOf[f]][i].fiber = f /\ pipe[VmOf[f]][i].id = fiber[f].id
    <3>1. PICK i \in DOMAIN pipe[VmOf[f]] : pipe[VmOf[f]][i].fiber = f /\ pipe[VmOf[f]][i].id = fiber[f].id
      BY <2>2
    <3>2. pipe[VmOf[f]][i] \in Range(pipe'[VmOf[f]])
      BY <1>2, <2>0, <3>1
    <3> QED BY <1>2, <3>1, <3>2 DEF Range
  <2> QED BY <1>2, <2>1, <2>2 DEF WritersAreKnown
<1> QED BY <1>1, <1>2

-----------------------------------------------------------------------------
(* The number of fibers that wait.                                           *)

LEMMA WaitingIsFinite ==
  ASSUME Assumptions, NEW v
  PROVE  IsFiniteSet(WaitingOf(v)) /\ Cardinality(WaitingOf(v)) \in Nat
<1>1. WaitingOf(v) \in SUBSET Fibers
  BY DEF WaitingOf
<1>2. IsFiniteSet(WaitingOf(v))
  BY <1>1, FS_Subset DEF Assumptions
<1> QED BY <1>2, FS_CardinalityType

LEMMA SameWait ==
  ASSUME \A g \in Fibers : fiber'[g].status = "waiting" <=> fiber[g].status = "waiting"
  PROVE  \A v \in VMs : WaitingOf(v)' = WaitingOf(v)
BY DEF WaitingOf, Waiting

LEMMA OneMoreWaits ==
  ASSUME Assumptions, TypeOK, NEW f \in Fibers, ~Waiting(f), Waiting(f)', \A g \in Fibers : g # f => fiber'[g] = fiber[g]
  PROVE  /\ Cardinality(WaitingOf(VmOf[f]))' = Cardinality(WaitingOf(VmOf[f])) + 1
         /\ \A v \in VMs : v # VmOf[f] => WaitingOf(v)' = WaitingOf(v)
<1>1. WaitingOf(VmOf[f])' = WaitingOf(VmOf[f]) \cup {f} /\ f \notin WaitingOf(VmOf[f])
  BY DEF WaitingOf, Waiting
<1>2. Cardinality(WaitingOf(VmOf[f]) \cup {f}) = Cardinality(WaitingOf(VmOf[f])) + 1
  BY <1>1, WaitingIsFinite, FS_AddElement
<1>3. \A v \in VMs : v # VmOf[f] => WaitingOf(v)' = WaitingOf(v)
  BY DEF WaitingOf, Waiting
<1> QED BY <1>1, <1>2, <1>3

LEMMA OneLessWaits ==
  ASSUME Assumptions, TypeOK, NEW f \in Fibers, Waiting(f), ~Waiting(f)', \A g \in Fibers : g # f => fiber'[g] = fiber[g]
  PROVE  /\ Cardinality(WaitingOf(VmOf[f]))' = Cardinality(WaitingOf(VmOf[f])) - 1
         /\ Cardinality(WaitingOf(VmOf[f])) > 0
         /\ \A v \in VMs : v # VmOf[f] => WaitingOf(v)' = WaitingOf(v)
<1>1. WaitingOf(VmOf[f])' = WaitingOf(VmOf[f]) \ {f} /\ f \in WaitingOf(VmOf[f])
  BY DEF WaitingOf, Waiting
<1>2. Cardinality(WaitingOf(VmOf[f]) \ {f}) = Cardinality(WaitingOf(VmOf[f])) - 1
  BY <1>1, WaitingIsFinite, FS_RemoveElement
<1>3. \A v \in VMs : v # VmOf[f] => WaitingOf(v)' = WaitingOf(v)
  BY DEF WaitingOf, Waiting
<1>4. Cardinality(WaitingOf(VmOf[f])) \in Nat /\ Cardinality(WaitingOf(VmOf[f])) # 0
  BY <1>1, WaitingIsFinite, FS_EmptySet
<1> QED BY <1>1, <1>2, <1>3, <1>4

LEMMA SomeLessWait ==
  ASSUME Assumptions, TypeOK, NEW v \in VMs, NEW woken, woken \subseteq WaitingOf(v),
         \A g \in Fibers : IF g \in woken THEN ~Waiting(g)' ELSE fiber'[g] = fiber[g]
  PROVE  /\ Cardinality(WaitingOf(v))' = Cardinality(WaitingOf(v)) - Cardinality(woken)
         /\ Cardinality(woken) \in Nat /\ Cardinality(woken) <= Cardinality(WaitingOf(v))
         /\ \A w \in VMs : w # v => WaitingOf(w)' = WaitingOf(w)
<1>1. WaitingOf(v)' = WaitingOf(v) \ woken /\ WaitingOf(v) \cap woken = woken
  BY DEF WaitingOf, Waiting
<1>2. Cardinality(WaitingOf(v) \ woken) = Cardinality(WaitingOf(v)) - Cardinality(woken)
  BY <1>1, WaitingIsFinite, FS_Difference
<1>3. \A w \in VMs : w # v => WaitingOf(w)' = WaitingOf(w)
  BY DEF WaitingOf, Waiting
<1>4. IsFiniteSet(woken) /\ Cardinality(woken) <= Cardinality(WaitingOf(v))
  BY WaitingIsFinite, FS_Subset
<1>5. Cardinality(woken) \in Nat
  BY <1>4, FS_CardinalityType
<1> QED BY <1>1, <1>2, <1>3, <1>4, <1>5

-----------------------------------------------------------------------------
(* One lemma for each action.                                                *)

LEMMA InitHolds == ASSUME Assumptions, Init PROVE IInv
<1>1. TypeOK
  <2>1. chan \in ChannelStates /\ chan.items = <<>> /\ chan.readers = <<>> /\ chan.writers = <<>>
    BY DEF Init, ChannelStates
  <2>2. \A f \in Fibers : fiber[f] \in FiberStates /\ fiber[f] = [status |-> "ready", id |-> 0, wait |-> "none"]
    BY DEF Init, FiberStates
  <2>3. fiber \in [Fibers -> FiberStates]
    BY <2>2 DEF Init
  <2>4. pipe \in [VMs -> Seq(Messages)] /\ listeners \in [VMs -> Nat] /\ vm \in [VMs -> {"looping", "done", "dead"}]
    BY DEF Init
  <2> QED BY <2>1, <2>3, <2>4 DEF Init, TypeOK
<1>2. ListenersCounted
  <2> SUFFICES ASSUME NEW v \in VMs PROVE listeners[v] = Len(pipe[v]) + Cardinality(WaitingOf(v))
    BY DEF ListenersCounted
  <2>1. WaitingOf(v) = {}
    BY DEF Init, WaitingOf, Waiting
  <2>2. listeners[v] = 0 /\ pipe[v] = <<>>
    BY DEF Init
  <2> QED BY <2>1, <2>2, FS_EmptySet
<1>3. RecordsAreOfWaits /\ QueuesMatch
  BY DEF Init, RecordsAreOfWaits, QueuesMatch, Waiting
<1>4. WritersAreKnown
  BY DEF Init, WritersAreKnown
<1>5. InOnePlace(chan.items, pipe, received, calls)
  BY DEF Init, InOnePlace
<1> QED BY <1>1, <1>2, <1>3, <1>4, <1>5 DEF IInv

LEMMA CallFacts ==
  ASSUME Assumptions, IInv, NEW f \in Fibers, Call(f)
  PROVE  /\ TypeOK /\ VmOf[f] \in VMs /\ vm[VmOf[f]] = "looping" /\ ~Waiting(f) /\ fiber[f].wait = "none"
         /\ fiber[f] \in FiberStates /\ calls \in Nat /\ calls' = calls + 1
         /\ chan.items \in Seq(Nat) /\ chan.readers \in Seq(Records) /\ chan.writers \in Seq(Records)
         /\ IsFresh(chan.items, pipe, received, calls + 1) /\ InOnePlace(chan.items, pipe, received, calls + 1)
<1>1. /\ TypeOK /\ VmOf[f] \in VMs /\ fiber[f] \in FiberStates
      /\ vm[VmOf[f]] = "looping" /\ ~Waiting(f) /\ calls \in Nat /\ calls' = calls + 1
  BY FiberFacts DEF Call, Runs, Waiting, IInv, TypeOK
<1>2. fiber[f].wait = "none"
  BY <1>1 DEF IInv, RecordsAreOfWaits
<1>3. /\ chan.items \in Seq(Nat) /\ chan.readers \in Seq(Records) /\ chan.writers \in Seq(Records)
      /\ pipe \in Pipes /\ \A p \in received : p[1] \in Nat
  BY <1>1 DEF TypeOK, ChannelStates, Pipes
<1>4. InOnePlace(chan.items, pipe, received, calls)
  BY DEF IInv
<1>5. IsFresh(chan.items, pipe, received, calls + 1) /\ InOnePlace(chan.items, pipe, received, calls + 1)
  BY <1>1, <1>3, <1>4, NextIsFresh
<1> QED BY <1>1, <1>2, <1>3, <1>5

\* The events in q are those in p, and possibly ones that are right.
NoBadEvents(p, q) ==
  \A v \in VMs : \A i \in DOMAIN q[v] :
    \/ q[v][i] \in Range(p[v])
    \/ q[v][i] \in Messages /\ VmOf[q[v][i].fiber] = v /\ EventOK(q[v][i])
AllKept(p, q) == \A v \in VMs : \A i \in DOMAIN p[v] : p[v][i] \in Range(q[v])
IsTold(p, r) == \E j \in DOMAIN p[r.vm] : p[r.vm][j].fiber = r.fiber /\ p[r.vm][j].id = r.id
SameBalance(p, l, q, k) == \A v \in VMs : k[v] - Len(q[v]) = l[v] - Len(p[v])

LEMMA PostKeeps ==
  ASSUME Assumptions, NEW p \in Pipes, NEW l \in [VMs -> Nat],
         NEW wait \in {"read", "write"}, NEW r \in Records, RecordOK(r, wait), r.vm # None, NEW x \in Nat,
         NEW q, q = Posted(p, r, wait, x), NEW k, k = Counted(l, r)
  PROVE  /\ q \in Pipes /\ k \in [VMs -> Nat] /\ SameBalance(p, l, q, k)
         /\ NoBadEvents(p, q) /\ AllKept(p, q) /\ IsTold(q, r)
         /\ \A items, rcvd, n : InOnePlace(items, p, rcvd, n) /\ x <= n /\ (wait = "read" => IsFresh(items, p, rcvd, x))
                                  => InOnePlace(items, q, rcvd, n)
<1> DEFINE v == r.vm
           m == Msg(r, wait, x)
           z == Len(p[v]) + 1
<1>1. v \in VMs /\ r.fiber \in Fibers
  BY DEF Records
<1>2. wait \in {"read", "write", "close"}
  OBVIOUS
<1>3. /\ q \in Pipes /\ Len(q[v]) = z /\ q[v][z] = m
      /\ \A w \in VMs : DOMAIN p[w] = 1 .. Len(p[w]) /\ DOMAIN q[w] = 1 .. Len(q[w]) /\ Len(p[w]) \in Nat
      /\ \A i \in 1 .. Len(p[v]) : q[v][i] = p[v][i]
      /\ \A w \in VMs : w # v => q[w] = p[w]
  <2>1. r.vm \in VMs
    BY <1>1
  <2> HIDE DEF v, m, z
  <2>2. /\ q \in Pipes
        /\ Len(q[r.vm]) = Len(p[r.vm]) + 1 /\ q[r.vm][Len(p[r.vm]) + 1] = Msg(r, wait, x)
        /\ \A w \in VMs : DOMAIN p[w] = 1 .. Len(p[w]) /\ DOMAIN q[w] = 1 .. Len(q[w]) /\ Len(p[w]) \in Nat
        /\ \A i \in 1 .. Len(p[r.vm]) : q[r.vm][i] = p[r.vm][i]
        /\ \A w \in VMs : w # r.vm => q[w] = p[w]
    <3>1. CASE wait = "read"
      <4>1. q = Posted(p, r, "read", x) /\ "read" \in {"read", "write", "close"}
        BY <3>1
      <4> QED BY <2>1, <3>1, <4>1, PostedShape
    <3>2. CASE wait = "write"
      <4>1. q = Posted(p, r, "write", x) /\ "write" \in {"read", "write", "close"}
        BY <3>2
      <4> QED BY <2>1, <3>2, <4>1, PostedShape
    <3> QED BY <3>1, <3>2
  <2> QED BY <2>2 DEF v, m, z
<1>4. k \in [VMs -> Nat] /\ k[v] = l[v] + 1 /\ \A w \in VMs : w # v => k[w] = l[w]
  BY <1>1 DEF Counted
<1>5. \A w \in VMs : \A i \in DOMAIN q[w] : (w = v /\ i = z) \/ (i \in DOMAIN p[w] /\ q[w][i] = p[w][i])
  <2> SUFFICES ASSUME NEW w \in VMs, NEW i \in DOMAIN q[w]
               PROVE  (w = v /\ i = z) \/ (i \in DOMAIN p[w] /\ q[w][i] = p[w][i])
    OBVIOUS
  <2>1. CASE w # v
    BY <1>3, <2>1
  <2>2. CASE w = v
    <3>1. i \in 1 .. z /\ Len(p[v]) \in Nat /\ DOMAIN p[v] = 1 .. Len(p[v])
      BY <1>1, <1>3, <2>2
    <3>2. i = z \/ i \in 1 .. Len(p[v])
      BY <3>1
    <3> HIDE DEF v, z
    <3>3. i \in 1 .. Len(p[v]) => q[v][i] = p[v][i]
      BY <1>3
    <3> QED BY <2>2, <3>1, <3>2, <3>3
  <2> QED BY <2>1, <2>2
<1>6. \A w \in VMs : \A i \in DOMAIN p[w] : i \in DOMAIN q[w] /\ q[w][i] = p[w][i]
  <2> SUFFICES ASSUME NEW w \in VMs, NEW i \in DOMAIN p[w] PROVE i \in DOMAIN q[w] /\ q[w][i] = p[w][i]
    OBVIOUS
  <2>1. CASE w # v
    BY <1>3, <2>1
  <2>2. CASE w = v
    <3>1. i \in 1 .. Len(p[v]) /\ Len(p[v]) \in Nat /\ DOMAIN q[v] = 1 .. z
      BY <1>1, <1>3, <2>2
    <3>2. i \in 1 .. z
      BY <3>1
    <3> HIDE DEF v, z
    <3> QED BY <1>3, <2>2, <3>1, <3>2
  <2> QED BY <2>1, <2>2
<1>7. m \in Messages /\ VmOf[m.fiber] = v /\ EventOK(m) /\ m.fiber = r.fiber /\ m.id = r.id /\ m.mode = wait
  BY EventOfRecord DEF Msg, Messages, Records
<1>8. z \in DOMAIN q[v]
  BY <1>1, <1>3
<1>9. SameBalance(p, l, q, k)
  <2> SUFFICES ASSUME NEW w \in VMs PROVE k[w] - Len(q[w]) = l[w] - Len(p[w])
    BY DEF SameBalance
  <2>1. l[w] \in Nat /\ Len(p[w]) \in Nat
    BY <1>3
  <2>2. CASE w = v
    <3>1. k[v] = l[v] + 1 /\ Len(q[v]) = Len(p[v]) + 1
      BY <1>3, <1>4
    <3> QED BY <2>1, <2>2, <3>1
  <2>3. CASE w # v
    BY <1>3, <1>4, <2>3
  <2> QED BY <2>2, <2>3
<1> HIDE DEF m, z
<1>10. NoBadEvents(p, q) /\ AllKept(p, q)
  BY <1>3, <1>5, <1>6, <1>7 DEF NoBadEvents, AllKept, Range
<1>11. IsTold(q, r)
  BY <1>3, <1>7, <1>8 DEF IsTold
<1>12. ASSUME NEW items, NEW rcvd, NEW n, InOnePlace(items, p, rcvd, n), x <= n,
              wait = "read" => IsFresh(items, p, rcvd, x)
       PROVE  InOnePlace(items, q, rcvd, n)
  <2>1. CASE wait = "read"
    BY <1>1, <1>12, <2>1, ValuePosted
  <2>2. CASE wait = "write"
    <3> DEFINE d == [w \in VMs |-> 0]
    <3>1. d \in [VMs -> Nat] /\ \A w \in VMs : d[w] = 0
      OBVIOUS
    <3> HIDE DEF d
    <3>2. \A w \in VMs : \A i \in DOMAIN q[w] : q[w][i].mode = "read" => i + d[w] \in DOMAIN p[w] /\ q[w][i] = p[w][i + d[w]]
      <4> SUFFICES ASSUME NEW w \in VMs, NEW i \in DOMAIN q[w], q[w][i].mode = "read"
                   PROVE  i + d[w] \in DOMAIN p[w] /\ q[w][i] = p[w][i + d[w]]
        OBVIOUS
      <4>1. i \in DOMAIN p[w] /\ q[w][i] = p[w][i]
        BY <1>3, <1>5, <1>7, <2>2
      <4>2. i + d[w] = i
        BY <1>3, <3>1
      <4> QED BY <4>1, <4>2
    <3>3. \A w \in VMs : DOMAIN p[w] \subseteq Nat /\ DOMAIN q[w] \subseteq Nat
      BY <1>3
    <3> QED BY <1>12, <3>1, <3>2, <3>3, NoNewReads DEF ReadsMovedUp
  <2> QED BY <2>1, <2>2
<1> QED BY <1>3, <1>4, <1>9, <1>10, <1>11, <1>12

LEMMA TellKeeps ==
  ASSUME Assumptions, TypeOK, NEW wait \in {"read", "write"}, NEW r \in Records, RecordOK(r, wait),
         NEW x \in Nat, Tell(r, wait, x)
  PROVE  /\ pipe' \in Pipes /\ listeners' \in [VMs -> Nat] /\ SameBalance(pipe, listeners, pipe', listeners')
         /\ NoBadEvents(pipe, pipe') /\ AllKept(pipe, pipe') /\ (r.vm # None => IsTold(pipe', r))
         /\ \A items, rcvd, n : InOnePlace(items, pipe, rcvd, n) /\ x <= n /\ (wait = "read" => IsFresh(items, pipe, rcvd, x))
                                  => InOnePlace(items, pipe', rcvd, n)
<1>0. pipe \in Pipes /\ listeners \in [VMs -> Nat]
  BY DEF TypeOK, Pipes
<1>1. CASE r.vm = None
  <2>1. pipe' = pipe /\ listeners' = listeners
    BY <1>1 DEF Tell
  <2> QED BY <1>0, <1>1, <2>1 DEF SameBalance, NoBadEvents, AllKept, Range
<1>2. CASE r.vm # None
  <2>1. pipe' = Posted(pipe, r, wait, x) /\ listeners' = Counted(listeners, r)
    BY <1>2 DEF Tell
  <2> QED BY <1>0, <1>2, <2>1, PostKeeps
<1> QED BY <1>1, <1>2

\* What keeps the count when as many wait as before.
LEMMA CountKept ==
  ASSUME Assumptions, TypeOK, ListenersCounted, \A v \in VMs : vm'[v] = "looping" => vm[v] = "looping",
         \A g \in Fibers : fiber'[g].status = "waiting" <=> fiber[g].status = "waiting",
         pipe' \in Pipes, listeners' \in [VMs -> Nat],
         SameBalance(pipe, listeners, pipe', listeners')
  PROVE  ListenersCounted'
<1> SUFFICES ASSUME NEW v \in VMs, vm'[v] = "looping"
             PROVE  listeners'[v] = Len(pipe'[v]) + Cardinality(WaitingOf(v))'
  BY DEF ListenersCounted
<1>1. listeners[v] = Len(pipe[v]) + Cardinality(WaitingOf(v))
  BY DEF ListenersCounted
<1>2. WaitingOf(v)' = WaitingOf(v)
  BY SameWait
<1>3. Cardinality(WaitingOf(v)) \in Nat
  BY WaitingIsFinite
<1>4. Len(pipe[v]) \in Nat /\ Len(pipe'[v]) \in Nat /\ listeners'[v] \in Nat /\ listeners[v] \in Nat
  BY DEF TypeOK, Pipes
<1>5. listeners'[v] - Len(pipe'[v]) = listeners[v] - Len(pipe[v])
  BY DEF SameBalance
<1> QED BY <1>1, <1>2, <1>3, <1>4, <1>5

\* The head of a queue, and what is left of it.
LEMMA QueueHead ==
  ASSUME NEW q \in Seq(Records), q # <<>>
  PROVE  /\ 1 \in DOMAIN q /\ Head(q) = q[1] /\ Head(q) \in Records /\ Len(q) \in Nat /\ Len(q) > 0 /\ DOMAIN q = 1 .. Len(q)
         /\ Tail(q) \in Seq(Records) /\ Len(Tail(q)) = Len(q) - 1
         /\ \A i \in DOMAIN Tail(q) : Tail(q)[i] \in Range(q)
         /\ \A i \in DOMAIN q : q[i] = Head(q) \/ q[i] \in Range(Tail(q))
<1> DEFINE n == Len(q)
           t == Tail(q)
<1>1. n \in Nat /\ n > 0 /\ DOMAIN q = 1 .. n /\ Head(q) = q[1] /\ q[1] \in Records
  OBVIOUS
<1>2. t \in Seq(Records) /\ Len(t) = n - 1 /\ DOMAIN t = 1 .. n - 1 /\ \A i \in 1 .. n - 1 : t[i] = q[i + 1]
  BY HeadTailProperties
<1> HIDE DEF n, t
<1>3. \A i \in DOMAIN t : t[i] \in Range(q)
  <2> TAKE i \in DOMAIN t
  <2>1. i + 1 \in DOMAIN q /\ t[i] = q[i + 1]
    BY <1>1, <1>2
  <2> QED BY <2>1 DEF Range
<1>4. ASSUME NEW i \in DOMAIN q, i # 1 PROVE q[i] \in Range(t)
  <2>1. i - 1 \in DOMAIN t /\ (i - 1) + 1 = i
    BY <1>1, <1>2, <1>4
  <2>2. t[i - 1] = q[i]
    BY <1>2, <2>1
  <2> QED BY <2>1, <2>2 DEF Range
<1> QED BY <1>1, <1>2, <1>3, <1>4 DEF n, t

LEMMA RecordAppended ==
  ASSUME NEW q \in Seq(Records), NEW r \in Records
  PROVE  /\ Append(q, r) \in Seq(Records) /\ Len(q) \in Nat /\ Len(Append(q, r)) = Len(q) + 1
         /\ \A i \in DOMAIN Append(q, r) : Append(q, r)[i] \in Range(q) \/ Append(q, r)[i] = r
         /\ \A i \in DOMAIN q : q[i] \in Range(Append(q, r))
         /\ \E i \in DOMAIN Append(q, r) : Append(q, r)[i] = r
<1> DEFINE p == Append(q, r)
           n == Len(q)
<1>1. /\ p \in Seq(Records) /\ n \in Nat /\ Len(p) = n + 1 /\ DOMAIN q = 1 .. n /\ DOMAIN p = 1 .. n + 1
      /\ p[n + 1] = r /\ \A i \in 1 .. n : p[i] = q[i]
  BY AppendProperties
<1> HIDE DEF p, n
<1>2. n + 1 \in DOMAIN p /\ (\A i \in DOMAIN p : i \in DOMAIN q \/ i = n + 1) /\ (\A i \in DOMAIN q : i \in DOMAIN p)
  BY <1>1
<1> QED BY <1>1, <1>2 DEF Range, p, n

\* A fiber that goes to sleep: what becomes of records, events and the count.
LEMMA SuspendKeeps ==
  ASSUME Assumptions, IInv, NEW f \in Fibers, ~Waiting(f), fiber[f].wait = "none", vm[VmOf[f]] = "looping",
         NEW wait \in {"read", "write"}, Suspend(f, wait), UNCHANGED <<pipe, vm>>
  PROVE  /\ FiberMoves /\ NobodyDies /\ ListenersCounted'
         /\ \A g \in Fibers : Waiting(g)' <=> fiber'[g].wait # "none"
         /\ fiber' \in [Fibers -> FiberStates] /\ listeners' \in [VMs -> Nat]
         /\ Record(f)' = Record(f) /\ Record(f) \in Records /\ RecordOK(Record(f), wait)'
         /\ fiber'[f].wait = wait /\ \A g \in Fibers : g # f => fiber'[g] = fiber[g]
<1> DEFINE v == VmOf[f]
           x == Asleep(fiber[f], wait)
<1>1. TypeOK /\ v \in VMs /\ fiber[f] \in FiberStates /\ fiber[f].id \in Nat /\ v # None
  BY FiberFacts DEF IInv
<1>2. x \in FiberStates /\ x.id = fiber[f].id /\ x.status = "waiting" /\ x.wait = wait
  BY <1>1 DEF Asleep, FiberStates
<1>3. fiber' = [fiber EXCEPT ![f] = x] /\ listeners' = [listeners EXCEPT ![v] = @ + 1]
  BY DEF Suspend
<1> HIDE DEF x
<1>4. fiber' \in [Fibers -> FiberStates] /\ fiber'[f] = x /\ \A g \in Fibers : g # f => fiber'[g] = fiber[g]
  BY <1>1, <1>2, <1>3 DEF TypeOK
<1>5. listeners' \in [VMs -> Nat] /\ listeners'[v] = listeners[v] + 1 /\ \A w \in VMs : w # v => listeners'[w] = listeners[w]
  BY <1>1, <1>3 DEF TypeOK
<1>6. FiberMoves
  BY <1>2, <1>4 DEF FiberMoves
<1>7. \A g \in Fibers : Waiting(g)' <=> fiber'[g].wait # "none"
  <2>1. \A g \in Fibers : g # f => (Waiting(g)' <=> fiber'[g].wait # "none")
    BY <1>4 DEF Waiting, IInv, RecordsAreOfWaits
  <2>2. Waiting(f)' /\ fiber'[f].wait # "none"
    BY <1>2, <1>4 DEF Waiting
  <2> QED BY <2>1, <2>2
<1>8. ListenersCounted'
  <2> SUFFICES ASSUME NEW w \in VMs, vm'[w] = "looping"
               PROVE  listeners'[w] = Len(pipe'[w]) + Cardinality(WaitingOf(w))'
    BY DEF ListenersCounted
  <2>1. listeners[w] = Len(pipe[w]) + Cardinality(WaitingOf(w)) /\ Len(pipe[w]) \in Nat /\ Cardinality(WaitingOf(w)) \in Nat
    BY <1>1, WaitingIsFinite DEF ListenersCounted, TypeOK, IInv
  <2>2. /\ Cardinality(WaitingOf(v))' = Cardinality(WaitingOf(v)) + 1
        /\ \A u \in VMs : u # v => WaitingOf(u)' = WaitingOf(u)
    <3>1. Waiting(f)'
      BY <1>2, <1>4 DEF Waiting
    <3> QED BY <1>1, <1>4, <3>1, OneMoreWaits
  <2>3. CASE w = v
    <3>1. \A i, j, k \in Nat : i = j + k => i + 1 = j + (k + 1)
      OBVIOUS
    <3>2. listeners[w] \in Nat
      BY <1>1 DEF TypeOK
    <3>3. listeners[w] + 1 = Len(pipe[w]) + (Cardinality(WaitingOf(w)) + 1)
      BY <2>1, <3>1, <3>2
    <3>4. /\ listeners'[w] = listeners[w] + 1 /\ pipe'[w] = pipe[w]
          /\ Cardinality(WaitingOf(w))' = Cardinality(WaitingOf(w)) + 1
      BY <1>5, <2>2, <2>3
    <3> QED BY <3>3, <3>4
  <2>4. CASE w # v
    <3>1. WaitingOf(w)' = WaitingOf(w) /\ listeners'[w] = listeners[w]
      BY <1>5, <2>2, <2>4
    <3> QED BY <2>1, <3>1
  <2> QED BY <2>3, <2>4
<1>9. Record(f)' = Record(f) /\ Record(f) \in Records
  BY <1>1, <1>2, <1>4 DEF Record, Records
<1>10. RecordOK(Record(f), wait)'
  <2>1. vm'[v] # "dead"
    OBVIOUS
  <2> QED BY <1>1, <1>2, <1>4, <2>1 DEF Record, RecordOK
<1>11. NobodyDies
  BY DEF NobodyDies
<1> QED BY <1>2, <1>4, <1>5, <1>6, <1>7, <1>8, <1>9, <1>10, <1>11

\* What remains to be shown of a step that wakes nobody and puts nobody to sleep.
LEMMA FibersStay ==
  ASSUME Assumptions, IInv, fiber' = fiber, vm' = vm
  PROVE  /\ FiberMoves /\ NobodyDies /\ TypeOK /\ (AllLoop' => AllLoop)
         /\ \A g \in Fibers : Waiting(g)' <=> fiber'[g].wait # "none"
         /\ \A g \in Fibers : fiber'[g].status = "waiting" <=> fiber[g].status = "waiting"
BY DEF FiberMoves, NobodyDies, AllLoop, Waiting, IInv, RecordsAreOfWaits

LEMMA GiveKeeps == ASSUME Assumptions, IInv, NEW f \in Fibers, Give(f) PROVE IInv'
<1> DEFINE x == calls + 1
<1>1. /\ TypeOK /\ VmOf[f] \in VMs /\ vm[VmOf[f]] = "looping" /\ ~Waiting(f) /\ fiber[f].wait = "none"
      /\ x \in Nat /\ calls' = x
      /\ chan.items \in Seq(Nat) /\ chan.readers \in Seq(Records) /\ chan.writers \in Seq(Records)
      /\ IsFresh(chan.items, pipe, received, x) /\ InOnePlace(chan.items, pipe, received, x)
  BY CallFacts DEF Give
<1>2. /\ chan \in ChannelStates /\ pipe \in Pipes /\ vm' = vm /\ received' = received
      /\ RecordsAreOfWaits /\ QueuesMatch /\ WritersAreKnown /\ ListenersCounted
      /\ vm \in [VMs -> {"looping", "done", "dead"}] /\ \A p \in received : p \in Nat \X Fibers
  BY <1>1 DEF Give, TypeOK, IInv, Pipes
<1> HIDE DEF x
<1>3. CASE /\ chan.readers # <<>>
           /\ chan' = [chan EXCEPT !.readers = Tail(@)]
           /\ Tell(Head(chan.readers), "read", x)
           /\ fiber' = fiber
  <2> DEFINE r == Head(chan.readers)
  <2>1. /\ r = chan.readers[1] /\ 1 \in DOMAIN chan.readers /\ r \in Records /\ Tail(chan.readers) \in Seq(Records)
        /\ \A i \in DOMAIN Tail(chan.readers) : Tail(chan.readers)[i] \in Range(chan.readers)
    BY <1>1, <1>3, QueueHead
  <2>2. RecordOK(r, "read")
    BY <1>2, <2>1 DEF RecordsAreOfWaits
  <2>3. /\ chan' \in ChannelStates /\ chan'.readers = Tail(chan.readers) /\ chan'.writers = chan.writers
        /\ chan'.items = chan.items
    BY <1>2, <1>3, <2>1 DEF ChannelStates
  <2> HIDE DEF r
  <2>4. /\ pipe' \in Pipes /\ listeners' \in [VMs -> Nat] /\ SameBalance(pipe, listeners, pipe', listeners')
        /\ NoBadEvents(pipe, pipe') /\ AllKept(pipe, pipe')
        /\ InOnePlace(chan.items, pipe', received, x)
    <3>1. Tell(r, "read", x) /\ "read" \in {"read", "write"}
      BY <1>3 DEF r
    <3>2. x <= x
      BY <1>1
    <3>3. /\ pipe' \in Pipes /\ listeners' \in [VMs -> Nat] /\ SameBalance(pipe, listeners, pipe', listeners')
          /\ NoBadEvents(pipe, pipe') /\ AllKept(pipe, pipe')
          /\ \A items, rcvd, n : InOnePlace(items, pipe, rcvd, n) /\ x <= n /\ IsFresh(items, pipe, rcvd, x)
                                   => InOnePlace(items, pipe', rcvd, n)
      BY <1>1, <2>1, <2>2, <3>1, TellKeeps
    <3> QED BY <1>1, <3>2, <3>3
  <2>5. /\ FiberMoves /\ NobodyDies /\ (AllLoop' => AllLoop)
        /\ \A g \in Fibers : Waiting(g)' <=> fiber'[g].wait # "none"
        /\ \A g \in Fibers : fiber'[g].status = "waiting" <=> fiber[g].status = "waiting"
    BY <1>2, <1>3, FibersStay
  <2>6. TypeOK'
    BY <1>1, <1>2, <1>3, <2>3, <2>4 DEF TypeOK, Pipes
  <2>7. ListenersCounted'
    BY <1>1, <1>2, <2>4, <2>5, CountKept
  <2>8. RecordsAreOfWaits'
    <3>1. \A i \in DOMAIN chan'.readers : chan'.readers[i] \in Range(chan.readers)
      BY <2>1, <2>3
    <3>2. \A i \in DOMAIN chan'.writers : chan'.writers[i] \in Range(chan.writers)
      BY <2>3 DEF Range
    <3> QED BY <1>1, <1>2, <2>4, <2>5, <3>1, <3>2, RecordsKept DEF NoBadEvents
  <2>9. QueuesMatch'
    BY <1>2, <1>3, <2>3 DEF QueuesMatch
  <2>10. WritersAreKnown'
    <3>1. \A i \in DOMAIN chan.writers : chan.writers[i] \in Range(chan'.writers)
      BY <2>3 DEF Range
    <3>2. \A v \in VMs : \A i \in DOMAIN pipe[v] : pipe[v][i] \in Range(pipe'[v])
      BY <2>4 DEF AllKept
    <3>3. \A g \in Fibers : fiber'[g] = fiber[g]
      BY <1>3
    <3> QED BY <1>1, <1>2, <2>5, <3>1, <3>2, <3>3, WritersKept
  <2> QED BY <1>1, <1>2, <2>3, <2>4, <2>6, <2>7, <2>8, <2>9, <2>10 DEF IInv
<1>4. CASE /\ chan.readers = <<>> /\ Len(chan.items) < Limit
           /\ chan' = [chan EXCEPT !.items = Append(@, x)]
           /\ UNCHANGED <<pipe, listeners, fiber>>
  <2>1. /\ chan' \in ChannelStates /\ chan'.readers = chan.readers /\ chan'.writers = chan.writers
        /\ chan'.items = Append(chan.items, x)
    <3>1. Append(chan.items, x) \in Seq(Nat)
      BY <1>1, AppendProperties
    <3> QED BY <1>1, <1>2, <1>4, <3>1 DEF ChannelStates
  <2>2. /\ FiberMoves /\ NobodyDies /\ (AllLoop' => AllLoop)
        /\ \A g \in Fibers : Waiting(g)' <=> fiber'[g].wait # "none"
        /\ \A g \in Fibers : fiber'[g].status = "waiting" <=> fiber[g].status = "waiting"
    BY <1>2, <1>4, FibersStay
  <2>3. TypeOK'
    BY <1>1, <1>2, <1>4, <2>1 DEF TypeOK
  <2>4. ListenersCounted'
    <3>1. SameBalance(pipe, listeners, pipe', listeners') /\ pipe' \in Pipes /\ listeners' \in [VMs -> Nat]
      BY <1>1, <1>2, <1>4 DEF SameBalance, TypeOK
    <3> QED BY <1>1, <1>2, <2>2, <3>1, CountKept
  <2>5. RecordsAreOfWaits'
    <3>1. \A i \in DOMAIN chan'.readers : chan'.readers[i] \in Range(chan.readers)
      BY <2>1 DEF Range
    <3>2. \A i \in DOMAIN chan'.writers : chan'.writers[i] \in Range(chan.writers)
      BY <2>1 DEF Range
    <3>3. \A v \in VMs : \A i \in DOMAIN pipe'[v] : pipe'[v][i] \in Range(pipe[v])
      BY <1>4 DEF Range
    <3> QED BY <1>1, <1>2, <2>2, <3>1, <3>2, <3>3, RecordsKept
  <2>6. QueuesMatch'
    <3>1. chan.writers = <<>>
      BY <1>1, <1>2, <1>4 DEF QueuesMatch, Assumptions
    <3> QED BY <1>4, <2>1, <3>1 DEF QueuesMatch
  <2>7. WritersAreKnown'
    <3>1. \A i \in DOMAIN chan.writers : chan.writers[i] \in Range(chan'.writers)
      BY <2>1 DEF Range
    <3>2. \A v \in VMs : \A i \in DOMAIN pipe[v] : pipe[v][i] \in Range(pipe'[v])
      BY <1>4 DEF Range
    <3>3. \A g \in Fibers : fiber'[g] = fiber[g]
      BY <1>4
    <3> QED BY <1>1, <1>2, <2>2, <3>1, <3>2, <3>3, WritersKept
  <2>8. InOnePlace(Append(chan.items, x), pipe, received, x)
    <3>1. x <= x
      BY <1>1
    <3> QED BY <1>1, <3>1, ValueGiven
  <2> QED BY <1>1, <1>2, <1>4, <2>1, <2>3, <2>4, <2>5, <2>6, <2>7, <2>8 DEF IInv
<1>5. CASE /\ chan.readers = <<>> /\ Len(chan.items) >= Limit
           /\ chan' = [chan EXCEPT !.items = Append(@, x), !.writers = Append(@, Record(f))]
           /\ Suspend(f, "write")
           /\ pipe' = pipe
  <2>1. /\ FiberMoves /\ NobodyDies /\ ListenersCounted'
        /\ \A g \in Fibers : Waiting(g)' <=> fiber'[g].wait # "none"
        /\ fiber' \in [Fibers -> FiberStates] /\ listeners' \in [VMs -> Nat]
        /\ Record(f)' = Record(f) /\ Record(f) \in Records /\ RecordOK(Record(f), "write")'
        /\ \A g \in Fibers : g # f => fiber'[g] = fiber[g]
    BY <1>1, <1>2, <1>5, SuspendKeeps
  <2>2. /\ Append(chan.writers, Record(f)) \in Seq(Records)
        /\ Len(Append(chan.writers, Record(f))) = Len(chan.writers) + 1
        /\ \A i \in DOMAIN Append(chan.writers, Record(f)) :
             Append(chan.writers, Record(f))[i] \in Range(chan.writers) \/ Append(chan.writers, Record(f))[i] = Record(f)
        /\ \A i \in DOMAIN chan.writers : chan.writers[i] \in Range(Append(chan.writers, Record(f)))
        /\ \E i \in DOMAIN Append(chan.writers, Record(f)) : Append(chan.writers, Record(f))[i] = Record(f)
    BY <1>1, <2>1, RecordAppended
  <2>3. /\ chan' \in ChannelStates /\ chan'.readers = chan.readers /\ chan'.writers = Append(chan.writers, Record(f))
        /\ chan'.items = Append(chan.items, x)
    <3>1. Append(chan.items, x) \in Seq(Nat)
      BY <1>1, AppendProperties
    <3> QED BY <1>1, <1>2, <1>5, <2>2, <3>1 DEF ChannelStates
  <2>4. TypeOK'
    BY <1>1, <1>2, <1>5, <2>1, <2>3 DEF TypeOK
  <2>5. RecordsAreOfWaits'
    <3>1. \A i \in DOMAIN chan'.readers : chan'.readers[i] \in Range(chan.readers)
      BY <2>3 DEF Range
    <3>2. \A i \in DOMAIN chan'.writers : chan'.writers[i] \in Range(chan.writers) \/ RecordOK(chan.writers[i], "write")'
      BY <2>1, <2>2, <2>3
    <3>3. \A v \in VMs : \A i \in DOMAIN pipe'[v] : pipe'[v][i] \in Range(pipe[v])
      BY <1>5 DEF Range
    <3> QED BY <1>1, <1>2, <2>1, <3>1, <3>2, <3>3, RecordsKept
  <2>6. QueuesMatch'
    <3>1. Len(chan.items) \in Nat /\ Len(chan.writers) \in Nat /\ Len(Append(chan.items, x)) = Len(chan.items) + 1 /\ Limit \in Nat
      BY <1>1 DEF Assumptions
    <3>2. Len(chan.items) >= Limit + Len(chan.writers)
      BY <1>2, <1>5, <3>1 DEF QueuesMatch
    <3> QED BY <1>5, <2>2, <2>3, <3>1, <3>2 DEF QueuesMatch
  <2>7. WritersAreKnown'
    <3>1. \A i \in DOMAIN chan.writers : chan.writers[i] \in Range(chan'.writers)
      BY <2>2, <2>3
    <3>2. \A v \in VMs : \A i \in DOMAIN pipe[v] : pipe[v][i] \in Range(pipe'[v])
      BY <1>5 DEF Range
    <3>3. \A g \in Fibers : fiber'[g] = fiber[g] \/ \E i \in DOMAIN chan'.writers : chan'.writers[i] = Record(g)'
      BY <2>1, <2>2, <2>3
    <3>4. AllLoop' => AllLoop
      BY <1>2 DEF AllLoop
    <3> QED BY <1>1, <1>2, <3>1, <3>2, <3>3, <3>4, WritersKept
  <2>8. InOnePlace(Append(chan.items, x), pipe, received, x)
    <3>1. x <= x
      BY <1>1
    <3> QED BY <1>1, <3>1, ValueGiven
  <2> QED BY <1>1, <1>2, <1>5, <2>1, <2>3, <2>4, <2>5, <2>6, <2>7, <2>8 DEF IInv
<1> QED BY <1>3, <1>4, <1>5 DEF Give, x

LEMMA TakeKeeps == ASSUME Assumptions, IInv, NEW f \in Fibers, Take(f) PROVE IInv'
<1> DEFINE x == calls + 1
<1>1. /\ TypeOK /\ VmOf[f] \in VMs /\ vm[VmOf[f]] = "looping" /\ ~Waiting(f) /\ fiber[f].wait = "none"
      /\ x \in Nat /\ calls' = x
      /\ chan.items \in Seq(Nat) /\ chan.readers \in Seq(Records) /\ chan.writers \in Seq(Records)
      /\ InOnePlace(chan.items, pipe, received, x)
  BY CallFacts DEF Take
<1>2. /\ chan \in ChannelStates /\ pipe \in Pipes /\ vm' = vm
      /\ RecordsAreOfWaits /\ QueuesMatch /\ WritersAreKnown /\ ListenersCounted
      /\ vm \in [VMs -> {"looping", "done", "dead"}] /\ \A p \in received : p \in Nat \X Fibers
  BY <1>1 DEF Take, TypeOK, IInv, Pipes
<1> HIDE DEF x
<1>3. CASE UNCHANGED <<chan, pipe, listeners, fiber, received>>
  <2>1. TypeOK' /\ ListenersCounted' /\ QueuesMatch'
    BY <1>1, <1>2, <1>3 DEF TypeOK, ListenersCounted, WaitingOf, Waiting, QueuesMatch
  <2>2. RecordsAreOfWaits' /\ WritersAreKnown'
    BY <1>2, <1>3 DEF RecordsAreOfWaits, RecordOK, EventOK, WritersAreKnown, Waiting, AllLoop, Record
  <2>3. InOnePlace(chan'.items, pipe', received', calls')
    BY <1>1, <1>3
  <2> QED BY <2>1, <2>2, <2>3 DEF IInv
<1>4. CASE /\ chan.items = <<>>
           /\ chan' = [chan EXCEPT !.readers = Append(@, Record(f))]
           /\ Suspend(f, "read")
           /\ UNCHANGED <<pipe, received>>
  <2>1. /\ FiberMoves /\ NobodyDies /\ ListenersCounted'
        /\ \A g \in Fibers : Waiting(g)' <=> fiber'[g].wait # "none"
        /\ fiber' \in [Fibers -> FiberStates] /\ listeners' \in [VMs -> Nat]
        /\ Record(f) \in Records /\ RecordOK(Record(f), "read")' /\ Record(f)' = Record(f)
        /\ fiber'[f].wait = "read" /\ \A g \in Fibers : g # f => fiber'[g] = fiber[g]
    BY <1>1, <1>2, <1>4, SuspendKeeps
  <2>2. /\ Append(chan.readers, Record(f)) \in Seq(Records)
        /\ \A i \in DOMAIN Append(chan.readers, Record(f)) :
             Append(chan.readers, Record(f))[i] \in Range(chan.readers) \/ Append(chan.readers, Record(f))[i] = Record(f)
    BY <1>1, <2>1, RecordAppended
  <2>3. /\ chan' \in ChannelStates /\ chan'.readers = Append(chan.readers, Record(f)) /\ chan'.writers = chan.writers
        /\ chan'.items = chan.items
    BY <1>1, <1>2, <1>4, <2>2 DEF ChannelStates
  <2>4. TypeOK'
    BY <1>1, <1>2, <1>4, <2>1, <2>3 DEF TypeOK
  <2>5. RecordsAreOfWaits'
    <3>1. \A i \in DOMAIN chan'.readers : chan'.readers[i] \in Range(chan.readers) \/ RecordOK(chan.readers[i], "read")'
      BY <2>1, <2>2, <2>3
    <3>2. \A i \in DOMAIN chan'.writers : chan'.writers[i] \in Range(chan.writers)
      BY <2>3 DEF Range
    <3>3. \A v \in VMs : \A i \in DOMAIN pipe'[v] : pipe'[v][i] \in Range(pipe[v])
      BY <1>4 DEF Range
    <3> QED BY <1>1, <1>2, <2>1, <3>1, <3>2, <3>3, RecordsKept
  <2>6. QueuesMatch'
    BY <1>2, <1>4, <2>3 DEF QueuesMatch
  <2>7. WritersAreKnown'
    <3>1. \A i \in DOMAIN chan.writers : chan.writers[i] \in Range(chan'.writers)
      BY <2>3 DEF Range
    <3>2. \A v \in VMs : \A i \in DOMAIN pipe[v] : pipe[v][i] \in Range(pipe'[v])
      BY <1>4 DEF Range
    <3>3. \A g \in Fibers : fiber'[g].wait = "write" => fiber'[g] = fiber[g]
      BY <2>1
    <3>4. AllLoop' => AllLoop
      BY <1>2 DEF AllLoop
    <3> QED BY <1>1, <1>2, <3>1, <3>2, <3>3, <3>4, WritersKept
  <2> QED BY <1>1, <1>2, <1>4, <2>1, <2>3, <2>4, <2>5, <2>6, <2>7 DEF IInv
<1>5. CASE chan.items # <<>> /\ received' = received \cup {<<Head(chan.items), f>>} /\ fiber' = fiber
           /\ \/ /\ chan.writers = <<>> /\ chan' = [chan EXCEPT !.items = Taken(@)]
                 /\ UNCHANGED <<pipe, listeners>>
              \/ /\ chan.writers # <<>> /\ chan' = [chan EXCEPT !.items = Taken(@), !.writers = Tail(@)]
                 /\ Tell(Head(chan.writers), "write", 0)
  <2> DEFINE items == Tail(chan.items)
             h == Head(chan.items)
             r == Head(chan.writers)
             rcvd == received \cup {<<h, f>>}
  <2>1. items \in Seq(Nat) /\ h \in Nat /\ Len(chan.items) \in Nat /\ Len(items) = Len(chan.items) - 1
    BY <1>1, <1>5, HeadTailProperties
  <2>2. InOnePlace(items, pipe, rcvd, x)
    <3>1. InOnePlace(items, pipe, received, x) /\ IsFresh(items, pipe, received, h) /\ h <= x
      BY <1>1, <1>5, ValueTaken
    <3> QED BY <3>1, ValueReceived
  <2>3. received' = rcvd /\ \A p \in rcvd : p \in Nat \X Fibers
    BY <1>2, <1>5, <2>1
  <2>4. /\ FiberMoves /\ NobodyDies /\ (AllLoop' => AllLoop)
        /\ \A g \in Fibers : Waiting(g)' <=> fiber'[g].wait # "none"
        /\ \A g \in Fibers : fiber'[g].status = "waiting" <=> fiber[g].status = "waiting"
        /\ \A g \in Fibers : fiber'[g] = fiber[g]
    BY <1>2, <1>5, FibersStay
  <2>5. chan.readers = <<>>
    BY <1>2, <1>5 DEF QueuesMatch
  <2> HIDE DEF items, h, rcvd
  <2>6. CASE chan.writers = <<>> /\ chan' = [chan EXCEPT !.items = Taken(@)] /\ UNCHANGED <<pipe, listeners>>
    <3>1. chan' \in ChannelStates /\ chan'.items = items /\ chan'.readers = <<>> /\ chan'.writers = <<>>
      BY <1>2, <2>1, <2>5, <2>6 DEF ChannelStates, Taken, items
    <3>2. TypeOK'
      BY <1>1, <1>2, <1>5, <2>3, <2>6, <3>1 DEF TypeOK
    <3>3. ListenersCounted'
      <4>1. SameBalance(pipe, listeners, pipe', listeners') /\ pipe' \in Pipes /\ listeners' \in [VMs -> Nat]
        BY <1>1, <1>2, <2>6 DEF SameBalance, TypeOK
      <4> QED BY <1>1, <1>2, <2>4, <4>1, CountKept
    <3>4. RecordsAreOfWaits'
      <4>1. (\A i \in DOMAIN chan'.readers : FALSE) /\ (\A i \in DOMAIN chan'.writers : FALSE)
        BY <3>1
      <4>2. \A v \in VMs : \A i \in DOMAIN pipe'[v] : pipe'[v][i] \in Range(pipe[v])
        BY <2>6 DEF Range
      <4> QED BY <1>1, <1>2, <2>4, <4>1, <4>2, RecordsKept
    <3>5. QueuesMatch'
      BY <3>1 DEF QueuesMatch
    <3>6. WritersAreKnown'
      <4>1. \A i \in DOMAIN chan.writers : FALSE
        BY <2>6
      <4>2. \A v \in VMs : \A i \in DOMAIN pipe[v] : pipe[v][i] \in Range(pipe'[v])
        BY <2>6 DEF Range
      <4> QED BY <1>1, <1>2, <2>4, <4>1, <4>2, WritersKept
    <3> QED BY <1>1, <2>2, <2>3, <2>6, <3>1, <3>2, <3>3, <3>4, <3>5, <3>6 DEF IInv
  <2>7. CASE /\ chan.writers # <<>> /\ chan' = [chan EXCEPT !.items = Taken(@), !.writers = Tail(@)]
             /\ Tell(Head(chan.writers), "write", 0)
    <3>1. /\ r = chan.writers[1] /\ 1 \in DOMAIN chan.writers /\ r \in Records
          /\ Tail(chan.writers) \in Seq(Records) /\ Len(chan.writers) \in Nat /\ Len(chan.writers) > 0
          /\ Len(Tail(chan.writers)) = Len(chan.writers) - 1
          /\ \A i \in DOMAIN Tail(chan.writers) : Tail(chan.writers)[i] \in Range(chan.writers)
          /\ \A i \in DOMAIN chan.writers : chan.writers[i] = r \/ chan.writers[i] \in Range(Tail(chan.writers))
      BY <1>1, <2>7, QueueHead
    <3>2. RecordOK(r, "write")
      BY <1>2, <3>1 DEF RecordsAreOfWaits
    <3>3. chan' \in ChannelStates /\ chan'.items = items /\ chan'.readers = <<>> /\ chan'.writers = Tail(chan.writers)
      BY <1>2, <2>1, <2>5, <2>7, <3>1 DEF ChannelStates, Taken, items
    <3> HIDE DEF r
    <3>4. /\ pipe' \in Pipes /\ listeners' \in [VMs -> Nat] /\ SameBalance(pipe, listeners, pipe', listeners')
          /\ NoBadEvents(pipe, pipe') /\ AllKept(pipe, pipe') /\ (r.vm # None => IsTold(pipe', r))
          /\ InOnePlace(items, pipe', rcvd, x)
      <4>1. Tell(r, "write", 0) /\ "write" \in {"read", "write"} /\ 0 \in Nat
        BY <2>7 DEF r
      <4>2. /\ pipe' \in Pipes /\ listeners' \in [VMs -> Nat] /\ SameBalance(pipe, listeners, pipe', listeners')
            /\ NoBadEvents(pipe, pipe') /\ AllKept(pipe, pipe') /\ (r.vm # None => IsTold(pipe', r))
            /\ \A its, rcv, n : InOnePlace(its, pipe, rcv, n) /\ 0 <= n => InOnePlace(its, pipe', rcv, n)
        BY <1>1, <3>1, <3>2, <4>1, TellKeeps
      <4>3. 0 <= x
        BY <1>1
      <4> QED BY <2>2, <4>2, <4>3
    <3>5. TypeOK'
      BY <1>1, <1>2, <1>5, <2>3, <3>3, <3>4 DEF TypeOK, Pipes
    <3>6. ListenersCounted'
      BY <1>1, <1>2, <2>4, <3>4, CountKept
    <3>7. RecordsAreOfWaits'
      <4>1. \A i \in DOMAIN chan'.readers : FALSE
        BY <3>3
      <4>2. \A i \in DOMAIN chan'.writers : chan'.writers[i] \in Range(chan.writers)
        BY <3>1, <3>3
      <4> QED BY <1>1, <1>2, <2>4, <3>4, <4>1, <4>2, RecordsKept DEF NoBadEvents
    <3>8. QueuesMatch'
      <4>1. Len(chan.items) >= Limit + Len(chan.writers) /\ Limit \in Nat
        BY <1>2, <2>7 DEF QueuesMatch, Assumptions
      <4> QED BY <2>1, <3>1, <3>3, <4>1 DEF QueuesMatch
    <3>9. WritersAreKnown'
      <4>1. ASSUME NEW i \in DOMAIN chan.writers
            PROVE  \/ chan.writers[i] \in Range(chan'.writers)
                   \/ chan.writers[i].vm # VmOf[chan.writers[i].fiber]
                   \/ IsTold(pipe', chan.writers[i])
        <5>1. CASE chan.writers[i] \in Range(Tail(chan.writers))
          BY <3>3, <5>1
        <5>2. CASE chan.writers[i] = r
          <6>1. r.fiber \in Fibers
            BY <3>1 DEF Records
          <6>2. VmOf[r.fiber] # None
            BY <1>1, <6>1, FiberFacts
          <6> QED BY <3>4, <5>2, <6>2
        <5> QED BY <3>1, <5>1, <5>2
      <4>2. \A v \in VMs : \A i \in DOMAIN pipe[v] : pipe[v][i] \in Range(pipe'[v])
        BY <3>4 DEF AllKept
      <4> QED BY <1>1, <1>2, <2>4, <4>1, <4>2, WritersKept DEF IsTold
    <3> QED BY <1>1, <2>3, <3>3, <3>4, <3>5, <3>6, <3>7, <3>8, <3>9 DEF IInv
  <2> QED BY <1>5, <2>6, <2>7
<1> QED BY <1>3, <1>4, <1>5 DEF Take

\* A fiber that is woken.
LEMMA WakeFacts ==
  ASSUME Assumptions, IInv, NEW f \in Fibers, Waiting(f), fiber' = [fiber EXCEPT ![f] = Woken(fiber[f])]
  PROVE  /\ FiberMoves /\ fiber' \in [Fibers -> FiberStates]
         /\ \A g \in Fibers : Waiting(g)' <=> fiber'[g].wait # "none"
         /\ fiber'[f] # fiber[f] /\ fiber'[f].wait = "none"
         /\ \A g \in Fibers : g # f => fiber'[g] = fiber[g]
         /\ Cardinality(WaitingOf(VmOf[f]))' = Cardinality(WaitingOf(VmOf[f])) - 1
         /\ Cardinality(WaitingOf(VmOf[f])) \in Nat /\ Cardinality(WaitingOf(VmOf[f])) > 0
         /\ \A v \in VMs : v # VmOf[f] => WaitingOf(v)' = WaitingOf(v)
<1> DEFINE x == Woken(fiber[f])
<1>1. TypeOK /\ fiber[f] \in FiberStates /\ fiber[f].id \in Nat
  BY FiberFacts DEF IInv
<1>2. x \in FiberStates /\ x.id = fiber[f].id + 1 /\ x.status = "ready" /\ x.wait = "none"
  <2>1. fiber[f].id + 1 \in Nat
    BY <1>1
  <2> QED BY <1>1, <2>1 DEF Woken, FiberStates
<1> HIDE DEF x
<1>3. fiber' \in [Fibers -> FiberStates] /\ fiber'[f] = x /\ \A g \in Fibers : g # f => fiber'[g] = fiber[g]
  BY <1>1, <1>2 DEF TypeOK, x
<1>4. FiberMoves
  BY <1>2, <1>3 DEF FiberMoves
<1>5. \A g \in Fibers : Waiting(g)' <=> fiber'[g].wait # "none"
  <2>1. \A g \in Fibers : g # f => (Waiting(g)' <=> fiber'[g].wait # "none")
    BY <1>3 DEF Waiting, IInv, RecordsAreOfWaits
  <2>2. ~Waiting(f)' /\ fiber'[f].wait = "none"
    BY <1>2, <1>3 DEF Waiting
  <2> QED BY <2>1, <2>2
<1>6. ~Waiting(f)'
  BY <1>2, <1>3 DEF Waiting
<1>7. /\ Cardinality(WaitingOf(VmOf[f]))' = Cardinality(WaitingOf(VmOf[f])) - 1
      /\ Cardinality(WaitingOf(VmOf[f])) > 0
      /\ \A v \in VMs : v # VmOf[f] => WaitingOf(v)' = WaitingOf(v)
  BY <1>1, <1>3, <1>6, OneLessWaits
<1>8. Cardinality(WaitingOf(VmOf[f])) \in Nat
  BY WaitingIsFinite
<1>9. fiber'[f] # fiber[f]
  BY <1>1, <1>2, <1>3
<1> QED BY <1>2, <1>3, <1>4, <1>5, <1>7, <1>8, <1>9

\* Channel and pipes left alone: what remains of the invariant.
LEMMA ChannelLeft ==
  ASSUME Assumptions, IInv, UNCHANGED <<chan, pipe, calls, received>>, FiberMoves, NobodyDies,
         vm' \in [VMs -> {"looping", "done", "dead"}], \A v \in VMs : vm'[v] = "looping" => vm[v] = "looping",
         fiber' \in [Fibers -> FiberStates], listeners' \in [VMs -> Nat],
         \A g \in Fibers : Waiting(g)' <=> fiber'[g].wait # "none",
         \A g \in Fibers : fiber'[g] = fiber[g] \/ fiber'[g].wait = "none",
         ListenersCounted'
  PROVE  IInv'
<1>1. TypeOK /\ RecordsAreOfWaits /\ WritersAreKnown
  BY DEF IInv
<1>2. TypeOK'
  BY <1>1 DEF TypeOK
<1>3. RecordsAreOfWaits'
  <2>1. \A i \in DOMAIN chan'.readers : chan'.readers[i] \in Range(chan.readers)
    BY DEF Range
  <2>2. \A i \in DOMAIN chan'.writers : chan'.writers[i] \in Range(chan.writers)
    BY DEF Range
  <2>3. \A v \in VMs : \A i \in DOMAIN pipe'[v] : pipe'[v][i] \in Range(pipe[v])
    BY DEF Range
  <2> QED BY <1>1, <2>1, <2>2, <2>3, RecordsKept
<1>4. QueuesMatch'
  BY DEF QueuesMatch, IInv
<1>5. WritersAreKnown'
  <2>1. AllLoop' => AllLoop
    BY DEF AllLoop
  <2>2. \A i \in DOMAIN chan.writers : chan.writers[i] \in Range(chan'.writers)
    BY DEF Range
  <2>3. \A v \in VMs : \A i \in DOMAIN pipe[v] : pipe[v][i] \in Range(pipe'[v])
    BY DEF Range
  <2>4. \A g \in Fibers : fiber'[g].wait = "write" => fiber'[g] = fiber[g]
    OBVIOUS
  <2> QED BY <1>1, <2>1, <2>2, <2>3, <2>4, WritersKept
<1> QED BY <1>2, <1>3, <1>4, <1>5 DEF IInv

LEMMA InterruptKeeps == ASSUME Assumptions, IInv, NEW f \in Fibers, Interrupt(f) PROVE IInv'
<1> DEFINE v == VmOf[f]
<1>1. TypeOK /\ v \in VMs /\ vm[v] = "looping" /\ Waiting(f) /\ vm' = vm
  BY FiberFacts DEF Interrupt, IInv
<1>2. /\ FiberMoves /\ fiber' \in [Fibers -> FiberStates]
      /\ \A g \in Fibers : Waiting(g)' <=> fiber'[g].wait # "none"
      /\ fiber'[f].wait = "none" /\ \A g \in Fibers : g # f => fiber'[g] = fiber[g]
      /\ Cardinality(WaitingOf(v))' = Cardinality(WaitingOf(v)) - 1
      /\ Cardinality(WaitingOf(v)) \in Nat /\ Cardinality(WaitingOf(v)) > 0
      /\ \A w \in VMs : w # v => WaitingOf(w)' = WaitingOf(w)
  BY <1>1, WakeFacts DEF Interrupt
<1>3. /\ listeners \in [VMs -> Nat] /\ listeners[v] = Len(pipe[v]) + Cardinality(WaitingOf(v))
      /\ \A w \in VMs : Len(pipe[w]) \in Nat
  BY <1>1 DEF TypeOK, IInv, ListenersCounted
<1>4. listeners[v] - 1 \in Nat
  BY <1>1, <1>2, <1>3
<1>5. listeners' \in [VMs -> Nat] /\ listeners'[v] = listeners[v] - 1 /\ \A w \in VMs : w # v => listeners'[w] = listeners[w]
  BY <1>1, <1>3, <1>4 DEF Interrupt
<1>6. ListenersCounted'
  <2> SUFFICES ASSUME NEW w \in VMs, vm'[w] = "looping"
               PROVE  listeners'[w] = Len(pipe'[w]) + Cardinality(WaitingOf(w))'
    BY DEF ListenersCounted
  <2>1. pipe' = pipe
    BY DEF Interrupt
  <2>2. CASE w = v
    BY <1>1, <1>2, <1>3, <1>5, <2>1, <2>2
  <2>3. CASE w # v
    <3>1. WaitingOf(w)' = WaitingOf(w) /\ listeners'[w] = listeners[w]
      BY <1>2, <1>5, <2>3
    <3> QED BY <1>1, <2>1, <3>1 DEF IInv, ListenersCounted
  <2> QED BY <2>2, <2>3
<1>7. NobodyDies /\ vm' \in [VMs -> {"looping", "done", "dead"}]
  BY <1>1 DEF NobodyDies, TypeOK
<1> HIDE DEF v
<1>8. UNCHANGED <<chan, pipe, calls, received>>
  BY DEF Interrupt
<1>9. \A g \in Fibers : fiber'[g] = fiber[g] \/ fiber'[g].wait = "none"
  BY <1>2
<1> QED BY <1>1, <1>2, <1>5, <1>6, <1>7, <1>8, <1>9, ChannelLeft

LEMMA FinishKeeps == ASSUME Assumptions, IInv, NEW f \in Fibers, Finish(f) PROVE IInv'
<1> DEFINE x == [fiber[f] EXCEPT !.status = "finished"]
<1>1. TypeOK /\ fiber[f] \in FiberStates /\ fiber[f].status = "ready" /\ ~Waiting(f)
  BY FiberFacts DEF Finish, Runs, Waiting, IInv
<1>2. fiber[f].wait = "none"
  BY <1>1 DEF IInv, RecordsAreOfWaits
<1>3. x \in FiberStates /\ x.id = fiber[f].id /\ x.status = "finished" /\ x.wait = "none"
  BY <1>1, <1>2 DEF FiberStates
<1>4. fiber' = [fiber EXCEPT ![f] = x]
  BY DEF Finish
<1> HIDE DEF x
<1>5. fiber' \in [Fibers -> FiberStates] /\ fiber'[f] = x /\ \A g \in Fibers : g # f => fiber'[g] = fiber[g]
  BY <1>1, <1>3, <1>4 DEF TypeOK
<1>6. FiberMoves
  BY <1>2, <1>3, <1>5 DEF FiberMoves
<1>7. UNCHANGED <<chan, pipe, calls, received, vm, listeners>>
  BY DEF Finish
<1>8. \A g \in Fibers : Waiting(g)' <=> fiber'[g].wait # "none"
  <2>1. \A g \in Fibers : g # f => (Waiting(g)' <=> fiber'[g].wait # "none")
    BY <1>5 DEF Waiting, IInv, RecordsAreOfWaits
  <2>2. ~Waiting(f)' /\ fiber'[f].wait = "none"
    BY <1>3, <1>5 DEF Waiting
  <2> QED BY <2>1, <2>2
<1>9. \A g \in Fibers : fiber'[g].status = "waiting" <=> fiber[g].status = "waiting"
  BY <1>1, <1>3, <1>5
<1>10. ListenersCounted'
  <2>1. SameBalance(pipe, listeners, pipe', listeners') /\ pipe' \in Pipes /\ listeners' \in [VMs -> Nat]
    BY <1>1, <1>7 DEF SameBalance, TypeOK, Pipes
  <2> QED BY <1>1, <1>7, <1>9, <2>1, CountKept DEF IInv
<1>11. NobodyDies /\ vm' \in [VMs -> {"looping", "done", "dead"}] /\ listeners' \in [VMs -> Nat]
  BY <1>1, <1>7 DEF NobodyDies, TypeOK
<1>12. \A g \in Fibers : fiber'[g] = fiber[g] \/ fiber'[g].wait = "none"
  BY <1>3, <1>5
<1> QED BY <1>5, <1>6, <1>7, <1>8, <1>10, <1>11, <1>12, ChannelLeft

LEMMA LoopDoneKeeps == ASSUME Assumptions, IInv, NEW v \in VMs, LoopDone(v) PROVE IInv'
<1>1. TypeOK /\ UNCHANGED <<chan, pipe, listeners, fiber, calls, received>> /\ vm[v] = "looping"
      /\ vm' = [vm EXCEPT ![v] = "done"]
  BY DEF LoopDone, IInv
<1>2. /\ vm' \in [VMs -> {"looping", "done", "dead"}] /\ NobodyDies
      /\ \A w \in VMs : vm'[w] = "looping" => vm[w] = "looping"
  BY <1>1 DEF TypeOK, NobodyDies
<1>3. FiberMoves /\ \A g \in Fibers : Waiting(g)' <=> fiber'[g].wait # "none"
  BY <1>1 DEF FiberMoves, Waiting, IInv, RecordsAreOfWaits
<1>4. ListenersCounted'
  <2>1. SameBalance(pipe, listeners, pipe', listeners') /\ pipe' \in Pipes /\ listeners' \in [VMs -> Nat]
    BY <1>1 DEF SameBalance, TypeOK, Pipes
  <2>2. \A g \in Fibers : fiber'[g].status = "waiting" <=> fiber[g].status = "waiting"
    BY <1>1
  <2> QED BY <1>1, <1>2, <2>1, <2>2, CountKept DEF IInv
<1>5. fiber' \in [Fibers -> FiberStates] /\ listeners' \in [VMs -> Nat]
  BY <1>1 DEF TypeOK
<1> QED BY <1>1, <1>2, <1>3, <1>4, <1>5, ChannelLeft

LEMMA WithoutVMFacts ==
  ASSUME NEW q \in Seq(Records), NEW v \in VMs, NEW p, p = WithoutVM(q, v)
  PROVE  /\ p \in Seq(Records) /\ Len(p) = Len(q) /\ DOMAIN p = DOMAIN q /\ (p # <<>> => q # <<>>)
         /\ \A i \in DOMAIN q : /\ p[i].fiber = q[i].fiber /\ p[i].id = q[i].id
                                /\ p[i].vm = IF q[i].vm = v THEN None ELSE q[i].vm
<1> DEFINE Out(r) == IF r.vm = v THEN [r EXCEPT !.vm = None] ELSE r
<1>1. Len(q) \in Nat /\ DOMAIN q = 1 .. Len(q) /\ \A i \in DOMAIN q : q[i] \in Records
  OBVIOUS
<1>2. \A r \in Records : /\ Out(r) \in Records /\ Out(r).fiber = r.fiber /\ Out(r).id = r.id
                         /\ Out(r).vm = IF r.vm = v THEN None ELSE r.vm
  BY DEF Records
<1>3. p = [i \in DOMAIN q |-> Out(q[i])]
  BY DEF WithoutVM
<1> HIDE DEF Out
<1>4. \A i \in DOMAIN q : p[i] = Out(q[i]) /\ p[i] \in Records
  BY <1>1, <1>2, <1>3
<1>5. DOMAIN p = 1 .. Len(q)
  BY <1>1, <1>3
<1>6. p = [i \in 1 .. Len(q) |-> Out(q[i])] /\ \A i \in 1 .. Len(q) : Out(q[i]) \in Records
  BY <1>1, <1>2, <1>3
<1>7. p \in Seq(Records) /\ Len(p) = Len(q)
  BY <1>1, <1>6
<1>8. p # <<>> => q # <<>>
  BY <1>1, <1>7
<1> QED BY <1>1, <1>2, <1>4, <1>5, <1>7, <1>8

LEMMA DeinitKeeps == ASSUME Assumptions, IInv, NEW v \in VMs, Deinit(v) PROVE IInv'
<1>1. /\ TypeOK /\ UNCHANGED <<pipe, listeners, fiber, calls, received>> /\ vm[v] = "done"
      /\ vm' = [vm EXCEPT ![v] = "dead"] /\ vm \in [VMs -> {"looping", "done", "dead"}]
      /\ chan \in ChannelStates /\ chan.readers \in Seq(Records) /\ chan.writers \in Seq(Records)
      /\ RecordsAreOfWaits /\ QueuesMatch
  BY DEF Deinit, IInv, TypeOK, ChannelStates
<1>2. /\ vm' \in [VMs -> {"looping", "done", "dead"}] /\ vm'[v] = "dead" /\ \A w \in VMs : w # v => vm'[w] = vm[w]
  BY <1>1
<1> DEFINE rs == WithoutVM(chan.readers, v)
           ws == WithoutVM(chan.writers, v)
<1>3. /\ rs \in Seq(Records) /\ DOMAIN rs = DOMAIN chan.readers /\ (rs # <<>> => chan.readers # <<>>)
      /\ \A i \in DOMAIN chan.readers : /\ rs[i].fiber = chan.readers[i].fiber /\ rs[i].id = chan.readers[i].id
                                        /\ rs[i].vm = IF chan.readers[i].vm = v THEN None ELSE chan.readers[i].vm
  BY <1>1, WithoutVMFacts
<1>4. /\ ws \in Seq(Records) /\ DOMAIN ws = DOMAIN chan.writers /\ (ws # <<>> => chan.writers # <<>>) /\ Len(ws) = Len(chan.writers)
      /\ \A i \in DOMAIN chan.writers : /\ ws[i].fiber = chan.writers[i].fiber /\ ws[i].id = chan.writers[i].id
                                        /\ ws[i].vm = IF chan.writers[i].vm = v THEN None ELSE chan.writers[i].vm
  BY <1>1, WithoutVMFacts
<1> HIDE DEF rs, ws
<1>5. chan' \in ChannelStates /\ chan'.items = chan.items /\ chan'.readers = rs /\ chan'.writers = ws
  <2>1. chan' = [chan EXCEPT !.readers = rs, !.writers = ws]
    BY DEF Deinit, Cleared, rs, ws
  <2> QED BY <1>1, <1>3, <1>4, <2>1 DEF ChannelStates
<1>6. ASSUME NEW r \in Records, NEW p, NEW wait, RecordOK(r, wait), p.fiber = r.fiber, p.id = r.id,
             p.vm = IF r.vm = v THEN None ELSE r.vm
      PROVE  RecordOK(p, wait)'
  <2>1. r.fiber \in Fibers /\ VmOf[r.fiber] \in VMs /\ VmOf[r.fiber] # None /\ v # None
    BY <1>1, FiberFacts DEF Records, Assumptions
  <2>2. r.vm \in {VmOf[r.fiber], None} /\ ((r.vm = None) <=> (vm[VmOf[r.fiber]] = "dead"))
    BY <1>6 DEF RecordOK
  <2>3. p.vm \in {VmOf[r.fiber], None} /\ ((p.vm = None) <=> (vm'[VmOf[r.fiber]] = "dead"))
    <3>1. CASE r.vm = v
      BY <1>2, <1>6, <2>1, <2>2, <3>1
    <3>2. CASE r.vm # v
      <4>1. p.vm = r.vm
        BY <1>6, <3>2
      <4>2. CASE r.vm = None
        <5>1. vm[VmOf[r.fiber]] = "dead"
          BY <2>2, <4>2
        <5>2. vm'[VmOf[r.fiber]] = "dead"
          BY <1>2, <2>1, <5>1
        <5> QED BY <4>1, <4>2, <5>2
      <4>3. CASE r.vm # None
        <5>1. r.vm = VmOf[r.fiber] /\ vm[VmOf[r.fiber]] # "dead"
          BY <2>2, <4>3
        <5>2. vm'[VmOf[r.fiber]] # "dead"
          BY <1>2, <2>1, <3>2, <5>1
        <5> QED BY <4>1, <4>3, <5>1, <5>2
      <4> QED BY <4>2, <4>3
    <3> QED BY <3>1, <3>2
  <2>4. fiber' = fiber
    BY <1>1
  <2> QED BY <1>6, <2>3, <2>4 DEF RecordOK
<1>7. TypeOK'
  BY <1>1, <1>2, <1>5 DEF TypeOK
<1>8. ListenersCounted'
  <2>1. SameBalance(pipe, listeners, pipe', listeners') /\ pipe' \in Pipes /\ listeners' \in [VMs -> Nat]
    BY <1>1 DEF SameBalance, TypeOK, Pipes
  <2>2. \A w \in VMs : vm'[w] = "looping" => vm[w] = "looping"
    BY <1>2
  <2>3. \A g \in Fibers : fiber'[g].status = "waiting" <=> fiber[g].status = "waiting"
    BY <1>1
  <2> QED BY <1>1, <2>1, <2>2, <2>3, CountKept DEF IInv
<1>9. RecordsAreOfWaits'
  <2>1. ASSUME NEW i \in DOMAIN chan'.readers PROVE RecordOK(chan.readers[i], "read")'
    <3>1. chan.readers[i] \in Records /\ RecordOK(chan.readers[i], "read")
      BY <1>1, <1>3, <1>5, <2>1 DEF RecordsAreOfWaits
    <3>2. PICK r \in Records : r = chan.readers[i]
      BY <3>1
    <3>3. PICK p : p = chan'.readers[i]
      OBVIOUS
    <3>4. RecordOK(p, "read")'
      BY <1>3, <1>5, <1>6, <2>1, <3>1, <3>2, <3>3
    <3> QED BY <3>3, <3>4 DEF RecordOK
  <2>2. ASSUME NEW i \in DOMAIN chan'.writers PROVE RecordOK(chan.writers[i], "write")'
    <3>1. chan.writers[i] \in Records /\ RecordOK(chan.writers[i], "write")
      BY <1>1, <1>4, <1>5, <2>2 DEF RecordsAreOfWaits
    <3>2. PICK r \in Records : r = chan.writers[i]
      BY <3>1
    <3>3. PICK p : p = chan'.writers[i]
      OBVIOUS
    <3>4. RecordOK(p, "write")'
      BY <1>4, <1>5, <1>6, <2>2, <3>1, <3>2, <3>3
    <3> QED BY <3>3, <3>4 DEF RecordOK
  <2>3. \A f \in Fibers : Waiting(f)' <=> fiber'[f].wait # "none"
    BY <1>1 DEF RecordsAreOfWaits, Waiting
  <2>4. \A w \in VMs : \A i \in DOMAIN pipe'[w] : VmOf[pipe'[w][i].fiber] = w /\ EventOK(pipe[w][i])'
    BY <1>1 DEF RecordsAreOfWaits, EventOK
  <2> QED BY <2>1, <2>2, <2>3, <2>4 DEF RecordsAreOfWaits
<1>10. QueuesMatch'
  BY <1>1, <1>3, <1>4, <1>5 DEF QueuesMatch
<1>11. WritersAreKnown'
  <2>1. ~AllLoop'
    BY <1>2 DEF AllLoop
  <2> QED BY <2>1 DEF WritersAreKnown
<1> QED BY <1>1, <1>5, <1>7, <1>8, <1>9, <1>10, <1>11 DEF IInv

\* c is a with b after it.
Joined(c, a, b) ==
  /\ c \in Seq(Messages) /\ Len(a) \in Nat /\ Len(b) \in Nat /\ Len(c) = Len(a) + Len(b)
  /\ DOMAIN a \subseteq Nat /\ DOMAIN c \subseteq Nat
  /\ \A i \in DOMAIN a : i \in DOMAIN c /\ c[i] = a[i]
  /\ \A j \in DOMAIN b : \E i \in DOMAIN c : c[i] = b[j]
  /\ \A i \in DOMAIN c : (i \in DOMAIN a /\ c[i] = a[i]) \/ \E j \in DOMAIN b : c[i] = b[j]

LEMMA JoinedFacts ==
  ASSUME NEW a \in Seq(Messages), NEW b \in Seq(Messages), NEW c, c = a \o b
  PROVE  Joined(c, a, b)
<1> DEFINE k == Len(a)
           l == Len(b)
<1>1. k \in Nat /\ l \in Nat /\ DOMAIN a = 1 .. k /\ DOMAIN b = 1 .. l
  OBVIOUS
<1>2. /\ c \in Seq(Messages) /\ Len(c) = k + l
      /\ \A i \in 1 .. k + l : c[i] = IF i <= k THEN a[i] ELSE b[i - k]
  BY ConcatProperties
<1>3. DOMAIN c = 1 .. k + l
  BY <1>1, <1>2
<1> HIDE DEF k, l
<1>4. \A i \in DOMAIN a : i \in DOMAIN c /\ c[i] = a[i]
  BY <1>1, <1>2, <1>3
<1>5. ASSUME NEW j \in DOMAIN b PROVE \E i \in DOMAIN c : c[i] = b[j]
  <2>1. k + j \in 1 .. k + l /\ ~(k + j <= k) /\ (k + j) - k = j
    BY <1>1
  <2>2. c[k + j] = b[j]
    BY <1>2, <2>1
  <2> QED BY <1>3, <2>1, <2>2
<1>6. ASSUME NEW i \in DOMAIN c, ~(i <= k) PROVE \E j \in DOMAIN b : c[i] = b[j]
  <2>1. i - k \in DOMAIN b /\ c[i] = b[i - k]
    BY <1>1, <1>2, <1>3, <1>6
  <2> QED BY <2>1
<1>7. \A i \in DOMAIN c : i <= k => i \in DOMAIN a /\ c[i] = a[i]
  BY <1>1, <1>2, <1>3
<1> QED BY <1>1, <1>2, <1>3, <1>4, <1>5, <1>6, <1>7 DEF Joined, k, l

LEMMA CloseKeeps == ASSUME Assumptions, IInv, NEW f \in Fibers, Close(f) PROVE IInv'
<1> DEFINE v == VmOf[f]
           rs == chan.writers \o chan.readers
           woken == Mine(v, rs)
           sent == [w \in VMs |-> IF w = v THEN <<>> ELSE Told(rs, w)]
<1>1. /\ TypeOK /\ v \in VMs /\ vm[v] = "looping" /\ calls \in Nat /\ calls' = calls + 1
      /\ chan.items \in Seq(Nat) /\ chan.readers \in Seq(Records) /\ chan.writers \in Seq(Records)
      /\ InOnePlace(chan.items, pipe, received, calls + 1)
  BY CallFacts DEF Close
<1>2. /\ chan \in ChannelStates /\ pipe \in Pipes /\ vm' = vm /\ received' = received
      /\ listeners \in [VMs -> Nat] /\ fiber \in [Fibers -> FiberStates]
      /\ RecordsAreOfWaits /\ QueuesMatch /\ WritersAreKnown /\ ListenersCounted
  BY <1>1 DEF Close, TypeOK, IInv, Pipes
<1>3. /\ chan' = [chan EXCEPT !.closed = TRUE, !.readers = <<>>, !.writers = <<>>]
      /\ fiber' = [g \in Fibers |-> IF g \in woken THEN Woken(fiber[g]) ELSE fiber[g]]
      /\ pipe' = [w \in VMs |-> pipe[w] \o sent[w]]
      /\ listeners' = [w \in VMs |-> listeners[w] + Len(sent[w]) - (IF w = v THEN Cardinality(woken) ELSE 0)]
  BY DEF Close, TellOthers
<1>4. chan' \in ChannelStates /\ chan'.items = chan.items /\ chan'.readers = <<>> /\ chan'.writers = <<>>
  <2>1. <<>> \in Seq(Records)
    OBVIOUS
  <2> QED BY <1>2, <1>3, <2>1 DEF ChannelStates
<1>5. /\ rs \in Seq(Records) /\ DOMAIN rs = 1 .. Len(rs)
      /\ \A i \in DOMAIN rs : \E wait \in {"read", "write"} : rs[i] \in Records /\ RecordOK(rs[i], wait)
      /\ \A i \in DOMAIN chan.writers : i \in DOMAIN rs /\ rs[i] = chan.writers[i]
  <2> DEFINE m == Len(chan.writers)
             n == Len(chan.readers)
  <2>1. /\ m \in Nat /\ n \in Nat /\ DOMAIN chan.writers = 1 .. m /\ DOMAIN chan.readers = 1 .. n
    BY <1>1
  <2>2. /\ rs \in Seq(Records) /\ Len(rs) = m + n
        /\ \A i \in 1 .. m + n : rs[i] = IF i <= m THEN chan.writers[i] ELSE chan.readers[i - m]
    BY <1>1, ConcatProperties
  <2>3. \A i \in DOMAIN chan.writers : chan.writers[i] \in Records /\ RecordOK(chan.writers[i], "write")
    BY <1>1, <1>2 DEF RecordsAreOfWaits
  <2>4. \A i \in DOMAIN chan.readers : chan.readers[i] \in Records /\ RecordOK(chan.readers[i], "read")
    BY <1>1, <1>2 DEF RecordsAreOfWaits
  <2> HIDE DEF m, n, rs
  <2>5. DOMAIN rs = 1 .. m + n
    BY <2>1, <2>2
  <2>6. ASSUME NEW i \in DOMAIN rs PROVE \E wait \in {"read", "write"} : rs[i] \in Records /\ RecordOK(rs[i], wait)
    <3>1. CASE i <= m
      <4>1. rs[i] = chan.writers[i] /\ i \in DOMAIN chan.writers
        BY <2>1, <2>2, <2>5, <3>1
      <4> QED BY <2>3, <4>1
    <3>2. CASE ~(i <= m)
      <4>1. rs[i] = chan.readers[i - m] /\ i - m \in DOMAIN chan.readers
        BY <2>1, <2>2, <2>5, <3>2
      <4> QED BY <2>4, <4>1
    <3> QED BY <3>1, <3>2
  <2>7. \A i \in DOMAIN chan.writers : i \in DOMAIN rs /\ rs[i] = chan.writers[i]
    BY <2>1, <2>2, <2>5
  <2> QED BY <2>2, <2>6, <2>7
<1> HIDE DEF rs
<1>6. \A w \in VMs : sent[w] \in Seq(Messages) /\ (w = v => sent[w] = <<>>) /\ (w # v => TellsOf(rs, w, Len(rs), sent[w]))
  <2> SUFFICES ASSUME NEW w \in VMs
               PROVE  sent[w] \in Seq(Messages) /\ (w = v => sent[w] = <<>>) /\ (w # v => TellsOf(rs, w, Len(rs), sent[w]))
    OBVIOUS
  <2>1. CASE w = v
    BY <2>1
  <2>2. CASE w # v
    <3>1. sent[w] = Told(rs, w)
      BY <2>2
    <3> QED BY <1>5, <2>2, <3>1, ToldFacts
  <2> QED BY <2>1, <2>2
<1> HIDE DEF sent
<1>7. /\ pipe' \in Pipes
      /\ \A w \in VMs : Joined(pipe'[w], pipe[w], sent[w])
  <2>1. ASSUME NEW w \in VMs PROVE Joined(pipe'[w], pipe[w], sent[w])
    <3>1. pipe[w] \in Seq(Messages) /\ sent[w] \in Seq(Messages) /\ pipe'[w] = pipe[w] \o sent[w]
      BY <1>2, <1>3, <1>6 DEF Pipes
    <3> QED BY <3>1, JoinedFacts
  <2>2. \A w \in VMs : pipe'[w] \in Seq(Messages)
    BY <2>1 DEF Joined
  <2>3. pipe' \in Pipes
    BY <1>3, <2>2 DEF Pipes
  <2> QED BY <2>1, <2>3
<1>8. /\ \A w \in VMs : \A i \in DOMAIN pipe[w] : i \in DOMAIN pipe'[w] /\ pipe'[w][i] = pipe[w][i]
      /\ \A w \in VMs : Len(pipe[w]) \in Nat /\ Len(sent[w]) \in Nat /\ Len(pipe'[w]) = Len(pipe[w]) + Len(sent[w])
  BY <1>7 DEF Joined
<1>9. ASSUME NEW w \in VMs, NEW i \in DOMAIN pipe'[w]
      PROVE  \/ i \in DOMAIN pipe[w] /\ pipe'[w][i] = pipe[w][i]
             \/ pipe'[w][i].mode = "close" /\ pipe'[w][i] \in Messages /\ VmOf[pipe'[w][i].fiber] = w /\ EventOK(pipe'[w][i])
  <2>0. \/ i \in DOMAIN pipe[w] /\ pipe'[w][i] = pipe[w][i]
        \/ \E j \in DOMAIN sent[w] : pipe'[w][i] = sent[w][j]
    BY <1>7, <1>9 DEF Joined
  <2>1. CASE i \in DOMAIN pipe[w] /\ pipe'[w][i] = pipe[w][i]
    BY <2>1
  <2>2. CASE \E j \in DOMAIN sent[w] : pipe'[w][i] = sent[w][j]
    <3>1. PICK j \in DOMAIN sent[w] : pipe'[w][i] = sent[w][j]
      BY <2>2
    <3>3. w # v
      BY <1>6, <3>1
    <3>4. PICK k \in 1 .. Len(rs) : rs[k].vm = w /\ pipe'[w][i] = Msg(rs[k], "close", 0)
      BY <1>6, <3>1, <3>3 DEF TellsOf
    <3>5. PICK wait \in {"read", "write"} : rs[k] \in Records /\ RecordOK(rs[k], wait)
      BY <1>5
    <3>6. PICK r \in Records : r = rs[k]
      BY <3>5
    <3>7. r.vm # None
      BY <3>4, <3>6 DEF Assumptions
    <3>8. EventOK(Msg(r, "close", 0)) /\ VmOf[r.fiber] = r.vm
      BY <3>5, <3>6, <3>7, EventOfRecord
    <3>9. Msg(r, "close", 0) \in Messages /\ Msg(r, "close", 0).fiber = r.fiber /\ Msg(r, "close", 0).mode = "close"
      BY DEF Msg, Messages, Records
    <3> QED BY <3>4, <3>6, <3>8, <3>9
  <2> QED BY <2>0, <2>1, <2>2
<1>10. /\ \A g \in woken : Waiting(g) /\ VmOf[g] = v /\ g \in Fibers
       /\ woken \subseteq WaitingOf(v)
  BY DEF Mine, WaitingOf
<1>11. ASSUME NEW g \in Fibers
       PROVE  /\ fiber'[g] \in FiberStates /\ (g \notin woken => fiber'[g] = fiber[g])
              /\ (g \in woken => fiber'[g].id = fiber[g].id + 1 /\ fiber'[g].wait = "none" /\ fiber'[g].status = "ready"
                                 /\ fiber'[g] # fiber[g])
  <2>1. fiber[g] \in FiberStates /\ fiber[g].id \in Nat
    BY <1>1, FiberFacts
  <2>2. /\ Woken(fiber[g]) \in FiberStates /\ Woken(fiber[g]).id = fiber[g].id + 1
        /\ Woken(fiber[g]).wait = "none" /\ Woken(fiber[g]).status = "ready"
    <3>1. fiber[g].id + 1 \in Nat
      BY <2>1
    <3> QED BY <2>1, <3>1 DEF Woken, FiberStates
  <2>3. fiber'[g] = IF g \in woken THEN Woken(fiber[g]) ELSE fiber[g]
    BY <1>3
  <2> HIDE DEF woken
  <2>4. CASE g \in woken
    <3>1. fiber'[g] = Woken(fiber[g])
      BY <2>3, <2>4
    <3>2. fiber[g].id + 1 # fiber[g].id
      BY <2>1
    <3> QED BY <2>2, <2>4, <3>1, <3>2
  <2>5. CASE g \notin woken
    BY <2>1, <2>3, <2>5
  <2> QED BY <2>4, <2>5
<1> HIDE DEF woken
<1>12. fiber' \in [Fibers -> FiberStates]
  BY <1>3, <1>11
<1>13. FiberMoves /\ NobodyDies
  BY <1>2, <1>11 DEF FiberMoves, NobodyDies
<1>14. \A g \in Fibers : Waiting(g)' <=> fiber'[g].wait # "none"
  <2> SUFFICES ASSUME NEW g \in Fibers PROVE Waiting(g)' <=> fiber'[g].wait # "none"
    OBVIOUS
  <2>1. CASE g \in woken
    BY <1>11, <2>1 DEF Waiting
  <2>2. CASE g \notin woken
    <3>1. fiber'[g] = fiber[g] /\ (Waiting(g) <=> fiber[g].wait # "none")
      BY <1>2, <1>11, <2>2 DEF RecordsAreOfWaits
    <3> QED BY <3>1 DEF Waiting
  <2> QED BY <2>1, <2>2
<1>15. /\ Cardinality(WaitingOf(v))' = Cardinality(WaitingOf(v)) - Cardinality(woken)
       /\ Cardinality(woken) \in Nat /\ Cardinality(woken) <= Cardinality(WaitingOf(v))
       /\ \A w \in VMs : w # v => WaitingOf(w)' = WaitingOf(w)
  <2>1. \A g \in Fibers : IF g \in woken THEN ~Waiting(g)' ELSE fiber'[g] = fiber[g]
    BY <1>11 DEF Waiting
  <2> QED BY <1>1, <1>10, <2>1, SomeLessWait
<1>16. Cardinality(WaitingOf(v)) \in Nat /\ listeners[v] = Len(pipe[v]) + Cardinality(WaitingOf(v))
  BY <1>1, <1>2, WaitingIsFinite DEF ListenersCounted
<1>17. /\ listeners'[v] = listeners[v] - Cardinality(woken) /\ Len(pipe'[v]) = Len(pipe[v])
       /\ \A w \in VMs : w # v => listeners'[w] = listeners[w] + Len(sent[w])
  <2>1. Len(sent[v]) = 0
    BY <1>1, <1>6
  <2>2. listeners[v] \in Nat /\ Len(pipe[v]) \in Nat /\ Len(pipe'[v]) = Len(pipe[v]) + Len(sent[v])
    BY <1>1, <1>2, <1>8
  <2>3. \A w \in VMs : listeners'[w] = listeners[w] + Len(sent[w]) - (IF w = v THEN Cardinality(woken) ELSE 0)
    BY <1>3
  <2>4. listeners'[v] = listeners[v] + Len(sent[v]) - Cardinality(woken)
    BY <1>1, <2>3
  <2>5. ASSUME NEW w \in VMs, w # v PROVE listeners'[w] = listeners[w] + Len(sent[w])
    <3>1. listeners'[w] = listeners[w] + Len(sent[w]) - 0
      BY <2>3, <2>5
    <3>2. listeners[w] \in Nat /\ Len(sent[w]) \in Nat
      BY <1>2, <1>8
    <3> QED BY <3>1, <3>2
  <2>6. \A i, j, k, l, n : i \in Nat /\ j \in Nat /\ k = 0 /\ l = i + k /\ n = j + k - Cardinality(woken) => l = i /\ n = j - Cardinality(woken)
    BY <1>15
  <2>7. Len(pipe'[v]) = Len(pipe[v]) /\ listeners'[v] = listeners[v] - Cardinality(woken)
    BY <2>1, <2>2, <2>4, <2>6
  <2> QED BY <2>5, <2>7
<1>18. listeners' \in [VMs -> Nat]
  <2> SUFFICES ASSUME NEW w \in VMs PROVE listeners'[w] \in Nat
    BY <1>3
  <2>1. CASE w = v
    <3>1. Len(pipe[v]) \in Nat
      BY <1>1, <1>8
    <3> QED BY <1>15, <1>16, <1>17, <2>1, <3>1
  <2>2. CASE w # v
    <3>1. listeners[w] \in Nat /\ Len(sent[w]) \in Nat
      BY <1>2, <1>8
    <3> QED BY <1>17, <2>2, <3>1
  <2> QED BY <2>1, <2>2
<1>19. ListenersCounted'
  <2> SUFFICES ASSUME NEW w \in VMs, vm'[w] = "looping"
               PROVE  listeners'[w] = Len(pipe'[w]) + Cardinality(WaitingOf(w))'
    BY DEF ListenersCounted
  <2> DEFINE c == Cardinality(WaitingOf(w))
             e == Cardinality(WaitingOf(w))'
             n == Len(pipe[w])
             t == Len(sent[w])
  <2>1. listeners[w] = n + c /\ c \in Nat /\ n \in Nat /\ t \in Nat /\ Len(pipe'[w]) = n + t
    BY <1>2, <1>8, WaitingIsFinite DEF ListenersCounted
  <2>2. CASE w = v
    <3>1. e = c - Cardinality(woken) /\ Cardinality(woken) \in Nat
      BY <1>15, <2>2
    <3>2. listeners'[w] = listeners[w] - Cardinality(woken) /\ Len(pipe'[w]) = n
      BY <1>17, <2>2
    <3> HIDE DEF c, e, n, t
    <3>3. listeners'[w] = Len(pipe'[w]) + e
      BY <2>1, <3>1, <3>2
    <3> QED BY <3>3 DEF e
  <2>3. CASE w # v
    <3>1. e = c /\ listeners'[w] = listeners[w] + t
      BY <1>15, <1>17, <2>3
    <3> HIDE DEF c, e, n, t
    <3>2. listeners'[w] = Len(pipe'[w]) + e
      BY <2>1, <3>1
    <3> QED BY <3>2 DEF e
  <2> QED BY <2>2, <2>3
<1>20. TypeOK'
  BY <1>1, <1>2, <1>4, <1>7, <1>12, <1>18 DEF TypeOK, Pipes
<1>21. RecordsAreOfWaits'
  <2>1. (\A i \in DOMAIN chan'.readers : FALSE) /\ (\A i \in DOMAIN chan'.writers : FALSE)
    BY <1>4
  <2>2. \A w \in VMs : \A i \in DOMAIN pipe'[w] :
          \/ pipe'[w][i] \in Range(pipe[w])
          \/ pipe'[w][i] \in Messages /\ VmOf[pipe'[w][i].fiber] = w /\ EventOK(pipe'[w][i])
    BY <1>9 DEF Range
  <2> QED BY <1>1, <1>2, <1>13, <1>14, <2>1, <2>2, RecordsKept
<1>22. QueuesMatch'
  BY <1>4 DEF QueuesMatch
<1>23. WritersAreKnown'
  <2>1. ASSUME NEW i \in DOMAIN chan.writers, NEW r \in Records, r = chan.writers[i]
        PROVE  \/ fiber'[r.fiber] # fiber[r.fiber]
               \/ r.id # fiber[r.fiber].id \/ r.vm # VmOf[r.fiber]
               \/ IsTold(pipe', r)
    <3> SUFFICES ASSUME r.id = fiber[r.fiber].id, r.vm = VmOf[r.fiber]
                 PROVE  fiber'[r.fiber] # fiber[r.fiber] \/ IsTold(pipe', r)
      OBVIOUS
    <3>1. i \in DOMAIN rs /\ rs[i] = r /\ r.fiber \in Fibers /\ RecordOK(r, "write")
      BY <1>2, <1>5, <2>1 DEF RecordsAreOfWaits, Records
    <3>2. CASE r.vm = v
      <4>1. r = Record(r.fiber)
        BY DEF Record, Records
      <4>2. Waiting(r.fiber)
        BY <1>2, <3>1 DEF RecordOK, RecordsAreOfWaits
      <4>3. r.fiber \in woken
        BY <3>1, <3>2, <4>1, <4>2 DEF woken, Mine
      <4> QED BY <1>11, <3>1, <4>3
    <3>3. CASE r.vm # v
      <4>1. r.vm \in VMs
        BY <1>1, <3>1, FiberFacts
      <4>2. PICK j \in DOMAIN sent[r.vm] : sent[r.vm][j] = Msg(rs[i], "close", 0)
        BY <1>5, <1>6, <3>1, <3>3, <4>1 DEF TellsOf
      <4>5. Joined(pipe'[r.vm], pipe[r.vm], sent[r.vm])
        BY <1>7, <4>1
      <4>6. sent[r.vm][j] = Msg(r, "close", 0)
        BY <3>1, <4>2
      <4>3. PICK k \in DOMAIN pipe'[r.vm] : pipe'[r.vm][k] = Msg(r, "close", 0)
        BY <4>2, <4>5, <4>6 DEF Joined
      <4> QED BY <4>3 DEF IsTold, Msg
    <3> QED BY <3>2, <3>3
  <2>2. \A i \in DOMAIN chan.writers : LET r == chan.writers[i] IN
           \/ fiber'[r.fiber] # fiber[r.fiber]
           \/ r.id # fiber[r.fiber].id \/ r.vm # VmOf[r.fiber]
           \/ IsTold(pipe', r)
    <3> TAKE i \in DOMAIN chan.writers
    <3>1. chan.writers[i] \in Records
      BY <1>1
    <3> QED BY <2>1, <3>1
  <2>3. \A w \in VMs : \A i \in DOMAIN pipe[w] : pipe[w][i] \in Range(pipe'[w])
    BY <1>8 DEF Range
  <2>4. \A g \in Fibers : fiber'[g].wait = "write" => fiber'[g] = fiber[g]
    BY <1>11
  <2>5. AllLoop' => AllLoop
    BY <1>2 DEF AllLoop
  <2> QED BY <1>1, <1>2, <2>2, <2>3, <2>4, <2>5, WritersKept DEF IsTold
<1>24. InOnePlace(chan.items, pipe', received, calls + 1)
  <2> DEFINE d == [w \in VMs |-> 0]
  <2>1. d \in [VMs -> Nat] /\ \A w \in VMs : d[w] = 0
    OBVIOUS
  <2> HIDE DEF d
  <2>3. \A w \in VMs : DOMAIN pipe[w] \subseteq Nat /\ DOMAIN pipe'[w] \subseteq Nat
    BY <1>7 DEF Joined
  <2>2. \A w \in VMs : \A i \in DOMAIN pipe'[w] :
          pipe'[w][i].mode = "read" => i + d[w] \in DOMAIN pipe[w] /\ pipe'[w][i] = pipe[w][i + d[w]]
    <3> SUFFICES ASSUME NEW w \in VMs, NEW i \in DOMAIN pipe'[w], pipe'[w][i].mode = "read"
                 PROVE  i + d[w] \in DOMAIN pipe[w] /\ pipe'[w][i] = pipe[w][i + d[w]]
      OBVIOUS
    <3>1. i \in DOMAIN pipe[w] /\ pipe'[w][i] = pipe[w][i]
      BY <1>9
    <3>2. i \in Nat
      BY <2>3, <3>1
    <3>3. i + d[w] = i
      BY <2>1, <3>2
    <3> QED BY <3>1, <3>3
  <2> QED BY <1>1, <2>1, <2>2, <2>3, NoNewReads DEF ReadsMovedUp
<1> QED BY <1>1, <1>2, <1>4, <1>19, <1>20, <1>21, <1>22, <1>23, <1>24 DEF IInv

-----------------------------------------------------------------------------
(* The handling of an event.                                                 *)

Without(l, v) == [l EXCEPT ![v] = @ - 1]
AllButHeadKept(p, q, v) ==
  \A w \in VMs : \A i \in DOMAIN p[w] : p[w][i] \in Range(q[w]) \/ (w = v /\ p[w][i] = Head(p[v]))

\* What the event at the head is, and what is left without it.
EventFacts(v, m, p, l) ==
  /\ m \in Messages /\ m.fiber \in Fibers /\ VmOf[m.fiber] = v /\ EventOK(m)
  /\ p \in Pipes /\ Len(pipe[v]) \in Nat /\ Len(pipe[v]) > 0 /\ Len(p[v]) = Len(pipe[v]) - 1
  /\ \A w \in VMs : w # v => p[w] = pipe[w]
  /\ NoBadEvents(pipe, p) /\ AllButHeadKept(pipe, p, v)
  /\ l \in [VMs -> Nat] /\ SameBalance(pipe, listeners, p, l)
  /\ InOnePlace(chan.items, p, received, calls)
  /\ m.value \in Nat /\ (m.mode = "read" => m.value <= calls /\ IsFresh(chan.items, p, received, m.value))

LEMMA EventTaken ==
  ASSUME Assumptions, IInv, NEW v \in VMs, vm[v] = "looping", pipe[v] # <<>>,
         NEW m, m = Head(pipe[v]), NEW p, p = [pipe EXCEPT ![v] = Tail(pipe[v])], NEW l, l = Without(listeners, v)
  PROVE  EventFacts(v, m, p, l)
<1>1. /\ TypeOK /\ pipe \in Pipes /\ listeners \in [VMs -> Nat] /\ RecordsAreOfWaits /\ ListenersCounted
      /\ InOnePlace(chan.items, pipe, received, calls)
  BY DEF IInv, TypeOK, Pipes
<1>2. /\ p \in Pipes /\ m = pipe[v][1] /\ m \in Messages /\ 1 \in DOMAIN pipe[v]
      /\ Len(pipe[v]) \in Nat /\ Len(pipe[v]) > 0 /\ Len(p[v]) = Len(pipe[v]) - 1
      /\ \A w \in VMs : DOMAIN pipe[w] = 1 .. Len(pipe[w]) /\ DOMAIN p[w] = 1 .. Len(p[w])
      /\ \A i \in 1 .. Len(p[v]) : i + 1 \in DOMAIN pipe[v] /\ p[v][i] = pipe[v][i + 1]
      /\ \A w \in VMs : w # v => p[w] = pipe[w]
  <2>1. pipe \in Pipes /\ p = [pipe EXCEPT ![v] = Tail(pipe[v])]
    BY <1>1
  <2>2. Beheaded(pipe, p, v)
    BY <2>1, TailShape
  <2> QED BY <2>2 DEF Beheaded
<1>3. m.fiber \in Fibers /\ m.value \in Nat /\ VmOf[m.fiber] = v /\ EventOK(m)
  <2>1. m.fiber \in Fibers /\ m.value \in Nat
    BY <1>2 DEF Messages
  <2>2. VmOf[pipe[v][1].fiber] = v /\ EventOK(pipe[v][1])
    BY <1>1, <1>2 DEF RecordsAreOfWaits
  <2> QED BY <1>2, <2>1, <2>2
<1>4. NoBadEvents(pipe, p)
  <2> SUFFICES ASSUME NEW w \in VMs, NEW i \in DOMAIN p[w] PROVE p[w][i] \in Range(pipe[w])
    BY DEF NoBadEvents
  <2>1. CASE w = v
    <3>1. i + 1 \in DOMAIN pipe[v] /\ p[v][i] = pipe[v][i + 1]
      BY <1>2, <2>1
    <3> QED BY <2>1, <3>1 DEF Range
  <2>2. CASE w # v
    BY <1>2, <2>2 DEF Range
  <2> QED BY <2>1, <2>2
<1>5. AllButHeadKept(pipe, p, v)
  <2> SUFFICES ASSUME NEW w \in VMs, NEW i \in DOMAIN pipe[w]
               PROVE  pipe[w][i] \in Range(p[w]) \/ (w = v /\ pipe[w][i] = m)
    BY DEF AllButHeadKept
  <2>1. CASE w = v /\ i = 1
    BY <1>2, <2>1
  <2>2. CASE w = v /\ i # 1
    <3>1. i - 1 \in 1 .. Len(p[v]) /\ (i - 1) + 1 = i
      BY <1>2, <2>2
    <3>2. p[v][i - 1] = pipe[v][i]
      BY <1>2, <3>1
    <3> QED BY <1>2, <2>2, <3>1, <3>2 DEF Range
  <2>3. CASE w # v
    BY <1>2, <2>3 DEF Range
  <2> QED BY <2>1, <2>2, <2>3
<1>6. l \in [VMs -> Nat] /\ SameBalance(pipe, listeners, p, l)
  <2>1. listeners[v] = Len(pipe[v]) + Cardinality(WaitingOf(v)) /\ Cardinality(WaitingOf(v)) \in Nat
    BY <1>1, WaitingIsFinite DEF ListenersCounted
  <2>2. listeners[v] \in Nat /\ listeners[v] - 1 \in Nat
    BY <1>2, <2>1
  <2>3. l \in [VMs -> Nat] /\ l[v] = listeners[v] - 1 /\ \A w \in VMs : w # v => l[w] = listeners[w]
    BY <1>1, <2>2 DEF Without
  <2>4. l[v] - Len(p[v]) = listeners[v] - Len(pipe[v])
    BY <1>2, <2>2, <2>3
  <2>5. \A w \in VMs : w # v => l[w] - Len(p[w]) = listeners[w] - Len(pipe[w])
    BY <1>2, <2>3
  <2> QED BY <2>3, <2>4, <2>5 DEF SameBalance
<1>7. Beheaded(pipe, p, v)
  <2>1. p = [pipe EXCEPT ![v] = Tail(pipe[v])]
    OBVIOUS
  <2> QED BY <1>1, <2>1, TailShape
<1>9. InOnePlace(chan.items, p, received, calls)
  BY <1>1, <1>7, HeadGone
<1>10. ASSUME m.mode = "read" PROVE m.value <= calls /\ IsFresh(chan.items, p, received, m.value)
  <2>1. m.value <= calls
    BY <1>1, <1>2, <1>10 DEF InOnePlace
  <2>2. OnTheWay(pipe, m.value)
    BY <1>2, <1>10 DEF OnTheWay, Carries
  <2>3. ~OnTheWay(p, m.value)
    BY <1>7, <1>10, <1>1, HeadGone
  <2>4. (\A i \in DOMAIN chan.items : chan.items[i] # m.value) /\ \A q \in received : q[1] # m.value
    BY <1>1, <2>2 DEF InOnePlace
  <2> QED BY <2>1, <2>3, <2>4 DEF IsFresh
<1> QED BY <1>2, <1>3, <1>4, <1>5, <1>6, <1>9, <1>10 DEF EventFacts

\* The event is resent to the first record that has a VM.
LEMMA ResendKeeps ==
  ASSUME Assumptions, IInv, NEW v \in VMs, vm[v] = "looping", pipe[v] # <<>>,
         NEW wait \in {"read", "write"}, NEW q \in Seq(Records), \A i \in DOMAIN q : RecordOK(q[i], wait),
         NEW x \in Nat, x <= calls, wait = "read" => x = Head(pipe[v]).value /\ Head(pipe[v]).mode = "read",
         Resend(v, q, wait, x)
  PROVE  /\ pipe' \in Pipes /\ listeners' \in [VMs -> Nat] /\ SameBalance(pipe, listeners, pipe', listeners')
         /\ NoBadEvents(pipe, pipe') /\ AllButHeadKept(pipe, pipe', v)
         /\ InOnePlace(chan.items, pipe', received, calls)
         /\ FirstWithVM(q) # 0 => IsTold(pipe', q[FirstWithVM(q)])
<1> DEFINE i == FirstWithVM(q)
           p == [pipe EXCEPT ![v] = Tail(@)]
           l == Without(listeners, v)
           m == Head(pipe[v])
<1>1. /\ p \in Pipes /\ l \in [VMs -> Nat] /\ NoBadEvents(pipe, p) /\ AllButHeadKept(pipe, p, v)
      /\ SameBalance(pipe, listeners, p, l) /\ InOnePlace(chan.items, p, received, calls)
      /\ m.mode = "read" => IsFresh(chan.items, p, received, m.value)
  <2>1. PICK u : u = p
    OBVIOUS
  <2>2. PICK k : k = l
    OBVIOUS
  <2>3. PICK n : n = m
    OBVIOUS
  <2> HIDE DEF p, l, m
  <2>4. u = [pipe EXCEPT ![v] = Tail(pipe[v])] /\ k = Without(listeners, v) /\ n = Head(pipe[v])
    BY <2>1, <2>2, <2>3 DEF p, l, m
  <2>5. /\ u \in Pipes /\ k \in [VMs -> Nat] /\ NoBadEvents(pipe, u) /\ AllButHeadKept(pipe, u, v)
        /\ SameBalance(pipe, listeners, u, k) /\ InOnePlace(chan.items, u, received, calls)
        /\ n.mode = "read" => IsFresh(chan.items, u, received, n.value)
    BY <2>4, EventTaken DEF EventFacts
  <2> QED BY <2>1, <2>2, <2>3, <2>5
<1>2. IF i = 0 THEN pipe' = p /\ listeners' = l
      ELSE pipe' = Posted(p, q[i], wait, x) /\ listeners' = Counted(l, q[i])
  BY DEF Resend, Without
<1> HIDE DEF p, l, m
<1>3. CASE i = 0
  BY <1>1, <1>2, <1>3
<1>4. CASE i # 0
  <2>1. i \in DOMAIN q /\ q[i].vm # None
    BY <1>4, FirstFacts
  <2>2. PICK r \in Records : r = q[i] /\ RecordOK(r, wait) /\ r.vm # None
    BY <2>1
  <2> HIDE DEF i
  <2>3. pipe' = Posted(p, r, wait, x) /\ listeners' = Counted(l, r)
    BY <1>2, <1>4, <2>2
  <2>4. /\ pipe' \in Pipes /\ listeners' \in [VMs -> Nat] /\ SameBalance(p, l, pipe', listeners')
        /\ NoBadEvents(p, pipe') /\ AllKept(p, pipe') /\ IsTold(pipe', r)
        /\ \A items, rcvd, n : InOnePlace(items, p, rcvd, n) /\ x <= n /\ (wait = "read" => IsFresh(items, p, rcvd, x))
                                  => InOnePlace(items, pipe', rcvd, n)
    BY <1>1, <2>2, <2>3, PostKeeps
  <2>5. InOnePlace(chan.items, pipe', received, calls)
    <3>1. wait = "read" => IsFresh(chan.items, p, received, x)
      BY <1>1 DEF m
    <3> QED BY <1>1, <2>4, <3>1
  <2>6. SameBalance(pipe, listeners, pipe', listeners')
    BY <1>1, <2>4 DEF SameBalance
  <2>7. NoBadEvents(pipe, pipe')
    <3> SUFFICES ASSUME NEW w \in VMs, NEW j \in DOMAIN pipe'[w]
                 PROVE  \/ pipe'[w][j] \in Range(pipe[w])
                        \/ pipe'[w][j] \in Messages /\ VmOf[pipe'[w][j].fiber] = w /\ EventOK(pipe'[w][j])
      BY DEF NoBadEvents
    <3>1. CASE pipe'[w][j] \in Range(p[w])
      <4>1. PICK k \in DOMAIN p[w] : pipe'[w][j] = p[w][k]
        BY <3>1 DEF Range
      <4> QED BY <1>1, <4>1 DEF NoBadEvents
    <3> QED BY <2>4, <3>1 DEF NoBadEvents
  <2>8. AllButHeadKept(pipe, pipe', v)
    <3> SUFFICES ASSUME NEW w \in VMs, NEW j \in DOMAIN pipe[w], ~(w = v /\ pipe[w][j] = Head(pipe[v]))
                 PROVE  pipe[w][j] \in Range(pipe'[w])
      BY DEF AllButHeadKept
    <3>1. PICK k \in DOMAIN p[w] : pipe[w][j] = p[w][k]
      BY <1>1 DEF AllButHeadKept, Range
    <3> QED BY <2>4, <3>1 DEF AllKept
  <2> QED BY <2>2, <2>4, <2>5, <2>6, <2>7, <2>8 DEF i
<1> QED BY <1>3, <1>4

\* An event too late for its fiber leaves, and the queues may lose records.
LEMMA StaleKeeps ==
  ASSUME Assumptions, IInv, NEW v \in VMs, pipe[v] # <<>>, NEW m, m = Head(pipe[v]), ~StillWaits(m),
         UNCHANGED <<fiber, vm, calls, received>>,
         pipe' \in Pipes, listeners' \in [VMs -> Nat], SameBalance(pipe, listeners, pipe', listeners'),
         NoBadEvents(pipe, pipe'), AllButHeadKept(pipe, pipe', v),
         InOnePlace(chan.items, pipe', received, calls),
         chan' \in ChannelStates, chan'.items = chan.items,
         \A i \in DOMAIN chan'.readers : chan'.readers[i] \in Range(chan.readers),
         \A i \in DOMAIN chan'.writers : chan'.writers[i] \in Range(chan.writers),
         chan'.readers # <<>> => chan.readers # <<>>,
         chan'.writers # <<>> => chan.writers # <<>>, Len(chan'.writers) <= Len(chan.writers),
         \A i \in DOMAIN chan.writers :
           \/ chan.writers[i] \in Range(chan'.writers)
           \/ chan.writers[i].vm # VmOf[chan.writers[i].fiber]
           \/ IsTold(pipe', chan.writers[i])
  PROVE  IInv'
<1>1. TypeOK /\ RecordsAreOfWaits /\ QueuesMatch /\ WritersAreKnown /\ ListenersCounted
  BY DEF IInv
<1>2. /\ FiberMoves /\ NobodyDies /\ (AllLoop' => AllLoop)
      /\ \A g \in Fibers : Waiting(g)' <=> fiber'[g].wait # "none"
      /\ \A g \in Fibers : fiber'[g].status = "waiting" <=> fiber[g].status = "waiting"
      /\ \A g \in Fibers : fiber'[g] = fiber[g]
  BY <1>1, FibersStay
<1>3. TypeOK'
  BY <1>1 DEF TypeOK, Pipes
<1>4. ListenersCounted'
  BY <1>1, <1>2, CountKept
<1>5. RecordsAreOfWaits'
  BY <1>1, <1>2, RecordsKept DEF NoBadEvents
<1>6. QueuesMatch'
  <2>1. Len(chan.writers) \in Nat /\ Len(chan'.writers) \in Nat /\ Len(chan.items) \in Nat /\ Limit \in Nat
    BY <1>1 DEF TypeOK, ChannelStates, Assumptions
  <2> QED BY <1>1, <2>1 DEF QueuesMatch
<1>7. WritersAreKnown'
  <2>1. \A w \in VMs : \A i \in DOMAIN pipe[w] :
          pipe[w][i] \in Range(pipe'[w]) \/ pipe[w][i].id # fiber[pipe[w][i].fiber].id
    BY DEF AllButHeadKept, StillWaits
  <2> QED BY <1>1, <1>2, <2>1, WritersKept DEF IsTold
<1> QED BY <1>3, <1>4, <1>5, <1>6, <1>7 DEF IInv

\* The fiber of an event that is in time is woken.
LEMMA WakeKeeps ==
  ASSUME Assumptions, IInv, NEW v \in VMs, vm[v] = "looping", pipe[v] # <<>>, NEW m, m = Head(pipe[v]), StillWaits(m),
         fiber' = [fiber EXCEPT ![m.fiber] = Woken(fiber[m.fiber])],
         received' = IF m.mode = "read" THEN received \cup {<<m.value, m.fiber>>} ELSE received,
         pipe' = [pipe EXCEPT ![v] = Tail(@)],
         listeners' = [listeners EXCEPT ![v] = @ - 2],
         UNCHANGED <<chan, vm, calls>>
  PROVE  IInv'
<1> DEFINE f == m.fiber
           l == Without(listeners, v)
<1>1. TypeOK /\ RecordsAreOfWaits /\ WritersAreKnown /\ ListenersCounted /\ QueuesMatch
  BY DEF IInv
<1>2. /\ m \in Messages /\ f \in Fibers /\ VmOf[f] = v /\ EventOK(m)
      /\ pipe' \in Pipes /\ Len(pipe[v]) \in Nat /\ Len(pipe[v]) > 0 /\ Len(pipe'[v]) = Len(pipe[v]) - 1
      /\ \A w \in VMs : w # v => pipe'[w] = pipe[w]
      /\ NoBadEvents(pipe, pipe') /\ AllButHeadKept(pipe, pipe', v)
      /\ InOnePlace(chan.items, pipe', received, calls)
      /\ m.value \in Nat /\ (m.mode = "read" => m.value <= calls /\ IsFresh(chan.items, pipe', received, m.value))
  <2>1. PICK k : k = l
    OBVIOUS
  <2> HIDE DEF l, f
  <2>2. k = Without(listeners, v)
    BY <2>1 DEF l
  <2>3. PICK p : p = pipe'
    OBVIOUS
  <2>4. p = [pipe EXCEPT ![v] = Tail(pipe[v])]
    BY <2>3
  <2>6. EventFacts(v, m, p, k)
    BY <2>2, <2>4, EventTaken
  <2>5. /\ m \in Messages /\ m.fiber \in Fibers /\ VmOf[m.fiber] = v /\ EventOK(m)
        /\ p \in Pipes /\ Len(pipe[v]) \in Nat /\ Len(pipe[v]) > 0 /\ Len(p[v]) = Len(pipe[v]) - 1
        /\ \A w \in VMs : w # v => p[w] = pipe[w]
        /\ NoBadEvents(pipe, p) /\ AllButHeadKept(pipe, p, v)
        /\ InOnePlace(chan.items, p, received, calls)
        /\ m.value \in Nat /\ (m.mode = "read" => m.value <= calls /\ IsFresh(chan.items, p, received, m.value))
    BY <2>6 DEF EventFacts
  <2> QED BY <2>3, <2>5 DEF f
<1>3. Waiting(f)
  BY <1>1, <1>2 DEF StillWaits, EventOK, RecordsAreOfWaits
<1> HIDE DEF f
<1>4. /\ FiberMoves /\ fiber' \in [Fibers -> FiberStates]
      /\ \A g \in Fibers : Waiting(g)' <=> fiber'[g].wait # "none"
      /\ fiber'[f] # fiber[f] /\ fiber'[f].wait = "none"
      /\ \A g \in Fibers : g # f => fiber'[g] = fiber[g]
      /\ Cardinality(WaitingOf(v))' = Cardinality(WaitingOf(v)) - 1
      /\ Cardinality(WaitingOf(v)) \in Nat /\ Cardinality(WaitingOf(v)) > 0
      /\ \A w \in VMs : w # v => WaitingOf(w)' = WaitingOf(w)
  <2>1. fiber' = [fiber EXCEPT ![f] = Woken(fiber[f])]
    BY DEF f
  <2>2. Cardinality(WaitingOf(VmOf[f]))' = Cardinality(WaitingOf(v))'
    BY <1>2
  <2> QED BY <1>2, <1>3, <2>1, <2>2, WakeFacts
<1>5. /\ listeners \in [VMs -> Nat] /\ listeners[v] = Len(pipe[v]) + Cardinality(WaitingOf(v))
      /\ \A w \in VMs : Len(pipe[w]) \in Nat
  BY <1>1 DEF TypeOK, ListenersCounted
<1>6. listeners[v] \in Nat /\ listeners[v] - 2 \in Nat
  BY <1>2, <1>4, <1>5
<1>7. listeners' \in [VMs -> Nat] /\ listeners'[v] = listeners[v] - 2 /\ \A w \in VMs : w # v => listeners'[w] = listeners[w]
  BY <1>5, <1>6
<1>8. ListenersCounted'
  <2> SUFFICES ASSUME NEW w \in VMs, vm'[w] = "looping"
               PROVE  listeners'[w] = Len(pipe'[w]) + Cardinality(WaitingOf(w))'
    BY DEF ListenersCounted
  <2>2. CASE w = v
    <3> DEFINE c == Cardinality(WaitingOf(w))
               e == Cardinality(WaitingOf(w))'
               n == Len(pipe[w])
    <3>1. e = c - 1 /\ c \in Nat /\ listeners[w] = n + c /\ n \in Nat
      BY <1>2, <1>4, <1>5, <2>2
    <3>2. listeners'[w] = listeners[w] - 2 /\ Len(pipe'[w]) = n - 1
      BY <1>2, <1>7, <2>2
    <3> HIDE DEF c, e, n
    <3>3. listeners'[w] = Len(pipe'[w]) + e
      BY <3>1, <3>2
    <3> QED BY <3>3 DEF e
  <2>3. CASE w # v
    <3>1. WaitingOf(w)' = WaitingOf(w) /\ listeners'[w] = listeners[w] /\ pipe'[w] = pipe[w]
      BY <1>2, <1>4, <1>7, <2>3
    <3> QED BY <1>1, <3>1 DEF ListenersCounted
  <2> QED BY <2>2, <2>3
<1>9. NobodyDies /\ (AllLoop' => AllLoop)
  BY DEF NobodyDies, AllLoop
<1>10. InOnePlace(chan.items, pipe', received', calls)
  <2>1. CASE m.mode = "read"
    BY <1>2, <2>1, ValueReceived
  <2>2. CASE m.mode # "read"
    BY <1>2, <2>2
  <2> QED BY <2>1, <2>2
<1>11. TypeOK'
  <2>1. \A p \in received' : p \in Nat \X Fibers
    BY <1>1, <1>2 DEF TypeOK, f
  <2> QED BY <1>1, <1>2, <1>4, <1>7, <2>1 DEF TypeOK, Pipes
<1>12. RecordsAreOfWaits'
  <2>1. \A i \in DOMAIN chan'.readers : chan'.readers[i] \in Range(chan.readers)
    BY DEF Range
  <2>2. \A i \in DOMAIN chan'.writers : chan'.writers[i] \in Range(chan.writers)
    BY DEF Range
  <2> QED BY <1>1, <1>2, <1>4, <1>9, <2>1, <2>2, RecordsKept DEF NoBadEvents
<1>13. QueuesMatch'
  BY <1>1 DEF QueuesMatch
<1>14. WritersAreKnown'
  <2>1. \A i \in DOMAIN chan.writers : chan.writers[i] \in Range(chan'.writers)
    BY DEF Range
  <2>2. \A w \in VMs : \A i \in DOMAIN pipe[w] :
          pipe[w][i] \in Range(pipe'[w]) \/ fiber'[pipe[w][i].fiber] # fiber[pipe[w][i].fiber]
    BY <1>2, <1>4 DEF AllButHeadKept, f
  <2>3. \A g \in Fibers : fiber'[g].wait = "write" => fiber'[g] = fiber[g]
    BY <1>4
  <2> QED BY <1>1, <1>9, <2>1, <2>2, <2>3, WritersKept
<1> QED BY <1>8, <1>10, <1>11, <1>12, <1>13, <1>14 DEF IInv

LEMMA HandleEventKeeps == ASSUME Assumptions, IInv, NEW v \in VMs, HandleEvent(v) PROVE IInv'
<1> DEFINE m == Head(pipe[v])
<1>1. /\ vm[v] = "looping" /\ pipe[v] # <<>> /\ vm' = vm /\ calls' = calls
      /\ TypeOK /\ RecordsAreOfWaits /\ chan \in ChannelStates
      /\ chan.readers \in Seq(Records) /\ chan.writers \in Seq(Records)
  BY DEF HandleEvent, IInv, TypeOK, ChannelStates
<1>2. /\ m.value \in Nat /\ (m.mode = "read" => m.value <= calls) /\ calls \in Nat
  <2>1. calls \in Nat
    BY <1>1 DEF TypeOK
  <2>2. PICK p : p = [pipe EXCEPT ![v] = Tail(pipe[v])]
    OBVIOUS
  <2>3. PICK l : l = Without(listeners, v)
    OBVIOUS
  <2>4. PICK n : n = m
    OBVIOUS
  <2>5. n = Head(pipe[v])
    BY <2>4
  <2> HIDE DEF m
  <2>6. n.value \in Nat /\ (n.mode = "read" => n.value <= calls)
    BY <1>1, <2>2, <2>3, <2>5, EventTaken DEF EventFacts
  <2> QED BY <2>1, <2>4, <2>6
<1>3. CASE /\ StillWaits(m)
           /\ fiber' = [fiber EXCEPT ![m.fiber] = Woken(fiber[m.fiber])]
           /\ received' = IF m.mode = "read" THEN received \cup {<<m.value, m.fiber>>} ELSE received
           /\ pipe' = [pipe EXCEPT ![v] = Tail(@)]
           /\ listeners' = [listeners EXCEPT ![v] = @ - 2]
           /\ UNCHANGED chan
  <2>1. PICK n : n = m
    OBVIOUS
  <2>2. n = Head(pipe[v])
    BY <2>1
  <2> HIDE DEF m
  <2> QED BY <1>1, <1>3, <2>1, <2>2, WakeKeeps
<1>4. CASE /\ ~StillWaits(m) /\ m.mode = "read"
           /\ Resend(v, chan.readers, "read", m.value)
           /\ chan' = [chan EXCEPT !.readers = From(@, FirstWithVM(@))]
           /\ UNCHANGED <<fiber, received>>
  <2> DEFINE q == chan.readers
             i == FirstWithVM(q)
  <2>1. \A j \in DOMAIN q : RecordOK(q[j], "read")
    BY <1>1 DEF RecordsAreOfWaits
  <2>2. /\ pipe' \in Pipes /\ listeners' \in [VMs -> Nat] /\ SameBalance(pipe, listeners, pipe', listeners')
        /\ NoBadEvents(pipe, pipe') /\ AllButHeadKept(pipe, pipe', v)
        /\ InOnePlace(chan.items, pipe', received, calls)
    <3>1. "read" \in {"read", "write"}
      OBVIOUS
    <3>2. PICK x : x = m.value
      OBVIOUS
    <3>3. x \in Nat /\ x <= calls /\ x = Head(pipe[v]).value /\ Head(pipe[v]).mode = "read" /\ Resend(v, q, "read", x)
      BY <1>2, <1>4, <3>2
    <3> HIDE DEF q, m
    <3>4. q \in Seq(Records)
      BY <1>1 DEF q
    <3> QED BY <1>1, <2>1, <3>1, <3>3, <3>4, ResendKeeps
  <2>3. i \in 0 .. Len(q)
    BY <1>1, FirstFacts
  <2>4. From(q, i) \in Seq(Records) /\ (From(q, i) # <<>> => q # <<>>) /\ \A j \in DOMAIN From(q, i) : From(q, i)[j] \in Range(q)
    BY <1>1, <2>3, FromFacts
  <2>5. chan' \in ChannelStates /\ chan'.items = chan.items /\ chan'.writers = chan.writers /\ chan'.readers = From(q, i)
    BY <1>1, <1>4, <2>4 DEF ChannelStates
  <2>6. /\ \A j \in DOMAIN chan'.writers : chan'.writers[j] \in Range(chan.writers)
        /\ \A j \in DOMAIN chan.writers : chan.writers[j] \in Range(chan'.writers)
        /\ Len(chan'.writers) <= Len(chan.writers)
    BY <1>1, <2>5 DEF Range
  <2>7. UNCHANGED <<fiber, vm, calls, received>> /\ ~StillWaits(m)
    BY <1>1, <1>4
  <2>8. PICK n : n = m
    OBVIOUS
  <2>9. n = Head(pipe[v]) /\ ~StillWaits(n)
    BY <2>7, <2>8
  <2> HIDE DEF q, i, m
  <2>10. /\ \A j \in DOMAIN chan'.readers : chan'.readers[j] \in Range(chan.readers)
         /\ chan'.readers # <<>> => chan.readers # <<>>
         /\ chan'.writers # <<>> => chan.writers # <<>>
    BY <2>4, <2>5 DEF q
  <2> QED BY <1>1, <2>2, <2>5, <2>6, <2>7, <2>9, <2>10, StaleKeeps
<1>5. CASE /\ ~StillWaits(m) /\ m.mode = "write"
           /\ Resend(v, chan.writers, "write", 0)
           /\ chan' = [chan EXCEPT !.writers = From(@, FirstWithVM(@))]
           /\ UNCHANGED <<fiber, received>>
  <2> DEFINE q == chan.writers
             i == FirstWithVM(q)
  <2>1. \A j \in DOMAIN q : RecordOK(q[j], "write")
    BY <1>1 DEF RecordsAreOfWaits
  <2>2. /\ pipe' \in Pipes /\ listeners' \in [VMs -> Nat] /\ SameBalance(pipe, listeners, pipe', listeners')
        /\ NoBadEvents(pipe, pipe') /\ AllButHeadKept(pipe, pipe', v)
        /\ InOnePlace(chan.items, pipe', received, calls)
        /\ i # 0 => IsTold(pipe', q[i])
    <3>1. "write" \in {"read", "write"} /\ 0 \in Nat /\ 0 <= calls
      BY <1>2
    <3>2. Resend(v, q, "write", 0)
      BY <1>5
    <3> HIDE DEF q, m
    <3>3. q \in Seq(Records)
      BY <1>1 DEF q
    <3> QED BY <1>1, <2>1, <3>1, <3>2, <3>3, ResendKeeps
  <2>3. /\ i \in 0 .. Len(q) /\ DOMAIN q = 1 .. Len(q)
        /\ i = 0 => \A j \in DOMAIN q : q[j].vm = None
        /\ i # 0 => i \in DOMAIN q /\ q[i].vm # None /\ \A j \in DOMAIN q : j < i => q[j].vm = None
    BY <1>1, FirstFacts
  <2>4. /\ From(q, i) \in Seq(Records) /\ (From(q, i) # <<>> => q # <<>>)
        /\ \A j \in DOMAIN From(q, i) : From(q, i)[j] \in Range(q)
        /\ Len(From(q, i)) <= Len(q)
        /\ i # 0 => \A j \in DOMAIN q : j > i => q[j] \in Range(From(q, i))
    BY <1>1, <2>3, FromFacts
  <2>5. chan' \in ChannelStates /\ chan'.items = chan.items /\ chan'.readers = chan.readers /\ chan'.writers = From(q, i)
    BY <1>1, <1>5, <2>4 DEF ChannelStates
  <2>6. /\ \A j \in DOMAIN chan'.readers : chan'.readers[j] \in Range(chan.readers)
    BY <2>5 DEF Range
  <2>7. UNCHANGED <<fiber, vm, calls, received>> /\ ~StillWaits(m)
    BY <1>1, <1>5
  <2>8. PICK n : n = m
    OBVIOUS
  <2>9. n = Head(pipe[v]) /\ ~StillWaits(n)
    BY <2>7, <2>8
  <2> HIDE DEF i, m
  <2>10. ASSUME NEW j \in DOMAIN q
         PROVE  \/ q[j] \in Range(chan'.writers)
                \/ q[j].vm # VmOf[q[j].fiber]
                \/ IsTold(pipe', q[j])
    <3>0. q[j] \in Records
      BY <1>1
    <3>1. q[j] \in Records /\ q[j].fiber \in Fibers
      BY <3>0 DEF Records
    <3>2. VmOf[q[j].fiber] # None
      BY <1>1, <3>1, FiberFacts
    <3>3. CASE q[j].vm = None
      BY <3>2, <3>3
    <3>4. CASE q[j].vm # None
      <4>1. i # 0 /\ i \in Nat /\ j \in Nat /\ ~(j < i)
        BY <1>1, <2>3, <3>4
      <4>2. CASE j = i
        BY <2>2, <4>1, <4>2
      <4>3. CASE j > i
        BY <2>4, <2>5, <4>1, <4>3
      <4> QED BY <4>1, <4>2, <4>3
    <3> QED BY <3>3, <3>4
  <2>11. /\ \A j \in DOMAIN chan'.writers : chan'.writers[j] \in Range(chan.writers)
         /\ chan'.readers # <<>> => chan.readers # <<>>
         /\ chan'.writers # <<>> => chan.writers # <<>>
         /\ Len(chan'.writers) <= Len(chan.writers)
    BY <2>4, <2>5
  <2>12. \A j \in DOMAIN chan.writers :
           \/ chan.writers[j] \in Range(chan'.writers)
           \/ chan.writers[j].vm # VmOf[chan.writers[j].fiber]
           \/ IsTold(pipe', chan.writers[j])
    BY <2>10
  <2> QED BY <1>1, <2>2, <2>5, <2>6, <2>7, <2>9, <2>11, <2>12, StaleKeeps
<1>6. CASE /\ ~StillWaits(m) /\ m.mode = "close"
           /\ pipe' = [pipe EXCEPT ![v] = Tail(@)]
           /\ listeners' = [listeners EXCEPT ![v] = @ - 1]
           /\ UNCHANGED <<chan, fiber, received>>
  <2>1. PICK n : n = m
    OBVIOUS
  <2>2. n = Head(pipe[v]) /\ ~StillWaits(n)
    BY <1>6, <2>1
  <2>3. PICK p : p = pipe'
    OBVIOUS
  <2>4. PICK l : l = listeners'
    OBVIOUS
  <2>5. p = [pipe EXCEPT ![v] = Tail(pipe[v])] /\ l = Without(listeners, v)
    BY <1>6, <2>3, <2>4 DEF Without
  <2> HIDE DEF m
  <2>6. /\ p \in Pipes /\ NoBadEvents(pipe, p) /\ AllButHeadKept(pipe, p, v)
        /\ l \in [VMs -> Nat] /\ SameBalance(pipe, listeners, p, l)
        /\ InOnePlace(chan.items, p, received, calls)
    BY <1>1, <2>2, <2>5, EventTaken DEF EventFacts
  <2>7. /\ pipe' \in Pipes /\ NoBadEvents(pipe, pipe') /\ AllButHeadKept(pipe, pipe', v)
        /\ listeners' \in [VMs -> Nat] /\ SameBalance(pipe, listeners, pipe', listeners')
        /\ InOnePlace(chan.items, pipe', received, calls)
    BY <2>3, <2>4, <2>6
  <2>8. /\ chan' \in ChannelStates /\ chan'.items = chan.items
        /\ \A j \in DOMAIN chan'.readers : chan'.readers[j] \in Range(chan.readers)
        /\ \A j \in DOMAIN chan'.writers : chan'.writers[j] \in Range(chan.writers)
        /\ \A j \in DOMAIN chan.writers : chan.writers[j] \in Range(chan'.writers)
        /\ (chan'.readers # <<>> => chan.readers # <<>>) /\ (chan'.writers # <<>> => chan.writers # <<>>)
        /\ Len(chan'.writers) <= Len(chan.writers)
    BY <1>1, <1>6 DEF Range
  <2>9. UNCHANGED <<fiber, vm, calls, received>>
    BY <1>1, <1>6
  <2> QED BY <1>1, <2>2, <2>7, <2>8, <2>9, StaleKeeps
<1> HIDE DEF m
<1> QED BY <1>3, <1>4, <1>5, <1>6 DEF HandleEvent, m

LEMMA NextKeeps == ASSUME Assumptions, IInv, [Next]_vars PROVE IInv'
<1>1. CASE Next
  <2>1. ASSUME NEW f \in Fibers, Give(f) \/ Take(f) \/ Close(f) \/ Interrupt(f) \/ Finish(f) PROVE IInv'
    BY <2>1, GiveKeeps, TakeKeeps, CloseKeeps, InterruptKeeps, FinishKeeps
  <2>2. ASSUME NEW v \in VMs, HandleEvent(v) \/ LoopDone(v) \/ Deinit(v) PROVE IInv'
    BY <2>2, HandleEventKeeps, LoopDoneKeeps, DeinitKeeps
  <2> QED BY <1>1, <2>1, <2>2 DEF Next
<1>2. CASE UNCHANGED vars
  <2>1. TypeOK' /\ ListenersCounted' /\ QueuesMatch'
    BY <1>2 DEF vars, IInv, TypeOK, ListenersCounted, WaitingOf, Waiting, QueuesMatch
  <2>2. RecordsAreOfWaits' /\ WritersAreKnown'
    BY <1>2 DEF vars, IInv, RecordsAreOfWaits, RecordOK, EventOK, WritersAreKnown, Waiting, AllLoop, Record
  <2>3. InOnePlace(chan.items, pipe, received, calls)
    BY DEF IInv
  <2>4. InOnePlace(chan'.items, pipe', received', calls')
    BY <1>2, <2>3 DEF vars
  <2> QED BY <2>1, <2>2, <2>4 DEF IInv
<1> QED BY <1>1, <1>2

-----------------------------------------------------------------------------
(* The results.                                                              *)

LEMMA IInvIsSound == ASSUME Assumptions, IInv PROVE SharedChannelSound
<1>1. /\ TypeOK /\ ListenersCounted /\ RecordsAreOfWaits /\ QueuesMatch /\ WritersAreKnown
      /\ InOnePlace(chan.items, pipe, received, calls)
      /\ chan.readers \in Seq(Records) /\ chan.writers \in Seq(Records) /\ pipe \in Pipes /\ chan.items \in Seq(Nat)
  BY DEF IInv, TypeOK, ChannelStates, Pipes
<1>2. NoRecordOfDeadVM
  <2>1. ASSUME NEW wait \in {"read", "write"}, NEW r, RecordOK(r, wait), r.vm # None PROVE vm[r.vm] # "dead"
    BY <2>1 DEF RecordOK
  <2>2. \A r \in Range(chan.readers) : RecordOK(r, "read")
    BY <1>1 DEF RecordsAreOfWaits, Range
  <2>3. \A r \in Range(chan.writers) : RecordOK(r, "write")
    BY <1>1 DEF RecordsAreOfWaits, Range
  <2> QED BY <2>1, <2>2, <2>3 DEF NoRecordOfDeadVM
<1>3. NeverTwice
  <2>1. \A p, q \in received : p[1] = q[1] => p = q
    BY <1>1 DEF InOnePlace
  <2>2. ASSUME NEW x \in Range(chan.items), NEW p \in received PROVE p[1] # x
    BY <1>1 DEF InOnePlace, Range
  <2>3. ASSUME NEW e \in Events, e.mode = "read"
        PROVE  e.value \notin Range(chan.items) /\ \A p \in received : p[1] # e.value
    <3>1. PICK v \in VMs : e \in Range(pipe[v])
      BY DEF Events
    <3>2. OnTheWay(pipe, e.value)
      BY <2>3, <3>1 DEF OnTheWay, Carries, Range
    <3> QED BY <1>1, <3>2 DEF InOnePlace, Range
  <2> QED BY <2>1, <2>2, <2>3 DEF NeverTwice
<1>4. RoomIsAnnounced
  <2> SUFFICES ASSUME AllLoop, NEW f \in Fibers, fiber[f].wait = "write"
               PROVE  Len(chan.items) > Limit \/ \E e \in Events : e.mode \in {"write", "close"}
    BY DEF RoomIsAnnounced
  <2>1. CASE \E i \in DOMAIN chan.writers : chan.writers[i] = Record(f)
    <3>1. Len(chan.writers) \in Nat /\ Len(chan.writers) > 0 /\ chan.writers # <<>>
      BY <1>1, <2>1
    <3>2. Len(chan.items) >= Limit + Len(chan.writers) /\ Len(chan.items) \in Nat /\ Limit \in Nat
      BY <1>1, <3>1 DEF QueuesMatch, Assumptions
    <3> QED BY <3>1, <3>2
  <2>2. CASE \E i \in DOMAIN pipe[VmOf[f]] : pipe[VmOf[f]][i].fiber = f /\ pipe[VmOf[f]][i].id = fiber[f].id
    <3>1. PICK i \in DOMAIN pipe[VmOf[f]] : pipe[VmOf[f]][i].fiber = f /\ pipe[VmOf[f]][i].id = fiber[f].id
      BY <2>2
    <3>2. VmOf[f] \in VMs
      BY <1>1, FiberFacts
    <3>3. pipe[VmOf[f]][i] \in Events /\ EventOK(pipe[VmOf[f]][i])
      BY <1>1, <3>1, <3>2 DEF Events, Range, RecordsAreOfWaits
    <3> QED BY <3>1, <3>3 DEF EventOK
  <2> QED BY <1>1, <2>1, <2>2 DEF WritersAreKnown
<1> QED BY <1>1, <1>2, <1>3, <1>4 DEF SharedChannelSound

\* IInv is an invariant: InitHolds for the start, NextKeeps for every step.
THEOREM Invariance == ASSUME Assumptions PROVE Spec => []IInv
<1>1. Init => IInv
  BY InitHolds
<1>2. IInv /\ [Next]_vars => IInv'
  BY NextKeeps
<1> QED BY <1>1, <1>2, PTL DEF Spec

\* Of any VMs and fibers, for any capacity: the counts that keep loops going
\* are right, no record leads to a VM that is gone, no value is in two places,
\* and room is announced to a writer (janet_channel_push, janet_channel_pop,
\* janet_thread_chan_cb, janet_ev_handle_selfpipe, janet_chan_deinit).
THEOREM SharedChannelIsSound == ASSUME Assumptions PROVE Spec => []SharedChannelSound
<1>1. IInv => SharedChannelSound
  BY IInvIsSound
<1> QED BY <1>1, Invariance, PTL

\* The step behind it, for whoever runs the channel beside something else.
LEMMA StepWakesItsWait ==
  ASSUME Assumptions, IInv, [Next]_vars
  PROVE  [EventWakesItsWait]_vars
<1> SUFFICES ASSUME NEW v \in VMs, HandleEvent(v), NEW f \in Fibers, Waiting(f), ~Waiting(f)'
             PROVE  Head(pipe[v]).mode = "close" \/ fiber[f].wait = Head(pipe[v]).mode
  BY DEF EventWakesItsWait
<1>1. fiber' # fiber
  BY DEF Waiting
<1>2. PICK m : m = Head(pipe[v])
  OBVIOUS
<1>3. StillWaits(m) /\ fiber' = [fiber EXCEPT ![m.fiber] = Woken(fiber[m.fiber])] /\ vm[v] = "looping" /\ pipe[v] # <<>>
  BY <1>1, <1>2 DEF HandleEvent
<1>4. PICK p : p = [pipe EXCEPT ![v] = Tail(pipe[v])]
  OBVIOUS
<1>5. PICK l : l = Without(listeners, v)
  OBVIOUS
<1>6. EventFacts(v, m, p, l)
  BY <1>2, <1>3, <1>4, <1>5, EventTaken
<1>7. EventOK(m)
  BY <1>6 DEF EventFacts
<1>8. f = m.fiber
  <2> SUFFICES ASSUME f # m.fiber PROVE FALSE
    OBVIOUS
  <2>1. fiber'[f] = fiber[f]
    BY <1>3 DEF IInv, TypeOK
  <2> QED BY <2>1 DEF Waiting
<1> QED BY <1>2, <1>3, <1>7, <1>8 DEF StillWaits, EventOK

\* The sched_id that janet_thread_chan_cb compares suffices: an event wakes a
\* fiber only out of the wait the event was sent for.
THEOREM WokenByItsOwnWaitHolds == ASSUME Assumptions PROVE Spec => WokenByItsOwnWait
<1>1. IInv /\ [Next]_vars => [EventWakesItsWait]_vars
  BY StepWakesItsWait
<1> QED BY <1>1, Invariance, PTL DEF Spec, WokenByItsOwnWait
=============================================================================
