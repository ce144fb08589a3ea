--------------------------- MODULE UpdatesProofs ---------------------------
(***************************************************************************)
(* Updates loses nothing, whatever the server, the network and the user    *)
(* do: proofs that every reachable state is type correct and satisfies     *)
(* GoodMeansApplied, AnswerIsFresh and NeverOvercounted; and, for a server *)
(* that keeps to what the client handles, GapIsWatched, AppliedInOrder and *)
(* RequestIsAlive.                                                         *)
(***************************************************************************)
EXTENDS Updates, FiniteSetTheorems, TLAPS

\* What a waiter already has, or holds back.
Held(w) == w.applied \cup w.own \cup UNION {Points(e) : e \in w.queue}

\* The counters of a waiter whose server has ended updates at E.
CountersInv(w, E) ==
    /\ w.good \in E \cup {0}
    /\ w.last \in E \cup {0}
    /\ w.base <= w.good
    /\ w.good <= w.last
    /\ w.seen \subseteq w.good + 1 .. w.last
    /\ Cardinality(w.seen) = w.count - w.good

\* What those counters stand for, x being about to be applied.
ContentInv(w, x) ==
    /\ w.queue # {} => w.waitingForSkipped /\ ~w.requesting
    /\ ~w.requesting => w.seen \subseteq Held(w) \cup x
    /\ w.base + 1 .. w.good \subseteq Held(w) \cup x

\* The same without the updates held back.
AppliedInv(w) == w.base + 1 .. w.good \subseteq w.applied \cup w.own

WaiterInv(w, E) ==
    /\ w \in WaiterState
    /\ CountersInv(w, E)
    /\ ContentInv(w, {})
    /\ AppliedInv(w)
    /\ w.inFlight => w.requesting

\* An update on its way: no end cuts it in two.
UpdateInv(e, E) ==
    /\ e \in Update
    /\ e.pts \in E
    /\ e.count <= e.pts
    /\ \A x \in E : e.pts <= x \/ x <= e.pts - e.count

\* Updates on their way stand for changes nobody counted yet.
NetInv(seen, E, N) ==
    /\ \A e \in N : UpdateInv(e, E) /\ Points(e) \cap seen = {}
    /\ \A e, f \in N : e # f => Points(e) \cap Points(f) = {}

ReplyInv(r, w, E) ==
    /\ r \in Replies
    /\ r.kind # "none" => w.inFlight
    /\ r.kind \notin {"none", "fail"} => r.from = w.good /\ r.pts \in E /\ r.pts >= w.good
    /\ r.kind = "empty" => r.pts = w.good

ServerInv(E, t) ==
    /\ E \subseteq 1 .. MaxPts
    /\ t \in E
    /\ \A x \in E : x <= t

\* The answers a channel gets.
KindInv(b) == b # Common => reply[b].kind \notin {"state", "slice"}

BoxInv(b) ==
    /\ KindInv(b)
    /\ WaiterInv(box[b], ends[b])
    /\ NetInv(box[b].seen, ends[b], net[b])
    /\ ReplyInv(reply[b], box[b], ends[b])
    /\ ServerInv(ends[b], top[b])

IInv ==
    /\ TypeOK
    /\ \A b \in Boxes : BoxInv(b)

----------------------------------------------------------------------------
LEMMA IntervalCard ==
    ASSUME NEW a \in Int, NEW n \in Nat
    PROVE  /\ IsFiniteSet(a + 1 .. a + n)
           /\ Cardinality(a + 1 .. a + n) = n
<1>1. PICK lo \in Int, hi \in Int : lo = a + 1 /\ hi = a + n
  OBVIOUS
<1>2. /\ IsFiniteSet(lo .. hi)
      /\ Cardinality(lo .. hi) = IF lo > hi THEN 0 ELSE hi - lo + 1
  BY FS_Interval
<1>3. (IF lo > hi THEN 0 ELSE hi - lo + 1) = n
  BY <1>1
<1> QED
  BY <1>1, <1>2, <1>3

LEMMA PointsCard ==
    ASSUME NEW e, e.pts \in Nat, e.count \in Nat
    PROVE  /\ IsFiniteSet(Points(e))
           /\ Cardinality(Points(e)) = e.count
<1>1. PICK a \in Int : a = e.pts - e.count
  OBVIOUS
<1>2. Points(e) = a + 1 .. a + e.count
  BY <1>1 DEF Points
<1> QED
  BY <1>2, IntervalCard

\* The counting argument: the changes counted lie between good and last, so
\* once there are as many of them as numbers, none is missing.
LEMMA NoneMissing ==
    ASSUME NEW g \in Nat, NEW l \in Nat, NEW S, S \subseteq g + 1 .. l, g <= l
    PROVE  /\ IsFiniteSet(S)
           /\ Cardinality(S) \in Nat
           /\ Cardinality(S) <= l - g
           /\ Cardinality(S) = l - g => S = g + 1 .. l
<1>1. PICK n \in Nat : l = g + n /\ n = l - g
  OBVIOUS
<1>2. PICK I : I = g + 1 .. g + n
  OBVIOUS
<1>3. IsFiniteSet(I) /\ Cardinality(I) = n
  <2>1. g \in Int
    OBVIOUS
  <2> QED
    BY <1>2, <2>1, IntervalCard
<1>4. S \in SUBSET I /\ I = g + 1 .. l
  BY <1>1, <1>2
<1>5. /\ IsFiniteSet(S)
      /\ Cardinality(S) <= Cardinality(I)
      /\ Cardinality(I) = Cardinality(S) => I = S
  BY <1>3, <1>4, FS_Subset
<1>6. Cardinality(S) \in Nat
  BY <1>5, FS_CardinalityType
<1> QED
  BY <1>1, <1>3, <1>4, <1>5, <1>6

----------------------------------------------------------------------------
LEMMA CountedInv ==
    ASSUME NEW w \in WaiterState, NEW E, NEW e, E \subseteq 1 .. MaxPts,
           CountersInv(w, E), UpdateInv(e, E),
           Points(e) \cap w.seen = {}, ~Covered(w, e)
    PROVE  LET c == Counted(w, e)
           IN  /\ c.last \in E \cup {0}
               /\ c.last \in Nat /\ c.good = w.good
               /\ c.good <= c.last
               /\ c.seen = w.seen \cup Points(e)
               /\ c.seen \subseteq c.good + 1 .. c.last
               /\ c.count \in Nat
               /\ Cardinality(c.seen) = c.count - c.good
               /\ Points(e) \subseteq Int
<1> DEFINE c == Counted(w, e)
<1> MaxPts \in Nat
  BY ConstantsAssumption
<1>1. /\ e.pts \in 1 .. MaxPts /\ e.count \in Nat /\ e.pts \in E
      /\ \A x \in E : e.pts <= x \/ x <= e.pts - e.count
      /\ e.count <= e.pts
  BY DEF UpdateInv, Update
<1>2. /\ w.good \in 0 .. MaxPts /\ w.last \in 0 .. MaxPts /\ w.count \in Nat
      /\ w.seen \subseteq Int
  BY DEF WaiterState
<1>3. /\ c.last = IF e.pts > w.last THEN e.pts ELSE w.last
      /\ c.count = w.count + e.count
      /\ c.seen = w.seen \cup Points(e)
      /\ c.good = w.good
  BY DEF Counted, WaiterState
<1>4. c.last \in E \cup {0} /\ c.last \in Nat /\ c.good <= c.last /\ w.last <= c.last /\ e.pts <= c.last
  BY <1>1, <1>2, <1>3 DEF CountersInv
<1>5. Points(e) \subseteq w.good + 1 .. e.pts
  <2>1. CASE e.count = 0
    BY <2>1, <1>1, <1>2 DEF Points
  <2>2. CASE e.count # 0
    <3>1. w.good < e.pts
      BY <2>2, <1>1, <1>2 DEF Covered
    <3>2. w.good <= e.pts - e.count
      BY <3>1, <1>1, <1>2 DEF CountersInv
    <3> QED
      BY <3>2, <1>1, <1>2 DEF Points
  <2> QED
    BY <2>1, <2>2
<1>6. c.seen \subseteq c.good + 1 .. c.last
  BY <1>1, <1>2, <1>3, <1>4, <1>5 DEF CountersInv
<1>7. Cardinality(c.seen) = c.count - c.good
  <2>1. IsFiniteSet(w.seen) /\ Cardinality(w.seen) \in Nat
    <3>1. /\ w.good \in Nat /\ w.last \in Nat /\ w.good <= w.last
          /\ w.seen \subseteq w.good + 1 .. w.last
      BY <1>2 DEF CountersInv
    <3> QED
      BY <3>1, NoneMissing
  <2>2. IsFiniteSet(Points(e)) /\ Cardinality(Points(e)) = e.count
    BY <1>1, PointsCard
  <2>3. Cardinality(w.seen \cup Points(e)) =
          Cardinality(w.seen) + Cardinality(Points(e)) - Cardinality(w.seen \cap Points(e))
    BY <2>1, <2>2, FS_Union
  <2>4. w.seen \cap Points(e) = {} /\ Cardinality({}) = 0
    BY FS_EmptySet
  <2>5. Cardinality(w.seen) = w.count - w.good
    BY DEF CountersInv
  <2> QED
    BY <1>1, <1>2, <1>3, <2>1, <2>2, <2>3, <2>4, <2>5
<1>8. c.count \in Nat /\ Points(e) \subseteq Int
  BY <1>1, <1>2, <1>3 DEF Points
<1> QED
  BY <1>3, <1>4, <1>6, <1>7, <1>8

\* A check leaves a waiter that is right once the update itself is applied,
\* and right as it stands when the update has to wait.
LEMMA CheckInv ==
    ASSUME NEW w, NEW E, NEW e, E \subseteq 1 .. MaxPts,
           WaiterInv(w, E), UpdateInv(e, E), ~w.requesting,
           Points(e) \cap w.seen = {}, ~Covered(w, e)
    PROVE  LET k == Check(w, e)
           IN  /\ k \in WaiterState
               /\ CountersInv(k, E)
               /\ ContentInv(k, Points(e))
               /\ ~k.requesting /\ ~k.inFlight
               /\ k.seen \subseteq w.seen \cup Points(e)
               /\ k.applied = w.applied /\ k.own = w.own
               /\ ~CheckOk(w, e) => AppliedInv(k) /\ k.waitingForSkipped
<1> DEFINE k == Check(w, e)
<1> DEFINE c == Counted(w, e)
<1> MaxPts \in Nat
  BY ConstantsAssumption
<1>1. /\ w \in WaiterState /\ CountersInv(w, E) /\ ContentInv(w, {}) /\ AppliedInv(w)
      /\ ~w.inFlight
  BY DEF WaiterInv
<1>2. /\ c.last \in E \cup {0}
      /\ c.last \in Nat /\ c.good = w.good
      /\ c.good <= c.last
      /\ c.seen = w.seen \cup Points(e)
      /\ c.seen \subseteq c.good + 1 .. c.last
      /\ c.count \in Nat
      /\ Cardinality(c.seen) = c.count - c.good
      /\ Points(e) \subseteq Int
  BY <1>1, CountedInv
<1>3. e.pts \in E /\ e.pts \in 0 .. MaxPts /\ e.pts \in Nat
  <2>1. e.pts \in E /\ e.pts \in 1 .. MaxPts
    BY DEF UpdateInv
  <2> QED
    BY <2>1
<1>4. /\ c \in WaiterState /\ c.base = w.base /\ c.queue = w.queue
      /\ c.applied = w.applied /\ c.own = w.own /\ c.requesting = w.requesting
      /\ c.inFlight = w.inFlight /\ c.waitingForSkipped = w.waitingForSkipped
  <2>1. c.last \in 0 .. MaxPts /\ c.count \in Nat /\ c.seen \in SUBSET Int
    BY <1>1, <1>2 DEF WaiterState
  <2> QED
    BY <1>1, <2>1 DEF WaiterState, Counted
<1>5. CASE ~Inited(w)
  <2>1. k = [w EXCEPT !.queue = {}, !.good = e.pts, !.last = e.pts, !.count = e.pts,
                      !.seen = {}, !.base = e.pts]
    BY <1>1, <1>5 DEF Check, Rebase, InitPts, ClearSkippedUpdates, WaiterState
  <2>2. k \in WaiterState
    <3>1. {} \in SUBSET Update /\ {} \in SUBSET Int
      OBVIOUS
    <3> QED
      BY <3>1, <2>1, <1>1, <1>3 DEF WaiterState
  <2>3. CountersInv(k, E)
    BY <2>1, <1>1, <1>3, FS_EmptySet DEF CountersInv, WaiterState
  <2>4. ContentInv(k, Points(e))
    BY <2>1, <1>1, <1>3 DEF ContentInv, WaiterState
  <2>5. CheckOk(w, e)
    BY <1>5 DEF CheckOk
  <2> QED
    BY <2>1, <2>2, <2>3, <2>4, <2>5, <1>1 DEF WaiterState
<1>6. CASE Inited(w) /\ NoGap(c)
  <2>1. k = [c EXCEPT !.good = c.last, !.seen = {}]
    BY <1>6 DEF Check
  <2>2. k \in WaiterState
    BY <2>1, <1>4 DEF WaiterState
  <2>3. CountersInv(k, E)
    BY <2>1, <1>1, <1>2, <1>4, <1>6, FS_EmptySet DEF CountersInv, WaiterState, NoGap
  <2>4. c.seen = c.good + 1 .. c.last
    <3>1. c.good \in Nat
      BY <1>4 DEF WaiterState
    <3> QED
      BY <3>1, <1>2, <1>6, NoneMissing DEF NoGap
  <2>5. ContentInv(k, Points(e))
    <3>1. /\ k.queue = w.queue /\ k.waitingForSkipped = w.waitingForSkipped
          /\ k.requesting = w.requesting /\ k.seen = {} /\ k.base = w.base
          /\ k.good = c.last /\ Held(k) = Held(w)
      BY <2>1, <1>4 DEF Held, WaiterState
    <3>2. w.base + 1 .. w.good \subseteq Held(w) /\ w.seen \subseteq Held(w)
      BY <1>1 DEF ContentInv
    <3>3. w.base + 1 .. c.last \subseteq (w.base + 1 .. w.good) \cup c.seen
      BY <2>4, <1>1, <1>2, <1>4 DEF WaiterState
    <3>4. w.base + 1 .. c.last \subseteq Held(w) \cup Points(e)
      BY <3>2, <3>3, <1>2
    <3> QED
      BY <3>1, <3>4, <1>1 DEF ContentInv
  <2>6. CheckOk(w, e)
    BY <1>6 DEF CheckOk
  <2> QED
    BY <2>1, <2>2, <2>3, <2>5, <2>6, <1>1, <1>4 DEF WaiterState
<1>7. CASE Inited(w) /\ ~NoGap(c)
  <2>1. k = [c EXCEPT !.waitingForSkipped = TRUE, !.byPts = TRUE]
    BY <1>7 DEF Check, SetWaitingForSkipped
  <2>2. k \in WaiterState
    BY <2>1, <1>4 DEF WaiterState
  <2>3. CountersInv(k, E)
    BY <2>1, <1>1, <1>2, <1>4 DEF CountersInv, WaiterState
  <2>4. ContentInv(k, Points(e)) /\ AppliedInv(k)
    BY <2>1, <1>1, <1>2, <1>4 DEF ContentInv, AppliedInv, Held, WaiterState
  <2> QED
    BY <2>1, <2>2, <2>3, <2>4, <1>1, <1>2, <1>4 DEF WaiterState
<1> QED
  BY <1>5, <1>6, <1>7

----------------------------------------------------------------------------
\* applySkippedUpdates applies everything held back.
LEMMA ApplySkippedInv ==
    ASSUME NEW w, NEW E, w \in WaiterState, CountersInv(w, E), ContentInv(w, {}),
           w.inFlight => w.requesting
    PROVE  LET a == ApplySkippedUpdates(w)
           IN  /\ WaiterInv(a, E)
               /\ a.seen = w.seen /\ a.good = w.good /\ a.inFlight = w.inFlight
               /\ a.requesting = w.requesting
<1> DEFINE a == ApplySkippedUpdates(w)
<1> DEFINE Q == UNION {Points(e) : e \in w.queue}
<1>1. CASE ~w.waitingForSkipped
  <2>1. a = w /\ w.queue = {}
    BY <1>1 DEF ApplySkippedUpdates, ContentInv
  <2>2. Q = {}
    BY <2>1
  <2> QED
    BY <2>1, <2>2 DEF WaiterInv, AppliedInv, ContentInv, Held
<1>2. CASE w.waitingForSkipped
  <2>1. PICK t \in BOOLEAN :
          a = [w EXCEPT !.waitingForSkipped = FALSE, !.byPts = t,
                        !.applied = w.applied \cup Q, !.queue = {}]
    <3>1. CASE w.waitingForShortPoll
      <4>1. w.byPts \in BOOLEAN
        BY DEF WaiterState
      <4> QED
        BY <1>2, <3>1, <4>1 DEF ApplySkippedUpdates, SetWaitingForSkipped, CheckForWaiting,
           ClearSkippedUpdates, ApplyNoPtsCheck, WaiterState
    <3>2. CASE ~w.waitingForShortPoll
      BY <1>2, <3>2 DEF ApplySkippedUpdates, SetWaitingForSkipped, CheckForWaiting,
         ClearSkippedUpdates, ApplyNoPtsCheck, WaiterState
    <3> QED
      BY <3>1, <3>2
  <2>2. Q \subseteq Int
    BY DEF Points, WaiterState, Update
  <2>3. a \in WaiterState
    <3>1. {} \in SUBSET Update /\ w.applied \cup Q \in SUBSET Int
      BY <2>2 DEF WaiterState
    <3> QED
      BY <3>1, <2>1 DEF WaiterState
  <2>4. CountersInv(a, E)
    BY <2>1 DEF CountersInv, WaiterState
  <2>5. a.applied \cup a.own = Held(w) /\ Held(a) = Held(w)
    BY <2>1 DEF Held, WaiterState
  <2>6. ContentInv(a, {}) /\ AppliedInv(a)
    BY <2>1, <2>5 DEF ContentInv, AppliedInv, WaiterState
  <2> QED
    BY <2>1, <2>3, <2>4, <2>6 DEF WaiterInv, WaiterState
<1> QED
  BY <1>1, <1>2

\* An update that is handed over leaves a right waiter, which has counted
\* nothing else.
LEMMA UpdateAndApplyInv ==
    ASSUME NEW w, NEW E, NEW e, E \subseteq 1 .. MaxPts,
           WaiterInv(w, E), UpdateInv(e, E), Points(e) \cap w.seen = {}
    PROVE  LET u == UpdateAndApply(w, e)
           IN  /\ WaiterInv(u, E)
               /\ u.seen \subseteq w.seen \cup Points(e)
               /\ w.requesting => u.good = w.good
               /\ u.inFlight = w.inFlight
<1> DEFINE u == UpdateAndApply(w, e)
<1> DEFINE k == Check(w, e)
<1>0. /\ w \in WaiterState /\ CountersInv(w, E) /\ ContentInv(w, {}) /\ AppliedInv(w)
      /\ w.inFlight => w.requesting
      /\ e \in Update /\ Points(e) \subseteq Int
  <2>1. MaxPts \in Nat
    BY ConstantsAssumption
  <2> QED
    BY <2>1 DEF WaiterInv, UpdateInv, Update, Points
<1>1. CASE w.requesting
  <2>1. w.queue = {}
    BY <1>0, <1>1 DEF ContentInv
  <2>2. u = [w EXCEPT !.applied = w.applied \cup Points(e)]
    BY <2>1, <1>0, <1>1 DEF UpdateAndApply, AfterCheck, Updated, ApplyNoPtsCheck, WaiterState
  <2>3. u \in WaiterState
    BY <2>2, <1>0 DEF WaiterState
  <2> QED
    BY <2>2, <2>3, <1>0, <1>1
    DEF WaiterInv, CountersInv, ContentInv, AppliedInv, Held, WaiterState
<1>2. CASE ~w.requesting /\ Covered(w, e)
  <2>1. u = w
    BY <1>2 DEF UpdateAndApply, Updated
  <2> QED
    BY <2>1
<1>3. CASE ~w.requesting /\ ~Covered(w, e)
  <2>1. /\ k \in WaiterState
        /\ CountersInv(k, E)
        /\ ContentInv(k, Points(e))
        /\ ~k.requesting /\ ~k.inFlight
        /\ k.seen \subseteq w.seen \cup Points(e)
        /\ ~CheckOk(w, e) => AppliedInv(k) /\ k.waitingForSkipped
    BY <1>3, CheckInv
  <2>2. w.inFlight = FALSE /\ k.inFlight = FALSE
    BY <1>0, <1>3, <2>1 DEF WaiterState
  <2>q. LET q == Queued(k, e)
        IN  /\ q = [k EXCEPT !.queue = k.queue \cup {e}]
            /\ q \in WaiterState /\ CountersInv(q, E)
            /\ k.waitingForSkipped => ContentInv(q, {})
            /\ Held(q) = Held(k) \cup Points(e)
    <3> DEFINE q == Queued(k, e)
    <3>1. q = [k EXCEPT !.queue = k.queue \cup {e}]
      BY DEF Queued
    <3>2. q \in WaiterState
      <4>1. k.queue \cup {e} \in SUBSET Update
        BY <2>1, <1>0 DEF WaiterState
      <4> QED
        BY <3>1, <4>1, <2>1 DEF WaiterState
    <3>3. CountersInv(q, E)
      BY <3>1, <2>1 DEF CountersInv, WaiterState
    <3>4. Held(q) = Held(k) \cup Points(e)
      BY <3>1, <2>1 DEF Held, WaiterState
    <3>5. k.waitingForSkipped => ContentInv(q, {})
      BY <3>1, <3>4, <2>1 DEF ContentInv, WaiterState
    <3> QED
      BY <3>1, <3>2, <3>3, <3>4, <3>5
  <2>3. CASE ~CheckOk(w, e)
    <3>1. u = Queued(k, e)
      BY <1>3, <2>3 DEF UpdateAndApply, Updated, AfterCheck
    <3>2. AppliedInv(u)
      BY <3>1, <2>q, <2>1, <2>3 DEF AppliedInv, WaiterState
    <3> QED
      BY <3>1, <3>2, <2>q, <2>1, <2>2, <2>3, <1>3 DEF WaiterInv, WaiterState
  <2>4. CASE CheckOk(w, e) /\ (~k.waitingForSkipped \/ k.queue = {})
    <3>1. u = [k EXCEPT !.applied = k.applied \cup Points(e)]
      BY <1>3, <2>4 DEF UpdateAndApply, Updated, AfterCheck, ApplyNoPtsCheck
    <3>2. k.queue = {}
      BY <2>1, <2>4 DEF ContentInv
    <3>3. u \in WaiterState
      BY <3>1, <2>1, <1>0 DEF WaiterState
    <3>4. CountersInv(u, E)
      BY <3>1, <2>1 DEF CountersInv, WaiterState
    <3>5. Held(u) = u.applied \cup u.own /\ Held(u) = Held(k) \cup Points(e)
      BY <3>1, <3>2, <2>1 DEF Held, WaiterState
    <3>6. ContentInv(u, {}) /\ AppliedInv(u)
      BY <3>1, <3>5, <2>1 DEF ContentInv, AppliedInv, WaiterState
    <3> QED
      BY <3>1, <3>3, <3>4, <3>6, <2>1, <2>2, <1>3 DEF WaiterInv, WaiterState
  <2>5. CASE CheckOk(w, e) /\ k.waitingForSkipped /\ k.queue # {}
    <3>1. u = ApplySkippedUpdates(Queued(k, e))
      BY <1>3, <2>5 DEF UpdateAndApply, Updated, AfterCheck
    <3>2. /\ Queued(k, e) \in WaiterState /\ CountersInv(Queued(k, e), E)
          /\ ContentInv(Queued(k, e), {})
          /\ Queued(k, e).seen = k.seen /\ Queued(k, e).inFlight = k.inFlight
      BY <2>q, <2>5, <2>1 DEF WaiterState
    <3>3. WaiterInv(u, E) /\ u.seen = k.seen /\ u.inFlight = k.inFlight
      BY <3>1, <3>2, <2>1, ApplySkippedInv
    <3> QED
      BY <3>3, <2>1, <2>2, <1>3
  <2> QED
    BY <2>3, <2>4, <2>5
<1> QED
  BY <1>1, <1>2, <1>3

\* The variant without a payload, for a change the data already has.
LEMMA UpdateAndApplyCountsInv ==
    ASSUME NEW w, NEW E, NEW e, E \subseteq 1 .. MaxPts,
           WaiterInv(w, E), UpdateInv(e, E), Points(e) \cap w.seen = {},
           Points(e) \subseteq w.applied \cup w.own
    PROVE  LET u == UpdateAndApplyCounts(w, e)
           IN  /\ WaiterInv(u, E)
               /\ u.seen \subseteq w.seen \cup Points(e)
               /\ w.requesting => u.good = w.good
               /\ u.inFlight = w.inFlight
<1> DEFINE u == UpdateAndApplyCounts(w, e)
<1> DEFINE k == Check(w, e)
<1>0. /\ w \in WaiterState /\ CountersInv(w, E) /\ ContentInv(w, {})
      /\ w.inFlight => w.requesting
  BY DEF WaiterInv
<1>1. CASE w.requesting
  <2>1. u = ApplySkippedUpdates(w)
    BY <1>1 DEF UpdateAndApplyCounts, AfterCheck, Updated
  <2>2. WaiterInv(u, E) /\ u.seen = w.seen /\ u.good = w.good /\ u.inFlight = w.inFlight
    BY <2>1, <1>0, ApplySkippedInv
  <2> QED
    BY <2>2
<1>2. CASE ~w.requesting /\ Covered(w, e)
  <2>1. u = w
    BY <1>2 DEF UpdateAndApplyCounts, Updated, AfterCheck
  <2> QED
    BY <2>1
<1>3. CASE ~w.requesting /\ ~Covered(w, e)
  <2>1. /\ k \in WaiterState
        /\ CountersInv(k, E)
        /\ ContentInv(k, Points(e))
        /\ ~k.requesting /\ ~k.inFlight
        /\ k.seen \subseteq w.seen \cup Points(e)
        /\ k.applied = w.applied /\ k.own = w.own
        /\ ~CheckOk(w, e) => AppliedInv(k) /\ k.waitingForSkipped
    BY <1>3, CheckInv
  <2>2. w.inFlight = FALSE /\ k.inFlight = FALSE
    BY <1>0, <1>3, <2>1 DEF WaiterState
  <2>3. ContentInv(k, {})
    <3>1. Held(k) \cup Points(e) = Held(k) \cup {}
      BY <2>1 DEF Held
    <3> QED
      BY <3>1, <2>1 DEF ContentInv
  <2>4. CASE CheckOk(w, e)
    <3>1. u = ApplySkippedUpdates(k)
      BY <1>3, <2>4 DEF UpdateAndApplyCounts, Updated, AfterCheck
    <3> QED
      BY <3>1, <1>3, <2>1, <2>2, <2>3, ApplySkippedInv
  <2>5. CASE ~CheckOk(w, e)
    <3>1. u = k
      BY <1>3, <2>5 DEF UpdateAndApplyCounts, Updated, AfterCheck
    <3> QED
      BY <3>1, <1>3, <2>1, <2>2, <2>3, <2>5 DEF WaiterInv
  <2> QED
    BY <2>4, <2>5
<1> QED
  BY <1>1, <1>2, <1>3

----------------------------------------------------------------------------
\* Nothing above depends on the timers and on the poll of the open chat.
LEMMA FlagsInv ==
    ASSUME NEW w, NEW v, NEW E, WaiterInv(w, E), v \in WaiterState,
           v.good = w.good, v.last = w.last, v.count = w.count, v.seen = w.seen,
           v.base = w.base, v.queue = w.queue, v.applied = w.applied, v.own = w.own,
           v.requesting = w.requesting, v.waitingForSkipped = w.waitingForSkipped,
           v.inFlight = w.inFlight
    PROVE  WaiterInv(v, E)
<1>1. CountersInv(v, E)
  BY DEF WaiterInv, CountersInv
<1>2. ContentInv(v, {}) /\ AppliedInv(v)
  BY DEF WaiterInv, ContentInv, AppliedInv, Held
<1> QED
  BY <1>1, <1>2 DEF WaiterInv

LEMMA SendInv ==
    ASSUME NEW w, NEW E, WaiterInv(w, E)
    PROVE  /\ WaiterInv(Send(w), E)
           /\ Send(w).seen = w.seen /\ Send(w).good = w.good /\ Send(w).inFlight
<1> DEFINE v == Send(w)
<1>1. w \in WaiterState
  BY DEF WaiterInv
<1>2. v = [w EXCEPT !.queue = {}, !.requesting = TRUE, !.inFlight = TRUE, !.afterFail = FALSE]
  BY <1>1 DEF Send, SetRequesting, ClearSkippedUpdates, WaiterState
<1>3. v \in WaiterState
  <2>1. {} \in SUBSET Update
    OBVIOUS
  <2> QED
    BY <2>1, <1>1, <1>2 DEF WaiterState
<1>4. CountersInv(v, E)
  BY <1>1, <1>2 DEF WaiterInv, CountersInv, WaiterState
<1>5. ContentInv(v, {}) /\ AppliedInv(v)
  BY <1>1, <1>2 DEF WaiterInv, ContentInv, AppliedInv, Held, WaiterState
<1> QED
  BY <1>1, <1>2, <1>3, <1>4, <1>5 DEF WaiterInv, WaiterState

\* The effect of a step that starts or repeats a request, or arms a timer.
Calm(w, v, E) ==
    /\ WaiterInv(v, E)
    /\ v.seen = w.seen
    /\ v.good = w.good
    /\ w.inFlight => v.inFlight

LEMMA GetDifferenceCalm ==
    ASSUME NEW w, NEW E, WaiterInv(w, E)
    PROVE  Calm(w, GetDifference(w), E)
<1> DEFINE c == [w EXCEPT !.byPts = FALSE]
<1>1. WaiterInv(c, E) /\ c.seen = w.seen /\ c.good = w.good /\ c.inFlight = w.inFlight
  <2>1. w \in WaiterState
    BY DEF WaiterInv
  <2>2. c \in WaiterState
    BY <2>1 DEF WaiterState
  <2> QED
    BY <2>1, <2>2, FlagsInv DEF WaiterState
<1>2. GetDifference(w) = IF c.requesting THEN c ELSE Send(c)
  BY DEF GetDifference
<1>3. CASE c.requesting
  BY <1>1, <1>2, <1>3 DEF Calm
<1>4. CASE ~c.requesting
  <2>1. /\ WaiterInv(Send(c), E)
        /\ Send(c).seen = c.seen /\ Send(c).good = c.good /\ Send(c).inFlight
    BY <1>1, SendInv
  <2> QED
    BY <2>1, <1>1, <1>2, <1>4 DEF Calm
<1> QED
  BY <1>3, <1>4

LEMMA GetChannelDifferenceCalm ==
    ASSUME NEW w, NEW E, WaiterInv(w, E), NEW from
    PROVE  Calm(w, GetChannelDifference(w, from), E)
<1> DEFINE c == IF from # "PtsGapOrShortPoll" THEN [w EXCEPT !.byPts = FALSE] ELSE w
<1> DEFINE v == [Send(c) EXCEPT !.afterFail = (from = "AfterFail") /\ c.afterFail]
<1>0. w \in WaiterState
  BY DEF WaiterInv
<1>1. WaiterInv(c, E) /\ c.seen = w.seen /\ c.good = w.good /\ c.inFlight = w.inFlight
  <2>1. CASE from # "PtsGapOrShortPoll"
    <3>1. c = [w EXCEPT !.byPts = FALSE]
      BY <2>1
    <3>2. c \in WaiterState
      BY <1>0, <3>1 DEF WaiterState
    <3> QED
      BY <1>0, <3>1, <3>2, FlagsInv DEF WaiterState
  <2>2. CASE from = "PtsGapOrShortPoll"
    BY <2>2
  <2> QED
    BY <2>1, <2>2
<1>2. GetChannelDifference(w, from) = IF ~Inited(c) \/ c.requesting THEN c ELSE v
  BY DEF GetChannelDifference
<1>3. CASE ~Inited(c) \/ c.requesting
  BY <1>1, <1>2, <1>3 DEF Calm
<1>4. CASE ~(~Inited(c) \/ c.requesting)
  <2>1. /\ WaiterInv(Send(c), E)
        /\ Send(c).seen = c.seen /\ Send(c).good = c.good /\ Send(c).inFlight
    BY <1>1, SendInv
  <2>2. PICK s : s = Send(c) /\ s \in WaiterState
    BY <2>1 DEF WaiterInv
  <2>3. PICK f \in BOOLEAN : f = ((from = "AfterFail") /\ c.afterFail)
    OBVIOUS
  <2>4. v = [s EXCEPT !.afterFail = f]
    BY <2>2, <2>3
  <2>5. v \in WaiterState
    BY <2>2, <2>3, <2>4 DEF WaiterState
  <2>6. WaiterInv(v, E) /\ v.seen = s.seen /\ v.good = s.good /\ v.inFlight = s.inFlight
    BY <2>1, <2>2, <2>4, <2>5, FlagsInv DEF WaiterState
  <2> QED
    BY <2>1, <2>2, <2>6, <1>1, <1>2, <1>4 DEF Calm
<1> QED
  BY <1>3, <1>4

LEMMA RetryCalm ==
    ASSUME NEW w, NEW E, WaiterInv(w, E)
    PROVE  Calm(w, Retry(w), E)
<1> DEFINE c == [w EXCEPT !.byPts = FALSE]
<1>0. w \in WaiterState
  BY DEF WaiterInv
<1>1. WaiterInv(c, E) /\ c.seen = w.seen /\ c.good = w.good /\ c.inFlight = w.inFlight
  <2>1. c \in WaiterState
    BY <1>0 DEF WaiterState
  <2> QED
    BY <1>0, <2>1, FlagsInv DEF WaiterState
<1>2. Retry(w) = Send(c)
  BY <1>0 DEF Retry, GetDifference, Send, SetRequesting, ClearSkippedUpdates, WaiterState
<1>3. /\ WaiterInv(Send(c), E)
      /\ Send(c).seen = c.seen /\ Send(c).good = c.good /\ Send(c).inFlight
  BY <1>1, SendInv
<1> QED
  BY <1>1, <1>2, <1>3 DEF Calm

\* Clearing a timer entry, or starting the poll of the open chat.
LEMMA TimerCalm ==
    ASSUME NEW w, NEW u, NEW E, Calm(w, u, E), NEW p \in BOOLEAN
    PROVE  /\ Calm(w, [u EXCEPT !.byPts = p], E)
           /\ Calm(w, [u EXCEPT !.afterFail = p], E)
           /\ Calm(w, SetWaitingForShortPoll(u, p), E)
<1>0. u \in WaiterState /\ WaiterInv(u, E)
  BY DEF Calm, WaiterInv
<1>1. ASSUME NEW v \in WaiterState,
             v.good = u.good, v.last = u.last, v.count = u.count, v.seen = u.seen,
             v.base = u.base, v.queue = u.queue, v.applied = u.applied, v.own = u.own,
             v.requesting = u.requesting, v.waitingForSkipped = u.waitingForSkipped,
             v.inFlight = u.inFlight
      PROVE  Calm(w, v, E)
  BY <1>0, <1>1, FlagsInv DEF Calm
<1>2. Calm(w, [u EXCEPT !.byPts = p], E)
  <2>1. [u EXCEPT !.byPts = p] \in WaiterState
    BY <1>0 DEF WaiterState
  <2> QED
    BY <1>0, <1>1, <2>1 DEF WaiterState
<1>3. Calm(w, [u EXCEPT !.afterFail = p], E)
  <2>1. [u EXCEPT !.afterFail = p] \in WaiterState
    BY <1>0 DEF WaiterState
  <2> QED
    BY <1>0, <1>1, <2>1 DEF WaiterState
<1>4. Calm(w, SetWaitingForShortPoll(u, p), E)
  <2> DEFINE v == SetWaitingForShortPoll(u, p)
  <2>1. PICK t \in BOOLEAN : v = [u EXCEPT !.waitingForShortPoll = p, !.byPts = t]
    <3>1. CASE p
      BY <1>0, <3>1 DEF SetWaitingForShortPoll, WaiterState
    <3>2. CASE ~p /\ u.waitingForSkipped
      <4>1. u.byPts \in BOOLEAN
        BY <1>0 DEF WaiterState
      <4> QED
        BY <1>0, <3>2, <4>1 DEF SetWaitingForShortPoll, CheckForWaiting, WaiterState
    <3>3. CASE ~p /\ ~u.waitingForSkipped
      BY <1>0, <3>3 DEF SetWaitingForShortPoll, CheckForWaiting, WaiterState
    <3> QED
      BY <3>1, <3>2, <3>3
  <2>2. v \in WaiterState
    BY <1>0, <2>1 DEF WaiterState
  <2> QED
    BY <1>0, <1>1, <2>1, <2>2 DEF WaiterState
<1> QED
  BY <1>2, <1>3, <1>4

----------------------------------------------------------------------------
\* Taking over the pts of an answer.
LEMMA RestartInv ==
    ASSUME NEW w, NEW E, E \subseteq 1 .. MaxPts, WaiterInv(w, E),
           NEW p \in E \cup {0}, p >= w.good
    PROVE  LET f == InitPts(Feed(Landed(w), p), p)
               r == Rebase(Landed(w), p)
           IN  /\ WaiterInv(f, E) /\ f.seen = {} /\ ~f.inFlight
               /\ WaiterInv(r, E) /\ r.seen = {} /\ ~r.inFlight
<1> DEFINE f == InitPts(Feed(Landed(w), p), p)
<1> DEFINE r == Rebase(Landed(w), p)
<1>0. MaxPts \in Nat
  BY ConstantsAssumption
<1>1. p \in 0 .. MaxPts /\ p \in Nat
  BY <1>0
<1>2. /\ w \in WaiterState /\ w.good \in Nat /\ w.base \in Nat
      /\ w.base + 1 .. w.good \subseteq w.applied \cup w.own
  BY <1>0 DEF WaiterInv, AppliedInv, WaiterState
<1>3. f = [w EXCEPT !.inFlight = FALSE, !.applied = w.applied \cup (w.good + 1 .. p),
                    !.queue = {}, !.good = p, !.last = p, !.count = p, !.seen = {}]
  BY <1>2 DEF InitPts, Feed, Landed, ClearSkippedUpdates, WaiterState
<1>4. f \in WaiterState
  <2>1. {} \in SUBSET Update /\ {} \in SUBSET Int /\ w.applied \cup (w.good + 1 .. p) \in SUBSET Int
    BY <1>1, <1>2 DEF WaiterState
  <2> QED
    BY <2>1, <1>1, <1>2, <1>3 DEF WaiterState
<1>5. CountersInv(f, E)
  BY <1>1, <1>2, <1>3, FS_EmptySet DEF WaiterInv, CountersInv, WaiterState
<1>6. AppliedInv(f)
  <2>1. w.base + 1 .. p \subseteq (w.base + 1 .. w.good) \cup (w.good + 1 .. p)
    BY <1>1, <1>2
  <2>2. f.base = w.base /\ f.good = p /\ f.applied = w.applied \cup (w.good + 1 .. p) /\ f.own = w.own
    BY <1>2, <1>3 DEF WaiterState
  <2> QED
    BY <2>1, <2>2, <1>2 DEF AppliedInv
<1>7. ContentInv(f, {})
  BY <1>2, <1>3, <1>6 DEF ContentInv, AppliedInv, Held, WaiterState
<1>8. WaiterInv(f, E) /\ f.seen = {} /\ ~f.inFlight
  BY <1>2, <1>3, <1>4, <1>5, <1>6, <1>7 DEF WaiterInv, WaiterState
<1>9. r = [w EXCEPT !.inFlight = FALSE, !.queue = {}, !.good = p, !.last = p, !.count = p,
                    !.seen = {}, !.base = p]
  BY <1>2 DEF InitPts, Rebase, Landed, ClearSkippedUpdates, WaiterState
<1>10. r \in WaiterState
  <2>1. {} \in SUBSET Update /\ {} \in SUBSET Int
    OBVIOUS
  <2> QED
    BY <2>1, <1>1, <1>2, <1>9 DEF WaiterState
<1>11. CountersInv(r, E)
  BY <1>1, <1>2, <1>9, FS_EmptySet DEF WaiterInv, CountersInv, WaiterState
<1>12. ContentInv(r, {}) /\ AppliedInv(r)
  BY <1>1, <1>2, <1>9 DEF ContentInv, AppliedInv, WaiterState
<1>13. WaiterInv(r, E) /\ r.seen = {} /\ ~r.inFlight
  BY <1>2, <1>9, <1>10, <1>11, <1>12 DEF WaiterInv, WaiterState
<1> QED
  BY <1>8, <1>13

LEMMA DoneInv ==
    ASSUME NEW w, NEW E, WaiterInv(w, E), w.seen = {}, ~w.inFlight
    PROVE  WaiterInv(Done(w), E) /\ Done(w).seen = {}
<1> DEFINE v == Done(w)
<1>0. w \in WaiterState
  BY DEF WaiterInv
<1>1. v = [w EXCEPT !.requesting = FALSE]
  BY DEF Done, SetRequesting
<1>2. v \in WaiterState
  BY <1>0, <1>1 DEF WaiterState
<1>3. CountersInv(v, E)
  BY <1>0, <1>1 DEF WaiterInv, CountersInv, WaiterState
<1>4. ContentInv(v, {}) /\ AppliedInv(v)
  BY <1>0, <1>1 DEF WaiterInv, ContentInv, AppliedInv, Held, WaiterState
<1> QED
  BY <1>0, <1>1, <1>2, <1>3, <1>4 DEF WaiterInv, WaiterState

\* A request that ended without an answer to take over.
LEMMA LandedInv ==
    ASSUME NEW w, NEW E, WaiterInv(w, E)
    PROVE  WaiterInv(Landed(w), E) /\ Landed(w).seen = w.seen /\ Landed(w).good = w.good
<1> DEFINE v == Landed(w)
<1>0. w \in WaiterState
  BY DEF WaiterInv
<1>1. v = [w EXCEPT !.inFlight = FALSE]
  BY DEF Landed
<1>2. v \in WaiterState
  BY <1>0, <1>1 DEF WaiterState
<1>3. CountersInv(v, E)
  BY <1>0, <1>1 DEF WaiterInv, CountersInv, WaiterState
<1>4. ContentInv(v, {}) /\ AppliedInv(v)
  BY <1>0, <1>1 DEF WaiterInv, ContentInv, AppliedInv, Held, WaiterState
<1> QED
  BY <1>0, <1>1, <1>2, <1>3, <1>4 DEF WaiterInv, WaiterState

\* An empty difference restarts the count where it was.
LEMMA SameRestartInv ==
    ASSUME NEW w, NEW E, E \subseteq 1 .. MaxPts, WaiterInv(w, E)
    PROVE  LET g == InitPts(Landed(w), w.good)
           IN  WaiterInv(g, E) /\ g.seen = {} /\ ~g.inFlight
<1> DEFINE g == InitPts(Feed(Landed(w), w.good), w.good)
<1>1. w \in WaiterState /\ w.good \in E \cup {0} /\ w.good \in Nat
  <2>1. MaxPts \in Nat
    BY ConstantsAssumption
  <2> QED
    BY <2>1 DEF WaiterInv, CountersInv, WaiterState
<1>2. WaiterInv(g, E) /\ g.seen = {} /\ ~g.inFlight
  <2>1. w.good >= w.good
    BY <1>1
  <2> QED
    BY <1>1, <2>1, RestartInv
<1>3. g = InitPts(Landed(w), w.good)
  <2>1. w.good + 1 .. w.good = {}
    BY <1>1
  <2>2. Feed(Landed(w), w.good) = Landed(w)
    BY <1>1, <2>1 DEF Feed, Landed, WaiterState
  <2> QED
    BY <2>2
<1> QED
  BY <1>2, <1>3

LEMMA AfterDifferenceInv ==
    ASSUME NEW w, NEW E, NEW r, E \subseteq 1 .. MaxPts, WaiterInv(w, E),
           ReplyInv(r, w, E), r.kind \notin {"none", "fail"}
    PROVE  LET v == AfterDifference(Landed(w), r)
           IN  WaiterInv(v, E) /\ v.seen \subseteq w.seen
<1> DEFINE v == AfterDifference(Landed(w), r)
<1> DEFINE f == InitPts(Feed(Landed(w), r.pts), r.pts)
<1>0. r.pts \in E \cup {0} /\ r.pts >= w.good
  BY DEF ReplyInv
<1>1. r.kind \in {"state", "empty", "slice", "difference", "tooLong"}
  BY DEF ReplyInv, Replies
<1>2. /\ WaiterInv(f, E) /\ f.seen = {} /\ ~f.inFlight
      /\ WaiterInv(Rebase(Landed(w), r.pts), E) /\ Rebase(Landed(w), r.pts).seen = {}
      /\ ~Rebase(Landed(w), r.pts).inFlight
  BY <1>0, RestartInv
<1>3. WaiterInv(Done(f), E) /\ Done(f).seen = {}
  BY <1>2, DoneInv
<1>4. CASE r.kind = "state"
  <2>1. v = Done(Rebase(Landed(w), r.pts))
    BY <1>4 DEF AfterDifference
  <2> QED
    BY <2>1, <1>2, DoneInv
<1>5. CASE r.kind = "empty"
  <2>1. LET g == InitPts(Landed(w), w.good)
        IN  WaiterInv(g, E) /\ g.seen = {} /\ ~g.inFlight
    BY SameRestartInv
  <2>2. v = Done(InitPts(Landed(w), w.good))
    <3>1. Landed(w).good = w.good
      BY LandedInv
    <3> QED
      BY <1>5, <3>1 DEF AfterDifference
  <2> QED
    BY <2>1, <2>2, DoneInv
<1>6. CASE r.kind = "slice"
  <2>1. v = GetDifference(Done(f))
    BY <1>6 DEF AfterDifference
  <2>2. Calm(Done(f), v, E)
    BY <2>1, <1>3, GetDifferenceCalm
  <2> QED
    BY <2>2, <1>3 DEF Calm
<1>7. CASE r.kind = "difference"
  <2>1. v = Done(f)
    BY <1>7 DEF AfterDifference
  <2> QED
    BY <2>1, <1>3
<1>8. CASE r.kind = "tooLong"
  <2>1. v = Landed(w)
    BY <1>8 DEF AfterDifference
  <2> QED
    BY <2>1, LandedInv
<1> QED
  BY <1>1, <1>4, <1>5, <1>6, <1>7, <1>8

LEMMA AfterChannelDifferenceInv ==
    ASSUME NEW w, NEW E, NEW r, E \subseteq 1 .. MaxPts, WaiterInv(w, E),
           ReplyInv(r, w, E), r.kind \notin {"none", "fail", "state", "slice"}
    PROVE  LET v == AfterChannelDifference(Landed(w), r)
           IN  WaiterInv(v, E) /\ v.seen = {}
<1> DEFINE v == AfterChannelDifference(Landed(w), r)
<1> DEFINE f == InitPts(Feed(Landed(w), r.pts), r.pts)
<1> DEFINE s == Rebase(Landed(w), r.pts)
<1>0. r.pts \in E \cup {0} /\ r.pts >= w.good
  BY DEF ReplyInv
<1>1. r.kind \in {"empty", "difference", "tooLong"}
  BY DEF ReplyInv, Replies
<1>2. /\ WaiterInv(f, E) /\ f.seen = {} /\ ~f.inFlight
      /\ WaiterInv(s, E) /\ s.seen = {} /\ ~s.inFlight
  BY <1>0, RestartInv
<1>3. CASE r.kind = "difference"
  <2>1. v = Done(f)
    BY <1>3 DEF AfterChannelDifference
  <2> QED
    BY <2>1, <1>2, DoneInv
<1>4. CASE r.kind = "tooLong"
  <2>1. v = Done(ApplySkippedUpdates(s))
    BY <1>4 DEF AfterChannelDifference
  <2>2. s \in WaiterState /\ CountersInv(s, E) /\ ContentInv(s, {}) /\ (s.inFlight => s.requesting)
    BY <1>2 DEF WaiterInv
  <2>3. LET a == ApplySkippedUpdates(s)
        IN  /\ WaiterInv(a, E)
            /\ a.seen = s.seen /\ a.good = s.good /\ a.inFlight = s.inFlight
            /\ a.requesting = s.requesting
    BY <2>2, ApplySkippedInv
  <2> QED
    BY <2>1, <2>3, <1>2, DoneInv
<1>5. CASE r.kind = "empty"
  <2>1. LET g == InitPts(Landed(w), w.good)
        IN  WaiterInv(g, E) /\ g.seen = {} /\ ~g.inFlight
    BY SameRestartInv
  <2>2. r.pts = w.good
    BY <1>5 DEF ReplyInv
  <2>3. v = Done(InitPts(Landed(w), w.good))
    BY <1>5, <2>2 DEF AfterChannelDifference
  <2> QED
    BY <2>1, <2>3, DoneInv
<1> QED
  BY <1>1, <1>3, <1>4, <1>5

----------------------------------------------------------------------------
\* A step of one box leaves the others alone.
LEMMA OneBoxStep ==
    ASSUME IInv, NEW b \in Boxes, NEW w, NEW N, NEW r,
           box' = [box EXCEPT ![b] = w],
           net' = [net EXCEPT ![b] = N],
           reply' = [reply EXCEPT ![b] = r],
           UNCHANGED server,
           active' \in Channels \cup {None}, minChannel' \in BOOLEAN,
           WaiterInv(w, ends[b]), NetInv(w.seen, ends[b], N), N \subseteq Update,
           ReplyInv(r, w, ends[b]), b # Common => r.kind \notin {"state", "slice"}
    PROVE  IInv'
<1>1. w \in WaiterState /\ r \in Replies
  BY DEF WaiterInv, ReplyInv
<1>2. TypeOK'
  BY <1>1 DEF IInv, TypeOK, server
<1>3. ASSUME NEW x \in Boxes
      PROVE  BoxInv(x)'
  <2>0. BoxInv(x) /\ BoxInv(b) /\ ends' = ends /\ top' = top
    BY DEF IInv, server
  <2>1. CASE x # b
    <3>1. box'[x] = box[x] /\ net'[x] = net[x] /\ reply'[x] = reply[x]
      BY <2>1 DEF IInv, TypeOK
    <3> QED
      BY <2>0, <3>1 DEF BoxInv, KindInv
  <2>2. CASE x = b
    <3>1. box'[x] = w /\ net'[x] = N /\ reply'[x] = r
      BY <2>2 DEF IInv, TypeOK
    <3> QED
      BY <2>0, <2>2, <3>1 DEF BoxInv, KindInv
  <2> QED
    BY <2>1, <2>2
<1> QED
  BY <1>2, <1>3 DEF IInv

\* Taking an update off the network.
LEMMA NetTaken ==
    ASSUME NEW seen, NEW E, NEW N, NetInv(seen, E, N), NEW e \in N,
           NEW s, s \subseteq seen \cup Points(e)
    PROVE  NetInv(s, E, N \ {e})
  BY DEF NetInv

LEMMA NetKept ==
    ASSUME NEW seen, NEW E, NEW N, NetInv(seen, E, N), NEW s, s \subseteq seen
    PROVE  NetInv(s, E, N)
  BY DEF NetInv

\* Steps that start requests or arm timers.
LEMMA CalmStep ==
    ASSUME IInv, NEW b \in Boxes, NEW w, Calm(box[b], w, ends[b]),
           box' = [box EXCEPT ![b] = w], UNCHANGED <<server, net, reply>>,
           active' \in Channels \cup {None}, minChannel' \in BOOLEAN
    PROVE  IInv'
<1>1. BoxInv(b) /\ TypeOK
  BY DEF IInv
<1>2. net' = [net EXCEPT ![b] = net[b]] /\ reply' = [reply EXCEPT ![b] = reply[b]]
  BY <1>1 DEF TypeOK
<1>3. WaiterInv(w, ends[b]) /\ w.seen = box[b].seen /\ w.good = box[b].good
      /\ (box[b].inFlight => w.inFlight)
  BY DEF Calm
<1>4. NetInv(w.seen, ends[b], net[b]) /\ net[b] \subseteq Update
  BY <1>1, <1>3 DEF BoxInv, TypeOK
<1>5. ReplyInv(reply[b], w, ends[b]) /\ (b # Common => reply[b].kind \notin {"state", "slice"})
  BY <1>1, <1>3 DEF BoxInv, ReplyInv, KindInv
<1> QED
  BY <1>2, <1>3, <1>4, <1>5, OneBoxStep

\* Steps that hand an update over.
LEMMA TakeStep ==
    ASSUME IInv, NEW b \in Boxes, NEW e \in net[b], NEW w,
           Take(b, e, w), UNCHANGED <<server, reply>>,
           active' \in Channels \cup {None}, minChannel' \in BOOLEAN,
           WaiterInv(w, ends[b]),
           w.seen \subseteq box[b].seen \cup Points(e),
           box[b].requesting => w.good = box[b].good,
           box[b].inFlight => w.inFlight
    PROVE  IInv'
<1>1. BoxInv(b) /\ TypeOK
  BY DEF IInv
<1>2. /\ box' = [box EXCEPT ![b] = w]
      /\ net' = [net EXCEPT ![b] = net[b] \ {e}]
      /\ reply' = [reply EXCEPT ![b] = reply[b]]
  BY <1>1 DEF TypeOK, Take
<1>3. NetInv(w.seen, ends[b], net[b] \ {e})
  BY <1>1, NetTaken DEF BoxInv
<1>4. net[b] \ {e} \subseteq Update
  BY <1>1 DEF TypeOK
<1>5. reply[b].kind # "none" => box[b].inFlight /\ box[b].requesting
  BY <1>1 DEF BoxInv, ReplyInv, WaiterInv
<1>6. ReplyInv(reply[b], w, ends[b]) /\ (b # Common => reply[b].kind \notin {"state", "slice"})
  BY <1>1, <1>5 DEF BoxInv, ReplyInv, KindInv
<1> QED
  BY <1>2, <1>3, <1>4, <1>6, OneBoxStep

LEMMA InitIInv == Init => IInv
<1> SUFFICES ASSUME Init PROVE IInv
  OBVIOUS
<1>0. MaxPts \in Nat \ {0} /\ Start \in {0, 1} /\ 1 \in 1 .. MaxPts
  BY ConstantsAssumption
<1>1. ASSUME NEW p \in {0, 1}, NEW asking \in BOOLEAN
      PROVE  WaiterInv(Waiter(p, asking), {1})
  <2> DEFINE w == Waiter(p, asking)
  <2>1. w \in WaiterState
    BY <1>0 DEF Waiter, WaiterState
  <2>2. CountersInv(w, {1})
    BY FS_EmptySet DEF CountersInv, Waiter
  <2>3. ContentInv(w, {}) /\ AppliedInv(w)
    BY DEF ContentInv, AppliedInv, Waiter
  <2> QED
    BY <2>1, <2>2, <2>3 DEF WaiterInv, Waiter
<1>2. ASSUME NEW b \in Boxes
      PROVE  WaiterInv(box[b], {1})
  BY <1>0, <1>1 DEF Init
<1>3. NoReply \in Replies
  BY <1>0 DEF NoReply, Replies
<1>4. TypeOK
  <2>1. box \in [Boxes -> WaiterState]
    BY <1>2 DEF WaiterInv, Init
  <2> QED
    BY <2>1, <1>0, <1>3 DEF Init, TypeOK
<1>5. ASSUME NEW b \in Boxes
      PROVE  BoxInv(b)
  <2>1. ends[b] = {1} /\ top[b] = 1 /\ net[b] = {} /\ reply[b] = NoReply
    BY DEF Init
  <2>2. NetInv(box[b].seen, ends[b], net[b])
    BY <2>1 DEF NetInv
  <2>3. ReplyInv(reply[b], box[b], ends[b]) /\ KindInv(b)
    BY <2>1, <1>3 DEF ReplyInv, NoReply, KindInv
  <2>4. ServerInv(ends[b], top[b])
    BY <2>1, <1>0 DEF ServerInv
  <2> QED
    BY <1>2, <2>1, <2>2, <2>3, <2>4 DEF BoxInv
<1> QED
  BY <1>4, <1>5 DEF IInv

----------------------------------------------------------------------------
\* The server makes one more change: it lies beyond everything counted.
LEMMA ChangeInv ==
    ASSUME IInv, NEW b \in Boxes, NEW n \in Counts, Change(b, n)
    PROVE  IInv'
<1> DEFINE t == top[b] + n
<1> DEFINE e == [pts |-> t, count |-> n]
<1> DEFINE E == ends[b] \cup {t}
<1> DEFINE N == net[b] \cup {e}
<1>0. /\ MaxPts \in Nat /\ n \in Nat
      /\ Limit[b] \in 1 .. MaxPts
  BY ConstantsAssumption DEF Boxes
<1>1. /\ TypeOK /\ BoxInv(b)
      /\ top[b] \in 1 .. MaxPts /\ ends[b] \subseteq 1 .. MaxPts
      /\ \A x \in ends[b] : x <= top[b]
      /\ top[b] \in ends[b]
  BY DEF IInv, BoxInv, TypeOK, ServerInv
<1>2. t \in 1 .. MaxPts /\ e \in Update
  BY <1>0, <1>1 DEF Change, Update
<1>3. /\ box' = box /\ reply' = reply /\ active' = active /\ minChannel' = minChannel
      /\ top' = [top EXCEPT ![b] = t]
      /\ ends' = [ends EXCEPT ![b] = E]
      /\ net' = [net EXCEPT ![b] = N]
  BY DEF Change
<1>4. TypeOK'
  <2>1. E \subseteq 1 .. MaxPts /\ N \subseteq Update
    BY <1>1, <1>2 DEF TypeOK
  <2> QED
    BY <1>1, <1>2, <1>3, <2>1 DEF TypeOK
<1>5. WaiterInv(box[b], E)
  BY <1>1 DEF BoxInv, WaiterInv, CountersInv
<1>6. ReplyInv(reply[b], box[b], E)
  BY <1>1 DEF BoxInv, ReplyInv
<1>7. ServerInv(E, t)
  BY <1>0, <1>1, <1>2 DEF ServerInv
<1>8. NetInv(box[b].seen, E, N)
  <2>1. /\ \A f \in net[b] : UpdateInv(f, ends[b]) /\ Points(f) \cap box[b].seen = {}
        /\ \A f, g \in net[b] : f # g => Points(f) \cap Points(g) = {}
    BY <1>1 DEF BoxInv, NetInv
  <2>2. Points(e) = top[b] + 1 .. t
    BY <1>0, <1>1 DEF Points
  <2>3. UpdateInv(e, E)
    BY <1>0, <1>1, <1>2 DEF UpdateInv
  <2>4. \A f \in net[b] : UpdateInv(f, E)
    <3> SUFFICES ASSUME NEW f \in net[b] PROVE UpdateInv(f, E)
      OBVIOUS
    <3>1. UpdateInv(f, ends[b]) /\ f.pts <= top[b]
      BY <2>1, <1>1 DEF UpdateInv
    <3>2. f.pts \in Int /\ f.pts <= t
      BY <3>1, <1>0, <1>1 DEF UpdateInv
    <3> QED
      BY <3>1, <3>2 DEF UpdateInv
  <2>5. Points(e) \cap box[b].seen = {}
    <3>1. box[b].seen \subseteq box[b].good + 1 .. box[b].last /\ box[b].last <= top[b]
          /\ box[b].last \in Nat
      BY <1>0, <1>1 DEF BoxInv, WaiterInv, CountersInv, WaiterState
    <3> QED
      BY <3>1, <2>2, <1>0, <1>1
  <2>6. \A f \in net[b] : Points(e) \cap Points(f) = {}
    <3> SUFFICES ASSUME NEW f \in net[b] PROVE Points(e) \cap Points(f) = {}
      OBVIOUS
    <3>1. f.pts <= top[b] /\ f.pts \in Int
      BY <2>1, <1>1 DEF UpdateInv
    <3> QED
      BY <3>1, <2>2, <1>0, <1>1 DEF Points
  <2> QED
    BY <2>1, <2>3, <2>4, <2>5, <2>6 DEF NetInv
<1>9. ASSUME NEW x \in Boxes
      PROVE  BoxInv(x)'
  <2>0. BoxInv(x)
    BY DEF IInv
  <2>1. CASE x # b
    <3>1. ends'[x] = ends[x] /\ top'[x] = top[x] /\ net'[x] = net[x]
      BY <1>1, <1>3, <2>1 DEF TypeOK
    <3> QED
      BY <2>0, <3>1, <1>3 DEF BoxInv, KindInv
  <2>2. CASE x = b
    <3>1. ends'[x] = E /\ top'[x] = t /\ net'[x] = N
      BY <1>1, <1>3, <2>2 DEF TypeOK
    <3> QED
      BY <2>0, <2>2, <3>1, <1>3, <1>5, <1>6, <1>7, <1>8 DEF BoxInv, KindInv
  <2> QED
    BY <2>1, <2>2
<1> QED
  BY <1>4, <1>9 DEF IInv

LEMMA ReceiveInv ==
    ASSUME IInv, NEW b \in Boxes, NEW e \in net[b]
    PROVE  LET w == Receive(b, e)
           IN  /\ WaiterInv(w, ends[b])
               /\ w.seen \subseteq box[b].seen \cup Points(e)
               /\ box[b].requesting => w.good = box[b].good
               /\ box[b].inFlight => w.inFlight
<1>1. /\ ends[b] \subseteq 1 .. MaxPts
      /\ WaiterInv(box[b], ends[b])
      /\ UpdateInv(e, ends[b])
      /\ Points(e) \cap box[b].seen = {}
  BY DEF IInv, BoxInv, NetInv, ServerInv
<1>2. LET u == UpdateAndApply(box[b], e)
      IN  /\ WaiterInv(u, ends[b])
          /\ u.seen \subseteq box[b].seen \cup Points(e)
          /\ box[b].requesting => u.good = box[b].good
          /\ u.inFlight = box[b].inFlight
  BY <1>1, UpdateAndApplyInv
<1>3. CASE b # Common /\ box[b].requesting
  BY <1>1, <1>3 DEF Receive
<1>4. CASE ~(b # Common /\ box[b].requesting)
  BY <1>2, <1>4 DEF Receive
<1> QED
  BY <1>3, <1>4

LEMMA UpdateStepInv ==
    ASSUME IInv, NEW b \in Boxes, UpdateStep(b)
    PROVE  IInv'
<1>0. /\ WaiterInv(box[b], ends[b]) /\ ends[b] \subseteq 1 .. MaxPts
      /\ active \in Channels \cup {None} /\ minChannel \in BOOLEAN
  BY DEF IInv, BoxInv, TypeOK, ServerInv
<1>1. ASSUME NEW n \in Counts, Change(b, n)
      PROVE  IInv'
  BY <1>1, ChangeInv
<1>2. ASSUME NEW e \in net[b], Lose(b, e)
      PROVE  IInv'
  <2>1. Take(b, e, box[b])
    BY <1>2 DEF Lose, Take, IInv, TypeOK
  <2> QED
    BY <2>1, <1>0, <1>2, TakeStep DEF Lose
<1>3. ASSUME NEW e \in net[b], PushUpdate(b, e)
      PROVE  IInv'
  <2>1. CASE RequestingDifference
    <3>1. Take(b, e, box[b])
      BY <2>1, <1>3 DEF PushUpdate
    <3> QED
      BY <3>1, <1>0, <1>3, TakeStep DEF PushUpdate
  <2>2. CASE ~RequestingDifference
    <3>1. Take(b, e, Receive(b, e))
      BY <2>2, <1>3 DEF PushUpdate
    <3> QED
      BY <3>1, <1>0, <1>3, ReceiveInv, TakeStep DEF PushUpdate
  <2> QED
    BY <2>1, <2>2
<1>4. ASSUME NEW e \in net[b], SentUpdates(b, e)
      PROVE  IInv'
  BY <1>0, <1>4, ReceiveInv, TakeStep DEF SentUpdates
<1>5. ASSUME NEW e \in net[b], UpdateNotLoaded(b, e)
      PROVE  IInv'
  <2>1. minChannel' \in BOOLEAN /\ active' \in Channels \cup {None}
    BY <1>0, <1>5 DEF UpdateNotLoaded
  <2>2. CASE b = Common
    <3>1. Calm(box[b], GetDifference(box[b]), ends[b])
      BY <1>0, GetDifferenceCalm
    <3>2. Take(b, e, GetDifference(box[b]))
      BY <2>2, <1>5 DEF UpdateNotLoaded
    <3> QED
      BY <3>1, <3>2, <2>1, <1>5, TakeStep DEF UpdateNotLoaded, Calm
  <2>3. CASE b # Common
    <3>1. Take(b, e, box[b])
      BY <2>3, <1>5 DEF UpdateNotLoaded
    <3> QED
      BY <3>1, <2>1, <1>0, <1>5, TakeStep DEF UpdateNotLoaded
  <2> QED
    BY <2>2, <2>3
<1>6. ASSUME NEW e \in net[b], Affected(b, e)
      PROVE  IInv'
  <2> DEFINE v == [box[b] EXCEPT !.own = @ \cup Points(e)]
  <2> DEFINE u == UpdateAndApplyCounts(v, e)
  <2>0. UpdateInv(e, ends[b]) /\ Points(e) \cap box[b].seen = {} /\ box[b] \in WaiterState
    BY DEF IInv, BoxInv, NetInv, WaiterInv
  <2>1. v \in WaiterState
    <3>1. MaxPts \in Nat
      BY ConstantsAssumption
    <3>2. Points(e) \subseteq Int
      BY <3>1, <2>0 DEF UpdateInv, Update, Points
    <3> QED
      BY <2>0, <3>2 DEF WaiterState
  <2>2. /\ v.good = box[b].good /\ v.seen = box[b].seen /\ v.requesting = box[b].requesting
        /\ v.inFlight = box[b].inFlight /\ v.own = box[b].own \cup Points(e)
    BY <2>0 DEF WaiterState
  <2>3. WaiterInv(v, ends[b])
    <3>1. CountersInv(v, ends[b])
      BY <1>0, <2>0 DEF WaiterInv, CountersInv, WaiterState
    <3>2. ContentInv(v, {}) /\ AppliedInv(v)
      BY <1>0, <2>0 DEF WaiterInv, ContentInv, AppliedInv, Held, WaiterState
    <3> QED
      BY <3>1, <3>2, <2>1, <2>2, <1>0 DEF WaiterInv
  <2>4. Points(e) \subseteq v.applied \cup v.own /\ Points(e) \cap v.seen = {}
    BY <2>0, <2>2
  <2>5. /\ WaiterInv(u, ends[b])
        /\ u.seen \subseteq v.seen \cup Points(e)
        /\ v.requesting => u.good = v.good
        /\ u.inFlight = v.inFlight
    BY <2>0, <2>3, <2>4, <1>0, UpdateAndApplyCountsInv
  <2>6. Take(b, e, u)
    BY <1>6 DEF Affected
  <2> QED
    BY <2>2, <2>5, <2>6, <1>0, <1>6, TakeStep DEF Affected
<1> QED
  BY <1>1, <1>2, <1>3, <1>4, <1>5, <1>6 DEF UpdateStep

LEMMA ReplyStep ==
    ASSUME IInv, NEW b \in Boxes, NEW r, NEW w,
           box' = [box EXCEPT ![b] = w], reply' = [reply EXCEPT ![b] = r],
           UNCHANGED <<active, minChannel, server, net>>,
           WaiterInv(w, ends[b]), w.seen \subseteq box[b].seen,
           ReplyInv(r, w, ends[b]), b # Common => r.kind \notin {"state", "slice"}
    PROVE  IInv'
<1>1. /\ BoxInv(b) /\ TypeOK
      /\ net' = [net EXCEPT ![b] = net[b]] /\ net[b] \subseteq Update
      /\ active' \in Channels \cup {None} /\ minChannel' \in BOOLEAN
  BY DEF IInv, TypeOK
<1>2. NetInv(w.seen, ends[b], net[b])
  BY <1>1, NetKept DEF BoxInv
<1> QED
  BY <1>1, <1>2, OneBoxStep

LEMMA NoReplyInv ==
    ASSUME NEW w, NEW E
    PROVE  ReplyInv(NoReply, w, E) /\ NoReply.kind = "none"
<1>1. 0 \in 0 .. MaxPts
  BY ConstantsAssumption
<1> QED
  BY <1>1 DEF ReplyInv, NoReply, Replies

\* What the server answers fits the box.
AnswerOK(r, b) ==
    /\ r \in Replies
    /\ r.from = box[b].good
    /\ r.pts \in ends[b]
    /\ r.pts >= box[b].good
    /\ r.kind = "empty" => r.pts = box[b].good
    /\ b # Common => r.kind \notin {"state", "slice"}

LEMMA RequestStepInv ==
    ASSUME IInv, NEW b \in Boxes, RequestStep(b)
    PROVE  IInv'
<1> DEFINE w == box[b]
<1>0. /\ WaiterInv(w, ends[b]) /\ ServerInv(ends[b], top[b]) /\ ends[b] \subseteq 1 .. MaxPts
      /\ active \in Channels \cup {None} /\ minChannel \in BOOLEAN
      /\ box = [box EXCEPT ![b] = w] /\ w \in WaiterState
      /\ MaxPts \in Nat /\ w.good \in 0 .. MaxPts /\ w.good \in Nat
  BY ConstantsAssumption DEF IInv, BoxInv, TypeOK, ServerInv, WaiterInv, WaiterState
<1>1. CASE ServerReply(b)
  <2>1. PICK r \in PossibleReplies(b) : reply' = [reply EXCEPT ![b] = r]
    BY <1>1 DEF ServerReply
  <2>2. top[b] \in ends[b] /\ w.good <= top[b] /\ top[b] \in Nat
    BY <1>0 DEF ServerInv, WaiterInv, CountersInv
  <2>3. ASSUME NEW k \in {"state", "empty", "slice", "difference", "tooLong"},
               NEW p \in ends[b], NEW f \in BOOLEAN, p >= w.good,
               k = "empty" => p = w.good, b # Common => k \notin {"state", "slice"}
        PROVE  AnswerOK(Answer(k, w.good, p, f), b)
    <3>1. p \in 0 .. MaxPts
      BY <1>0
    <3> QED
      BY <2>3, <3>1, <1>0 DEF Answer, Replies, AnswerOK
  <2>e. r \in EmptyReplies(b, w.good) => AnswerOK(r, b)
    <3> SUFFICES ASSUME r \in EmptyReplies(b, w.good) PROVE AnswerOK(r, b)
      OBVIOUS
    <3>1. r = Answer("empty", w.good, w.good, TRUE) /\ top[b] = w.good
      BY DEF EmptyReplies
    <3> QED
      BY <3>1, <2>2, <2>3, <1>0
  <2>4. AnswerOK(r, b)
    <3>1. CASE b # Common
      <4>1. r \in ChannelReplies(b, w.good)
        BY <2>1, <3>1 DEF PossibleReplies
      <4>2. ASSUME NEW p \in ends[b], p > w.good, r = Answer("difference", w.good, p, p = top[b])
            PROVE  AnswerOK(r, b)
        <5>1. (p = top[b]) \in BOOLEAN /\ p >= w.good
          BY <4>2, <1>0
        <5> QED
          BY <4>2, <5>1, <2>3
      <4>3. ASSUME r = Answer("tooLong", w.good, top[b], TRUE)
            PROVE  AnswerOK(r, b)
        BY <4>3, <2>2, <2>3, <1>0
      <4> QED
        BY <4>1, <4>2, <4>3, <2>e DEF ChannelReplies
    <3>2. CASE b = Common /\ ~Inited(w)
      <4>0. w.good = 0
        BY <3>2, <1>0 DEF Inited
      <4>1. r = Answer("state", w.good, top[b], TRUE)
        BY <2>1, <3>2, <4>0 DEF PossibleReplies, StateReplies
      <4> QED
        BY <4>1, <3>2, <2>2, <2>3, <1>0
    <3>3. CASE b = Common /\ Inited(w)
      <4>1. r \in CommonReplies(b, w.good)
        BY <2>1, <3>3 DEF PossibleReplies
      <4>2. ASSUME NEW p \in ends[b], p > w.good, r = Answer("slice", w.good, p, FALSE)
            PROVE  AnswerOK(r, b)
        <5>1. p >= w.good
          BY <4>2, <1>0
        <5> QED
          BY <4>2, <5>1, <3>3, <2>3
      <4>3. ASSUME r = Answer("difference", w.good, top[b], TRUE)
            PROVE  AnswerOK(r, b)
        BY <4>3, <2>2, <2>3, <1>0
      <4>4. ASSUME r = Answer("tooLong", w.good, top[b], TRUE)
            PROVE  AnswerOK(r, b)
        BY <4>4, <2>2, <2>3, <1>0
      <4> QED
        BY <4>1, <4>2, <4>3, <4>4, <2>e DEF CommonReplies
    <3> QED
      BY <3>1, <3>2, <3>3
  <2>5. ReplyInv(r, w, ends[b]) /\ (b # Common => r.kind \notin {"state", "slice"})
    BY <2>4, <1>1 DEF ReplyInv, ServerReply, AnswerOK
  <2>6. box' = [box EXCEPT ![b] = w] /\ UNCHANGED <<active, minChannel, server, net>>
    BY <1>0, <1>1 DEF ServerReply
  <2> QED
    BY <2>1, <2>5, <2>6, <1>0, ReplyStep
<1>2. CASE ServerFail(b)
  <2> DEFINE r == [NoReply EXCEPT !.kind = "fail"]
  <2>1. r \in Replies /\ r.kind = "fail"
    <3>1. NoReply \in Replies
      BY NoReplyInv DEF ReplyInv
    <3> QED
      BY <3>1 DEF Replies
  <2>2. ReplyInv(r, w, ends[b])
    BY <2>1, <1>2 DEF ReplyInv, ServerFail
  <2>3. /\ box' = [box EXCEPT ![b] = w] /\ UNCHANGED <<active, minChannel, server, net>>
        /\ reply' = [reply EXCEPT ![b] = r]
    BY <1>0, <1>2 DEF ServerFail
  <2> QED
    BY <2>1, <2>2, <2>3, <1>0, ReplyStep
<1>3. CASE FailDifference(b)
  <2>0. PICK p \in BOOLEAN : p = (b # Common \/ Inited(w))
    OBVIOUS
  <2> DEFINE v == [Landed(w) EXCEPT !.afterFail = p]
  <2>1. WaiterInv(Landed(w), ends[b]) /\ Landed(w).seen = w.seen
    BY <1>0, LandedInv
  <2>2. Calm(Landed(w), v, ends[b])
    <3>1. PICK u : u = Landed(w)
      OBVIOUS
    <3>2. Calm(u, u, ends[b])
      BY <2>1, <3>1 DEF Calm
    <3>3. Calm(u, [u EXCEPT !.afterFail = p], ends[b])
      BY <3>2, TimerCalm
    <3> QED
      BY <3>1, <3>3
  <2>3. /\ box' = [box EXCEPT ![b] = v] /\ UNCHANGED <<active, minChannel, server, net>>
        /\ reply' = [reply EXCEPT ![b] = NoReply]
    BY <1>0, <1>3, <2>0 DEF FailDifference
  <2>4. WaiterInv(v, ends[b]) /\ v.seen \subseteq box[b].seen
    BY <2>1, <2>2 DEF Calm
  <2> QED
    BY <2>3, <2>4, NoReplyInv, ReplyStep
<1>4. CASE ByPtsTimer(b)
  <2>1. CASE b = Common
    BY <2>1, <1>0, <1>4, GetDifferenceCalm, CalmStep DEF ByPtsTimer
  <2>2. CASE b # Common
    <3> DEFINE v == [GetChannelDifference(w, "PtsGapOrShortPoll") EXCEPT !.byPts = FALSE]
    <3>1. Calm(w, v, ends[b])
      BY <1>0, GetChannelDifferenceCalm, TimerCalm
    <3>2. box' = [box EXCEPT ![b] = v]
      BY <2>2, <1>4 DEF ByPtsTimer
    <3> QED
      BY <3>1, <3>2, <1>0, <1>4, CalmStep DEF ByPtsTimer
  <2> QED
    BY <2>1, <2>2
<1>5. CASE AfterFailTimer(b)
  <2>1. CASE b = Common
    BY <2>1, <1>0, <1>5, RetryCalm, CalmStep DEF AfterFailTimer
  <2>2. CASE b # Common
    <3> DEFINE v == [GetChannelDifference(w, "AfterFail") EXCEPT !.afterFail = FALSE]
    <3>1. Calm(w, v, ends[b])
      BY <1>0, GetChannelDifferenceCalm, TimerCalm
    <3>2. box' = [box EXCEPT ![b] = v]
      BY <2>2, <1>5 DEF AfterFailTimer
    <3> QED
      BY <3>1, <3>2, <1>0, <1>5, CalmStep DEF AfterFailTimer
  <2> QED
    BY <2>1, <2>2
<1> QED
  BY <1>1, <1>2, <1>3, <1>4, <1>5 DEF RequestStep

LEMMA ChannelStepInv ==
    ASSUME IInv, NEW c \in Channels, ChannelStep(c)
    PROVE  IInv'
<1> DEFINE w == box[c]
<1>0. /\ c \in Boxes /\ WaiterInv(w, ends[c]) /\ ends[c] \subseteq 1 .. MaxPts
      /\ active \in Channels \cup {None} /\ minChannel \in BOOLEAN
      /\ Calm(w, w, ends[c]) /\ c # Common
      /\ ReplyInv(reply[c], w, ends[c]) /\ reply[c].kind \notin {"state", "slice"}
  BY ConstantsAssumption DEF Boxes, IInv, BoxInv, TypeOK, ServerInv, Calm, KindInv
<1>1. ASSUME NEW p \in ends[c], PtsReceived(c, p)
      PROVE  IInv'
  <2> DEFINE e == [pts |-> p, count |-> 0]
  <2> DEFINE u == UpdateAndApplyCounts(w, e)
  <2>1. Points(e) = {} /\ UpdateInv(e, ends[c])
    <3>1. p \in 1 .. MaxPts /\ MaxPts \in Nat
      BY <1>0, ConstantsAssumption
    <3>2. ends[c] \subseteq Int
      BY <1>0
    <3> QED
      BY <3>1, <3>2 DEF Points, UpdateInv, Update
  <2>2. /\ WaiterInv(u, ends[c])
        /\ u.seen \subseteq w.seen \cup Points(e)
        /\ w.requesting => u.good = w.good
        /\ u.inFlight = w.inFlight
    BY <2>1, <1>0, UpdateAndApplyCountsInv
  <2>3. /\ box' = [box EXCEPT ![c] = u] /\ UNCHANGED <<active, minChannel, server, net>>
        /\ reply' = [reply EXCEPT ![c] = reply[c]]
    BY <1>1 DEF PtsReceived, IInv, TypeOK
  <2>4. ReplyInv(reply[c], u, ends[c])
    BY <1>0, <2>2 DEF ReplyInv, WaiterInv
  <2> QED
    BY <2>1, <2>2, <2>3, <2>4, <1>0, ReplyStep
<1>2. CASE ChannelTooLong(c)
  BY <1>0, <1>2, GetChannelDifferenceCalm, CalmStep DEF ChannelTooLong
<1>3. CASE GotChannelDifference(c)
  <2> DEFINE d == AfterChannelDifference(Landed(w), reply[c])
  <2> DEFINE v == Continue(c, d, reply[c].final)
  <2>1. WaiterInv(d, ends[c]) /\ d.seen = {}
    BY <1>0, <1>3, AfterChannelDifferenceInv DEF GotChannelDifference
  <2>2. Calm(d, v, ends[c])
    <3>1. CASE ~reply[c].final
      BY <3>1, <2>1, GetChannelDifferenceCalm DEF Continue
    <3>2. CASE reply[c].final /\ active = c
      <4>1. Calm(d, d, ends[c])
        BY <2>1 DEF Calm
      <4> QED
        BY <3>2, <4>1, TimerCalm DEF Continue
    <3>3. CASE reply[c].final /\ active # c
      BY <3>3, <2>1 DEF Continue, Calm
    <3> QED
      BY <3>1, <3>2, <3>3
  <2>3. WaiterInv(v, ends[c]) /\ v.seen \subseteq w.seen
    BY <2>1, <2>2 DEF Calm
  <2>4. /\ box' = [box EXCEPT ![c] = v] /\ UNCHANGED <<active, minChannel, server, net>>
        /\ reply' = [reply EXCEPT ![c] = NoReply]
    BY <1>3 DEF GotChannelDifference
  <2> QED
    BY <2>3, <2>4, <1>0, NoReplyInv, ReplyStep
<1>4. CASE OpenChat(c)
  <2>1. active' \in Channels \cup {None} /\ minChannel' \in BOOLEAN
    BY <1>0, <1>4 DEF OpenChat
  <2> QED
    BY <2>1, <1>0, <1>4, TimerCalm, CalmStep DEF OpenChat
<1>5. CASE LeaveChannel(c)
  <2>1. active' \in Channels \cup {None} /\ minChannel' \in BOOLEAN
    BY <1>0, <1>5 DEF LeaveChannel
  <2> QED
    BY <2>1, <1>0, <1>5, TimerCalm, CalmStep DEF LeaveChannel
<1> QED
  BY <1>1, <1>2, <1>3, <1>4, <1>5 DEF ChannelStep

\* The answer to the common box may start requests of channels.
LEMMA GotDifferenceInv ==
    ASSUME IInv, NEW late \in SUBSET Channels, GotDifference(late)
    PROVE  IInv'
<1>0. /\ Common \in Boxes /\ TypeOK /\ reply' = [reply EXCEPT ![Common] = NoReply]
      /\ UNCHANGED <<active, minChannel, server, net>> /\ ends' = ends /\ top' = top
      /\ reply[Common].kind \notin {"none", "fail"}
  BY DEF IInv, Boxes, GotDifference, server
<1>1. ASSUME NEW x \in Boxes
      PROVE  BoxInv(x)'
  <2>0. BoxInv(x) /\ WaiterInv(box[x], ends[x]) /\ ends[x] \subseteq 1 .. MaxPts
    BY DEF IInv, BoxInv, ServerInv
  <2>1. CASE x = Common
    <3> DEFINE v == AfterDifference(Landed(box[x]), reply[x])
    <3>1. box'[x] = v /\ reply'[x] = NoReply
      BY <2>1, <1>0 DEF GotDifference, TypeOK
    <3>2. WaiterInv(v, ends[x]) /\ v.seen \subseteq box[x].seen
      BY <2>0, <2>1, <1>0, AfterDifferenceInv DEF BoxInv
    <3>3. NetInv(v.seen, ends[x], net[x])
      BY <2>0, <3>2, NetKept DEF BoxInv
    <3>4. ReplyInv(NoReply, v, ends[x])
      BY NoReplyInv
    <3> QED
      BY <2>0, <2>1, <3>1, <3>2, <3>3, <3>4, <1>0 DEF BoxInv, KindInv
  <2>2. CASE x # Common
    <3> DEFINE v == IF x \in late THEN GetChannelDifference(box[x], "Unknown") ELSE box[x]
    <3>1. box'[x] = v /\ reply'[x] = reply[x]
      BY <2>2, <1>0 DEF GotDifference, TypeOK
    <3>2. Calm(box[x], v, ends[x])
      <4>1. CASE x \in late
        BY <4>1, <2>0, GetChannelDifferenceCalm
      <4>2. CASE x \notin late
        BY <4>2, <2>0 DEF Calm
      <4> QED
        BY <4>1, <4>2
    <3>3. PICK u : u = v /\ Calm(box[x], u, ends[x])
      BY <3>2
    <3>4. WaiterInv(u, ends[x]) /\ NetInv(u.seen, ends[x], net[x]) /\ ReplyInv(reply[x], u, ends[x])
      BY <2>0, <3>3 DEF Calm, BoxInv, ReplyInv
    <3> QED
      BY <2>0, <3>1, <3>3, <3>4, <1>0 DEF BoxInv, KindInv
  <2> QED
    BY <2>1, <2>2
<1>2. TypeOK'
  <2>1. \A x \in Boxes : box'[x] \in WaiterState /\ reply'[x] \in Replies
    BY <1>1 DEF BoxInv, WaiterInv, ReplyInv
  <2>2. box' = [x \in Boxes |-> box'[x]]
    BY DEF GotDifference
  <2>3. box' \in [Boxes -> WaiterState]
    BY <2>1, <2>2
  <2>4. reply' \in [Boxes -> Replies]
    BY <2>1, <1>0 DEF TypeOK
  <2> QED
    BY <2>3, <2>4, <1>0 DEF TypeOK
<1> QED
  BY <1>1, <1>2 DEF IInv

LEMMA NextIInv == IInv /\ [Next]_vars => IInv'
<1> SUFFICES ASSUME IInv, [Next]_vars PROVE IInv'
  OBVIOUS
<1>0. /\ Common \in Boxes /\ active \in Channels \cup {None} /\ minChannel \in BOOLEAN
      /\ WaiterInv(box[Common], ends[Common])
  BY DEF IInv, TypeOK, Boxes, BoxInv
<1>1. Calm(box[Common], GetDifference(box[Common]), ends[Common])
  BY <1>0, GetDifferenceCalm
<1>2. ASSUME NEW b \in Boxes, UpdateStep(b) \/ RequestStep(b)
      PROVE  IInv'
  BY <1>2, UpdateStepInv, RequestStepInv
<1>3. ASSUME NEW c \in Channels, ChannelStep(c)
      PROVE  IInv'
  BY <1>3, ChannelStepInv
<1>4. ASSUME NEW late \in SUBSET Channels, GotDifference(late)
      PROVE  IInv'
  BY <1>4, GotDifferenceInv
<1>5. CASE Resync
  BY <1>0, <1>1, <1>5, CalmStep DEF Resync
<1>6. CASE MinChannelTimer
  BY <1>0, <1>1, <1>6, CalmStep DEF MinChannelTimer
<1>7. CASE CloseChat
  <2>1. /\ active' \in Channels \cup {None} /\ minChannel' = minChannel
        /\ box' = box /\ ends' = ends /\ top' = top /\ net' = net /\ reply' = reply
    BY <1>7 DEF CloseChat, server
  <2> QED
    BY <2>1 DEF IInv, TypeOK, BoxInv, KindInv
<1>8. CASE UNCHANGED vars
  <2>1. /\ active' = active /\ minChannel' = minChannel
        /\ box' = box /\ ends' = ends /\ top' = top /\ net' = net /\ reply' = reply
    BY <1>8 DEF vars
  <2> QED
    BY <2>1 DEF IInv, TypeOK, BoxInv, KindInv
<1> QED
  BY <1>2, <1>3, <1>4, <1>5, <1>6, <1>7, <1>8 DEF Next

----------------------------------------------------------------------------
LEMMA InvAlways == Spec => []IInv
  BY InitIInv, NextIInv, PTL DEF Spec

\* Every reachable state of Updates is type correct: in particular no box
\* ever gets past the server's numbers.
THEOREM TypeCorrect == Spec => []TypeOK
<1>1. IInv => TypeOK
  BY DEF IInv
<1> QED
  BY <1>1, InvAlways, PTL

\* No change is lost: whatever updates are lost, overtaken, dropped during a
\* request or refer to unknown peers, whatever requests fail, and for any
\* number of channels, everything up to _good has reached the local data.
THEOREM NothingLost == Spec => []GoodMeansApplied
<1>1. IInv => GoodMeansApplied
  BY DEF IInv, BoxInv, WaiterInv, AppliedInv, GoodMeansApplied
<1> QED
  BY <1>1, InvAlways, PTL

\* An answer that is taken over was asked for at the pts the box still has,
\* so it neither skips changes nor goes back, though updates are let through
\* while it is on the way.
THEOREM AnswersFresh == Spec => []AnswerIsFresh
<1>1. IInv => AnswerIsFresh
  BY DEF IInv, BoxInv, WaiterInv, ReplyInv, AnswerIsFresh
<1> QED
  BY <1>1, InvAlways, PTL

\* The branch _last < _count of PtsWaiter::check is dead as long as the
\* transport hands every update over at most once.
THEOREM CountBounded == Spec => []NeverOvercounted
<1>1. IInv => NeverOvercounted
  <2> SUFFICES ASSUME IInv, NEW b \in Boxes PROVE box[b].count <= box[b].last
    BY DEF NeverOvercounted
  <2>1. /\ MaxPts \in Nat /\ box[b] \in WaiterState /\ CountersInv(box[b], ends[b])
    BY ConstantsAssumption DEF IInv, BoxInv, WaiterInv
  <2>2. /\ box[b].good \in Nat /\ box[b].last \in Nat /\ box[b].count \in Nat
        /\ box[b].good <= box[b].last
        /\ box[b].seen \subseteq box[b].good + 1 .. box[b].last
        /\ Cardinality(box[b].seen) = box[b].count - box[b].good
    BY <2>1 DEF CountersInv, WaiterState
  <2>3. Cardinality(box[b].seen) <= box[b].last - box[b].good
    BY <2>2, NoneMissing
  <2> QED
    BY <2>2, <2>3
<1> QED
  BY <1>1, InvAlways, PTL


----------------------------------------------------------------------------
\* Gaps and the order of updates.

\* An update without a number of its own that meets a gap or, being ahead of
\* the count, opens one: check lets it through, and with it goes the timer.
Loose(w, e) ==
    /\ e.count = 0 /\ ~w.requesting /\ Inited(w)
    /\ w.last # w.count \/ e.pts > w.last

\* An update that is handed to its box.
Handed(b, e) == PushUpdate(b, e) \/ SentUpdates(b, e) \/ Affected(b, e)

Snapshot(p) == [pts |-> p, count |-> 0]

\* The steps that let such an update, or the pts of an answer, pass a gap.
PassesGap(b) ==
    \/ \E e \in net[b] : Loose(box[b], e) /\ Handed(b, e)
    \/ \E p \in ends[b] : Loose(box[b], Snapshot(p)) /\ PtsReceived(b, p)

NonePasses == \A b \in Boxes : ~PassesGap(b)

\* A known gap keeps the timer of the box: somebody waits for what is skipped,
\* so that CheckForWaiting leaves the entry alone.
Watched(w) ==
    /\ w.last # w.count /\ ~w.requesting => w.waitingForSkipped = TRUE /\ w.byPts = TRUE
    /\ w.good = 0 => w.last = w.count

\* The updates held back end where the count has got to.
HeldBack(w) == \A e \in w.queue : e.pts <= w.last /\ e.count <= e.pts

\* What a step from w to v may do.
Forward(v, w) ==
    /\ v.good >= w.good
    /\ ~w.requesting /\ ~v.requesting => v.applied \ w.applied \subseteq 1 .. v.good

SameRequest(v, w) ==
    v.requesting = w.requesting /\ v.inFlight = w.inFlight /\ v.afterFail = w.afterFail

SameCounts(v, w) == v.good = w.good /\ v.last = w.last /\ v.count = w.count

\* A step that asks for a difference: of a box without a pts there is none.
Asks(v, w) ==
    /\ SameCounts(v, w) /\ v.applied = w.applied /\ v.queue \subseteq w.queue
    /\ v.requesting = TRUE \/ w.good = 0

LEMMA AsksWatched ==
    ASSUME NEW w \in WaiterState, NEW v, Asks(v, w), Watched(w), HeldBack(w)
    PROVE  Watched(v) /\ HeldBack(v) /\ Forward(v, w)
<1>1. Watched(v)
    BY DEF Asks, Watched, SameCounts
<1>2. HeldBack(v)
    BY DEF Asks, HeldBack, SameCounts
<1>3. Forward(v, w)
    <2>1. w.good \in Int
        BY ConstantsAssumption DEF WaiterState
    <2> QED BY <2>1 DEF Asks, Forward, SameCounts
<1> QED BY <1>1, <1>2, <1>3

LEMMA SendFields ==
    ASSUME NEW w \in WaiterState, NEW v, v = Send(w)
    PROVE  /\ SameCounts(v, w) /\ v.applied = w.applied /\ v.queue = {}
           /\ v.requesting = TRUE /\ v.inFlight = TRUE /\ v.afterFail = FALSE
BY DEF Send, SetRequesting, ClearSkippedUpdates, WaiterState, SameCounts

\* getDifference leaves a request on its way, one that is alive if the one
\* before it was.
LEMMA GetDifferenceAsks ==
    ASSUME NEW w \in WaiterState, NEW v, v = GetDifference(w)
    PROVE  /\ Asks(v, w)
           /\ v.requesting = TRUE
           /\ v.inFlight = TRUE \/ SameRequest(v, w)
<1>1. PICK c : c = [w EXCEPT !.byPts = FALSE]
    OBVIOUS
<1>2. /\ c \in WaiterState /\ SameCounts(c, w) /\ c.applied = w.applied /\ c.queue = w.queue
      /\ SameRequest(c, w)
    BY <1>1 DEF WaiterState, SameCounts, SameRequest
<1>3. CASE c.requesting
    <2>1. v = c
        BY <1>1, <1>3 DEF GetDifference
    <2>2. c.requesting = TRUE
        BY <1>2, <1>3 DEF WaiterState
    <2> QED BY <1>2, <2>1, <2>2 DEF Asks
<1>4. CASE ~c.requesting
    <2>1. v = Send(c)
        BY <1>1, <1>4 DEF GetDifference
    <2>2. /\ SameCounts(v, c) /\ v.applied = c.applied /\ v.queue = {}
          /\ v.requesting = TRUE /\ v.inFlight = TRUE
        BY <1>2, <2>1, SendFields
    <2> QED BY <1>2, <2>2 DEF Asks, SameCounts
<1> QED BY <1>3, <1>4

LEMMA GetChannelDifferenceAsks ==
    ASSUME NEW w \in WaiterState, NEW from, NEW v, v = GetChannelDifference(w, from)
    PROVE  /\ Asks(v, w)
           /\ v.inFlight = TRUE \/ SameRequest(v, w)
           /\ w.afterFail = FALSE => v.afterFail = FALSE
<1>1. PICK c : c = IF from # "PtsGapOrShortPoll" THEN [w EXCEPT !.byPts = FALSE] ELSE w
    OBVIOUS
<1>2. /\ c \in WaiterState /\ SameCounts(c, w) /\ c.applied = w.applied /\ c.queue = w.queue
      /\ SameRequest(c, w)
    <2>1. CASE from # "PtsGapOrShortPoll"
        BY <1>1, <2>1 DEF WaiterState, SameCounts, SameRequest
    <2>2. CASE from = "PtsGapOrShortPoll"
        BY <1>1, <2>2 DEF SameCounts, SameRequest
    <2> QED BY <2>1, <2>2
<1>3. CASE ~Inited(c) \/ c.requesting
    <2>1. v = c
        BY <1>1, <1>3 DEF GetChannelDifference
    <2>2. c.requesting = TRUE \/ w.good = 0
        <3>1. c.good \in 0 .. MaxPts /\ c.requesting \in BOOLEAN /\ MaxPts \in Nat /\ c.good = w.good
            BY <1>2, ConstantsAssumption DEF WaiterState, SameCounts
        <3> QED BY <1>3, <3>1 DEF Inited
    <2> QED BY <1>2, <2>1, <2>2 DEF Asks, SameRequest
<1>4. CASE ~(~Inited(c) \/ c.requesting)
    <2>1. PICK s : s = Send(c)
        OBVIOUS
    <2>2. PICK f : f = ((from = "AfterFail") /\ c.afterFail)
        OBVIOUS
    <2>3. v = [s EXCEPT !.afterFail = f]
        BY <1>1, <1>4, <2>1, <2>2 DEF GetChannelDifference
    <2>4. /\ SameCounts(s, c) /\ s.applied = c.applied /\ s.queue = {}
          /\ s.requesting = TRUE /\ s.inFlight = TRUE /\ s.afterFail = FALSE
        BY <1>2, <2>1, SendFields
    <2>5. s \in WaiterState
        <3>1. s = [c EXCEPT !.queue = {}, !.requesting = TRUE, !.inFlight = TRUE, !.afterFail = FALSE]
            BY <1>2, <2>1 DEF Send, SetRequesting, ClearSkippedUpdates, WaiterState
        <3>2. {} \in SUBSET Update
            OBVIOUS
        <3> QED BY <1>2, <3>1, <3>2 DEF WaiterState
    <2>6. /\ SameCounts(v, s) /\ v.applied = s.applied /\ v.queue = s.queue
          /\ v.requesting = s.requesting /\ v.inFlight = s.inFlight /\ v.afterFail = f
        BY <2>3, <2>5 DEF SameCounts, WaiterState
    <2>7. w.afterFail = FALSE => f = FALSE
        BY <1>2, <2>2 DEF SameRequest
    <2>8. Asks(v, w)
        BY <1>2, <2>4, <2>6 DEF Asks, SameCounts
    <2> QED BY <2>4, <2>6, <2>7, <2>8
<1> QED BY <1>3, <1>4

\* applySkippedUpdates applies at most what was held back.
LEMMA ApplySkippedFields ==
    ASSUME NEW w \in WaiterState, NEW v, v = ApplySkippedUpdates(w)
    PROVE  /\ SameCounts(v, w) /\ SameRequest(v, w)
           /\ v.queue \subseteq w.queue
           /\ v.applied \subseteq w.applied \cup UNION {Points(e) : e \in w.queue}
<1>1. CASE ~w.waitingForSkipped
    BY <1>1 DEF ApplySkippedUpdates, SameCounts, SameRequest
<1>2. CASE w.waitingForSkipped
    <2> DEFINE Q == UNION {Points(e) : e \in w.queue}
    <2>1. PICK t \in BOOLEAN :
            v = [w EXCEPT !.waitingForSkipped = FALSE, !.byPts = t,
                          !.applied = w.applied \cup Q, !.queue = {}]
        <3>1. CASE w.waitingForShortPoll
            <4>1. w.byPts \in BOOLEAN
                BY DEF WaiterState
            <4> QED
                BY <1>2, <3>1, <4>1 DEF ApplySkippedUpdates, SetWaitingForSkipped, CheckForWaiting,
                   ClearSkippedUpdates, ApplyNoPtsCheck, WaiterState
        <3>2. CASE ~w.waitingForShortPoll
            BY <1>2, <3>2 DEF ApplySkippedUpdates, SetWaitingForSkipped, CheckForWaiting,
               ClearSkippedUpdates, ApplyNoPtsCheck, WaiterState
        <3> QED BY <3>1, <3>2
    <2> HIDE DEF Q
    <2>2. /\ SameCounts(v, w) /\ SameRequest(v, w) /\ v.queue = {} /\ v.applied = w.applied \cup Q
        BY <2>1 DEF WaiterState, SameCounts, SameRequest
    <2> QED BY <2>2 DEF Q
<1> QED BY <1>1, <1>2

\* What check leaves: the numbers of a box without a gap, or somebody who
\* waits for the gap to close.
LEMMA CheckFields ==
    ASSUME NEW w, NEW E, NEW e, E \subseteq 1 .. MaxPts,
           WaiterInv(w, E), UpdateInv(e, E), ~w.requesting,
           Points(e) \cap w.seen = {}, ~Covered(w, e), NEW k, k = Check(w, e)
    PROVE  /\ SameRequest(k, w) /\ k.applied = w.applied /\ k.queue \subseteq w.queue
           /\ k.good >= w.good /\ k.last >= e.pts
           /\ k.queue # {} => k.last >= w.last
           /\ CheckOk(w, e) => e.count = 0 \/ (k.last = k.count /\ k.good = k.last)
           /\ ~CheckOk(w, e) => k.waitingForSkipped = TRUE /\ k.byPts = TRUE /\ k.good > 0
<1>0. MaxPts \in Nat
    BY ConstantsAssumption
<1>1. /\ w \in WaiterState /\ CountersInv(w, E) /\ e.pts \in 1 .. MaxPts /\ e.count \in Nat
      /\ w.good \in 0 .. MaxPts /\ w.last \in 0 .. MaxPts /\ w.count \in Nat
    BY <1>0 DEF WaiterInv, WaiterState, UpdateInv, Update
<1>2. PICK c : c = Counted(w, e)
    OBVIOUS
<1>3. /\ c.last = IF e.pts > w.last THEN e.pts ELSE w.last
      /\ c.good = w.good /\ c.queue = w.queue /\ c.applied = w.applied /\ SameRequest(c, w)
    BY <1>1, <1>2 DEF Counted, WaiterState, SameRequest
<1>4. c.last \in Nat /\ c.good <= c.last /\ c.last >= e.pts /\ c.last >= w.last /\ c.good >= w.good
    BY <1>0, <1>1, <1>3 DEF CountersInv
<1>5. c \in WaiterState
    <2>1. Points(e) \subseteq Int /\ w.seen \subseteq Int
        BY <1>0, <1>1 DEF Points, WaiterState
    <2>2. c.last \in 0 .. MaxPts /\ c.count \in Nat /\ c.seen \in SUBSET Int
        BY <1>0, <1>1, <1>2, <2>1 DEF Counted, WaiterState
    <2> QED BY <1>1, <1>2, <2>2 DEF Counted, WaiterState
<1>7. CASE ~Inited(w)
    <2>1. k = [w EXCEPT !.queue = {}, !.good = e.pts, !.last = e.pts, !.count = e.pts,
                        !.seen = {}, !.base = e.pts]
        BY <1>1, <1>2, <1>7 DEF Check, Rebase, InitPts, ClearSkippedUpdates, WaiterState
    <2>2. /\ k.queue = {} /\ k.good = e.pts /\ k.last = e.pts /\ k.count = e.pts
          /\ k.applied = w.applied /\ SameRequest(k, w)
        BY <1>1, <2>1 DEF WaiterState, SameRequest
    <2>3. w.good = 0
        BY <1>0, <1>1, <1>7 DEF Inited
    <2>4. CheckOk(w, e)
        BY <1>7 DEF CheckOk
    <2> QED BY <1>0, <1>1, <2>2, <2>3, <2>4
<1>8. CASE Inited(w) /\ NoGap(c)
    <2>1. k = [c EXCEPT !.good = c.last, !.seen = {}]
        BY <1>2, <1>8 DEF Check
    <2>2. /\ k.queue = c.queue /\ k.good = c.last /\ k.last = c.last /\ k.count = c.count
          /\ k.applied = c.applied /\ SameRequest(k, c)
        BY <1>5, <2>1 DEF SameRequest, WaiterState
    <2>3. CheckOk(w, e)
        BY <1>2, <1>8 DEF CheckOk
    <2>4. c.last = c.count
        BY <1>8 DEF NoGap
    <2>5. SameRequest(k, w)
        BY <1>3, <2>2 DEF SameRequest
    <2> QED BY <1>3, <1>4, <2>2, <2>3, <2>4, <2>5
<1>9. CASE Inited(w) /\ ~NoGap(c)
    <2>1. k = [c EXCEPT !.waitingForSkipped = TRUE, !.byPts = TRUE]
        BY <1>2, <1>9 DEF Check, SetWaitingForSkipped
    <2>2. /\ k.queue = c.queue /\ k.good = c.good /\ k.last = c.last
          /\ k.waitingForSkipped = TRUE /\ k.byPts = TRUE
          /\ k.applied = c.applied /\ SameRequest(k, c)
        BY <1>5, <2>1 DEF SameRequest, WaiterState
    <2>3. CheckOk(w, e) => e.count = 0
        BY <1>2, <1>9 DEF CheckOk
    <2>4. w.good > 0
        BY <1>9 DEF Inited
    <2>5. SameRequest(k, w)
        BY <1>3, <2>2 DEF SameRequest
    <2> QED BY <1>3, <1>4, <2>2, <2>3, <2>4, <2>5
<1> QED BY <1>7, <1>8, <1>9

\* An update that is handed over leaves the request alone.
LEMMA UpdateSameRequest ==
    ASSUME NEW w, NEW E, NEW e, E \subseteq 1 .. MaxPts,
           WaiterInv(w, E), UpdateInv(e, E), Points(e) \cap w.seen = {}
    PROVE  SameRequest(UpdateAndApply(w, e), w) /\ SameRequest(UpdateAndApplyCounts(w, e), w)
<1> DEFINE u == UpdateAndApply(w, e)
<1> DEFINE n == UpdateAndApplyCounts(w, e)
<1>0. w \in WaiterState /\ e \in Update
    BY DEF WaiterInv, UpdateInv
<1>1. CASE w.requesting
    <2>1. w.queue = {}
        BY <1>1 DEF WaiterInv, ContentInv
    <2>2. u = [w EXCEPT !.applied = w.applied \cup Points(e)]
        BY <1>0, <1>1, <2>1 DEF UpdateAndApply, AfterCheck, Updated, ApplyNoPtsCheck, WaiterState
    <2>3. SameRequest(u, w)
        BY <1>0, <2>2 DEF SameRequest, WaiterState
    <2>4. n = ApplySkippedUpdates(w)
        BY <1>1 DEF UpdateAndApplyCounts, AfterCheck, Updated
    <2> QED BY <1>0, <2>3, <2>4, ApplySkippedFields
<1>2. CASE ~w.requesting /\ Covered(w, e)
    <2>1. u = w /\ n = w
        BY <1>2 DEF UpdateAndApply, UpdateAndApplyCounts, Updated, AfterCheck
    <2> QED BY <2>1 DEF SameRequest
<1>3. CASE ~w.requesting /\ ~Covered(w, e)
    <2>1. PICK k : k = Check(w, e)
        OBVIOUS
    <2>2. SameRequest(k, w) /\ k \in WaiterState
        BY <1>3, <2>1, CheckFields, CheckInv
    <2>3. PICK q : q = Queued(k, e)
        OBVIOUS
    <2>4. q \in WaiterState /\ SameRequest(q, w)
        <3>1. k.queue \cup {e} \in SUBSET Update
            BY <1>0, <2>2 DEF WaiterState
        <3> QED BY <2>2, <2>3, <3>1 DEF Queued, WaiterState, SameRequest
    <2>5. SameRequest([k EXCEPT !.applied = k.applied \cup Points(e)], w)
        BY <2>2 DEF WaiterState, SameRequest
    <2>6. SameRequest(ApplySkippedUpdates(q), w) /\ SameRequest(ApplySkippedUpdates(k), w)
        <3>1. SameRequest(ApplySkippedUpdates(q), q)
            BY <2>4, ApplySkippedFields
        <3>2. SameRequest(ApplySkippedUpdates(k), k)
            BY <2>2, ApplySkippedFields
        <3> QED BY <2>2, <2>4, <3>1, <3>2 DEF SameRequest
    <2>7. u \in {q, [k EXCEPT !.applied = k.applied \cup Points(e)], ApplySkippedUpdates(q)}
        BY <1>3, <2>1, <2>3 DEF UpdateAndApply, Updated, AfterCheck, ApplyNoPtsCheck
    <2>8. n \in {k, ApplySkippedUpdates(k)}
        BY <1>3, <2>1 DEF UpdateAndApplyCounts, Updated, AfterCheck
    <2> QED BY <2>2, <2>4, <2>5, <2>6, <2>7, <2>8
<1> QED BY <1>1, <1>2, <1>3

\* Updates held back, and the one that closes the gap, end at the new border.
LEMMA PointsWithin ==
    ASSUME NEW p \in Nat, NEW S \in SUBSET Update, \A e \in S : e.pts <= p /\ e.count <= e.pts
    PROVE  UNION {Points(e) : e \in S} \subseteq 1 .. p
<1>1. ASSUME NEW e \in S PROVE Points(e) \subseteq 1 .. p
    <2>1. e.pts \in 1 .. MaxPts /\ e.count \in Nat /\ MaxPts \in Nat
        BY ConstantsAssumption DEF Update
    <2>2. e.pts <= p /\ e.count <= e.pts /\ e.pts \in Int /\ e.count \in Int
        BY <2>1
    <2> QED BY <2>2 DEF Points
<1> QED BY <1>1

\* An update that check lets through, and that is not loose, leaves no gap.
LEMMA CheckCloses ==
    ASSUME NEW w, NEW E, NEW e, E \subseteq 1 .. MaxPts,
           WaiterInv(w, E), UpdateInv(e, E), Points(e) \cap w.seen = {},
           ~w.requesting, ~Covered(w, e), CheckOk(w, e), ~Loose(w, e),
           NEW k, k = Check(w, e)
    PROVE  k.last = k.count /\ k.good = k.last
<1>1. /\ w \in WaiterState /\ e \in Update /\ w.last \in Nat /\ w.count \in Nat
      /\ e.pts \in Nat /\ e.count \in Nat
    BY ConstantsAssumption DEF WaiterInv, UpdateInv, WaiterState, Update
<1>2. CASE e.count # 0
    BY <1>2, CheckFields
<1>3. CASE e.count = 0 /\ ~Inited(w)
    BY <1>1, <1>3 DEF Check, Rebase, InitPts, ClearSkippedUpdates, WaiterState
<1>4. CASE e.count = 0 /\ Inited(w)
    <2>1. w.last = w.count /\ e.pts <= w.last
        BY <1>1, <1>4 DEF Loose
    <2>2. PICK c : c = Counted(w, e)
        OBVIOUS
    <2>3. c.last = w.last /\ c.count = w.last
        BY <1>1, <1>4, <2>1, <2>2 DEF Counted, WaiterState
    <2>4. k = [c EXCEPT !.good = c.last, !.seen = {}]
        BY <1>4, <2>2, <2>3 DEF Check, NoGap
    <2>5. k.last = c.last /\ k.count = c.count /\ k.good = c.last
        BY <1>1, <2>2, <2>4 DEF Counted, WaiterState
    <2> QED BY <2>3, <2>5
<1> QED BY <1>2, <1>3, <1>4

\* The same for an update that is not loose.
LEMMA UpdateWatched ==
    ASSUME NEW w, NEW E, NEW e, E \subseteq 1 .. MaxPts,
           WaiterInv(w, E), UpdateInv(e, E), Points(e) \cap w.seen = {},
           ~Loose(w, e), Watched(w), HeldBack(w), NEW v, v = UpdateAndApply(w, e)
    PROVE  Watched(v) /\ HeldBack(v) /\ Forward(v, w)
<1>0. w \in WaiterState /\ e \in Update /\ e.count <= e.pts /\ w.good \in Nat /\ MaxPts \in Nat
    BY ConstantsAssumption DEF WaiterInv, UpdateInv, WaiterState
<1>1. CASE w.requesting
    <2>1. w.queue = {}
        BY <1>1 DEF WaiterInv, ContentInv
    <2>2. v = [w EXCEPT !.applied = w.applied \cup Points(e)]
        BY <1>0, <1>1, <2>1 DEF UpdateAndApply, AfterCheck, Updated, ApplyNoPtsCheck, WaiterState
    <2>3. SameCounts(v, w) /\ v.queue = {} /\ v.requesting = w.requesting
        BY <1>0, <2>1, <2>2 DEF SameCounts, WaiterState
    <2>4. Watched(v)
        BY <1>1, <2>3 DEF Watched, SameCounts
    <2>5. HeldBack(v)
        BY <2>3 DEF HeldBack
    <2>6. Forward(v, w)
        BY <1>0, <1>1, <2>3 DEF Forward, SameCounts
    <2> QED BY <2>4, <2>5, <2>6
<1>2. CASE ~w.requesting /\ Covered(w, e)
    <2>1. v = w
        BY <1>2 DEF UpdateAndApply, Updated
    <2>2. Forward(w, w)
        BY <1>0 DEF Forward
    <2> QED BY <2>1, <2>2
<1>3. CASE ~w.requesting /\ ~Covered(w, e)
    <2>1. PICK k : k = Check(w, e)
        OBVIOUS
    <2>2. k \in WaiterState /\ ~k.requesting
        BY <1>3, <2>1, CheckInv
    <2>3. /\ k.applied = w.applied /\ k.queue \subseteq w.queue
          /\ k.good >= w.good /\ k.last >= e.pts
          /\ k.queue # {} => k.last >= w.last
          /\ CheckOk(w, e) => e.count = 0 \/ (k.last = k.count /\ k.good = k.last)
          /\ ~CheckOk(w, e) => k.waitingForSkipped = TRUE /\ k.byPts = TRUE /\ k.good > 0
        BY <1>3, <2>1, CheckFields
    <2>4. k.good \in Nat /\ k.last \in Nat /\ w.last \in Nat /\ e.pts \in Nat /\ e.count \in Nat
        BY <1>0, <2>2 DEF WaiterState, Update
    <2>5. \A f \in k.queue \cup {e} : f.pts <= k.last /\ f.count <= f.pts
        <3>1. \A f \in k.queue : f.pts \in Nat /\ f.pts <= w.last /\ f.count <= f.pts
            BY <1>0, <2>2, <2>3 DEF HeldBack, WaiterState, Update
        <3> QED BY <1>0, <2>3, <2>4, <3>1
    <2>6. PICK q : q = Queued(k, e)
        OBVIOUS
    <2>7. /\ q \in WaiterState /\ SameCounts(q, k) /\ q.queue = k.queue \cup {e}
          /\ q.applied = k.applied /\ q.requesting = k.requesting
          /\ q.waitingForSkipped = k.waitingForSkipped /\ q.byPts = k.byPts
        <3>1. k.queue \cup {e} \in SUBSET Update
            BY <1>0, <2>2 DEF WaiterState
        <3> QED BY <2>2, <2>6, <3>1 DEF Queued, WaiterState, SameCounts
    <2>8. CASE ~CheckOk(w, e)
        <3>1. v = q
            BY <1>3, <2>1, <2>6, <2>8 DEF UpdateAndApply, Updated, AfterCheck
        <3>2. Watched(q)
            BY <2>3, <2>4, <2>7, <2>8 DEF Watched, SameCounts
        <3>3. HeldBack(q)
            BY <2>5, <2>7 DEF HeldBack, SameCounts
        <3>4. Forward(q, w)
            BY <2>3, <2>7 DEF Forward, SameCounts
        <3> QED BY <3>1, <3>2, <3>3, <3>4
    <2>9. CASE CheckOk(w, e)
        <3>0. k.last = k.count /\ k.good = k.last /\ UNION {Points(f) : f \in k.queue \cup {e}} \subseteq 1 .. k.good
            <4>1. k.queue \cup {e} \in SUBSET Update
                BY <1>0, <2>2 DEF WaiterState
            <4>2. k.last = k.count /\ k.good = k.last
                BY <1>3, <2>1, <2>9, CheckCloses
            <4>3. UNION {Points(f) : f \in k.queue \cup {e}} \subseteq 1 .. k.last
                BY <2>4, <2>5, <4>1, PointsWithin
            <4> QED BY <4>2, <4>3
        <3>1. /\ SameCounts(v, k) /\ v.requesting = k.requesting
              /\ v.queue \subseteq k.queue \cup {e}
              /\ v.applied \subseteq w.applied \cup UNION {Points(f) : f \in k.queue \cup {e}}
            <4>1. CASE ~k.waitingForSkipped \/ k.queue = {}
                <5>1. v = [k EXCEPT !.applied = k.applied \cup Points(e)]
                    BY <1>3, <2>1, <2>9, <4>1 DEF UpdateAndApply, Updated, AfterCheck, ApplyNoPtsCheck
                <5>2. /\ SameCounts(v, k) /\ v.requesting = k.requesting /\ v.queue = k.queue
                      /\ v.applied = w.applied \cup Points(e)
                    BY <2>2, <2>3, <5>1 DEF SameCounts, WaiterState
                <5> QED BY <5>2
            <4>2. CASE k.waitingForSkipped /\ k.queue # {}
                <5>1. v = ApplySkippedUpdates(q)
                    BY <1>3, <2>1, <2>6, <2>9, <4>2 DEF UpdateAndApply, Updated, AfterCheck
                <5>2. /\ SameCounts(v, q) /\ SameRequest(v, q) /\ v.queue \subseteq q.queue
                      /\ v.applied \subseteq q.applied \cup UNION {Points(f) : f \in q.queue}
                    BY <2>7, <5>1, ApplySkippedFields
                <5> QED BY <2>3, <2>7, <5>2 DEF SameCounts, SameRequest
            <4> QED BY <4>1, <4>2
        <3>2. Watched(v)
            BY <3>0, <3>1 DEF Watched, SameCounts
        <3>3. HeldBack(v)
            BY <2>5, <3>1 DEF HeldBack, SameCounts
        <3>4. v.applied \ w.applied \subseteq 1 .. v.good
            BY <3>0, <3>1 DEF SameCounts
        <3>5. Forward(v, w)
            BY <2>3, <3>1, <3>4 DEF Forward, SameCounts
        <3> QED BY <3>2, <3>3, <3>5
    <2> QED BY <2>8, <2>9
<1> QED BY <1>1, <1>2, <1>3

LEMMA UpdateCountsWatched ==
    ASSUME NEW w, NEW E, NEW e, E \subseteq 1 .. MaxPts,
           WaiterInv(w, E), UpdateInv(e, E), Points(e) \cap w.seen = {},
           ~Loose(w, e), Watched(w), HeldBack(w), NEW v, v = UpdateAndApplyCounts(w, e)
    PROVE  Watched(v) /\ HeldBack(v) /\ Forward(v, w)
<1>0. w \in WaiterState /\ e \in Update /\ e.count <= e.pts /\ w.good \in Nat /\ MaxPts \in Nat
    BY ConstantsAssumption DEF WaiterInv, UpdateInv, WaiterState
<1>1. CASE w.requesting
    <2>1. v = ApplySkippedUpdates(w)
        BY <1>1 DEF UpdateAndApplyCounts, AfterCheck, Updated
    <2>2. SameCounts(v, w) /\ SameRequest(v, w) /\ v.queue \subseteq w.queue
        BY <1>0, <2>1, ApplySkippedFields
    <2>3. Watched(v)
        BY <1>1, <2>2 DEF Watched, SameCounts, SameRequest
    <2>4. HeldBack(v)
        BY <2>2 DEF HeldBack, SameCounts
    <2>5. Forward(v, w)
        BY <1>0, <1>1, <2>2 DEF Forward, SameCounts
    <2> QED BY <2>3, <2>4, <2>5
<1>2. CASE ~w.requesting /\ Covered(w, e)
    <2>1. v = w
        BY <1>2 DEF UpdateAndApplyCounts, Updated, AfterCheck
    <2>2. Forward(w, w)
        BY <1>0 DEF Forward
    <2> QED BY <2>1, <2>2
<1>3. CASE ~w.requesting /\ ~Covered(w, e)
    <2>1. PICK k : k = Check(w, e)
        OBVIOUS
    <2>2. k \in WaiterState /\ ~k.requesting
        BY <1>3, <2>1, CheckInv
    <2>3. /\ k.applied = w.applied /\ k.queue \subseteq w.queue
          /\ k.good >= w.good
          /\ k.queue # {} => k.last >= w.last
          /\ CheckOk(w, e) => e.count = 0 \/ (k.last = k.count /\ k.good = k.last)
          /\ ~CheckOk(w, e) => k.waitingForSkipped = TRUE /\ k.byPts = TRUE /\ k.good > 0
        BY <1>3, <2>1, CheckFields
    <2>4. k.good \in Nat /\ k.last \in Nat /\ w.last \in Nat /\ e.count \in Nat
        BY <1>0, <2>2 DEF WaiterState, Update
    <2>5. \A f \in k.queue : f.pts <= k.last /\ f.count <= f.pts
        <3>1. \A f \in k.queue : f.pts \in Nat /\ f.pts <= w.last /\ f.count <= f.pts
            BY <1>0, <2>2, <2>3 DEF HeldBack, WaiterState, Update
        <3> QED BY <2>3, <2>4, <3>1
    <2>8. CASE ~CheckOk(w, e)
        <3>1. v = k
            BY <1>3, <2>1, <2>8 DEF UpdateAndApplyCounts, Updated, AfterCheck
        <3>2. Watched(k)
            BY <2>3, <2>4, <2>8 DEF Watched
        <3>3. HeldBack(k)
            BY <2>5 DEF HeldBack
        <3>4. Forward(k, w)
            BY <2>3 DEF Forward
        <3> QED BY <3>1, <3>2, <3>3, <3>4
    <2>9. CASE CheckOk(w, e)
        <3>0. k.last = k.count /\ k.good = k.last
            BY <1>3, <2>1, <2>9, CheckCloses
        <3>1. v = ApplySkippedUpdates(k)
            BY <1>3, <2>1, <2>9 DEF UpdateAndApplyCounts, Updated, AfterCheck
        <3>2. /\ SameCounts(v, k) /\ SameRequest(v, k) /\ v.queue \subseteq k.queue
              /\ v.applied \subseteq k.applied \cup UNION {Points(f) : f \in k.queue}
            BY <2>2, <3>1, ApplySkippedFields
        <3>3. UNION {Points(f) : f \in k.queue} \subseteq 1 .. k.last
            <4>1. k.queue \in SUBSET Update
                BY <2>2 DEF WaiterState
            <4> QED BY <2>4, <2>5, <4>1, PointsWithin
        <3>4. Watched(v)
            BY <3>0, <3>2 DEF Watched, SameCounts
        <3>5. HeldBack(v)
            BY <2>5, <3>2 DEF HeldBack, SameCounts
        <3>6. v.applied \ w.applied \subseteq 1 .. v.good
            BY <2>3, <3>0, <3>2, <3>3 DEF SameCounts
        <3>7. Forward(v, w)
            BY <2>3, <3>2, <3>6 DEF Forward, SameCounts
        <3> QED BY <3>4, <3>5, <3>7
    <2> QED BY <2>8, <2>9
<1> QED BY <1>1, <1>2, <1>3

----------------------------------------------------------------------------
\* A box that is marked as requesting has a request or a retry.
IsAlive(w) == w.requesting = TRUE => w.inFlight = TRUE \/ w.afterFail = TRUE

\* The poll of the open chat never takes the timer from a gap.
LEMMA PollWatched ==
    ASSUME NEW w \in WaiterState, NEW p \in BOOLEAN, NEW v, v = SetWaitingForShortPoll(w, p),
           Watched(w), HeldBack(w)
    PROVE  Watched(v) /\ HeldBack(v) /\ Forward(v, w)
<1>1. PICK t \in BOOLEAN :
        /\ v = [w EXCEPT !.waitingForShortPoll = p, !.byPts = t]
        /\ w.waitingForSkipped = TRUE /\ w.byPts = TRUE => t = TRUE
    <2>1. w.byPts \in BOOLEAN
        BY DEF WaiterState
    <2>2. CASE p
        BY <2>2 DEF SetWaitingForShortPoll, WaiterState
    <2>3. CASE ~p /\ w.waitingForSkipped
        BY <2>1, <2>3 DEF SetWaitingForShortPoll, CheckForWaiting, WaiterState
    <2>4. CASE ~p /\ ~w.waitingForSkipped
        BY <2>4 DEF SetWaitingForShortPoll, CheckForWaiting, WaiterState
    <2> QED BY <2>2, <2>3, <2>4
<1>2. /\ SameCounts(v, w) /\ v.queue = w.queue /\ v.applied = w.applied /\ v.byPts = t
      /\ v.requesting = w.requesting /\ v.waitingForSkipped = w.waitingForSkipped
    BY <1>1 DEF SameCounts, WaiterState
<1>3. Watched(v)
    BY <1>1, <1>2 DEF Watched, SameCounts
<1>4. HeldBack(v)
    BY <1>2 DEF HeldBack, SameCounts
<1>5. Forward(v, w)
    <2>1. w.good \in Int
        BY ConstantsAssumption DEF WaiterState
    <2> QED BY <1>2, <2>1 DEF Forward, SameCounts
<1> QED BY <1>3, <1>4, <1>5

LEMMA PollSameRequest ==
    ASSUME NEW w \in WaiterState, NEW p \in BOOLEAN, NEW v, v = SetWaitingForShortPoll(w, p)
    PROVE  SameRequest(v, w)
BY DEF SetWaitingForShortPoll, CheckForWaiting, WaiterState, SameRequest

\* The box after an answer that is taken over, with the pts p.
Restarted(v, w, p) ==
    /\ v.good = p /\ v.last = p /\ v.count = p /\ v.queue = {}
    /\ v.requesting = FALSE /\ v.afterFail = w.afterFail

LEMMA RestartedWatched ==
    ASSUME NEW w, NEW v, NEW p, Restarted(v, w, p) PROVE Watched(v) /\ HeldBack(v) /\ IsAlive(v)
BY DEF Restarted, Watched, HeldBack, IsAlive

LEMMA DoneRestarts ==
    ASSUME NEW w, NEW E, E \subseteq 1 .. MaxPts, WaiterInv(w, E), NEW p \in E \cup {0}, p >= w.good
    PROVE  /\ Restarted(Done(InitPts(Feed(Landed(w), p), p)), w, p)
           /\ Restarted(Done(Rebase(Landed(w), p)), w, p)
           /\ Restarted(Done(InitPts(Landed(w), w.good)), w, w.good)
           /\ Restarted(Done(ApplySkippedUpdates(Rebase(Landed(w), p))), w, p)
<1>0. w \in WaiterState
    BY DEF WaiterInv
<1>1. Restarted(Done(InitPts(Feed(Landed(w), p), p)), w, p)
    BY <1>0 DEF Restarted, Done, SetRequesting, InitPts, Feed, Landed, ClearSkippedUpdates, WaiterState
<1>2. Restarted(Done(InitPts(Landed(w), w.good)), w, w.good)
    BY <1>0 DEF Restarted, Done, SetRequesting, InitPts, Landed, ClearSkippedUpdates, WaiterState
<1>3. PICK r : r = Rebase(Landed(w), p)
    OBVIOUS
<1>4. r.good = p /\ r.last = p /\ r.count = p /\ r.queue = {} /\ r.afterFail = w.afterFail
    BY <1>0, <1>3 DEF Rebase, InitPts, Landed, ClearSkippedUpdates, WaiterState
<1>5. WaiterInv(r, E) /\ r \in WaiterState
    BY <1>3, RestartInv DEF WaiterInv
<1>6. ASSUME NEW x \in WaiterState, SameCounts(x, r), x.queue = {}, x.afterFail = r.afterFail
      PROVE  Restarted(Done(x), w, p)
    BY <1>4, <1>6 DEF Restarted, Done, SetRequesting, SameCounts, WaiterState
<1>7. Restarted(Done(r), w, p)
    BY <1>4, <1>5, <1>6 DEF SameCounts
<1>8. PICK a : a = ApplySkippedUpdates(r)
    OBVIOUS
<1>9. a \in WaiterState
    BY <1>5, <1>8, ApplySkippedInv DEF WaiterInv
<1>10. SameCounts(a, r) /\ SameRequest(a, r) /\ a.queue \subseteq r.queue
    BY <1>5, <1>8, ApplySkippedFields
<1>11. Restarted(Done(a), w, p)
    BY <1>4, <1>6, <1>9, <1>10 DEF SameRequest
<1> QED BY <1>1, <1>2, <1>3, <1>7, <1>8, <1>11

LEMMA LandedFields ==
    ASSUME NEW w \in WaiterState, NEW v, v = Landed(w)
    PROVE  /\ SameCounts(v, w) /\ v.queue = w.queue /\ v.requesting = w.requesting
           /\ v.waitingForSkipped = w.waitingForSkipped /\ v.byPts = w.byPts
           /\ v.afterFail = w.afterFail
BY DEF Landed, SameCounts, WaiterState

\* An answer for the common box.
LEMMA AfterDifferenceStep ==
    ASSUME NEW w, NEW E, NEW r, E \subseteq 1 .. MaxPts, WaiterInv(w, E),
           ReplyInv(r, w, E), r.kind \notin {"none", "fail"},
           NEW v, v = AfterDifference(Landed(w), r)
    PROVE  /\ Watched(w) => Watched(v)
           /\ HeldBack(w) => HeldBack(v)
           /\ v.good >= w.good
           /\ r.kind # "tooLong" => IsAlive(v)
<1>0. /\ r.pts \in E \cup {0} /\ r.pts >= w.good /\ r.pts \in Int /\ w.good \in Int /\ w \in WaiterState
      /\ r.kind \in {"state", "empty", "slice", "difference", "tooLong"}
    BY ConstantsAssumption DEF ReplyInv, Replies, WaiterInv, WaiterState
<1>1. PICK f : f = Done(InitPts(Feed(Landed(w), r.pts), r.pts))
    OBVIOUS
<1>2. /\ Restarted(f, w, r.pts)
      /\ Restarted(Done(Rebase(Landed(w), r.pts)), w, r.pts)
      /\ Restarted(Done(InitPts(Landed(w), w.good)), w, w.good)
    BY <1>0, <1>1, DoneRestarts
<1>3. ASSUME NEW p \in Int, p >= w.good, Restarted(v, w, p)
      PROVE  Watched(v) /\ HeldBack(v) /\ v.good >= w.good /\ IsAlive(v)
    BY <1>3, RestartedWatched DEF Restarted
<1>4. CASE r.kind = "state"
    <2>1. v = Done(Rebase(Landed(w), r.pts))
        BY <1>4 DEF AfterDifference
    <2> QED BY <1>0, <1>2, <1>3, <2>1
<1>5. CASE r.kind = "empty"
    <2>1. v = Done(InitPts(Landed(w), w.good))
        <3>1. Landed(w).good = w.good
            BY LandedInv
        <3> QED BY <1>5, <3>1 DEF AfterDifference
    <2>2. w.good >= w.good
        BY <1>0
    <2> QED BY <1>0, <1>2, <1>3, <2>1, <2>2
<1>6. CASE r.kind = "slice"
    <2>1. v = GetDifference(f)
        BY <1>1, <1>6 DEF AfterDifference
    <2>2. f \in WaiterState
        <3>1. PICK g : g = InitPts(Feed(Landed(w), r.pts), r.pts)
            OBVIOUS
        <3>2. WaiterInv(g, E) /\ g.seen = {} /\ ~g.inFlight
            BY <1>0, <3>1, RestartInv
        <3>3. f = Done(g)
            BY <1>1, <3>1
        <3> QED BY <3>2, <3>3, DoneInv DEF WaiterInv
    <2>3. Watched(f) /\ HeldBack(f) /\ IsAlive(f) /\ f.good = r.pts
        BY <1>2, RestartedWatched DEF Restarted
    <2>4. Asks(v, f) /\ (v.inFlight = TRUE \/ SameRequest(v, f))
        BY <2>1, <2>2, GetDifferenceAsks
    <2>5. Watched(v) /\ HeldBack(v)
        BY <2>2, <2>3, <2>4, AsksWatched
    <2>6. v.good >= w.good
        BY <1>0, <2>3, <2>4 DEF Asks, SameCounts
    <2>7. IsAlive(v)
        BY <2>3, <2>4 DEF IsAlive, SameRequest
    <2> QED BY <2>5, <2>6, <2>7
<1>7. CASE r.kind = "difference"
    <2>1. v = f
        BY <1>1, <1>7 DEF AfterDifference
    <2> QED BY <1>0, <1>2, <1>3, <2>1
<1>8. CASE r.kind = "tooLong"
    <2>1. v = Landed(w)
        BY <1>8 DEF AfterDifference
    <2>2. /\ SameCounts(v, w) /\ v.queue = w.queue /\ v.requesting = w.requesting
          /\ v.waitingForSkipped = w.waitingForSkipped /\ v.byPts = w.byPts
        BY <1>0, <2>1, LandedFields
    <2> QED BY <1>0, <1>8, <2>2 DEF Watched, HeldBack, SameCounts
<1> QED BY <1>0, <1>4, <1>5, <1>6, <1>7, <1>8

\* An answer for a channel.
LEMMA AfterChannelDifferenceStep ==
    ASSUME NEW w, NEW E, NEW r, E \subseteq 1 .. MaxPts, WaiterInv(w, E), NEW c,
           ReplyInv(r, w, E), r.kind \notin {"none", "fail", "state", "slice"},
           NEW v, v = Continue(c, AfterChannelDifference(Landed(w), r), r.final)
    PROVE  /\ Watched(v) /\ HeldBack(v) /\ IsAlive(v)
           /\ v.good >= w.good
           /\ w.afterFail = FALSE => v.afterFail = FALSE
<1>0. /\ r.pts \in E \cup {0} /\ r.pts >= w.good /\ r.pts \in Int /\ w.good \in Int /\ w \in WaiterState
      /\ r.kind \in {"empty", "difference", "tooLong"} /\ (r.kind = "empty" => r.pts = w.good)
    BY ConstantsAssumption DEF ReplyInv, Replies, WaiterInv, WaiterState
<1>1. PICK d : d = AfterChannelDifference(Landed(w), r)
    OBVIOUS
<1>2. d \in WaiterState
    BY <1>1, AfterChannelDifferenceInv DEF WaiterInv
<1>3. Restarted(d, w, r.pts)
    <2>1. CASE r.kind = "empty"
        BY <1>0, <1>1, <2>1, DoneRestarts DEF AfterChannelDifference
    <2>2. CASE r.kind = "difference"
        BY <1>0, <1>1, <2>2, DoneRestarts DEF AfterChannelDifference
    <2>3. CASE r.kind = "tooLong"
        BY <1>0, <1>1, <2>3, DoneRestarts DEF AfterChannelDifference
    <2> QED BY <1>0, <2>1, <2>2, <2>3
<1>4. Watched(d) /\ HeldBack(d) /\ IsAlive(d) /\ d.good = r.pts /\ d.afterFail = w.afterFail
    BY <1>3, RestartedWatched DEF Restarted
<1>5. CASE ~r.final
    <2>1. v = GetChannelDifference(d, "Unknown")
        BY <1>1, <1>5 DEF Continue
    <2>2. Asks(v, d) /\ (v.inFlight = TRUE \/ SameRequest(v, d)) /\ (d.afterFail = FALSE => v.afterFail = FALSE)
        BY <1>2, <2>1, GetChannelDifferenceAsks
    <2>3. Watched(v) /\ HeldBack(v)
        BY <1>2, <1>4, <2>2, AsksWatched
    <2>4. v.good >= w.good
        BY <1>0, <1>4, <2>2 DEF Asks, SameCounts
    <2>5. IsAlive(v)
        BY <1>4, <2>2 DEF IsAlive, SameRequest
    <2> QED BY <1>4, <2>2, <2>3, <2>4, <2>5
<1>6. CASE r.final /\ active = c
    <2>1. PICK p \in BOOLEAN : p = TRUE
        OBVIOUS
    <2>2. v = SetWaitingForShortPoll(d, p)
        BY <1>1, <1>6, <2>1 DEF Continue
    <2>3. Watched(v) /\ HeldBack(v) /\ Forward(v, d)
        BY <1>2, <1>4, <2>2, PollWatched
    <2>4. SameRequest(v, d)
        BY <1>2, <2>2, PollSameRequest
    <2>5. v.good >= w.good
        <3>1. v.good >= d.good /\ v.good \in Int
            <4>1. v.good = d.good
                BY <1>2, <2>2 DEF SetWaitingForShortPoll, CheckForWaiting, WaiterState
            <4> QED BY <1>0, <1>4, <4>1
        <3> QED BY <1>0, <1>4, <3>1
    <2>6. IsAlive(v) /\ v.afterFail = d.afterFail
        BY <1>4, <2>4 DEF IsAlive, SameRequest
    <2> QED BY <1>4, <2>3, <2>5, <2>6
<1>7. CASE r.final /\ active # c
    <2>1. v = d
        BY <1>1, <1>7 DEF Continue
    <2> QED BY <1>0, <1>4, <2>1
<1> QED BY <1>5, <1>6, <1>7

----------------------------------------------------------------------------
\* The steps of one box.

\* An update is handed over, with or without its payload.
GetsUpdate(b) ==
    \E e \in net[b] :
        /\ Handed(b, e)
        /\ \/ box'[b] = UpdateAndApply(box[b], e)
           \/ box'[b] = UpdateAndApplyCounts([box[b] EXCEPT !.own = @ \cup Points(e)], e)

GetsPts(b) ==
    \E p \in ends[b] : PtsReceived(b, p) /\ box'[b] = UpdateAndApplyCounts(box[b], Snapshot(p))

AsksDifference(b) ==
    IF b = Common THEN box'[b] = GetDifference(box[b]) \/ box'[b] = Retry(box[b])
    ELSE \/ box'[b] = GetChannelDifference(box[b], "Unknown")
         \/ box'[b] = [GetChannelDifference(box[b], "PtsGapOrShortPoll") EXCEPT !.byPts = FALSE]
         \/ /\ AfterFailTimer(b)
            /\ box'[b] = [GetChannelDifference(box[b], "AfterFail") EXCEPT !.afterFail = FALSE]

GetsAnswer(b) ==
    /\ reply[b].kind \notin {"none", "fail"}
    /\ b = Common /\ reply[b].kind = "tooLong" => GotDifference({})
    /\ box'[b] = IF b = Common THEN AfterDifference(Landed(box[b]), reply[b])
                 ELSE Continue(b, AfterChannelDifference(Landed(box[b]), reply[b]), reply[b].final)

GetsError(b) ==
    /\ FailDifference(b) /\ reply[b].kind = "fail"
    /\ box'[b] = [Landed(box[b]) EXCEPT !.afterFail = b # Common \/ Inited(box[b])]

Polls(b) == b # Common /\ \E p \in BOOLEAN : box'[b] = SetWaitingForShortPoll(box[b], p)

BoxStep(b) ==
    \/ box'[b] = box[b]
    \/ GetsUpdate(b) \/ GetsPts(b) \/ AsksDifference(b)
    \/ GetsAnswer(b) \/ GetsError(b) \/ Polls(b)

LEMMA OneBoxSteps ==
    ASSUME IInv, NEW b \in Boxes, NEW w, box' = [box EXCEPT ![b] = w]
    PROVE  box'[b] = w /\ \A x \in Boxes : x # b => box'[x] = box[x]
BY DEF IInv, TypeOK

LEMMA UpdateStepBox ==
    ASSUME IInv, NEW b \in Boxes, UpdateStep(b)
    PROVE  \A x \in Boxes : BoxStep(x)
<1>1. ASSUME NEW e \in net[b], NEW w, Take(b, e, w),
             \/ w = box[b]
             \/ Handed(b, e) /\ w = UpdateAndApply(box[b], e)
             \/ Handed(b, e) /\ w = UpdateAndApplyCounts([box[b] EXCEPT !.own = @ \cup Points(e)], e)
             \/ b = Common /\ w = GetDifference(box[b])
      PROVE  \A x \in Boxes : BoxStep(x)
    <2>1. box'[b] = w /\ \A x \in Boxes : x # b => box'[x] = box[x]
        BY <1>1, OneBoxSteps DEF Take
    <2>2. BoxStep(b)
        BY <1>1, <2>1 DEF BoxStep, GetsUpdate, AsksDifference
    <2> QED BY <2>1, <2>2 DEF BoxStep
<1>2. ASSUME NEW n \in Counts, Change(b, n) PROVE \A x \in Boxes : BoxStep(x)
    BY <1>2 DEF Change, BoxStep
<1>3. ASSUME NEW e \in net[b], Lose(b, e) PROVE \A x \in Boxes : BoxStep(x)
    BY <1>3 DEF Lose, BoxStep
<1>5. ASSUME NEW e \in net[b], PushUpdate(b, e) PROVE \A x \in Boxes : BoxStep(x)
    <2>1. PICK w : w = IF RequestingDifference THEN box[b] ELSE Receive(b, e)
        OBVIOUS
    <2>2. Take(b, e, w) /\ Handed(b, e) /\ (w = box[b] \/ w = UpdateAndApply(box[b], e))
        BY <1>5, <2>1 DEF PushUpdate, Receive, Handed
    <2> QED BY <1>1, <2>2
<1>6. ASSUME NEW e \in net[b], SentUpdates(b, e) PROVE \A x \in Boxes : BoxStep(x)
    <2>1. PICK w : w = Receive(b, e)
        OBVIOUS
    <2>2. Take(b, e, w) /\ Handed(b, e) /\ (w = box[b] \/ w = UpdateAndApply(box[b], e))
        BY <1>6, <2>1 DEF SentUpdates, Receive, Handed
    <2> QED BY <1>1, <2>2
<1>7. ASSUME NEW e \in net[b], UpdateNotLoaded(b, e) PROVE \A x \in Boxes : BoxStep(x)
    <2>1. PICK w : w = IF b = Common THEN GetDifference(box[b]) ELSE box[b]
        OBVIOUS
    <2>2. Take(b, e, w) /\ (w = box[b] \/ (b = Common /\ w = GetDifference(box[b])))
        BY <1>7, <2>1 DEF UpdateNotLoaded
    <2> QED BY <1>1, <2>2
<1>8. ASSUME NEW e \in net[b], Affected(b, e) PROVE \A x \in Boxes : BoxStep(x)
    <2>1. PICK w : w = UpdateAndApplyCounts([box[b] EXCEPT !.own = @ \cup Points(e)], e)
        OBVIOUS
    <2>2. Take(b, e, w) /\ Handed(b, e)
        BY <1>8, <2>1 DEF Affected, Handed
    <2> QED BY <1>1, <2>1, <2>2
<1> QED BY <1>2, <1>3, <1>5, <1>6, <1>7, <1>8 DEF UpdateStep

LEMMA RequestStepBox ==
    ASSUME IInv, NEW b \in Boxes, RequestStep(b)
    PROVE  \A x \in Boxes : BoxStep(x)
<1>2. CASE ServerReply(b) \/ ServerFail(b)
    <2>1. box' = box
        BY <1>2 DEF ServerReply, ServerFail
    <2> QED BY <2>1 DEF BoxStep
<1>4. CASE FailDifference(b)
    <2>1. PICK w : w = [Landed(box[b]) EXCEPT !.afterFail = b # Common \/ Inited(box[b])]
        OBVIOUS
    <2>2. box'[b] = w /\ \A x \in Boxes : x # b => box'[x] = box[x]
        BY <1>4, <2>1, OneBoxSteps DEF FailDifference
    <2>3. reply[b].kind = "fail"
        BY <1>4 DEF FailDifference
    <2> QED BY <1>4, <2>1, <2>2, <2>3 DEF BoxStep, GetsError
<1>5. CASE ByPtsTimer(b)
    <2>1. PICK w : w = IF b = Common THEN GetDifference(box[b])
                       ELSE [GetChannelDifference(box[b], "PtsGapOrShortPoll") EXCEPT !.byPts = FALSE]
        OBVIOUS
    <2>2. box'[b] = w /\ \A x \in Boxes : x # b => box'[x] = box[x]
        BY <1>5, <2>1, OneBoxSteps DEF ByPtsTimer
    <2> QED BY <2>1, <2>2 DEF BoxStep, AsksDifference
<1>6. CASE AfterFailTimer(b)
    <2>1. PICK w : w = IF b = Common THEN Retry(box[b])
                       ELSE [GetChannelDifference(box[b], "AfterFail") EXCEPT !.afterFail = FALSE]
        OBVIOUS
    <2>2. box'[b] = w /\ \A x \in Boxes : x # b => box'[x] = box[x]
        BY <1>6, <2>1, OneBoxSteps DEF AfterFailTimer
    <2> QED BY <1>6, <2>1, <2>2 DEF BoxStep, AsksDifference
<1> QED BY <1>2, <1>4, <1>5, <1>6 DEF RequestStep

LEMMA ChannelStepBox ==
    ASSUME IInv, NEW c \in Channels, ChannelStep(c)
    PROVE  \A x \in Boxes : BoxStep(x)
<1>0. c \in Boxes /\ c # Common
    BY ConstantsAssumption DEF Boxes
<1>2. ASSUME NEW w, box' = [box EXCEPT ![c] = w],
             \/ \E p \in ends[c] : PtsReceived(c, p) /\ w = UpdateAndApplyCounts(box[c], Snapshot(p))
             \/ w = GetChannelDifference(box[c], "Unknown")
             \/ \E p \in BOOLEAN : w = SetWaitingForShortPoll(box[c], p)
      PROVE  \A x \in Boxes : BoxStep(x)
    <2>1. box'[c] = w /\ \A x \in Boxes : x # c => box'[x] = box[x]
        BY <1>0, <1>2, OneBoxSteps
    <2>2. BoxStep(c)
        BY <1>0, <1>2, <2>1 DEF BoxStep, GetsPts, AsksDifference, Polls
    <2> QED BY <1>2, <2>1, <2>2 DEF BoxStep
<1>3. ASSUME NEW p \in ends[c], PtsReceived(c, p) PROVE \A x \in Boxes : BoxStep(x)
    <2>1. PICK w : w = UpdateAndApplyCounts(box[c], Snapshot(p))
        OBVIOUS
    <2>2. box' = [box EXCEPT ![c] = w]
        BY <1>3, <2>1 DEF PtsReceived, Snapshot
    <2> QED BY <1>2, <1>3, <2>1, <2>2
<1>4. CASE ChannelTooLong(c)
    <2>1. PICK w : w = GetChannelDifference(box[c], "Unknown")
        OBVIOUS
    <2>2. box' = [box EXCEPT ![c] = w]
        BY <1>4, <2>1 DEF ChannelTooLong
    <2> QED BY <1>2, <2>1, <2>2
<1>5. CASE GotChannelDifference(c)
    <2>1. PICK w : w = Continue(c, AfterChannelDifference(Landed(box[c]), reply[c]), reply[c].final)
        OBVIOUS
    <2>2. box'[c] = w /\ \A x \in Boxes : x # c => box'[x] = box[x]
        BY <1>0, <1>5, <2>1, OneBoxSteps DEF GotChannelDifference
    <2>3. reply[c].kind \notin {"none", "fail"}
        BY <1>5 DEF GotChannelDifference
    <2> QED BY <1>0, <2>1, <2>2, <2>3 DEF BoxStep, GetsAnswer
<1>6. CASE OpenChat(c)
    <2>1. PICK p \in BOOLEAN : p = TRUE
        OBVIOUS
    <2>2. PICK w : w = SetWaitingForShortPoll(box[c], p)
        OBVIOUS
    <2>3. box' = [box EXCEPT ![c] = w]
        BY <1>6, <2>1, <2>2 DEF OpenChat
    <2> QED BY <1>2, <2>2, <2>3
<1>7. CASE LeaveChannel(c)
    <2>1. PICK p \in BOOLEAN : p = FALSE
        OBVIOUS
    <2>2. PICK w : w = SetWaitingForShortPoll(box[c], p)
        OBVIOUS
    <2>3. box' = [box EXCEPT ![c] = w]
        BY <1>7, <2>1, <2>2 DEF LeaveChannel
    <2> QED BY <1>2, <2>2, <2>3
<1> QED BY <1>3, <1>4, <1>5, <1>6, <1>7 DEF ChannelStep

\* Every step is a step of each box.
LEMMA NextBox ==
    ASSUME IInv, [Next]_vars
    PROVE  \A x \in Boxes : BoxStep(x)
<1>0. Common \in Boxes /\ box \in [Boxes -> WaiterState]
    BY DEF Boxes, IInv, TypeOK
<1>1. ASSUME NEW late \in SUBSET Channels, GotDifference(late) PROVE \A x \in Boxes : BoxStep(x)
    <2>1. box' = [b \in Boxes |->
                    IF b = Common THEN AfterDifference(Landed(box[b]), reply[b])
                    ELSE IF b \in late THEN GetChannelDifference(box[b], "Unknown")
                    ELSE box[b]]
        BY <1>1 DEF GotDifference
    <2>2. reply[Common].kind \notin {"none", "fail"}
        BY <1>1 DEF GotDifference
    <2>3. reply[Common].kind = "tooLong" => GotDifference({})
        <3>1. reply[Common].kind = "tooLong" => late = {}
            BY <1>1 DEF GotDifference
        <3> QED BY <1>1, <3>1
    <2> QED BY <2>1, <2>2, <2>3 DEF BoxStep, GetsAnswer, AsksDifference
<1>2. ASSUME box' = [box EXCEPT ![Common] = GetDifference(@)] \/ box' = box
      PROVE  \A x \in Boxes : BoxStep(x)
    <2>1. CASE box' = [box EXCEPT ![Common] = GetDifference(@)]
        <3>1. PICK w : w = GetDifference(box[Common])
            OBVIOUS
        <3>2. box'[Common] = w /\ \A x \in Boxes : x # Common => box'[x] = box[x]
            BY <1>0, <2>1, <3>1, OneBoxSteps
        <3> QED BY <3>1, <3>2 DEF BoxStep, AsksDifference
    <2>2. CASE box' = box
        BY <2>2 DEF BoxStep
    <2> QED BY <1>2, <2>1, <2>2
<1>3. CASE Resync
    BY <1>2, <1>3 DEF Resync
<1>4. CASE MinChannelTimer
    BY <1>2, <1>4 DEF MinChannelTimer
<1>5. CASE CloseChat
    BY <1>2, <1>5 DEF CloseChat
<1>6. CASE UNCHANGED vars
    BY <1>2, <1>6 DEF vars
<1> QED BY <1>1, <1>3, <1>4, <1>5, <1>6, UpdateStepBox, RequestStepBox, ChannelStepBox DEF Next

\* This client's own change is only noted down.
LEMMA OwnFields ==
    ASSUME NEW w, NEW E, WaiterInv(w, E), NEW e, UpdateInv(e, E),
           NEW v, v = [w EXCEPT !.own = @ \cup Points(e)]
    PROVE  /\ WaiterInv(v, E) /\ SameCounts(v, w) /\ SameRequest(v, w)
           /\ v.seen = w.seen /\ v.applied = w.applied /\ v.queue = w.queue
           /\ v.waitingForSkipped = w.waitingForSkipped /\ v.byPts = w.byPts
<1>0. w \in WaiterState
    BY DEF WaiterInv
<1>1. Points(e) \subseteq Int
    BY ConstantsAssumption DEF UpdateInv, Update, Points
<1>2. v \in WaiterState
    BY <1>0, <1>1 DEF WaiterState
<1>3. /\ SameCounts(v, w) /\ SameRequest(v, w) /\ v.base = w.base /\ v.own = w.own \cup Points(e)
      /\ v.seen = w.seen /\ v.applied = w.applied /\ v.queue = w.queue
      /\ v.waitingForSkipped = w.waitingForSkipped /\ v.byPts = w.byPts
    BY <1>0 DEF WaiterState, SameCounts, SameRequest
<1>4. CountersInv(v, E)
    BY <1>3 DEF WaiterInv, CountersInv, SameCounts
<1>5. ContentInv(v, {}) /\ AppliedInv(v)
    BY <1>3 DEF WaiterInv, ContentInv, AppliedInv, Held, SameCounts, SameRequest
<1>6. v.inFlight => v.requesting
    BY <1>3 DEF WaiterInv, SameRequest
<1> QED BY <1>2, <1>3, <1>4, <1>5, <1>6 DEF WaiterInv

\* What the invariant says of one box.
LEMMA BoxFacts ==
    ASSUME IInv, NEW b \in Boxes
    PROVE  /\ ends[b] \subseteq 1 .. MaxPts /\ WaiterInv(box[b], ends[b]) /\ box[b] \in WaiterState
           /\ ReplyInv(reply[b], box[b], ends[b])
           /\ b # Common => reply[b].kind \notin {"state", "slice"}
           /\ \A e \in net[b] : UpdateInv(e, ends[b]) /\ Points(e) \cap box[b].seen = {}
           /\ box[b].good \in Nat
BY ConstantsAssumption DEF IInv, BoxInv, KindInv, NetInv, ServerInv, WaiterInv, WaiterState

LEMMA SnapshotInv ==
    ASSUME NEW E, E \subseteq 1 .. MaxPts, NEW p \in E
    PROVE  Points(Snapshot(p)) = {} /\ UpdateInv(Snapshot(p), E)
<1>1. PICK e : e = Snapshot(p)
    OBVIOUS
<1>2. e.pts = p /\ e.count = 0 /\ p \in 1 .. MaxPts /\ MaxPts \in Nat /\ E \subseteq Int
    BY <1>1, ConstantsAssumption DEF Snapshot
<1>3. Points(e) = {} /\ UpdateInv(e, E)
    BY <1>1, <1>2 DEF Points, UpdateInv, Update, Snapshot
<1> QED BY <1>1, <1>3

LEMMA BoxWatched ==
    ASSUME IInv, NEW b \in Boxes, BoxStep(b), Watched(box[b]), HeldBack(box[b]),
           ~PassesGap(b)
    PROVE  Watched(box'[b]) /\ HeldBack(box'[b]) /\ Forward(box'[b], box[b])
<1>0. PICK w, v, E : w = box[b] /\ v = box'[b] /\ E = ends[b]
    OBVIOUS
<1>1. /\ E \subseteq 1 .. MaxPts /\ WaiterInv(w, E) /\ w \in WaiterState
      /\ ReplyInv(reply[b], w, E)
      /\ b # Common => reply[b].kind \notin {"state", "slice"}
      /\ \A e \in net[b] : UpdateInv(e, E) /\ Points(e) \cap w.seen = {}
      /\ w.good \in Nat /\ Watched(w) /\ HeldBack(w)
    BY <1>0, BoxFacts
<1> SUFFICES Watched(v) /\ HeldBack(v) /\ Forward(v, w)
    BY <1>0
<1>2. CASE v = w
    <2>1. Forward(w, w)
        BY <1>1 DEF Forward
    <2> QED BY <1>1, <1>2, <2>1
<1>3. CASE GetsUpdate(b)
    <2>1. PICK e \in net[b] : /\ Handed(b, e)
                              /\ \/ v = UpdateAndApply(w, e)
                                 \/ v = UpdateAndApplyCounts([w EXCEPT !.own = @ \cup Points(e)], e)
        BY <1>0, <1>3 DEF GetsUpdate
    <2>2. UpdateInv(e, E) /\ Points(e) \cap w.seen = {} /\ ~Loose(w, e)
        BY <1>0, <1>1, <2>1 DEF PassesGap
    <2>3. CASE v = UpdateAndApply(w, e)
        BY <1>1, <2>2, <2>3, UpdateWatched
    <2>4. CASE v = UpdateAndApplyCounts([w EXCEPT !.own = @ \cup Points(e)], e)
        <3>1. PICK o : o = [w EXCEPT !.own = @ \cup Points(e)]
            OBVIOUS
        <3>2. /\ WaiterInv(o, E) /\ SameCounts(o, w) /\ SameRequest(o, w)
              /\ o.seen = w.seen /\ o.applied = w.applied /\ o.queue = w.queue
              /\ o.waitingForSkipped = w.waitingForSkipped /\ o.byPts = w.byPts
            BY <1>1, <2>2, <3>1, OwnFields
        <3>3. Watched(o) /\ HeldBack(o)
            BY <1>1, <3>2 DEF Watched, HeldBack, SameCounts, SameRequest
        <3>4. v = UpdateAndApplyCounts(o, e) /\ Points(e) \cap o.seen = {}
            BY <2>2, <2>4, <3>1, <3>2
        <3>7. ~Loose(o, e)
            BY <2>2, <3>2 DEF Loose, SameCounts, SameRequest, Inited
        <3>5. Watched(v) /\ HeldBack(v) /\ Forward(v, o)
            BY <1>1, <2>2, <3>2, <3>3, <3>4, <3>7, UpdateCountsWatched
        <3>6. Forward(v, w)
            BY <3>2, <3>5 DEF Forward, SameCounts, SameRequest
        <3> QED BY <3>5, <3>6
    <2> QED BY <2>1, <2>3, <2>4
<1>4. CASE GetsPts(b)
    <2>1. PICK p \in ends[b] : PtsReceived(b, p) /\ v = UpdateAndApplyCounts(w, Snapshot(p))
        BY <1>0, <1>4 DEF GetsPts
    <2>2. PICK e : e = Snapshot(p)
        OBVIOUS
    <2>4. Points(e) = {} /\ UpdateInv(e, E)
        BY <1>0, <1>1, <2>2, SnapshotInv
    <2>5. ~Loose(w, e)
        BY <1>0, <2>1, <2>2 DEF PassesGap
    <2> QED BY <1>1, <2>1, <2>2, <2>4, <2>5, UpdateCountsWatched
<1>5. CASE AsksDifference(b)
    <2>1. Asks(v, w)
        <3>1. CASE b = Common
            <4>1. CASE v = GetDifference(w)
                BY <1>1, <4>1, GetDifferenceAsks
            <4>2. CASE v = Retry(w)
                <5>1. PICK c : c = SetRequesting(w, FALSE)
                    OBVIOUS
                <5>2. c \in WaiterState /\ SameCounts(c, w) /\ c.applied = w.applied /\ c.queue = w.queue
                    BY <1>1, <5>1 DEF SetRequesting, WaiterState, SameCounts
                <5>3. v = GetDifference(c)
                    BY <4>2, <5>1 DEF Retry
                <5>4. Asks(v, c)
                    BY <5>2, <5>3, GetDifferenceAsks
                <5> QED BY <5>2, <5>4 DEF Asks, SameCounts
            <4> QED BY <1>0, <1>5, <3>1, <4>1, <4>2 DEF AsksDifference
        <3>2. CASE b # Common
            <4>1. CASE v = GetChannelDifference(w, "Unknown")
                BY <1>1, <4>1, GetChannelDifferenceAsks
            <4>2. ASSUME NEW from, NEW u, u = GetChannelDifference(w, from), NEW p \in BOOLEAN,
                         v = [u EXCEPT !.byPts = p] \/ v = [u EXCEPT !.afterFail = p]
                  PROVE  Asks(v, w)
                <5>1. Asks(u, w)
                    BY <1>1, <4>2, GetChannelDifferenceAsks
                <5>2. u \in WaiterState
                    BY <1>1, <4>2, GetChannelDifferenceCalm DEF Calm, WaiterInv
                <5>3. SameCounts(v, u) /\ v.applied = u.applied /\ v.queue = u.queue /\ v.requesting = u.requesting
                    BY <4>2, <5>2 DEF SameCounts, WaiterState
                <5> QED BY <5>1, <5>3 DEF Asks, SameCounts
            <4>3. CASE v = [GetChannelDifference(w, "PtsGapOrShortPoll") EXCEPT !.byPts = FALSE]
                BY <4>2, <4>3
            <4>4. CASE v = [GetChannelDifference(w, "AfterFail") EXCEPT !.afterFail = FALSE]
                BY <4>2, <4>4
            <4> QED BY <1>0, <1>5, <3>2, <4>1, <4>3, <4>4 DEF AsksDifference
        <3> QED BY <3>1, <3>2
    <2> QED BY <1>1, <2>1, AsksWatched
<1>6. CASE GetsAnswer(b)
    <2>0. reply[b].kind \notin {"none", "fail"} /\ w.requesting
        BY <1>1, <1>6 DEF GetsAnswer, ReplyInv, WaiterInv
    <2>1. Watched(v) /\ HeldBack(v) /\ v.good >= w.good
        <3>1. CASE b = Common
            <4>1. v = AfterDifference(Landed(w), reply[b])
                BY <1>0, <1>6, <3>1 DEF GetsAnswer
            <4> QED BY <1>1, <2>0, <4>1, AfterDifferenceStep
        <3>2. CASE b # Common
            <4>1. v = Continue(b, AfterChannelDifference(Landed(w), reply[b]), reply[b].final)
                BY <1>0, <1>6, <3>2 DEF GetsAnswer
            <4>2. reply[b].kind \notin {"none", "fail", "state", "slice"}
                BY <1>1, <2>0, <3>2
            <4> QED BY <1>1, <4>1, <4>2, AfterChannelDifferenceStep
        <3> QED BY <3>1, <3>2
    <2> QED BY <2>0, <2>1 DEF Forward
<1>7. CASE GetsError(b)
    <2>0. w.requesting
        BY <1>1, <1>7 DEF GetsError, ReplyInv, WaiterInv
    <2>1. v = [Landed(w) EXCEPT !.afterFail = b # Common \/ Inited(w)]
        BY <1>0, <1>7 DEF GetsError
    <2>2. SameCounts(v, w) /\ v.queue = w.queue /\ v.requesting = w.requesting
        BY <1>1, <2>1 DEF Landed, SameCounts, WaiterState
    <2>3. Watched(v)
        BY <1>1, <2>0, <2>2 DEF Watched, SameCounts
    <2>4. HeldBack(v)
        BY <1>1, <2>2 DEF HeldBack, SameCounts
    <2>5. Forward(v, w)
        BY <1>1, <2>0, <2>2 DEF Forward, SameCounts
    <2> QED BY <2>3, <2>4, <2>5
<1>8. CASE Polls(b)
    <2>1. PICK p \in BOOLEAN : v = SetWaitingForShortPoll(w, p)
        BY <1>0, <1>8 DEF Polls
    <2> QED BY <1>1, <2>1, PollWatched
<1> QED BY <1>0, <1>2, <1>3, <1>4, <1>5, <1>6, <1>7, <1>8 DEF BoxStep

GapInv == \A b \in Boxes : Watched(box[b]) /\ HeldBack(box[b])

LEMMA GapStep ==
    ASSUME IInv, GapInv, [Next]_vars, [NonePasses]_vars
    PROVE  GapInv' /\ \A b \in Boxes : Forward(box'[b], box[b])
<1>1. \A b \in Boxes : BoxStep(b)
    BY NextBox
<1>2. ASSUME NEW b \in Boxes
      PROVE  Watched(box'[b]) /\ HeldBack(box'[b]) /\ Forward(box'[b], box[b])
    <2>1. CASE NonePasses
        BY <1>1, <2>1, BoxWatched DEF GapInv, NonePasses
    <2>2. CASE UNCHANGED vars
        <3>1. box' = box /\ box[b].good \in Nat
            BY <2>2, BoxFacts DEF vars
        <3> QED BY <3>1 DEF GapInv, Forward
    <2> QED BY <2>1, <2>2
<1> QED BY <1>2 DEF GapInv, Watched, HeldBack

LEMMA InitGap == Init => GapInv
<1> SUFFICES ASSUME Init PROVE GapInv
    OBVIOUS
<1>1. ASSUME NEW b \in Boxes
      PROVE  /\ box[b].last = box[b].count /\ box[b].queue = {}
    BY DEF Init, Waiter
<1> QED BY <1>1 DEF GapInv, Watched, HeldBack

----------------------------------------------------------------------------
\* Requests stay alive.

LEMMA BoxAlive ==
    ASSUME IInv, NEW b \in Boxes, BoxStep(b), IsAlive(box[b]), ~DeadEnd(b)
    PROVE  IsAlive(box'[b])
<1>0. PICK w, v, E : w = box[b] /\ v = box'[b] /\ E = ends[b]
    OBVIOUS
<1>1. /\ E \subseteq 1 .. MaxPts /\ WaiterInv(w, E) /\ w \in WaiterState
      /\ ReplyInv(reply[b], w, E)
      /\ b # Common => reply[b].kind \notin {"state", "slice"}
      /\ \A e \in net[b] : UpdateInv(e, E) /\ Points(e) \cap w.seen = {}
    BY <1>0, BoxFacts
<1>2. IsAlive(w)
    BY <1>0
<1> SUFFICES IsAlive(v)
    BY <1>0
<1>3. ASSUME SameRequest(v, w) PROVE IsAlive(v)
    BY <1>2, <1>3 DEF SameRequest, IsAlive
<1>4. CASE v = w
    BY <1>2, <1>4
<1>5. CASE GetsUpdate(b)
    <2>1. PICK e \in net[b] : \/ v = UpdateAndApply(w, e)
                              \/ v = UpdateAndApplyCounts([w EXCEPT !.own = @ \cup Points(e)], e)
        BY <1>0, <1>5 DEF GetsUpdate
    <2>2. UpdateInv(e, E) /\ Points(e) \cap w.seen = {}
        BY <1>1
    <2>3. CASE v = UpdateAndApply(w, e)
        BY <1>1, <1>3, <2>2, <2>3, UpdateSameRequest
    <2>4. CASE v = UpdateAndApplyCounts([w EXCEPT !.own = @ \cup Points(e)], e)
        <3>1. PICK o : o = [w EXCEPT !.own = @ \cup Points(e)]
            OBVIOUS
        <3>2. WaiterInv(o, E) /\ SameRequest(o, w) /\ o.seen = w.seen
            BY <1>1, <2>2, <3>1, OwnFields
        <3>3. SameRequest(v, o)
            BY <1>1, <2>2, <2>4, <3>1, <3>2, UpdateSameRequest
        <3>4. SameRequest(v, w)
            BY <3>2, <3>3 DEF SameRequest
        <3> QED BY <1>3, <3>4
    <2> QED BY <2>1, <2>3, <2>4
<1>6. CASE GetsPts(b)
    <2>1. PICK p \in ends[b] : v = UpdateAndApplyCounts(w, Snapshot(p))
        BY <1>0, <1>6 DEF GetsPts
    <2>2. PICK e : e = Snapshot(p)
        OBVIOUS
    <2>4. Points(e) = {} /\ UpdateInv(e, E)
        BY <1>0, <1>1, <2>2, SnapshotInv
    <2>5. SameRequest(v, w)
        BY <1>1, <2>1, <2>2, <2>4, UpdateSameRequest
    <2> QED BY <1>3, <2>5
<1>7. CASE AsksDifference(b)
    <2>1. CASE b = Common
        <3>1. CASE v = GetDifference(w)
            <4>1. v.inFlight = TRUE \/ SameRequest(v, w)
                BY <1>1, <3>1, GetDifferenceAsks
            <4> QED BY <1>2, <2>1, <4>1 DEF IsAlive, SameRequest
        <3>2. CASE v = Retry(w)
            <4>1. PICK c : c = SetRequesting(w, FALSE)
                OBVIOUS
            <4>2. c \in WaiterState /\ c.requesting = FALSE
                BY <1>1, <4>1 DEF SetRequesting, WaiterState
            <4>3. v = GetDifference(c)
                BY <3>2, <4>1 DEF Retry
            <4>4. v.requesting = TRUE /\ (v.inFlight = TRUE \/ SameRequest(v, c))
                BY <4>2, <4>3, GetDifferenceAsks
            <4> QED BY <2>1, <4>2, <4>4 DEF IsAlive, SameRequest
        <3> QED BY <1>0, <1>7, <2>1, <3>1, <3>2 DEF AsksDifference
    <2>2. CASE b # Common
        <3>1. CASE v = GetChannelDifference(w, "Unknown")
            <4>1. (v.inFlight = TRUE \/ SameRequest(v, w))
                BY <1>1, <3>1, GetChannelDifferenceAsks
            <4> QED BY <1>2, <2>2, <4>1 DEF IsAlive, SameRequest
        <3>2. CASE v = [GetChannelDifference(w, "PtsGapOrShortPoll") EXCEPT !.byPts = FALSE]
            <4>1. PICK u : u = GetChannelDifference(w, "PtsGapOrShortPoll")
                OBVIOUS
            <4>2. (u.inFlight = TRUE \/ SameRequest(u, w))
                BY <1>1, <4>1, GetChannelDifferenceAsks
            <4>3. u \in WaiterState
                BY <1>1, <4>1, GetChannelDifferenceCalm DEF Calm, WaiterInv
            <4>4. SameRequest(v, u)
                BY <3>2, <4>1, <4>3 DEF SameRequest, WaiterState
            <4> QED BY <1>2, <2>2, <4>2, <4>4 DEF IsAlive, SameRequest
        <3>3. ~AfterFailTimer(b)
            BY <2>2 DEF DeadEnd
        <3> QED BY <1>0, <1>7, <2>2, <3>1, <3>2, <3>3 DEF AsksDifference
    <2> QED BY <2>1, <2>2
<1>8. CASE GetsAnswer(b)
    <2>0. reply[b].kind \notin {"none", "fail"}
        BY <1>8 DEF GetsAnswer
    <2>1. CASE b = Common
        <3>1. v = AfterDifference(Landed(w), reply[b])
            BY <1>0, <1>8, <2>1 DEF GetsAnswer
        <3>2. reply[b].kind # "tooLong"
            BY <1>8, <2>1 DEF GetsAnswer, DeadEnd
        <3> QED BY <1>1, <2>0, <3>1, <3>2, AfterDifferenceStep
    <2>2. CASE b # Common
        <3>1. v = Continue(b, AfterChannelDifference(Landed(w), reply[b]), reply[b].final)
            BY <1>0, <1>8, <2>2 DEF GetsAnswer
        <3>2. reply[b].kind \notin {"none", "fail", "state", "slice"}
            BY <1>1, <2>0, <2>2
        <3> QED BY <1>1, <3>1, <3>2, AfterChannelDifferenceStep
    <2> QED BY <2>1, <2>2
<1>9. CASE GetsError(b)
    <2>1. v = [Landed(w) EXCEPT !.afterFail = b # Common \/ Inited(w)] /\ FailDifference(b)
        BY <1>0, <1>9 DEF GetsError
    <2>3. b # Common \/ Inited(w)
        BY <1>0, <2>1 DEF DeadEnd
    <2>4. v.afterFail = TRUE
        BY <1>1, <2>1, <2>3 DEF Landed, WaiterState
    <2> QED BY <2>4 DEF IsAlive
<1>10. CASE Polls(b)
    <2>1. PICK p \in BOOLEAN : v = SetWaitingForShortPoll(w, p)
        BY <1>0, <1>10 DEF Polls
    <2> QED BY <1>1, <1>3, <2>1, PollSameRequest
<1> QED BY <1>0, <1>4, <1>5, <1>6, <1>7, <1>8, <1>9, <1>10 DEF BoxStep

----------------------------------------------------------------------------
\* A gap that a box knows of is never left alone: its timer runs or its
\* difference is asked for, whatever is lost, overtaken or put off and
\* whichever chats are opened and closed - in every behaviour in which no
\* update without a number of its own, and no pts of an answer, is let
\* through (data_pts_waiter.cpp:160) where there is a gap.
THEOREM GapsAreWatched == Spec /\ [][NonePasses]_vars => []GapIsWatched
<1>1. IInv /\ GapInv /\ [Next]_vars /\ [NonePasses]_vars => GapInv'
    BY GapStep
<1>2. GapInv /\ IInv => GapIsWatched
    <2> SUFFICES ASSUME GapInv, IInv, NEW b \in Boxes, box[b].last # box[b].count
                 PROVE  box[b].byPts \/ box[b].requesting
        BY DEF GapIsWatched
    <2> QED BY DEF GapInv, Watched
<1> QED BY <1>1, <1>2, InitGap, InvAlways, PTL DEF Spec

\* Outside a difference no update is applied before the ones it follows, and
\* no box ever goes back, in the same behaviours.
THEOREM UpdatesInOrder == Spec /\ [][NonePasses]_vars => AppliedInOrder
<1> DEFINE InOrder ==
        \A b \in Boxes :
         /\ box'[b].good >= box[b].good
         /\ ~box[b].requesting /\ ~box'[b].requesting =>
              box'[b].applied \ box[b].applied \subseteq 1 .. box'[b].good
<1>1. IInv /\ GapInv /\ [Next]_vars /\ [NonePasses]_vars => GapInv'
    BY GapStep
<1>2. IInv /\ GapInv /\ [Next]_vars /\ [NonePasses]_vars => InOrder
    BY GapStep DEF Forward
<1> HIDE DEF InOrder
<1>3. Spec /\ [][NonePasses]_vars => [][InOrder]_vars
    BY <1>1, <1>2, InitGap, InvAlways, PTL DEF Spec
<1> QED BY <1>3 DEF AppliedInOrder, InOrder

\* A box that waits for a difference, whose updates are dropped or let through
\* unchecked, waits for a request, an answer or a retry, until one of the
\* three steps from which the code has no way on: there are no others,
\* whatever the server sends and whatever fails.
THEOREM RequestsStayAlive == Spec => StaysAlive
<1> DEFINE Step == \A b \in Boxes : Alive(box[b]) => Alive(box'[b]) \/ DeadEnd(b)
<1>1. IInv /\ IInv' /\ [Next]_vars => Step
    <2> SUFFICES ASSUME IInv, IInv', [Next]_vars, NEW b \in Boxes, Alive(box[b]), ~DeadEnd(b)
                 PROVE  Alive(box'[b])
        OBVIOUS
    <2>1. box[b] \in WaiterState /\ box'[b] \in WaiterState
        BY DEF IInv, TypeOK
    <2>2. \A w \in WaiterState : Alive(w) <=> IsAlive(w)
        BY DEF Alive, IsAlive, WaiterState
    <2>3. BoxStep(b)
        BY NextBox
    <2> QED BY <2>1, <2>2, <2>3, BoxAlive
<1> HIDE DEF Step
<1>2. Spec => [][Step]_vars
    BY <1>1, InvAlways, PTL DEF Spec
<1> QED BY <1>2 DEF StaysAlive, Step
=============================================================================
