-------------------------- MODULE DownloadsProofs --------------------------
(***************************************************************************)
(* What the operators of the download manager and its loaders do, and that *)
(* no part of a file is forgotten, for any number of loaders, parts and    *)
(* sessions.                                                               *)
(***************************************************************************)
EXTENDS Downloads, FiniteSetTheorems, SequenceTheorems, TLAPS

-----------------------------------------------------------------------------
(* Facts about numbers, lists and loops.                                   *)

\* A set of numbers has a smallest one.
LEMMA Smallest ==
    ASSUME NEW S, S \subseteq Nat, S # {}
    PROVE  Min(S) \in S /\ \A y \in S : Min(S) <= y
<1> DEFINE T == {0 .. n : n \in S}
<1>1. T \subseteq FiniteSubsetsOf(Nat)
    <2>1. \A n \in S : 0 .. n \in SUBSET Nat /\ IsFiniteSet(0 .. n)
        BY FS_Interval
    <2> QED BY <2>1 DEF FiniteSubsetsOf
<1>2. \E x \in T : \A y \in T : <<y, x>> \notin StrictSubsetOrdering(Nat)
    <2>1. T # {}
        OBVIOUS
    <2> HIDE DEF T
    <2> QED BY <2>1, <1>1, FS_StrictSubsetOrderingWellFounded, WFMin
<1>3. PICK x \in S : \A y \in S : <<0 .. y, 0 .. x>> \notin StrictSubsetOrdering(Nat)
    BY <1>2
<1>4. ASSUME NEW y \in S, ~(x <= y) PROVE FALSE
    <2>1. 0 .. y \subseteq 0 .. x /\ 0 .. y # 0 .. x
        BY <1>4
    <2>2. <<0 .. y, 0 .. x>> \in (SUBSET Nat) \X (SUBSET Nat)
        BY <2>1
    <2>3. <<0 .. y, 0 .. x>> \in StrictSubsetOrdering(Nat)
        BY <2>1, <2>2, Zenon DEF StrictSubsetOrdering
    <2> QED BY <1>3, <2>3
<1>5. \E z \in S : \A y \in S : z <= y
    BY <1>4
<1> QED BY <1>5 DEF Min

\* A property of numbers, given as the set of the numbers that have it, that
\* holds of 0 and passes from each number to the next one up to n.
LEMMA UpTo ==
    ASSUME NEW n \in Nat, NEW H, 0 \in H,
           \A k \in 1 .. n : k - 1 \in H => k \in H
    PROVE  \A k \in 0 .. n : k \in H
<1> DEFINE S == {k \in 0 .. n : k \notin H}
<1> SUFFICES ASSUME S # {} PROVE FALSE
    OBVIOUS
<1>1. PICK k : k \in S /\ \A y \in S : k <= y
    <2>1. S \subseteq Nat
        OBVIOUS
    <2> HIDE DEF S
    <2> QED BY <2>1, Smallest
<1>2. k # 0 /\ k \in 1 .. n /\ k - 1 \in 0 .. n
    BY <1>1
<1>3. k - 1 \in H
    BY <1>1, <1>2
<1> QED BY <1>1, <1>2, <1>3

\* F leads from the k-th set of states to the next one.
Leads(n, V, F) == \A k \in 1 .. n : \A v \in V[k - 1] : F[<<k, v>>] \in V[k]

\* A list of states, each made from the one before it: the k-th is in V[k].
Iterates(n, V, F, w, g) ==
    /\ g[0] = w
    /\ \A k \in 1 .. n : g[k] = F[<<k, g[k - 1]>>]
    /\ \A k \in 0 .. n : g[k] \in V[k]

\* There is such a list.
LEMMA Iteration ==
    ASSUME NEW n \in Nat, NEW U, NEW V \in [0 .. n -> SUBSET U], NEW w \in V[0], NEW F,
           Leads(n, V, F)
    PROVE  \E g \in [0 .. n -> U] : Iterates(n, V, F, w, g)
<1> DEFINE Up(m, g) == /\ g[0] = w
                       /\ \A k \in 1 .. m : g[k] = F[<<k, g[k - 1]>>]
                       /\ \A k \in 0 .. m : g[k] \in V[k]
           H == {m \in 0 .. n : \E g \in [0 .. m -> U] : Up(m, g)}
<1>1. 0 \in H
    <2>1. [k \in 0 .. 0 |-> w] \in [0 .. 0 -> U] /\ Up(0, [k \in 0 .. 0 |-> w])
        OBVIOUS
    <2> HIDE DEF Up
    <2> QED BY <2>1
<1>2. ASSUME NEW m \in 1 .. n, m - 1 \in H PROVE m \in H
    <2>1. PICK g \in [0 .. m - 1 -> U] : Up(m - 1, g)
        BY <1>2
    <2>2. PICK h : h = [k \in 0 .. m |-> IF k = m THEN F[<<m, g[m - 1]>>] ELSE g[k]]
        OBVIOUS
    <2>3. g[m - 1] \in V[m - 1] /\ F[<<m, g[m - 1]>>] \in V[m] /\ V[m] \subseteq U
        BY <2>1 DEF Leads
    <2>4. h \in [0 .. m -> U] /\ h[m] = F[<<m, g[m - 1]>>] /\ \A k \in 0 .. m - 1 : h[k] = g[k]
        <3>1. PICK x : x = F[<<m, g[m - 1]>>] /\ x \in U
            BY <2>3
        <3>2. h = [k \in 0 .. m |-> IF k = m THEN x ELSE g[k]]
            BY <2>2, <3>1
        <3>3. h \in [0 .. m -> U]
            BY <3>1, <3>2
        <3> QED BY <3>1, <3>2, <3>3
    <2>5. h[0] = w /\ h[m] \in V[m] /\ h[m] = F[<<m, h[m - 1]>>]
        BY <2>1, <2>3, <2>4
    <2>6. \A k \in 1 .. m : h[k] = F[<<k, h[k - 1]>>]
        <3> SUFFICES ASSUME NEW k \in 1 .. m PROVE h[k] = F[<<k, h[k - 1]>>]
            OBVIOUS
        <3>1. CASE k = m
            BY <2>5, <3>1
        <3>2. CASE k # m
            <4>1. k \in 0 .. m - 1 /\ k - 1 \in 0 .. m - 1 /\ k \in 1 .. m - 1
                BY <3>2
            <4> QED BY <2>1, <2>4, <4>1
        <3> QED BY <3>1, <3>2
    <2>7. \A k \in 0 .. m : h[k] \in V[k]
        BY <2>1, <2>4, <2>5
    <2> QED BY <2>4, <2>5, <2>6, <2>7
<1>3. \A k \in 0 .. n : k \in H
    <2> HIDE DEF H
    <2> QED BY <1>1, <1>2, UpTo
<1>4. n \in H
    <2> HIDE DEF H
    <2> QED BY <1>3
<1> QED BY <1>4 DEF Iterates

\* Any list of states that is made this way is such a list.
LEMMA IterationIn ==
    ASSUME NEW n \in Nat, NEW V, NEW h, h[0] \in V[0],
           \A k \in 1 .. n : h[k - 1] \in V[k - 1] => h[k] \in V[k]
    PROVE  \A k \in 0 .. n : h[k] \in V[k]
<1> DEFINE H == {k \in 0 .. n : h[k] \in V[k]}
<1>1. 0 \in H
    OBVIOUS
<1>2. \A k \in 1 .. n : k - 1 \in H => k \in H
    OBVIOUS
<1>3. \A k \in 0 .. n : k \in H
    <2> HIDE DEF H
    <2> QED BY <1>1, <1>2, UpTo
<1> QED BY <1>3, Zenon

\* The least element of a non-empty list of numbers.
LEMMA LeastOfList ==
    ASSUME NEW n \in Nat \ {0}, NEW f \in [1 .. n -> Int]
    PROVE  \E i \in 1 .. n : \A j \in 1 .. n : f[i] <= f[j]
<1> DEFINE H == {m \in 0 .. n : m > 0 => \E i \in 1 .. m : \A j \in 1 .. m : f[i] <= f[j]}
<1>1. 0 \in H
    OBVIOUS
<1>2. ASSUME NEW m \in 1 .. n, m - 1 \in H PROVE m \in H
    <2>1. CASE m = 1
        <3>1. 1 \in 1 .. m /\ \A j \in 1 .. m : f[1] <= f[j]
            BY <2>1
        <3> QED BY <3>1
    <2>2. CASE m # 1
        <3>1. PICK i \in 1 .. m - 1 : \A j \in 1 .. m - 1 : f[i] <= f[j]
            BY <1>2, <2>2
        <3>2. CASE f[i] <= f[m]
            <4>1. i \in 1 .. m /\ \A j \in 1 .. m : f[i] <= f[j]
                BY <3>1, <3>2
            <4> QED BY <4>1
        <3>3. CASE ~(f[i] <= f[m])
            <4>0. f[i] \in Int /\ f[m] \in Int /\ \A j \in 1 .. m : f[j] \in Int
                OBVIOUS
            <4>1. m \in 1 .. m /\ \A j \in 1 .. m : f[m] <= f[j]
                BY <3>1, <3>3, <4>0
            <4> QED BY <4>1
        <3> QED BY <3>2, <3>3
    <2> QED BY <2>1, <2>2
<1>3. \A k \in 0 .. n : k \in H
    <2> HIDE DEF H
    <2> QED BY <1>1, <1>2, UpTo
<1>4. n \in H
    <2> HIDE DEF H
    <2> QED BY <1>3
<1> QED BY <1>4

\* A function on 1 .. n is a sequence.
LEMMA FunctionIsSeq ==
    ASSUME NEW S, NEW n \in Nat, NEW f \in [1 .. n -> S]
    PROVE  f \in Seq(S) /\ Len(f) = n /\ DOMAIN f = 1 .. n
<1>1. f \in Seq(S)
    BY SeqDef
<1> QED BY <1>1, LenProperties

\* An insertion: what comes before it stays, what comes after it moves on.
LEMMA InsertAtProperties ==
    ASSUME NEW S, NEW s \in Seq(S), NEW p \in 1 .. Len(s) + 1, NEW e \in S
    PROVE  /\ InsertAt(s, p, e) \in Seq(S)
           /\ Len(InsertAt(s, p, e)) = Len(s) + 1
           /\ \A j \in 1 .. Len(s) + 1 :
                InsertAt(s, p, e)[j] = IF j < p THEN s[j] ELSE IF j = p THEN e ELSE s[j - 1]
<1> DEFINE a == SubSeq(s, 1, p - 1)
           b == SubSeq(s, p, Len(s))
           ae == a \o <<e>>
<1>0. Len(s) \in Nat /\ \A i \in 1 .. Len(s) : s[i] \in S
    BY LenProperties, ElementOfSeq
<1>1. a \in Seq(S) /\ Len(a) = p - 1 /\ \A i \in 1 .. p - 1 : a[i] = s[i]
    <2>1. \A i \in 1 .. p - 1 : s[i] \in S
        BY <1>0
    <2>2. p - 1 \in Int /\ 1 \in Int
        BY <1>0
    <2>3. /\ a \in Seq(S) /\ Len(a) = (IF 1 <= p - 1 THEN p - 1 - 1 + 1 ELSE 0)
          /\ \A i \in 1 .. p - 1 - 1 + 1 : a[i] = s[1 + i - 1]
        BY <2>1, <2>2, SubSeqProperties
    <2> HIDE DEF a
    <2> QED BY <1>0, <2>3
<1>2. b \in Seq(S) /\ Len(b) = Len(s) - p + 1 /\ \A i \in 1 .. Len(s) - p + 1 : b[i] = s[p + i - 1]
    <2>1. \A i \in p .. Len(s) : s[i] \in S
        BY <1>0
    <2>2. p \in Int /\ Len(s) \in Int
        BY <1>0
    <2>3. /\ b \in Seq(S) /\ Len(b) = (IF p <= Len(s) THEN Len(s) - p + 1 ELSE 0)
          /\ \A i \in 1 .. Len(s) - p + 1 : b[i] = s[p + i - 1]
        BY <2>1, <2>2, SubSeqProperties
    <2> HIDE DEF b
    <2> QED BY <1>0, <2>3
<1>3. <<e>> \in Seq(S) /\ Len(<<e>>) = 1 /\ <<e>>[1] = e
    OBVIOUS
<1> HIDE DEF a, b
<1>4. /\ ae \in Seq(S) /\ Len(ae) = p
      /\ \A i \in 1 .. p : ae[i] = IF i <= p - 1 THEN s[i] ELSE e
    <2>1. /\ ae \in Seq(S) /\ Len(ae) = Len(a) + Len(<<e>>)
          /\ \A i \in 1 .. Len(a) + Len(<<e>>) : ae[i] = IF i <= Len(a) THEN a[i] ELSE <<e>>[i - Len(a)]
        BY <1>1, <1>3, ConcatProperties
    <2> HIDE DEF ae
    <2> QED BY <1>0, <1>1, <1>3, <2>1
<1>5. InsertAt(s, p, e) = ae \o b
    BY DEF InsertAt, a, b
<1> HIDE DEF ae
<1>6. /\ ae \o b \in Seq(S) /\ Len(ae \o b) = Len(ae) + Len(b)
      /\ \A i \in 1 .. Len(ae) + Len(b) : (ae \o b)[i] = IF i <= Len(ae) THEN ae[i] ELSE b[i - Len(ae)]
    BY <1>2, <1>4, ConcatProperties
<1>7. Len(ae) + Len(b) = Len(s) + 1
    BY <1>0, <1>2, <1>4
<1>8. ASSUME NEW j \in 1 .. Len(s) + 1
      PROVE  (ae \o b)[j] = IF j < p THEN s[j] ELSE IF j = p THEN e ELSE s[j - 1]
    <2>1. CASE j <= p
        BY <1>0, <1>4, <1>6, <1>7, <2>1
    <2>2. CASE j > p
        <3>1. (ae \o b)[j] = b[j - p] /\ j - p \in 1 .. Len(s) - p + 1
            BY <1>0, <1>4, <1>6, <1>7, <2>2
        <3>2. b[j - p] = s[p + (j - p) - 1] /\ p + (j - p) - 1 = j - 1
            BY <1>0, <1>2, <3>1
        <3> QED BY <1>0, <2>2, <3>1, <3>2
    <2>3. j <= p \/ j > p
        BY <1>0
    <2> QED BY <2>1, <2>2, <2>3, Zenon
<1> QED BY <1>5, <1>6, <1>7, <1>8

\* The end of a list.
LEMMA RestProperties ==
    ASSUME NEW S, NEW s \in Seq(S), NEW n \in 0 .. Len(s)
    PROVE  /\ SubSeq(s, n + 1, Len(s)) \in Seq(S)
           /\ Len(SubSeq(s, n + 1, Len(s))) = Len(s) - n
           /\ \A i \in 1 .. Len(s) - n : SubSeq(s, n + 1, Len(s))[i] = s[n + i]
<1> DEFINE b == SubSeq(s, n + 1, Len(s))
<1>0. Len(s) \in Nat /\ \A i \in 1 .. Len(s) : s[i] \in S
    BY LenProperties, ElementOfSeq
<1>1. \A i \in n + 1 .. Len(s) : s[i] \in S
    BY <1>0
<1>2. n + 1 \in Int /\ Len(s) \in Int
    BY <1>0
<1>3. /\ b \in Seq(S) /\ Len(b) = (IF n + 1 <= Len(s) THEN Len(s) - (n + 1) + 1 ELSE 0)
      /\ \A i \in 1 .. Len(s) - (n + 1) + 1 : b[i] = s[n + 1 + i - 1]
    BY <1>1, <1>2, SubSeqProperties
<1> HIDE DEF b
<1>4. \A i \in 1 .. Len(s) - n : n + 1 + i - 1 = n + i /\ i \in 1 .. Len(s) - (n + 1) + 1
    BY <1>0
<1>5. b \in Seq(S) /\ Len(b) = Len(s) - n /\ \A i \in 1 .. Len(s) - n : b[i] = s[n + i]
    BY <1>0, <1>3, <1>4
<1> QED BY <1>5 DEF b

-----------------------------------------------------------------------------
(* States of the manager and the loaders.                                  *)

SessionRec == [requested : Int, successes : 0 .. RetrySuccesses * MaxRemoves,
               maxWaited : StartWaited .. MaxWaited]

SessionLists == {s \in Seq(SessionRec) : Len(s) \in 1 .. MaxSessions}

DcRec == [sessions : SessionLists, removeIndex : 0 .. MaxSessions, removeTimes : 0 .. MaxRemoves,
          timeouts : 0 .. RemoveAfterTimeouts - 1, total : Int, kill : BOOLEAN]

Kinds == {"part", "reupload", "hashes", "stale", "failed", "failed hashes"}

States == {"new", "on", "cut", "done", "short", "cancelled", "gone"}

Part == [offset : Offsets, index : 1 .. MaxSessions]

Entry == [task : Tasks, priority : -1 .. 1]

\* Requests whose amounts are in A.
RequestOf(A) == [offset : Offsets, index : 1 .. MaxSessions, amount : A, old : BOOLEAN,
                 kind : Kinds]

SentOf(A) == {s \in SUBSET RequestOf(A) : IsFiniteSet(s)}

TaskOf(A) == [state : States, todo : SUBSET Offsets, sent : SentOf(A),
              unchecked : SUBSET Part, hashes : SUBSET Offsets, fed : SUBSET Offsets,
              cdn : BOOLEAN, more : BOOLEAN, priority : 0 .. 1]

Worlds(A) == [dc : DcRec, queue : Seq(Entry), task : [Tasks -> TaskOf(A)]]

\* The amount noted with a request is a number as long as its session exists.
Typed(w) == \E A : Int \subseteq A /\ w \in Worlds(A)

LEMMA Constants ==
    /\ MaxSessions \in Nat \ {0} /\ MaxWaited \in Nat \ {0} /\ StartWaited \in Nat \ {0}
    /\ StartWaited <= MaxWaited
    /\ PartsCount \in Nat \ {0} /\ RetrySuccesses \in Nat \ {0} /\ MaxRemoves \in Nat \ {0}
    /\ RemoveAfterTimeouts \in Nat \ {0}
BY DownloadsAssumption

\* The fields of a state.
LEMMA WorldParts ==
    ASSUME NEW A, NEW w \in Worlds(A)
    PROVE  /\ w = [dc |-> w.dc, queue |-> w.queue, task |-> w.task]
           /\ w.dc \in DcRec /\ w.queue \in Seq(Entry) /\ w.task \in [Tasks -> TaskOf(A)]
BY DEF Worlds

LEMMA TaskParts ==
    ASSUME NEW A, NEW w \in Worlds(A), NEW t \in Tasks
    PROVE  /\ w.task[t] \in TaskOf(A)
           /\ w.task[t].sent \subseteq RequestOf(A) /\ IsFiniteSet(w.task[t].sent)
           /\ w.task[t].todo \subseteq Offsets
           /\ w.task[t].unchecked \subseteq Part
BY WorldParts DEF TaskOf, SentOf

\* The list of sessions as a function.
LEMMA SessionsParts ==
    ASSUME NEW s \in SessionLists
    PROVE  /\ DOMAIN s = 1 .. Len(s) /\ Len(s) \in 1 .. MaxSessions
           /\ s \in [1 .. Len(s) -> SessionRec]
           /\ \A i \in 1 .. Len(s) : s[i] \in SessionRec
BY LenProperties, ElementOfSeq DEF SessionLists

LEMMA IsSessions ==
    ASSUME NEW n \in 1 .. MaxSessions, NEW s \in [1 .. n -> SessionRec]
    PROVE  s \in SessionLists /\ Len(s) = n
<1>1. s \in Seq(SessionRec) /\ Len(s) = n
    BY FunctionIsSeq, Constants
<1> QED BY <1>1 DEF SessionLists

\* More amounts may be allowed.
LEMMA Widen ==
    ASSUME NEW A, NEW B, A \subseteq B, NEW w \in Worlds(A)
    PROVE  w \in Worlds(B)
<1>1. RequestOf(A) \subseteq RequestOf(B)
    BY DEF RequestOf
<1>2. SentOf(A) \subseteq SentOf(B)
    BY <1>1 DEF SentOf
<1>3. TaskOf(A) \subseteq TaskOf(B)
    BY <1>2 DEF TaskOf
<1> QED BY <1>3 DEF Worlds

-----------------------------------------------------------------------------
(* The amounts.                                                            *)

LEMMA RequestedType ==
    ASSUME NEW S, IsFiniteSet(S), NEW i
    PROVE  Requested(S, i) \in Nat
<1>1. IsFiniteSet({r \in S : r.index = i})
    BY FS_Subset
<1> QED BY <1>1, FS_CardinalityType DEF Requested

\* changeRequestedAmount: what the record of the data centre becomes.
LEMMA ChangeEffect ==
    ASSUME NEW d \in DcRec, NEW S, IsFiniteSet(S), S # {}, NEW sign \in {-1, 1}
    PROVE  LET e == ChangeRequestedAmount(d, S, sign)
           IN  /\ e \in DcRec /\ Len(e.sessions) = Len(d.sessions)
               /\ \A i \in 1 .. Len(d.sessions) :
                    e.sessions[i] = [d.sessions[i] EXCEPT
                        !.requested = d.sessions[i].requested + sign * Requested(S, i)]
               /\ e.total = d.total + sign * Cardinality(S)
               /\ e.removeIndex = d.removeIndex /\ e.removeTimes = d.removeTimes
               /\ e.timeouts = d.timeouts
<1> DEFINE n == Len(d.sessions)
<1>1. PICK s : s = [i \in DOMAIN d.sessions |->
                [d.sessions[i] EXCEPT !.requested = @ + sign * Requested(S, i)]]
    OBVIOUS
<1>2. PICK c : c = Cardinality(S)
    OBVIOUS
<1>3. d.sessions \in SessionLists /\ d.total \in Int /\ c \in Nat
    BY <1>2, FS_CardinalityType DEF DcRec
<1>4. /\ n \in 1 .. MaxSessions /\ DOMAIN d.sessions = 1 .. n
      /\ \A i \in 1 .. n : d.sessions[i] \in SessionRec
    BY <1>3, SessionsParts
<1>5. ASSUME NEW i \in 1 .. n
      PROVE  /\ s[i] = [d.sessions[i] EXCEPT !.requested = d.sessions[i].requested + sign * Requested(S, i)]
             /\ s[i] \in SessionRec
    <2>1. s[i] = [d.sessions[i] EXCEPT !.requested = d.sessions[i].requested + sign * Requested(S, i)]
        BY <1>1, <1>4
    <2>2. Requested(S, i) \in Nat
        BY RequestedType
    <2>3. d.sessions[i].requested + sign * Requested(S, i) \in Int
        <3>1. d.sessions[i].requested \in Int
            BY <1>4 DEF SessionRec
        <3> QED BY <2>2, <3>1
    <2> QED BY <1>4, <2>1, <2>3 DEF SessionRec
<1>6. s \in SessionLists /\ Len(s) = n
    <2>1. s \in [1 .. n -> SessionRec]
        BY <1>1, <1>4, <1>5
    <2> HIDE DEF n
    <2> QED BY <1>4, <2>1, IsSessions
<1>7. PICK b \in BOOLEAN : b = (sign < 0 /\ (d.kill \/ \A i \in DOMAIN s : s[i].requested <= 0))
    OBVIOUS
<1>8. ChangeRequestedAmount(d, S, sign) =
        [d EXCEPT !.sessions = s, !.total = @ + sign * c, !.kill = b]
    BY <1>1, <1>2, <1>7 DEF ChangeRequestedAmount
<1>9. PICK e : e = ChangeRequestedAmount(d, S, sign)
    OBVIOUS
<1>10. d.total + sign * c \in Int
    BY <1>3
<1>11. /\ e \in DcRec /\ e.sessions = s /\ e.total = d.total + sign * c
       /\ e.removeIndex = d.removeIndex /\ e.removeTimes = d.removeTimes
       /\ e.timeouts = d.timeouts
    BY <1>6, <1>8, <1>9, <1>10 DEF DcRec
<1> QED BY <1>2, <1>5, <1>6, <1>9, <1>11

\* A step that replaces what a loader knows and the record of the data centre.
Changed(w, v, t, k, d) ==
    /\ v.queue = w.queue /\ v.dc = d
    /\ v.task[t] = k /\ \A u \in Tasks \ {t} : v.task[u] = w.task[u]

\* A request is placed.
PlacedRequest(w, data, kind) ==
    [offset |-> data.offset, index |-> data.index, kind |-> kind,
     amount |-> w.dc.sessions[data.index].requested + 1, old |-> FALSE]

LEMMA PlaceEffect ==
    ASSUME NEW A, Int \subseteq A, NEW w \in Worlds(A), NEW t \in Tasks, NEW data,
           data.offset \in Offsets, data.index \in 1 .. MaxSessions, NEW kind \in Kinds,
           w.dc.sessions[data.index].requested + 1 \in A
    PROVE  /\ PlaceSentRequest(w, t, data, kind) \in Worlds(A)
           /\ Changed(w, PlaceSentRequest(w, t, data, kind), t,
                      [w.task[t] EXCEPT !.sent = @ \cup {PlacedRequest(w, data, kind)}],
                      ChangeRequestedAmount(w.dc, {PlacedRequest(w, data, kind)}, 1))
<1>1. PICK request : request = PlacedRequest(w, data, kind)
    OBVIOUS
<1>2. request \in RequestOf(A)
    BY <1>1 DEF PlacedRequest, RequestOf
<1>3. PICK d : d = ChangeRequestedAmount(w.dc, {request}, 1)
    OBVIOUS
<1>4. d \in DcRec
    <2>1. IsFiniteSet({request}) /\ {request} # {}
        BY FS_Singleton
    <2>2. PICK S : S = {request}
        OBVIOUS
    <2> QED BY <1>3, <2>1, <2>2, WorldParts, ChangeEffect
<1>5. PICK sent : sent = w.task[t].sent \cup {request}
    OBVIOUS
<1>6. sent \in SentOf(A)
    BY <1>2, <1>5, TaskParts, FS_AddElement DEF SentOf
<1>7. PICK ts : ts = [w.task EXCEPT ![t] = [@ EXCEPT !.sent = sent]]
    OBVIOUS
<1>8. ts \in [Tasks -> TaskOf(A)]
    <2>1. [w.task[t] EXCEPT !.sent = sent] \in TaskOf(A)
        BY <1>6, TaskParts DEF TaskOf
    <2> QED BY <1>7, <2>1, WorldParts
<1>9. PlaceSentRequest(w, t, data, kind) = [w EXCEPT !.dc = d, !.task = ts]
    <2>1. PlaceSentRequest(w, t, data, kind) = [w EXCEPT !.dc = d, !.task[t].sent = sent]
        BY <1>1, <1>3, <1>5 DEF PlaceSentRequest, PlacedRequest
    <2> QED BY <1>7, <2>1, WorldParts
<1>10. PICK v : v = PlaceSentRequest(w, t, data, kind)
    OBVIOUS
<1>11. v \in Worlds(A) /\ v.queue = w.queue /\ v.dc = d /\ v.task = ts
    BY <1>4, <1>8, <1>9, <1>10 DEF Worlds
<1>12. /\ ts[t] = [w.task[t] EXCEPT !.sent = @ \cup {request}]
       /\ \A u \in Tasks \ {t} : ts[u] = w.task[u]
    BY <1>5, <1>7, WorldParts
<1>13. Changed(w, v, t, [w.task[t] EXCEPT !.sent = @ \cup {request}], d)
    BY <1>11, <1>12 DEF Changed
<1> QED BY <1>1, <1>3, <1>10, <1>11, <1>13

\* Requests are finished.
LEMMA FinishEffect ==
    ASSUME NEW A, NEW w \in Worlds(A), NEW t \in Tasks, NEW S, S \subseteq w.task[t].sent
    PROVE  /\ FinishSentRequests(w, t, S) \in Worlds(A)
           /\ Len(FinishSentRequests(w, t, S).dc.sessions) = Len(w.dc.sessions)
           /\ Changed(w, FinishSentRequests(w, t, S), t, [w.task[t] EXCEPT !.sent = @ \ S],
                      ChangeRequestedAmount(w.dc, S, -1))
<1>1. PICK d : d = ChangeRequestedAmount(w.dc, S, -1)
    OBVIOUS
<1>2. IsFiniteSet(S)
    BY TaskParts, FS_Subset
<1>3. d \in DcRec /\ Len(d.sessions) = Len(w.dc.sessions)
    <2>1. CASE S = {}
        BY <1>1, <2>1, WorldParts DEF ChangeRequestedAmount
    <2>2. CASE S # {}
        BY <1>1, <1>2, <2>2, WorldParts, ChangeEffect
    <2> QED BY <2>1, <2>2
<1>5. PICK sent : sent = w.task[t].sent \ S
    OBVIOUS
<1>6. sent \in SentOf(A)
    BY <1>5, TaskParts, FS_Subset DEF SentOf
<1>7. PICK ts : ts = [w.task EXCEPT ![t] = [@ EXCEPT !.sent = sent]]
    OBVIOUS
<1>8. ts \in [Tasks -> TaskOf(A)]
    <2>1. [w.task[t] EXCEPT !.sent = sent] \in TaskOf(A)
        BY <1>6, TaskParts DEF TaskOf
    <2> QED BY <1>7, <2>1, WorldParts
<1>9. FinishSentRequests(w, t, S) = [w EXCEPT !.dc = d, !.task = ts]
    <2>1. FinishSentRequests(w, t, S) = [w EXCEPT !.dc = d, !.task[t].sent = sent]
        BY <1>1, <1>5 DEF FinishSentRequests
    <2> QED BY <1>7, <2>1, WorldParts
<1>10. PICK v : v = FinishSentRequests(w, t, S)
    OBVIOUS
<1>11. v \in Worlds(A) /\ v.queue = w.queue /\ v.dc = d /\ v.task = ts
    BY <1>3, <1>8, <1>9, <1>10 DEF Worlds
<1>12. /\ ts[t] = [w.task[t] EXCEPT !.sent = @ \ S]
       /\ \A u \in Tasks \ {t} : ts[u] = w.task[u]
    BY <1>5, <1>7, WorldParts
<1>13. Changed(w, v, t, [w.task[t] EXCEPT !.sent = @ \ S], d)
    BY <1>11, <1>12 DEF Changed
<1> QED BY <1>1, <1>3, <1>10, <1>11, <1>13

\* What a loader knows is replaced.
WithTask(w, t, k) == [w EXCEPT !.task[t] = k]

LEMMA TaskEffect ==
    ASSUME NEW A, NEW w \in Worlds(A), NEW t \in Tasks, NEW k \in TaskOf(A)
    PROVE  WithTask(w, t, k) \in Worlds(A) /\ Changed(w, WithTask(w, t, k), t, k, w.dc)
<1>0. PICK v : v = WithTask(w, t, k)
    OBVIOUS
<1>1. PICK ts : ts = [w.task EXCEPT ![t] = k]
    OBVIOUS
<1>2. ts \in [Tasks -> TaskOf(A)] /\ ts[t] = k /\ \A u \in Tasks \ {t} : ts[u] = w.task[u]
    BY <1>1, WorldParts
<1>3. v = [w EXCEPT !.task = ts]
    BY <1>0, <1>1, WorldParts DEF WithTask
<1>4. v \in Worlds(A) /\ v.queue = w.queue /\ v.dc = w.dc /\ v.task = ts
    BY <1>2, <1>3 DEF Worlds
<1> QED BY <1>0, <1>2, <1>4 DEF Changed

\* Of two replacements the last one counts.
LEMMA WithTaskTwice ==
    ASSUME NEW A, NEW w \in Worlds(A), NEW t \in Tasks, NEW k, NEW l
    PROVE  WithTask(WithTask(w, t, k), t, l) = WithTask(w, t, l)
<1>1. PICK a : a = WithTask(w, t, k)
    OBVIOUS
<1>2. a = [dc |-> w.dc, queue |-> w.queue, task |-> [w.task EXCEPT ![t] = k]]
    BY <1>1, WorldParts DEF WithTask
<1>3. WithTask(a, t, l) = [dc |-> a.dc, queue |-> a.queue, task |-> [a.task EXCEPT ![t] = l]]
    BY <1>2 DEF WithTask
<1>4. [a.task EXCEPT ![t] = l] = [w.task EXCEPT ![t] = l]
    BY <1>2, WorldParts
<1>5. WithTask(w, t, l) = [dc |-> w.dc, queue |-> w.queue, task |-> [w.task EXCEPT ![t] = l]]
    BY WorldParts DEF WithTask
<1> QED BY <1>1, <1>2, <1>3, <1>4, <1>5

-----------------------------------------------------------------------------
(* The choice of a session.                                                *)

LEMMA LeastLoadedIs ==
    ASSUME NEW n \in Nat \ {0}, NEW f \in [1 .. n -> Int]
    PROVE  LeastLoaded(f) \in 1 .. n /\ \A j \in 1 .. n : f[LeastLoaded(f)] <= f[j]
<1> DEFINE S == {i \in 1 .. n : \A j \in 1 .. n : f[i] <= f[j]}
<1>1. S # {}
    BY LeastOfList
<1>2. LeastLoaded(f) = Min(S)
    BY DEF LeastLoaded
<1>3. Min(S) \in S
    <2>1. S \subseteq Nat
        OBVIOUS
    <2> HIDE DEF S
    <2> QED BY <1>1, <2>1, Smallest
<1> QED BY <1>2, <1>3

LEMMA ChosenSession ==
    ASSUME NEW w, w.dc \in DcRec
    PROVE  /\ ChooseSessionIndex(w) \in 1 .. Len(w.dc.sessions)
           /\ \A j \in 1 .. Len(w.dc.sessions) :
                w.dc.sessions[ChooseSessionIndex(w)].requested <= w.dc.sessions[j].requested
<1> DEFINE s == w.dc.sessions
<1>1. /\ DOMAIN s = 1 .. Len(s) /\ Len(s) \in 1 .. MaxSessions
      /\ \A i \in 1 .. Len(s) : s[i] \in SessionRec
    BY SessionsParts DEF DcRec
<1>2. PICK f : f = [i \in DOMAIN s |-> s[i].requested]
    OBVIOUS
<1>3. Len(s) \in Nat \ {0} /\ f \in [1 .. Len(s) -> Int]
    BY <1>1, <1>2, Constants DEF SessionRec
<1>4. ChooseSessionIndex(w) = LeastLoaded(f)
    BY <1>2 DEF ChooseSessionIndex
<1>5. PICK n : n = Len(s)
    OBVIOUS
<1>6. LeastLoaded(f) \in 1 .. n /\ \A j \in 1 .. n : f[LeastLoaded(f)] <= f[j]
    BY <1>3, <1>5, LeastLoadedIs
<1> HIDE DEF s
<1>7. \A j \in 1 .. Len(s) : f[j] = s[j].requested
    BY <1>1, <1>2
<1> QED BY <1>4, <1>5, <1>6, <1>7 DEF s

-----------------------------------------------------------------------------
(* Sending.                                                                *)

\* loadPart of a loader that is ready: its first part to ask for is sent.
LEMMA LoadPartEffect ==
    ASSUME NEW A, Int \subseteq A, NEW w \in Worlds(A), NEW t \in Tasks,
           ReadyToRequest(w.task[t]), NEW i \in 1 .. Len(w.dc.sessions)
    PROVE  \E o \in w.task[t].todo : \E request :
             /\ request = PlacedRequest(w, [offset |-> o, index |-> i], "part")
             /\ LoadPart(w, t, i) \in Worlds(A)
             /\ Changed(w, LoadPart(w, t, i), t,
                        [w.task[t] EXCEPT !.todo = @ \ {o}, !.sent = @ \cup {request}],
                        ChangeRequestedAmount(w.dc, {request}, 1))
<1>1. PICK o : o = Min(w.task[t].todo)
    OBVIOUS
<1>2. o \in w.task[t].todo /\ o \in Offsets
    <2>1. w.task[t].todo \subseteq Nat /\ w.task[t].todo # {} /\ w.task[t].todo \subseteq Offsets
        BY TaskParts, Constants DEF ReadyToRequest, Offsets
    <2> QED BY <1>1, <2>1, Smallest
<1>3. PICK k : k = [w.task[t] EXCEPT !.todo = w.task[t].todo \ {o}]
    OBVIOUS
<1>4. k \in TaskOf(A)
    BY <1>3, TaskParts DEF TaskOf
<1>5. PICK x : x = WithTask(w, t, k)
    OBVIOUS
<1>6. x \in Worlds(A) /\ Changed(w, x, t, k, w.dc) /\ x.dc = w.dc
    BY <1>4, <1>5, TaskEffect DEF Changed
<1>7. x = [w EXCEPT !.task[t].todo = @ \ {o}]
    BY <1>3, <1>5, WorldParts DEF WithTask
<1>8. PICK data : data = [offset |-> o, index |-> i]
    OBVIOUS
<1>9. LoadPart(w, t, i) = PlaceSentRequest(x, t, data, "part")
    BY <1>1, <1>7, <1>8 DEF LoadPart, MakeRequest
<1>10. x.dc.sessions[data.index].requested + 1 \in A
    <2>1. w.dc.sessions[i] \in SessionRec
        BY WorldParts, SessionsParts DEF DcRec
    <2> QED BY <1>6, <1>8, <2>1 DEF SessionRec
<1>11. data.offset \in Offsets /\ data.index \in 1 .. MaxSessions /\ "part" \in Kinds
    <2>1. Len(w.dc.sessions) \in 1 .. MaxSessions
        BY WorldParts, SessionsParts DEF DcRec
    <2> QED BY <1>2, <1>8, <2>1, Constants DEF Kinds
<1>12. PICK request : request = PlacedRequest(w, data, "part")
    OBVIOUS
<1>13. PlacedRequest(x, data, "part") = request
    BY <1>6, <1>12 DEF PlacedRequest
<1>14. PICK v : v = PlaceSentRequest(x, t, data, "part")
    OBVIOUS
<1>15. /\ v \in Worlds(A)
       /\ Changed(x, v, t, [x.task[t] EXCEPT !.sent = @ \cup {request}],
                  ChangeRequestedAmount(x.dc, {request}, 1))
    BY <1>6, <1>10, <1>11, <1>13, <1>14, PlaceEffect
<1>16. v.task[t] = [w.task[t] EXCEPT !.todo = @ \ {o}, !.sent = @ \cup {request}]
    BY <1>3, <1>6, <1>15, TaskParts DEF TaskOf, Changed
<1>17. Changed(w, v, t, [w.task[t] EXCEPT !.todo = @ \ {o}, !.sent = @ \cup {request}],
               ChangeRequestedAmount(w.dc, {request}, 1))
    BY <1>6, <1>15, <1>16 DEF Changed
<1> QED BY <1>2, <1>8, <1>9, <1>12, <1>14, <1>15, <1>17

\* trySendNextPart does nothing, or sends a part of a loader of the queue that
\* is ready to a session that has not all of its share.
LEMMA TrySendEffect ==
    ASSUME NEW A, NEW w \in Worlds(A)
    PROVE  \/ TrySendNextPart(w) = w
           \/ \E n \in 1 .. Len(w.queue), i \in 1 .. Len(w.dc.sessions) :
                /\ w.queue[n].task \in Tasks
                /\ ReadyToRequest(w.task[w.queue[n].task])
                /\ w.dc.sessions[i].requested + 1 <= w.dc.sessions[i].maxWaited
                /\ TrySendNextPart(w) = LoadPart(w, w.queue[n].task, i)
<1> DEFINE s == w.dc.sessions
<1>0. w.queue \in Seq(Entry)
    BY WorldParts
<1>1. /\ DOMAIN s = 1 .. Len(s) /\ Len(s) \in 1 .. MaxSessions
      /\ \A i \in 1 .. Len(s) : s[i] \in SessionRec
    BY WorldParts, SessionsParts DEF DcRec
<1>2. PICK f : f = [i \in DOMAIN s |-> IF s[i].requested < s[i].maxWaited
                                       THEN s[i].requested ELSE MaxWaited]
    OBVIOUS
<1>3. Len(s) \in Nat \ {0} /\ f \in [1 .. Len(s) -> Int]
    BY <1>1, <1>2, Constants DEF SessionRec
<1>4. PICK best : best = LeastLoaded(f)
    OBVIOUS
<1>5. best \in 1 .. Len(s)
    <2>1. PICK m : m = Len(s)
        OBVIOUS
    <2> QED BY <1>3, <1>4, <2>1, LeastLoadedIs
<1>6. PICK next : next = NextTasks(w, w.dc.total > 0)
    OBVIOUS
<1>7. TrySendNextPart(w) = IF s[best].requested + 1 <= s[best].maxWaited /\ next # {}
                           THEN LoadPart(w, w.queue[Min(next)].task, best) ELSE w
    BY <1>2, <1>4, <1>6 DEF TrySendNextPart
<1>8. /\ next \subseteq 1 .. Len(w.queue)
      /\ \A n \in next : ReadyToRequest(w.task[w.queue[n].task])
    <2>1. DOMAIN w.queue = 1 .. Len(w.queue)
        BY <1>0, LenProperties
    <2> QED BY <1>6, <2>1, Zenon DEF NextTasks
<1>9. CASE next # {}
    <2>1. next \subseteq Nat
        BY <1>0, <1>8, LenProperties
    <2>2. PICK n : n = Min(next)
        OBVIOUS
    <2>3. n \in next
        BY <1>9, <2>1, <2>2, Smallest
    <2>4. w.queue[n] \in Entry
        BY <1>0, <1>8, <2>3, ElementOfSeq
    <2>5. w.queue[n].task \in Tasks
        BY <2>4 DEF Entry
    <2> QED BY <1>5, <1>7, <1>8, <2>2, <2>3, <2>5
<1>10. CASE next = {}
    BY <1>7, <1>10
<1> QED BY <1>9, <1>10

\* checkSendNext: what every turn keeps, the loop keeps; there is a last turn.
LEMMA CheckSendNextIn ==
    ASSUME NEW U, NEW w \in U, \A v \in U : TrySendNextPart(v) \in U
    PROVE  CheckSendNext(w) \in U /\ \E v \in U : CheckSendNext(w) = TrySendNextPart(v)
<1>20. ASSUME NextTasks(w, FALSE) = {}
       PROVE  CheckSendNext(w) = w /\ TrySendNextPart(w) = w
    <2>1. NextTasks(w, w.dc.total > 0) = {}
        BY <1>20 DEF NextTasks
    <2>2. TrySendNextPart(w) = w
        BY <2>1 DEF TrySendNextPart
    <2>3. CheckSendNext(w) = w
        BY <1>20 DEF CheckSendNext
    <2> QED BY <2>2, <2>3
<1> SUFFICES ASSUME NextTasks(w, FALSE) # {}
             PROVE  CheckSendNext(w) \in U /\ \E v \in U : CheckSendNext(w) = TrySendNextPart(v)
    BY <1>20
<1>0. PICK n : n = MaxSessions * MaxWaited
    OBVIOUS
<1>1. n \in Nat /\ n # 0
    BY <1>0, Constants
<1> DEFINE after[turn \in 0 .. MaxSessions * MaxWaited] ==
                IF turn = 0 THEN w ELSE TrySendNextPart(after[turn - 1])
<1>2. CheckSendNext(w) = after[n]
    BY <1>0 DEF CheckSendNext
<1>3. PICK V : V = [k \in 0 .. n |-> U]
    OBVIOUS
<1>4. PICK F : F = [p \in (1 .. n) \X U |-> TrySendNextPart(p[2])]
    OBVIOUS
<1>5. V \in [0 .. n -> SUBSET U] /\ w \in V[0] /\ \A k \in 0 .. n : V[k] = U
    <2> HIDE DEF after
    <2> QED BY <1>1, <1>3
<1>6. \A k \in 1 .. n : \A v \in U : F[<<k, v>>] = TrySendNextPart(v)
    <2> HIDE DEF after
    <2> QED BY <1>4
<1>7. Leads(n, V, F)
    <2> HIDE DEF after
    <2>1. \A k \in 1 .. n : k \in 0 .. n /\ k - 1 \in 0 .. n
        BY <1>1
    <2>2. \A k \in 1 .. n : V[k] = U /\ V[k - 1] = U
        BY <1>5, <2>1
    <2> QED BY <1>6, <2>2 DEF Leads
<1>8. PICK g \in [0 .. n -> U] : Iterates(n, V, F, w, g)
    <2> HIDE DEF after
    <2> QED BY <1>1, <1>5, <1>7, Iteration
<1>9. g = [turn \in 0 .. MaxSessions * MaxWaited |->
            IF turn = 0 THEN w ELSE TrySendNextPart(g[turn - 1])]
    <2> HIDE DEF after
    <2>1. \A k \in 1 .. n : g[k - 1] \in U
        BY <1>1, <1>8
    <2>2. \A k \in 0 .. n : g[k] = IF k = 0 THEN w ELSE TrySendNextPart(g[k - 1])
        <3> SUFFICES ASSUME NEW k \in 0 .. n
                     PROVE  g[k] = IF k = 0 THEN w ELSE TrySendNextPart(g[k - 1])
            OBVIOUS
        <3>1. CASE k = 0
            BY <1>8, <3>1 DEF Iterates
        <3>2. CASE k # 0
            <4>1. k \in 1 .. n
                BY <1>1, <3>2
            <4> QED BY <1>6, <1>8, <2>1, <3>2, <4>1 DEF Iterates
        <3> QED BY <3>1, <3>2
    <2> QED BY <1>0, <1>8, <2>2
<1>10. after = [turn \in 0 .. MaxSessions * MaxWaited |->
            IF turn = 0 THEN w ELSE TrySendNextPart(after[turn - 1])]
    BY <1>9, Zenon
<1> HIDE DEF after
<1>11. after[0] \in V[0]
    BY <1>0, <1>1, <1>5, <1>10
<1>12. \A k \in 1 .. n : after[k - 1] \in V[k - 1] => after[k] \in V[k]
    <2>1. \A k \in 1 .. n : after[k] = TrySendNextPart(after[k - 1])
        BY <1>0, <1>1, <1>10
    <2> QED BY <1>1, <1>5, <2>1
<1>13. \A k \in 0 .. n : after[k] \in V[k]
    BY <1>1, <1>11, <1>12, IterationIn
<1>14. after[n - 1] \in U /\ after[n] = TrySendNextPart(after[n - 1])
    <2>1. n \in 0 .. n /\ n - 1 \in 0 .. n
        BY <1>1
    <2>2. after[n] = TrySendNextPart(after[n - 1])
        BY <1>0, <1>1, <1>10, <2>1
    <2> QED BY <1>5, <1>13, <2>1, <2>2
<1>15. after[n] \in U
    BY <1>1, <1>5, <1>13
<1> QED BY <1>2, <1>14, <1>15

\* Some of the parts a loader has to ask for were sent.
Sends(k, l) ==
    /\ l = [k EXCEPT !.todo = l.todo, !.sent = l.sent]
    /\ l.todo \subseteq k.todo /\ k.sent \subseteq l.sent
    /\ \A r \in l.sent \ k.sent : r.kind = "part" /\ r.offset \in k.todo \ l.todo
    /\ \A o \in k.todo \ l.todo : \E r \in l.sent : r.kind = "part" /\ r.offset = o
    /\ \A a, b \in l.sent \ k.sent : a.offset = b.offset => a = b
    /\ k.state = "on" \/ l = k

LEMMA SendsNothing ==
    ASSUME NEW A, NEW k \in TaskOf(A)
    PROVE  Sends(k, k)
BY DEF Sends, TaskOf

LEMMA SendsOneMore ==
    ASSUME NEW A, NEW k \in TaskOf(A), NEW l \in TaskOf(A), Sends(k, l), l.state = "on",
           NEW o \in l.todo, NEW r, r.kind = "part", r.offset = o
    PROVE  Sends(k, [l EXCEPT !.todo = @ \ {o}, !.sent = @ \cup {r}])
<1>0. PICK m : m = [l EXCEPT !.todo = @ \ {o}, !.sent = @ \cup {r}]
    OBVIOUS
<1>1. l = [k EXCEPT !.todo = l.todo, !.sent = l.sent]
    BY DEF Sends
<1>2. m.todo = l.todo \ {o} /\ m.sent = l.sent \cup {r}
    BY <1>0 DEF TaskOf
<1>3. m = [k EXCEPT !.todo = m.todo, !.sent = m.sent]
    BY <1>0, <1>1, <1>2 DEF TaskOf
<1>4. k.state = "on"
    BY <1>1 DEF TaskOf
<1>5. m.todo \subseteq k.todo /\ k.sent \subseteq m.sent
    BY <1>2 DEF Sends
<1>6. \A q \in m.sent \ k.sent : q.kind = "part" /\ q.offset \in k.todo \ m.todo
    BY <1>2 DEF Sends
<1>7. \A p \in k.todo \ m.todo : \E q \in m.sent : q.kind = "part" /\ q.offset = p
    BY <1>2 DEF Sends
<1>8. \A a, b \in m.sent \ k.sent : a.offset = b.offset => a = b
    BY <1>2 DEF Sends
<1>9. Sends(k, m)
    BY <1>3, <1>4, <1>5, <1>6, <1>7, <1>8 DEF Sends
<1> QED BY <1>0, <1>9

\* checkSendNext sends parts that are to be asked for, and nothing else.
LEMMA CheckSendNextSends ==
    ASSUME NEW A, Int \subseteq A, NEW w \in Worlds(A)
    PROVE  /\ CheckSendNext(w) \in Worlds(A)
           /\ CheckSendNext(w).queue = w.queue
           /\ \A t \in Tasks : Sends(w.task[t], CheckSendNext(w).task[t])
<1> DEFINE U == {v \in Worlds(A) : /\ v.queue = w.queue
                                   /\ \A t \in Tasks : Sends(w.task[t], v.task[t])}
<1>1. w \in U
    BY SendsNothing, TaskParts
<1>2. ASSUME NEW v \in U PROVE TrySendNextPart(v) \in U
    <2>0. v \in Worlds(A) /\ v.queue = w.queue /\ \A t \in Tasks : Sends(w.task[t], v.task[t])
        OBVIOUS
    <2>1. CASE TrySendNextPart(v) = v
        BY <2>1
    <2>2. CASE TrySendNextPart(v) # v
        <3>1. PICK t \in Tasks, i \in 1 .. Len(v.dc.sessions) :
                /\ ReadyToRequest(v.task[t])
                /\ TrySendNextPart(v) = LoadPart(v, t, i)
            BY <2>0, <2>2, TrySendEffect
        <3>2. PICK x : x = LoadPart(v, t, i)
            OBVIOUS
        <3> DEFINE Sent(o, r) ==
                /\ r = PlacedRequest(v, [offset |-> o, index |-> i], "part")
                /\ x \in Worlds(A)
                /\ Changed(v, x, t, [v.task[t] EXCEPT !.todo = @ \ {o}, !.sent = @ \cup {r}],
                           ChangeRequestedAmount(v.dc, {r}, 1))
        <3>30. PICK o \in v.task[t].todo : \E r : Sent(o, r)
            BY <2>0, <3>1, <3>2, LoadPartEffect
        <3>3. PICK r : Sent(o, r)
            BY <3>30
        <3>4. r.kind = "part" /\ r.offset = o
            BY <3>3 DEF PlacedRequest
        <3>5. ASSUME NEW u \in Tasks PROVE Sends(w.task[u], x.task[u])
            <4>1. CASE u = t
                <5>1. w.task[t] \in TaskOf(A) /\ v.task[t] \in TaskOf(A) /\ v.task[t].state = "on"
                    BY <2>0, <3>1, TaskParts DEF ReadyToRequest
                <5>2. PICK k, l, m : k = w.task[t] /\ l = v.task[t] /\ m = x.task[t]
                    OBVIOUS
                <5>3. m = [l EXCEPT !.todo = @ \ {o}, !.sent = @ \cup {r}]
                    BY <3>3, <5>2 DEF Changed
                <5>4. Sends(k, l) /\ k \in TaskOf(A) /\ l \in TaskOf(A) /\ l.state = "on" /\ o \in l.todo
                    BY <2>0, <3>3, <5>1, <5>2
                <5>5. Sends(k, m)
                    BY <3>4, <5>3, <5>4, SendsOneMore
                <5> QED BY <4>1, <5>2, <5>5
            <4>2. CASE u # t
                BY <2>0, <3>3, <4>2 DEF Changed
            <4> QED BY <4>1, <4>2
        <3>6. x.queue = w.queue
            BY <2>0, <3>3 DEF Changed
        <3> QED BY <3>1, <3>2, <3>3, <3>5, <3>6
    <2> QED BY <2>1, <2>2
<1>3. CheckSendNext(w) \in U
    <2> HIDE DEF U
    <2> QED BY <1>1, <1>2, CheckSendNextIn
<1> QED BY <1>3

-----------------------------------------------------------------------------
(* What a loader keeps.                                                    *)

\* Part o of the file is to be asked for, asked for, here or written.
Has(k, o) ==
    \/ o \in k.todo
    \/ \E r \in k.sent : ~ForHashes(r) /\ r.offset = o
    \/ \E u \in k.unchecked : u.offset = o
    \/ o \in k.fed

\* A file that is finished has every part it asked for.
Whole(k) ==
    /\ k.state = "done" => k.fed = Offsets
    /\ k.state = "short" => Offsets \ k.todo \subseteq k.fed

\* A loader in state s may have requests on the way.
Loads(s) == s \in {"on", "cut"}

\* No part of a file is forgotten, but for those in X, which a handler has in
\* its hands; a loader that does not load has no requests; what is to be asked
\* for was not asked for.
Sound(t, k, X) ==
    /\ t \in Files /\ k.state \in {"new", "on", "cut"} => \A o \in Offsets : o \in X \/ Has(k, o)
    /\ t \in Files => Whole(k)
    /\ ~Loads(k.state) => k.sent = {} /\ k.unchecked = {}
    /\ \A o \in k.todo : /\ o \notin X
                         /\ \A r \in k.sent : r.offset # o
                         /\ \A u \in k.unchecked : u.offset # o

\* A part is asked for once.
Apart(k, X) ==
    /\ \A a, b \in k.sent : a.offset = b.offset => a = b
    /\ \A r \in k.sent : r.offset \notin X

LEMMA SoundSends ==
    ASSUME NEW A, NEW k \in TaskOf(A), NEW l \in TaskOf(A), NEW t, NEW X,
           Sound(t, k, X), Sends(k, l)
    PROVE  Sound(t, l, X)
<1>1. l = [k EXCEPT !.todo = l.todo, !.sent = l.sent]
    BY DEF Sends
<1>2. l.state = k.state /\ l.unchecked = k.unchecked /\ l.fed = k.fed
    BY <1>1 DEF TaskOf
<1>3. \A o \in Offsets : Has(k, o) => Has(l, o)
    <2> SUFFICES ASSUME NEW o \in Offsets, Has(k, o) PROVE Has(l, o)
        OBVIOUS
    <2>1. CASE o \in k.todo
        <3>1. CASE o \in l.todo
            BY <3>1 DEF Has
        <3>2. CASE o \notin l.todo
            <4>1. PICK r \in l.sent : r.kind = "part" /\ r.offset = o
                BY <2>1, <3>2 DEF Sends
            <4>2. ~ForHashes(r)
                BY <4>1 DEF ForHashes
            <4> QED BY <4>1, <4>2 DEF Has
        <3> QED BY <3>1, <3>2
    <2>2. CASE o \notin k.todo
        BY <1>2, <2>2 DEF Has, Sends
    <2> QED BY <2>1, <2>2
<1>4. ~Loads(l.state) => l.sent = {} /\ l.unchecked = {}
    BY <1>2 DEF Sound, Sends, Whole, Loads
<1>5. \A o \in l.todo : /\ o \notin X
                        /\ \A r \in l.sent : r.offset # o
                        /\ \A u \in l.unchecked : u.offset # o
    <2> SUFFICES ASSUME NEW o \in l.todo
                 PROVE  /\ o \notin X
                        /\ \A r \in l.sent : r.offset # o
                        /\ \A u \in l.unchecked : u.offset # o
        OBVIOUS
    <2>1. o \in k.todo
        BY DEF Sends
    <2> QED BY <1>2, <2>1 DEF Sound, Sends
<1>6. t \in Files => Whole(l)
    <2>1. CASE k.state = "on"
        BY <1>2, <2>1 DEF Whole
    <2>2. CASE l = k
        BY <2>2 DEF Sound
    <2> QED BY <2>1, <2>2 DEF Sends
<1> QED BY <1>2, <1>3, <1>4, <1>5, <1>6 DEF Sound

LEMMA ApartSends ==
    ASSUME NEW A, NEW k \in TaskOf(A), NEW l \in TaskOf(A), NEW t, NEW X,
           Sound(t, k, X), Apart(k, X), Sends(k, l)
    PROVE  Apart(l, X)
<1>1. \A r \in l.sent \ k.sent : r.offset \in k.todo
    BY DEF Sends
<1>2. \A o \in k.todo : o \notin X /\ \A r \in k.sent : r.offset # o
    BY DEF Sound
<1>3. ASSUME NEW a \in l.sent, NEW b \in l.sent, a.offset = b.offset PROVE a = b
    <2>1. CASE a \in k.sent /\ b \in k.sent
        BY <1>3, <2>1 DEF Apart
    <2>2. CASE a \notin k.sent /\ b \notin k.sent
        BY <1>3, <2>2 DEF Sends
    <2>3. CASE a \in k.sent /\ b \notin k.sent
        BY <1>1, <1>2, <1>3, <2>3
    <2>4. CASE a \notin k.sent /\ b \in k.sent
        BY <1>1, <1>2, <1>3, <2>4
    <2> QED BY <2>1, <2>2, <2>3, <2>4
<1>4. \A r \in l.sent : r.offset \notin X
    BY <1>1, <1>2 DEF Apart
<1> QED BY <1>3, <1>4 DEF Apart

\* A request is finished: its part is in the hands of the handler.
LEMMA SoundFinish ==
    ASSUME NEW A, NEW k \in TaskOf(A), NEW t, NEW X, Sound(t, k, X), Apart(k, X),
           NEW r \in k.sent, NEW l, l = [k EXCEPT !.sent = @ \ {r}],
           NEW Y, Y = X \cup {r.offset}
    PROVE  Sound(t, l, Y) /\ Apart(l, Y)
<1>1. /\ l.state = k.state /\ l.unchecked = k.unchecked /\ l.fed = k.fed /\ l.todo = k.todo
      /\ l.sent = k.sent \ {r}
    BY DEF TaskOf
<1>2. \A o \in Offsets : Has(k, o) => o \in Y \/ Has(l, o)
    BY <1>1 DEF Has
<1>3. Apart(l, Y)
    BY <1>1 DEF Apart
<1>4. \A o \in l.todo : /\ o \notin Y
                        /\ \A q \in l.sent : q.offset # o
                        /\ \A u \in l.unchecked : u.offset # o
    BY <1>1 DEF Sound
<1>5. ~Loads(l.state) => l.sent = {} /\ l.unchecked = {}
    BY <1>1 DEF Sound
<1>6. t \in Files => Whole(l)
    BY <1>1 DEF Sound, Whole
<1>7. t \in Files /\ l.state \in {"new", "on", "cut"} => \A o \in Offsets : o \in Y \/ Has(l, o)
    BY <1>1, <1>2 DEF Sound
<1> QED BY <1>3, <1>4, <1>5, <1>6, <1>7 DEF Sound

\* A request for a part in the hands of the handler is placed.
LEMMA SoundPlace ==
    ASSUME NEW A, NEW k \in TaskOf(A), NEW t, NEW X, Sound(t, k, X), Apart(k, X),
           Loads(k.state), NEW r, r.offset \in X, ~ForHashes(r),
           NEW l, l = [k EXCEPT !.sent = @ \cup {r}], NEW Y, Y = X \ {r.offset}
    PROVE  Sound(t, l, Y) /\ Apart(l, Y)
<1>1. /\ l.state = k.state /\ l.unchecked = k.unchecked /\ l.fed = k.fed /\ l.todo = k.todo
      /\ l.sent = k.sent \cup {r}
    BY DEF TaskOf
<1>2. \A o \in Offsets : o \in X \/ Has(k, o) => o \in Y \/ Has(l, o)
    BY <1>1 DEF Has
<1>3. Apart(l, Y)
    BY <1>1 DEF Apart
<1>4. \A o \in l.todo : /\ o \notin Y
                        /\ \A q \in l.sent : q.offset # o
                        /\ \A u \in l.unchecked : u.offset # o
    BY <1>1 DEF Sound
<1>6. t \in Files /\ l.state \in {"new", "on", "cut"} => \A o \in Offsets : o \in Y \/ Has(l, o)
    BY <1>1, <1>2 DEF Sound
<1> QED BY <1>1, <1>3, <1>4, <1>6 DEF Sound, Whole, Loads

-----------------------------------------------------------------------------
(* The parts of the handlers.                                              *)

Rest(w, t) == \A u \in Tasks \ {t} : Sound(u, w.task[u], {}) /\ Apart(w.task[u], {})

\* Inside a handler of loader t that has the parts X in its hands.
Mid(w, t, X) ==
    Typed(w) /\ Rest(w, t) /\ Sound(t, w.task[t], X) /\ Apart(w.task[t], X)

LEMMA MidFinish ==
    ASSUME NEW w, NEW t \in Tasks, NEW X, Mid(w, t, X), NEW r \in w.task[t].sent
    PROVE  /\ Mid(FinishSentRequests(w, t, {r}), t, X \cup {r.offset})
           /\ FinishSentRequests(w, t, {r}).queue = w.queue
           /\ FinishSentRequests(w, t, {r}).task[t] = [w.task[t] EXCEPT !.sent = @ \ {r}]
<1>1. PICK A : Int \subseteq A /\ w \in Worlds(A)
    BY DEF Mid, Typed
<1>2. PICK v, S, Y : v = FinishSentRequests(w, t, {r}) /\ S = {r} /\ Y = X \cup {r.offset}
    OBVIOUS
<1>3. /\ v \in Worlds(A)
      /\ Changed(w, v, t, [w.task[t] EXCEPT !.sent = @ \ S], ChangeRequestedAmount(w.dc, S, -1))
    BY <1>1, <1>2, FinishEffect
<1>4. v.queue = w.queue /\ v.task[t] = [w.task[t] EXCEPT !.sent = @ \ {r}] /\ Rest(v, t)
    BY <1>2, <1>3 DEF Changed, Rest, Mid
<1>5. PICK k, l : k = w.task[t] /\ l = v.task[t]
    OBVIOUS
<1>6. k \in TaskOf(A) /\ Sound(t, k, X) /\ Apart(k, X) /\ l = [k EXCEPT !.sent = @ \ {r}]
    BY <1>1, <1>4, <1>5, TaskParts DEF Mid
<1>7. Sound(t, l, Y) /\ Apart(l, Y)
    BY <1>2, <1>5, <1>6, SoundFinish
<1> QED BY <1>1, <1>2, <1>3, <1>4, <1>5, <1>7 DEF Mid, Typed

LEMMA MidCheckSendNext ==
    ASSUME NEW w, NEW t \in Tasks, NEW X, Mid(w, t, X)
    PROVE  /\ Mid(CheckSendNext(w), t, X)
           /\ CheckSendNext(w).queue = w.queue
           /\ \A u \in Tasks : Sends(w.task[u], CheckSendNext(w).task[u])
<1>1. PICK A : Int \subseteq A /\ w \in Worlds(A)
    BY DEF Mid, Typed
<1>2. PICK v : v = CheckSendNext(w)
    OBVIOUS
<1>3. v \in Worlds(A) /\ v.queue = w.queue /\ \A u \in Tasks : Sends(w.task[u], v.task[u])
    BY <1>1, <1>2, CheckSendNextSends
<1>4. \A u \in Tasks : w.task[u] \in TaskOf(A) /\ v.task[u] \in TaskOf(A)
    BY <1>1, <1>3, TaskParts
<1>5. Sound(t, v.task[t], X) /\ Apart(v.task[t], X)
    BY <1>3, <1>4, SoundSends, ApartSends DEF Mid
<1>6. Rest(v, t)
    BY <1>3, <1>4, SoundSends, ApartSends DEF Mid, Rest
<1> QED BY <1>1, <1>2, <1>3, <1>5, <1>6 DEF Mid, Typed

LEMMA DcEffect ==
    ASSUME NEW A, NEW w \in Worlds(A), NEW d \in DcRec
    PROVE  /\ [w EXCEPT !.dc = d] \in Worlds(A) /\ [w EXCEPT !.dc = d].dc = d
           /\ [w EXCEPT !.dc = d].queue = w.queue /\ [w EXCEPT !.dc = d].task = w.task
BY DEF Worlds

LEMMA MidPlace ==
    ASSUME NEW w, NEW t \in Tasks, NEW X, Mid(w, t, X), Loads(w.task[t].state),
           NEW data, data.offset \in X, data.offset \in Offsets, data.index \in 1 .. MaxSessions,
           NEW kind \in Kinds, kind \notin {"hashes", "failed hashes"}
    PROVE  /\ Mid(PlaceSentRequest(w, t, data, kind), t, X \ {data.offset})
           /\ PlaceSentRequest(w, t, data, kind).queue = w.queue
           /\ Loads(PlaceSentRequest(w, t, data, kind).task[t].state)
<1>1. PICK B : Int \subseteq B /\ w \in Worlds(B)
    BY DEF Mid, Typed
<1>2. PICK A : A = B \cup {w.dc.sessions[data.index].requested + 1}
    OBVIOUS
<1>3. Int \subseteq A /\ w \in Worlds(A) /\ w.dc.sessions[data.index].requested + 1 \in A
    <2>1. B \subseteq A
        BY <1>2
    <2> QED BY <1>1, <1>2, <2>1, Widen
<1>4. PICK v, r : v = PlaceSentRequest(w, t, data, kind) /\ r = PlacedRequest(w, data, kind)
    OBVIOUS
<1>5. /\ v \in Worlds(A)
      /\ Changed(w, v, t, [w.task[t] EXCEPT !.sent = @ \cup {r}],
                 ChangeRequestedAmount(w.dc, {r}, 1))
    BY <1>3, <1>4, PlaceEffect
<1>6. r.offset = data.offset /\ ~ForHashes(r)
    BY <1>4 DEF PlacedRequest, ForHashes
<1>7. PICK k, l : k = w.task[t] /\ l = v.task[t]
    OBVIOUS
<1>8. k \in TaskOf(A) /\ Sound(t, k, X) /\ Apart(k, X) /\ l = [k EXCEPT !.sent = @ \cup {r}]
    BY <1>3, <1>5, <1>7, TaskParts DEF Mid, Changed
<1>9. PICK Y : Y = X \ {data.offset}
    OBVIOUS
<1>10. Sound(t, l, Y) /\ Apart(l, Y)
    <2>1. Y = X \ {r.offset} /\ r.offset \in X /\ Loads(k.state)
        BY <1>6, <1>7, <1>9
    <2> QED BY <1>6, <1>8, <2>1, SoundPlace
<1>11. Rest(v, t) /\ v.queue = w.queue
    BY <1>5 DEF Changed, Rest, Mid
<1>12. Loads(l.state)
    BY <1>7, <1>8 DEF TaskOf
<1> QED BY <1>3, <1>4, <1>5, <1>7, <1>9, <1>10, <1>11, <1>12 DEF Mid, Typed

-----------------------------------------------------------------------------
(* Sessions.                                                               *)

LEMMA NoSuccessesType ==
    ASSUME NEW s \in SessionLists
    PROVE  /\ NoSuccesses(s) \in SessionLists /\ Len(NoSuccesses(s)) = Len(s)
           /\ \A i \in 1 .. Len(s) : NoSuccesses(s)[i] = [s[i] EXCEPT !.successes = 0]
<1>1. PICK z : z = NoSuccesses(s)
    OBVIOUS
<1>2. /\ DOMAIN s = 1 .. Len(s) /\ Len(s) \in 1 .. MaxSessions
      /\ \A i \in 1 .. Len(s) : s[i] \in SessionRec
    BY SessionsParts
<1>3. 0 \in 0 .. RetrySuccesses * MaxRemoves
    BY Constants
<1>4. \A i \in 1 .. Len(s) : z[i] = [s[i] EXCEPT !.successes = 0] /\ z[i] \in SessionRec
    BY <1>1, <1>2, <1>3 DEF NoSuccesses, SessionRec
<1>5. z = [i \in 1 .. Len(s) |-> z[i]]
    BY <1>1, <1>2 DEF NoSuccesses
<1>6. z \in [1 .. Len(s) -> SessionRec]
    BY <1>4, <1>5
<1>7. PICK n \in 1 .. MaxSessions : n = Len(s)
    BY <1>2
<1>8. z \in SessionLists /\ Len(z) = n
    BY <1>6, <1>7, IsSessions
<1> QED BY <1>1, <1>4, <1>7, <1>8

\* What a quick answer teaches leaves the record of the data centre in order:
\* only the shares, the successes and the number of sessions change.
LEMMA LearnEffect ==
    ASSUME NEW d \in DcRec, NEW r, NEW soon
    PROVE  LET e == Learn(d, r, soon)
               n == Len(d.sessions)
           IN  /\ e \in DcRec /\ n <= Len(e.sessions)
               /\ \A i \in 1 .. n : e.sessions[i].requested = d.sessions[i].requested
               /\ \A i \in n + 1 .. Len(e.sessions) : e.sessions[i].requested = 0
               /\ e.total = d.total /\ e.kill = d.kill
<1> DEFINE n == Len(d.sessions)
<1>0. PICK h : h = [d.sessions[r.index] EXCEPT
                    !.maxWaited = IF r.amount = @ /\ @ < MaxWaited THEN @ + 1 ELSE @,
                    !.successes = Min({@ + 1, RetrySuccesses * MaxRemoves})]
    OBVIOUS
<1>1. PICK g : g = [d.sessions EXCEPT ![r.index] = h]
    OBVIOUS
<1>2. /\ d.sessions \in SessionLists /\ DOMAIN d.sessions = 1 .. n /\ n \in 1 .. MaxSessions
      /\ d.sessions \in [1 .. n -> SessionRec]
      /\ \A i \in 1 .. n : d.sessions[i] \in SessionRec
    BY SessionsParts DEF DcRec
<1>3. ASSUME NEW i \in 1 .. n PROVE g[i] \in SessionRec /\ g[i].requested = d.sessions[i].requested
    <2>1. CASE i # r.index
        BY <1>1, <1>2, <2>1
    <2>2. CASE i = r.index
        <3>1. PICK q : q = d.sessions[i]
            OBVIOUS
        <3>2. /\ q \in SessionRec /\ q.successes \in 0 .. RetrySuccesses * MaxRemoves
              /\ q.maxWaited \in StartWaited .. MaxWaited
            BY <1>2, <3>1 DEF SessionRec
        <3>3. PICK a, b : /\ a = IF r.amount = q.maxWaited /\ q.maxWaited < MaxWaited
                                 THEN q.maxWaited + 1 ELSE q.maxWaited
                          /\ b = Min({q.successes + 1, RetrySuccesses * MaxRemoves})
            OBVIOUS
        <3>4. a \in StartWaited .. MaxWaited
            BY <3>2, <3>3, Constants
        <3>5. b \in 0 .. RetrySuccesses * MaxRemoves
            <4>1. PICK S : S = {q.successes + 1, RetrySuccesses * MaxRemoves}
                OBVIOUS
            <4>2. RetrySuccesses * MaxRemoves \in Nat
                BY Constants
            <4>3. S \subseteq Nat /\ S # {} /\ RetrySuccesses * MaxRemoves \in S
                BY <3>2, <4>1, <4>2
            <4>4. b \in S /\ b <= RetrySuccesses * MaxRemoves
                BY <3>3, <4>1, <4>3, Smallest
            <4> QED BY <4>2, <4>3, <4>4
        <3>6. g[i] = [q EXCEPT !.maxWaited = a, !.successes = b]
            <4>1. g[i] = [q EXCEPT
                    !.maxWaited = IF r.amount = q.maxWaited /\ q.maxWaited < MaxWaited
                                  THEN q.maxWaited + 1 ELSE q.maxWaited,
                    !.successes = Min({q.successes + 1, RetrySuccesses * MaxRemoves})]
                BY <1>0, <1>1, <1>2, <2>2, <3>1
            <4> QED BY <3>3, <4>1
        <3> QED BY <3>1, <3>2, <3>4, <3>5, <3>6 DEF SessionRec
    <2> QED BY <2>1, <2>2
<1>4. g \in SessionLists /\ Len(g) = n /\ DOMAIN g = 1 .. n
    <2>1. DOMAIN g = 1 .. n /\ g = [i \in 1 .. n |-> g[i]]
        BY <1>1, <1>2
    <2>2. g \in [1 .. n -> SessionRec]
        BY <1>3, <2>1
    <2> HIDE DEF n
    <2> QED BY <1>2, <2>1, <2>2, IsSessions
<1>5. PICK z : z = NoSuccesses(g)
    OBVIOUS
<1>6. z \in SessionLists /\ Len(z) = n /\ \A i \in 1 .. n : z[i] = [g[i] EXCEPT !.successes = 0]
    BY <1>4, <1>5, NoSuccessesType
<1>7. \A i \in 1 .. n : z[i].requested = d.sessions[i].requested
    BY <1>3, <1>6 DEF SessionRec
<1>8. PICK e : e = Learn(d, r, soon)
    OBVIOUS
<1> DEFINE enough == \A i \in DOMAIN g : g[i].successes >= (d.removeTimes + 1) * RetrySuccesses
<1> HIDE DEF n
<1>10. \/ e = [d EXCEPT !.sessions = g]
       \/ d.timeouts > 0 /\ e = [d EXCEPT !.sessions = z, !.timeouts = @ - 1]
       \/ e = [d EXCEPT !.sessions = z]
       \/ Len(g) # MaxSessions /\ e = [d EXCEPT !.sessions = Append(z, NewSession)]
    <2> DEFINE full == Len(g) = MaxSessions \/ (soon /\ d.removeTimes > 0)
    <2>2. PICK e1, e2, e3, e4 :
            /\ e1 = [d EXCEPT !.sessions = g]
            /\ e2 = [d EXCEPT !.sessions = z, !.timeouts = @ - 1]
            /\ e3 = [d EXCEPT !.sessions = z]
            /\ e4 = [d EXCEPT !.sessions = Append(z, NewSession)]
        OBVIOUS
    <2>3. e = CASE ~enough -> e1
                [] enough /\ d.timeouts > 0 -> e2
                [] enough /\ d.timeouts = 0 /\ full -> e3
                [] OTHER -> e4
        <3>1. g = [d.sessions EXCEPT
                    ![r.index].maxWaited = IF r.amount = @ /\ @ < MaxWaited THEN @ + 1 ELSE @,
                    ![r.index].successes = Min({@ + 1, RetrySuccesses * MaxRemoves})]
            BY <1>0, <1>1
        <3>2. Learn(d, r, soon) =
                CASE ~enough -> [d EXCEPT !.sessions = g]
                  [] enough /\ d.timeouts > 0 -> [d EXCEPT !.sessions = z, !.timeouts = @ - 1]
                  [] enough /\ d.timeouts = 0 /\ full -> [d EXCEPT !.sessions = z]
                  [] OTHER -> [d EXCEPT !.sessions = Append(z, NewSession)]
            BY <1>5, <3>1, Zenon DEF Learn
        <3> HIDE DEF full, enough
        <3> QED BY <1>8, <2>2, <3>2, Zenon
    <2>4. (d.timeouts > 0 \/ d.timeouts = 0) /\ ~(d.timeouts > 0 /\ d.timeouts = 0)
        <3>1. d.timeouts \in Nat
            BY Constants DEF DcRec
        <3> QED BY <3>1
    <2> HIDE DEF full, enough
    <2>6. e = e1 \/ (d.timeouts > 0 /\ e = e2) \/ e = e3 \/ (~full /\ e = e4)
        BY <2>3, <2>4, Zenon
    <2>7. ~full => Len(g) # MaxSessions
        BY DEF full
    <2> QED BY <2>2, <2>6, <2>7
<1>11. CASE e = [d EXCEPT !.sessions = g]
    <2>1. e \in DcRec /\ e.sessions = g /\ e.total = d.total /\ e.kill = d.kill
        BY <1>4, <1>11 DEF DcRec
    <2> QED BY <1>2, <1>3, <1>4, <1>8, <2>1 DEF n
<1>12. CASE d.timeouts > 0 /\ e = [d EXCEPT !.sessions = z, !.timeouts = @ - 1]
    <2>0. d.timeouts - 1 \in 0 .. RemoveAfterTimeouts - 1
        BY <1>12, Constants DEF DcRec
    <2>1. e \in DcRec /\ e.sessions = z /\ e.total = d.total /\ e.kill = d.kill
        BY <1>6, <1>12, <2>0 DEF DcRec
    <2> QED BY <1>2, <1>6, <1>7, <1>8, <2>1 DEF n
<1>13. CASE e = [d EXCEPT !.sessions = z]
    <2>1. e \in DcRec /\ e.sessions = z /\ e.total = d.total /\ e.kill = d.kill
        BY <1>6, <1>13 DEF DcRec
    <2> QED BY <1>2, <1>6, <1>7, <1>8, <2>1 DEF n
<1>14. CASE Len(g) # MaxSessions /\ e = [d EXCEPT !.sessions = Append(z, NewSession)]
    <2>0. NewSession \in SessionRec /\ NewSession.requested = 0
        BY Constants DEF NewSession, SessionRec
    <2>1. PICK y : y = Append(z, NewSession)
        OBVIOUS
    <2>2. z \in Seq(SessionRec)
        BY <1>6 DEF SessionLists
    <2>3. /\ y \in Seq(SessionRec) /\ Len(y) = n + 1 /\ y[n + 1] = NewSession
          /\ \A i \in 1 .. n : y[i] = z[i]
        BY <1>6, <2>0, <2>1, <2>2, AppendProperties
    <2>4. y \in SessionLists
        BY <1>2, <1>4, <1>14, <2>3, Constants DEF SessionLists
    <2>5. e \in DcRec /\ e.sessions = y /\ e.total = d.total /\ e.kill = d.kill
        BY <1>14, <2>1, <2>4 DEF DcRec
    <2>6. \A i \in n + 1 .. Len(y) : y[i].requested = 0
        BY <1>2, <2>0, <2>3
    <2> QED BY <1>2, <1>7, <1>8, <2>3, <2>5, <2>6 DEF n
<1> QED BY <1>10, <1>11, <1>12, <1>13, <1>14

\* requestSucceeded, after the request was finished.
LEMMA MidSucceed ==
    ASSUME NEW w, NEW t \in Tasks, NEW X, Mid(w, t, X), NEW r \in w.task[t].sent, NEW pace
    PROVE  /\ Mid(SucceedSentRequest(w, t, r, pace), t, X \cup {r.offset})
           /\ SucceedSentRequest(w, t, r, pace).queue = w.queue
           /\ SucceedSentRequest(w, t, r, pace).task[t].state = w.task[t].state
           /\ SucceedSentRequest(w, t, r, pace).task[t].unchecked = w.task[t].unchecked
<1>1. PICK v, Y : v = FinishSentRequests(w, t, {r}) /\ Y = X \cup {r.offset}
    OBVIOUS
<1>2. /\ Mid(v, t, Y) /\ v.queue = w.queue
      /\ v.task[t] = [w.task[t] EXCEPT !.sent = @ \ {r}]
    BY <1>1, MidFinish
<1>3. PICK A : Int \subseteq A /\ v \in Worlds(A)
    BY <1>2 DEF Mid, Typed
<1>4. PICK e : e = Learn(v.dc, r, pace = "soon")
    OBVIOUS
<1>5. e \in DcRec
    BY <1>3, <1>4, WorldParts, LearnEffect
<1>6. PICK y : y = [v EXCEPT !.dc = e]
    OBVIOUS
<1>7. y \in Worlds(A) /\ y.queue = v.queue /\ y.task = v.task
    BY <1>3, <1>5, <1>6, DcEffect
<1>8. Mid(y, t, Y)
    BY <1>2, <1>3, <1>7 DEF Mid, Typed, Rest
<1>9. PICK z : z = IF \/ r.old \/ r.amount > v.dc.sessions[r.index].maxWaited
                      \/ pace = "slow"
                   THEN v ELSE y
    OBVIOUS
<1>10. SucceedSentRequest(w, t, r, pace) = CheckSendNext(z)
    BY <1>1, <1>4, <1>6, <1>9 DEF SucceedSentRequest
<1>11. Mid(z, t, Y) /\ z.queue = w.queue /\ z.task = v.task
    BY <1>2, <1>7, <1>8, <1>9
<1>12. PICK x : x = CheckSendNext(z)
    OBVIOUS
<1>13. Mid(x, t, Y) /\ x.queue = w.queue /\ Sends(z.task[t], x.task[t])
    BY <1>11, <1>12, MidCheckSendNext
<1>14. x.task[t].state = v.task[t].state /\ x.task[t].unchecked = v.task[t].unchecked
    <2>1. v.task[t] \in TaskOf(A)
        BY <1>3, TaskParts
    <2>2. x.task[t] = [v.task[t] EXCEPT !.todo = x.task[t].todo, !.sent = x.task[t].sent]
        BY <1>11, <1>13 DEF Sends
    <2> QED BY <2>1, <2>2 DEF TaskOf
<1>15. v.task[t].state = w.task[t].state /\ v.task[t].unchecked = w.task[t].unchecked
    <2>1. PICK B : w \in Worlds(B)
        BY DEF Mid, Typed
    <2>2. w.task[t] \in TaskOf(B)
        BY <2>1, TaskParts
    <2> QED BY <1>2, <2>2 DEF TaskOf
<1> QED BY <1>1, <1>10, <1>12, <1>13, <1>14, <1>15

-----------------------------------------------------------------------------
(* The queue.                                                              *)

\* The loaders of queue c are those of queue q, perhaps without t.
Leaves(q, c, t) ==
    /\ \A i \in 1 .. Len(c) : \E j \in 1 .. Len(q) : c[i] = q[j]
    /\ \A j \in 1 .. Len(q) : q[j].task # t => \E i \in 1 .. Len(c) : c[i] = q[j]

\* The loaders of queue c are those of queue q, and t.
Enters(q, c, t) ==
    /\ \E i \in 1 .. Len(c) : c[i].task = t
    /\ \A j \in 1 .. Len(q) : \E i \in 1 .. Len(c) : c[i].task = q[j].task
    /\ \A i \in 1 .. Len(c) : c[i].task = t \/ \E j \in 1 .. Len(q) : c[i].task = q[j].task

\* Entry n of queue q is dropped.
Dropped(q, c, n) ==
    /\ c \in Seq(Entry) /\ Len(c) = Len(q) - 1
    /\ \A i \in 1 .. Len(q) - 1 : c[i] = IF i < n THEN q[i] ELSE q[i + 1]

LEMMA WithoutIs ==
    ASSUME NEW q \in Seq(Entry), NEW t
    PROVE  \/ Without(q, t) = q /\ \A i \in 1 .. Len(q) : q[i].task # t
           \/ \E n \in 1 .. Len(q) : q[n].task = t /\ Dropped(q, Without(q, t), n)
<1>0. Len(q) \in Nat /\ DOMAIN q = 1 .. Len(q) /\ \A i \in 1 .. Len(q) : q[i] \in Entry
    BY LenProperties, ElementOfSeq
<1>1. CASE ~\E i \in DOMAIN q : q[i].task = t
    <2>1. Without(q, t) = q
        BY <1>1 DEF Without
    <2> QED BY <1>0, <1>1, <2>1
<1>2. CASE \E i \in DOMAIN q : q[i].task = t
    <2>1. PICK n : n = CHOOSE i \in DOMAIN q : q[i].task = t
        OBVIOUS
    <2>2. n \in 1 .. Len(q) /\ q[n].task = t
        BY <1>0, <1>2, <2>1
    <2>3. PICK a, b : a = SubSeq(q, 1, n - 1) /\ b = SubSeq(q, n + 1, Len(q))
        OBVIOUS
    <2>4. Without(q, t) = a \o b
        BY <1>2, <2>1, <2>3 DEF Without, RemoveAt
    <2>5. a \in Seq(Entry) /\ Len(a) = n - 1 /\ \A i \in 1 .. n - 1 : a[i] = q[i]
        <3>1. \A i \in 1 .. n - 1 : q[i] \in Entry
            BY <1>0, <2>2
        <3>2. n - 1 \in Int /\ 1 \in Int
            BY <1>0, <2>2
        <3>3. PICK m \in Int : m = n - 1
            BY <3>2
        <3>4. /\ SubSeq(q, 1, m) \in Seq(Entry)
              /\ Len(SubSeq(q, 1, m)) = (IF 1 <= m THEN m - 1 + 1 ELSE 0)
              /\ \A i \in 1 .. m - 1 + 1 : SubSeq(q, 1, m)[i] = q[1 + i - 1]
            BY <3>1, <3>3, SubSeqProperties
        <3> QED BY <1>0, <2>2, <2>3, <3>3, <3>4
    <2>6. b \in Seq(Entry) /\ Len(b) = Len(q) - n /\ \A i \in 1 .. Len(q) - n : b[i] = q[n + i]
        <3>1. n \in 0 .. Len(q)
            BY <1>0, <2>2
        <3> QED BY <2>3, <3>1, RestProperties
    <2>7. PICK c : c = a \o b
        OBVIOUS
    <2>8. /\ c \in Seq(Entry) /\ Len(c) = Len(a) + Len(b)
          /\ \A i \in 1 .. Len(a) + Len(b) : c[i] = IF i <= Len(a) THEN a[i] ELSE b[i - Len(a)]
        BY <2>5, <2>6, <2>7, ConcatProperties
    <2>9. Len(c) = Len(q) - 1
        BY <1>0, <2>2, <2>5, <2>6, <2>8
    <2>10. ASSUME NEW i \in 1 .. Len(q) - 1 PROVE c[i] = IF i < n THEN q[i] ELSE q[i + 1]
        <3>0. i \in 1 .. Len(a) + Len(b)
            BY <2>8, <2>9
        <3>1. CASE i < n
            <4>1. i <= Len(a) /\ i \in 1 .. n - 1
                BY <1>0, <2>2, <2>5, <3>1
            <4>2. c[i] = a[i] /\ a[i] = q[i]
                BY <2>5, <2>8, <3>0, <4>1
            <4> QED BY <3>1, <4>2
        <3>2. CASE ~(i < n)
            <4>1. PICK j : j = i - Len(a)
                OBVIOUS
            <4>2. ~(i <= Len(a)) /\ j \in 1 .. Len(q) - n /\ n + j = i + 1
                <5>1. Len(q) \in Nat /\ n \in 1 .. Len(q) /\ Len(a) = n - 1 /\ ~(i < n)
                    BY <1>0, <2>2, <2>5, <3>2
                <5> QED BY <4>1, <5>1
            <4>3. c[i] = b[j]
                BY <2>8, <3>0, <4>1, <4>2
            <4>4. b[j] = q[n + j]
                BY <2>6, <4>2
            <4> QED BY <3>2, <4>2, <4>3, <4>4
        <3> QED BY <3>1, <3>2
    <2>11. Dropped(q, c, n)
        BY <2>8, <2>9, <2>10 DEF Dropped
    <2>12. c = Without(q, t)
        BY <2>4, <2>7
    <2> QED BY <2>2, <2>11, <2>12
<1> QED BY <1>1, <1>2

LEMMA WithoutEffect ==
    ASSUME NEW q \in Seq(Entry), NEW t
    PROVE  Without(q, t) \in Seq(Entry) /\ Leaves(q, Without(q, t), t)
<1>0. Len(q) \in Nat
    BY LenProperties
<1>1. PICK c : c = Without(q, t)
    OBVIOUS
<1>2. CASE c = q
    BY <1>1, <1>2 DEF Leaves
<1>3. CASE \E n \in 1 .. Len(q) : q[n].task = t /\ Dropped(q, c, n)
    <2>1. PICK n \in 1 .. Len(q) : q[n].task = t /\ Dropped(q, c, n)
        BY <1>3
    <2>2. /\ c \in Seq(Entry) /\ Len(c) = Len(q) - 1
          /\ \A i \in 1 .. Len(q) - 1 : c[i] = IF i < n THEN q[i] ELSE q[i + 1]
        BY <2>1 DEF Dropped
    <2>3. \A i \in 1 .. Len(c) : \E j \in 1 .. Len(q) : c[i] = q[j]
        BY <1>0, <2>2
    <2>4. ASSUME NEW j \in 1 .. Len(q), q[j].task # t PROVE \E i \in 1 .. Len(c) : c[i] = q[j]
        <3>1. CASE j < n
            <4>1. j \in 1 .. Len(c) /\ c[j] = q[j]
                BY <1>0, <2>2, <3>1
            <4> QED BY <4>1
        <3>2. CASE j > n
            <4>1. j - 1 \in 1 .. Len(c) /\ c[j - 1] = q[j]
                BY <1>0, <2>2, <3>2
            <4> QED BY <4>1
        <3> QED BY <1>0, <2>1, <2>4, <3>1, <3>2
    <2>5. Leaves(q, c, t)
        BY <2>3, <2>4 DEF Leaves
    <2> QED BY <1>1, <2>2, <2>5
<1> QED BY <1>1, <1>2, <1>3, WithoutIs

\* Entry e is inserted into queue q at n.
Inserted(q, c, n, e) ==
    /\ c \in Seq(Entry) /\ Len(c) = Len(q) + 1
    /\ \A j \in 1 .. Len(q) + 1 :
         c[j] = IF j < n THEN q[j] ELSE IF j = n THEN e ELSE q[j - 1]

LEMMA InsertedAt ==
    ASSUME NEW s \in Seq(Entry), NEW p \in 1 .. Len(s) + 1, NEW e \in Entry
    PROVE  Inserted(s, InsertAt(s, p, e), p, e)
<1>1. /\ InsertAt(s, p, e) \in Seq(Entry)
      /\ Len(InsertAt(s, p, e)) = Len(s) + 1
      /\ \A j \in 1 .. Len(s) + 1 :
           InsertAt(s, p, e)[j] = IF j < p THEN s[j] ELSE IF j = p THEN e ELSE s[j - 1]
    BY InsertAtProperties
<1> QED BY <1>1 DEF Inserted

LEMMA InQueueIs ==
    ASSUME NEW q \in Seq(Entry), NEW t \in Tasks, NEW p \in 0 .. 1
    PROVE  /\ Without(q, t) \in Seq(Entry)
           /\ \E n \in 1 .. Len(Without(q, t)) + 1 :
                Inserted(Without(q, t), InQueue(q, t, p), n, [task |-> t, priority |-> p])
<1>1. PICK rest : rest = Without(q, t)
    OBVIOUS
<1>2. rest \in Seq(Entry)
    BY <1>1, WithoutEffect
<1>3. PICK e : e = [task |-> t, priority |-> p]
    OBVIOUS
<1>4. e \in Entry
    BY <1>3 DEF Entry
<1>5. Len(rest) \in Nat /\ DOMAIN rest = 1 .. Len(rest)
    BY <1>2, LenProperties
<1>6. PICK S : S = {i \in DOMAIN rest : rest[i].priority <= p} \cup {Len(rest) + 1}
    OBVIOUS
<1>7. PICK n : n = Min(S)
    OBVIOUS
<1>8. n \in 1 .. Len(rest) + 1
    <2>1. S \subseteq Nat /\ S # {} /\ S \subseteq 1 .. Len(rest) + 1
        BY <1>5, <1>6
    <2> QED BY <1>7, <2>1, Smallest
<1>9. PICK c : c = InQueue(q, t, p)
    OBVIOUS
<1>10. c = InsertAt(rest, n, e)
    BY <1>1, <1>3, <1>6, <1>7, <1>9 DEF InQueue
<1>12. Inserted(rest, c, n, e)
    <2>1. Inserted(rest, InsertAt(rest, n, e), n, e)
        BY <1>2, <1>4, <1>8, InsertedAt, Zenon
    <2> QED BY <1>10, <2>1, Zenon
<1> QED BY <1>1, <1>2, <1>3, <1>8, <1>9, <1>12

LEMMA InQueueEffect ==
    ASSUME NEW q \in Seq(Entry), NEW t \in Tasks, NEW p \in 0 .. 1
    PROVE  InQueue(q, t, p) \in Seq(Entry) /\ Enters(q, InQueue(q, t, p), t)
<1>1. PICK rest, c, e : /\ rest = Without(q, t) /\ c = InQueue(q, t, p)
                        /\ e = [task |-> t, priority |-> p]
    OBVIOUS
<1>2. /\ rest \in Seq(Entry)
      /\ \A i \in 1 .. Len(rest) : \E j \in 1 .. Len(q) : rest[i] = q[j]
      /\ \A j \in 1 .. Len(q) : q[j].task # t => \E i \in 1 .. Len(rest) : rest[i] = q[j]
    <2>1. rest \in Seq(Entry) /\ Leaves(q, rest, t)
        BY <1>1, WithoutEffect
    <2> QED BY <2>1 DEF Leaves
<1>3. PICK n \in 1 .. Len(rest) + 1 : Inserted(rest, c, n, e)
    BY <1>1, InQueueIs
<1>4. /\ c \in Seq(Entry) /\ Len(c) = Len(rest) + 1
      /\ \A j \in 1 .. Len(rest) + 1 :
            c[j] = IF j < n THEN rest[j] ELSE IF j = n THEN e ELSE rest[j - 1]
    BY <1>3 DEF Inserted
<1>5. Len(rest) \in Nat
    BY <1>2, LenProperties
<1>12. n \in 1 .. Len(c) /\ c[n].task = t
    BY <1>1, <1>4, <1>5
<1>13. ASSUME NEW i \in 1 .. Len(rest) PROVE \E j \in 1 .. Len(c) : c[j] = rest[i]
    <2>1. CASE i < n
        <3>1. i \in 1 .. Len(c) /\ c[i] = rest[i]
            BY <1>4, <1>5, <2>1
        <3> QED BY <3>1
    <2>2. CASE ~(i < n)
        <3>1. i + 1 \in 1 .. Len(rest) + 1 /\ ~(i + 1 < n) /\ i + 1 # n /\ i + 1 - 1 = i
            BY <1>5, <2>2
        <3>2. i + 1 \in 1 .. Len(c) /\ c[i + 1] = rest[i]
            BY <1>4, <3>1
        <3> QED BY <3>2
    <2> QED BY <2>1, <2>2
<1>14. ASSUME NEW j \in 1 .. Len(q) PROVE \E i \in 1 .. Len(c) : c[i].task = q[j].task
    <2>1. CASE q[j].task = t
        BY <1>12, <2>1
    <2>2. CASE q[j].task # t
        <3>1. PICK i \in 1 .. Len(rest) : rest[i] = q[j]
            BY <1>2, <2>2
        <3> QED BY <1>13, <3>1
    <2> QED BY <2>1, <2>2
<1>15. ASSUME NEW i \in 1 .. Len(c)
       PROVE  c[i].task = t \/ \E j \in 1 .. Len(q) : c[i].task = q[j].task
    <2>1. CASE i = n
        BY <1>12, <2>1
    <2>2. CASE i < n
        <3>1. i \in 1 .. Len(rest) /\ c[i] = rest[i]
            BY <1>4, <1>5, <2>2
        <3> QED BY <1>2, <3>1
    <2>3. CASE i > n
        <3>1. /\ i \in 1 .. Len(rest) + 1 /\ ~(i < n) /\ i # n /\ i - 1 \in 1 .. Len(rest)
            BY <1>4, <1>5, <2>3
        <3>2. c[i] = rest[i - 1]
            BY <1>4, <3>1
        <3> QED BY <1>2, <3>1, <3>2
    <2>4. i = n \/ i < n \/ i > n
        BY <1>4, <1>5
    <2> QED BY <2>1, <2>2, <2>3, <2>4
<1>16. Enters(q, c, t)
    BY <1>12, <1>14, <1>15 DEF Enters
<1> QED BY <1>1, <1>4, <1>16

LEMMA QueueEffect ==
    ASSUME NEW A, NEW w \in Worlds(A), NEW q \in Seq(Entry)
    PROVE  /\ [w EXCEPT !.queue = q] \in Worlds(A) /\ [w EXCEPT !.queue = q].dc = w.dc
           /\ [w EXCEPT !.queue = q].queue = q /\ [w EXCEPT !.queue = q].task = w.task
BY DEF Worlds

\* enqueue and remove send parts, and nothing else.
LEMMA MidAddToQueue ==
    ASSUME NEW w, NEW t \in Tasks, NEW X, Mid(w, t, X), NEW p \in 0 .. 1
    PROVE  /\ Mid(AddToQueue(w, t, p), t, X)
           /\ AddToQueue(w, t, p).queue = InQueue(w.queue, t, p)
           /\ \A u \in Tasks : Sends(w.task[u], AddToQueue(w, t, p).task[u])
<1>1. PICK A : Int \subseteq A /\ w \in Worlds(A)
    BY DEF Mid, Typed
<1>2. PICK q : q = InQueue(w.queue, t, p)
    OBVIOUS
<1>3. q \in Seq(Entry)
    BY <1>1, <1>2, WorldParts, InQueueEffect
<1>4. PICK v : v = [w EXCEPT !.queue = q]
    OBVIOUS
<1>5. v \in Worlds(A) /\ v.queue = q /\ v.task = w.task
    BY <1>1, <1>3, <1>4, QueueEffect
<1>6. Mid(v, t, X)
    BY <1>1, <1>5 DEF Mid, Typed, Rest
<1>7. AddToQueue(w, t, p) = CheckSendNext(v)
    BY <1>2, <1>4 DEF AddToQueue
<1> QED BY <1>2, <1>5, <1>6, <1>7, MidCheckSendNext

LEMMA MidRemoveFromQueue ==
    ASSUME NEW w, NEW t \in Tasks, NEW X, Mid(w, t, X)
    PROVE  /\ Mid(RemoveFromQueue(w, t), t, X)
           /\ RemoveFromQueue(w, t).queue = Without(w.queue, t)
           /\ \A u \in Tasks : Sends(w.task[u], RemoveFromQueue(w, t).task[u])
<1>1. PICK A : Int \subseteq A /\ w \in Worlds(A)
    BY DEF Mid, Typed
<1>2. PICK q : q = Without(w.queue, t)
    OBVIOUS
<1>3. q \in Seq(Entry)
    BY <1>1, <1>2, WorldParts, WithoutEffect
<1>4. PICK v : v = [w EXCEPT !.queue = q]
    OBVIOUS
<1>5. v \in Worlds(A) /\ v.queue = q /\ v.task = w.task
    BY <1>1, <1>3, <1>4, QueueEffect
<1>6. Mid(v, t, X)
    BY <1>1, <1>5 DEF Mid, Typed, Rest
<1>7. RemoveFromQueue(w, t) = CheckSendNext(v)
    BY <1>2, <1>4 DEF RemoveFromQueue
<1> QED BY <1>2, <1>5, <1>6, <1>7, MidCheckSendNext

-----------------------------------------------------------------------------
(* Cancelling.                                                             *)

\* A loader is given other requests, another `more' and other unchecked parts.
WithRequests(k, sent, more, unchecked) ==
    [k EXCEPT !.sent = sent, !.more = more, !.unchecked = unchecked]

LEMMA CancelEffect ==
    ASSUME NEW A, NEW w \in Worlds(A), NEW t \in Tasks, NEW S, S \subseteq w.task[t].sent
    PROVE  \E more \in BOOLEAN :
             /\ CancelRequests(w, t, S) \in Worlds(A)
             /\ Len(CancelRequests(w, t, S).dc.sessions) = Len(w.dc.sessions)
             /\ Changed(w, CancelRequests(w, t, S), t,
                        WithRequests(w.task[t], w.task[t].sent \ S, more, w.task[t].unchecked),
                        ChangeRequestedAmount(w.dc, S, -1))
<1>1. PICK v : v = FinishSentRequests(w, t, S)
    OBVIOUS
<1>2. /\ v \in Worlds(A) /\ Len(v.dc.sessions) = Len(w.dc.sessions)
      /\ Changed(w, v, t, [w.task[t] EXCEPT !.sent = @ \ S], ChangeRequestedAmount(w.dc, S, -1))
    BY <1>1, FinishEffect
<1>3. PICK more \in BOOLEAN :
        more = (v.task[t].more \/ (v.task[t].unchecked # {} /\ \E r \in S : ForHashes(r)))
    OBVIOUS
<1>4. v.task[t] \in TaskOf(A) /\ w.task[t] \in TaskOf(A)
    BY <1>2, TaskParts
<1>5. PICK k : k = [v.task[t] EXCEPT !.more = more]
    OBVIOUS
<1>6. k \in TaskOf(A)
    BY <1>4, <1>5 DEF TaskOf
<1>7. PICK c : c = WithTask(v, t, k)
    OBVIOUS
<1>8. c \in Worlds(A) /\ Changed(v, c, t, k, v.dc)
    BY <1>2, <1>6, <1>7, TaskEffect
<1>9. c = CancelRequests(w, t, S)
    <2>1. CancelRequests(w, t, S) = [v EXCEPT !.task[t].more = more]
        BY <1>1, <1>3 DEF CancelRequests
    <2> QED BY <1>2, <1>5, <1>7, <2>1, WorldParts DEF WithTask
<1>10. k = WithRequests(w.task[t], w.task[t].sent \ S, more, w.task[t].unchecked)
    <2>1. v.task[t] = [w.task[t] EXCEPT !.sent = @ \ S]
        BY <1>2 DEF Changed
    <2> QED BY <1>4, <1>5, <2>1 DEF WithRequests, TaskOf
<1>11. Changed(w, c, t, k, ChangeRequestedAmount(w.dc, S, -1)) /\ c.dc = v.dc
    BY <1>2, <1>8 DEF Changed
<1> QED BY <1>2, <1>8, <1>9, <1>10, <1>11

LEMMA CancelAllEffect ==
    ASSUME NEW A, NEW w \in Worlds(A), NEW t \in Tasks
    PROVE  \E more \in BOOLEAN :
             /\ CancelAllRequests(w, t) \in Worlds(A)
             /\ Len(CancelAllRequests(w, t).dc.sessions) = Len(w.dc.sessions)
             /\ Changed(w, CancelAllRequests(w, t), t, WithRequests(w.task[t], {}, more, {}),
                        ChangeRequestedAmount(w.dc, w.task[t].sent, -1))
<1>1. PICK S : S = w.task[t].sent
    OBVIOUS
<1>2. PICK v : v = CancelRequests(w, t, S)
    OBVIOUS
<1>3. PICK more \in BOOLEAN :
        /\ v \in Worlds(A) /\ Len(v.dc.sessions) = Len(w.dc.sessions)
        /\ Changed(w, v, t,
                   WithRequests(w.task[t], w.task[t].sent \ S, more, w.task[t].unchecked),
                   ChangeRequestedAmount(w.dc, S, -1))
    BY <1>1, <1>2, CancelEffect
<1>4. v.task[t] \in TaskOf(A) /\ w.task[t] \in TaskOf(A)
    BY <1>3, TaskParts
<1>5. PICK k : k = [v.task[t] EXCEPT !.unchecked = {}]
    OBVIOUS
<1>6. k \in TaskOf(A)
    BY <1>4, <1>5 DEF TaskOf
<1>7. PICK c : c = WithTask(v, t, k)
    OBVIOUS
<1>8. c \in Worlds(A) /\ Changed(v, c, t, k, v.dc)
    BY <1>3, <1>6, <1>7, TaskEffect
<1>9. c = CancelAllRequests(w, t)
    <2>1. CancelAllRequests(w, t) = [v EXCEPT !.task[t].unchecked = {}]
        BY <1>1, <1>2 DEF CancelAllRequests
    <2> QED BY <1>3, <1>5, <1>7, <2>1, WorldParts DEF WithTask
<1>10. k = WithRequests(w.task[t], {}, more, {})
    <2>1. v.task[t] = WithRequests(w.task[t], w.task[t].sent \ S, more, w.task[t].unchecked)
        BY <1>3 DEF Changed
    <2>2. w.task[t].sent \ S = {}
        BY <1>1
    <2> QED BY <1>4, <1>5, <2>1, <2>2 DEF WithRequests, TaskOf
<1>11. Changed(w, c, t, k, ChangeRequestedAmount(w.dc, S, -1)) /\ c.dc = v.dc
    BY <1>3, <1>8 DEF Changed
<1> QED BY <1>1, <1>3, <1>8, <1>9, <1>10, <1>11

-----------------------------------------------------------------------------
(* Between the handlers.                                                   *)

Good(w) == Typed(w) /\ \A t \in Tasks : Sound(t, w.task[t], {})

\* placeSentRequest found the offset free.
Distinct(w) == \A t \in Tasks : \A a, b \in w.task[t].sent : a.offset = b.offset => a = b

LEMMA GoodIsMid ==
    ASSUME NEW w, Good(w), Distinct(w), NEW t \in Tasks
    PROVE  Mid(w, t, {})
BY DEF Good, Distinct, Mid, Rest, Apart

LEMMA MidIsGood ==
    ASSUME NEW w, NEW t \in Tasks, Mid(w, t, {})
    PROVE  Good(w)
BY DEF Good, Mid, Rest

\* The last thing a handler does, for one loader.
LEMMA LastIsGood ==
    ASSUME NEW w, NEW t \in Tasks, Rest(w, t), NEW v, NEW k, NEW d, Typed(v),
           Changed(w, v, t, k, d), Sound(t, k, {})
    PROVE  Good(v)
BY DEF Good, Changed, Rest

\* A loader that is cancelled has nothing to keep.
LEMMA GoodCancelFile ==
    ASSUME NEW w, NEW t \in Tasks, Typed(w), Rest(w, t)
    PROVE  Good(CancelFile(w, t))
<1>1. PICK A : Int \subseteq A /\ w \in Worlds(A)
    BY DEF Typed
<1>2. PICK v : v = CancelAllRequests(w, t)
    OBVIOUS
<1>3. PICK more \in BOOLEAN :
        /\ v \in Worlds(A)
        /\ Changed(w, v, t, WithRequests(w.task[t], {}, more, {}),
                   ChangeRequestedAmount(w.dc, w.task[t].sent, -1))
    BY <1>1, <1>2, CancelAllEffect
<1>4. v.task[t] \in TaskOf(A) /\ w.task[t] \in TaskOf(A)
    BY <1>1, <1>3, TaskParts
<1>5. v.task[t].sent = {} /\ v.task[t].unchecked = {}
    BY <1>3, <1>4 DEF Changed, WithRequests, TaskOf
<1>6. PICK k : k = [v.task[t] EXCEPT !.state = "cancelled"]
    OBVIOUS
<1>7. k \in TaskOf(A) /\ k.state = "cancelled" /\ k.sent = {} /\ k.unchecked = {}
    BY <1>4, <1>5, <1>6 DEF TaskOf, States
<1>8. Sound(t, k, {})
    BY <1>7 DEF Sound, Whole, Loads
<1>9. PICK c : c = WithTask(v, t, k)
    OBVIOUS
<1>10. c \in Worlds(A) /\ Changed(v, c, t, k, v.dc)
    BY <1>3, <1>7, <1>9, TaskEffect
<1>11. c = CancelFile(w, t)
    <2>1. CancelFile(w, t) = [v EXCEPT !.task[t].state = "cancelled"]
        BY <1>2 DEF CancelFile
    <2> QED BY <1>3, <1>6, <1>9, <2>1, WorldParts DEF WithTask
<1>12. Changed(w, c, t, k, v.dc)
    BY <1>3, <1>10 DEF Changed
<1> QED BY <1>1, <1>8, <1>10, <1>11, <1>12, LastIsGood DEF Typed

\* A step inside a handler that changes one loader.
LEMMA MidTask ==
    ASSUME NEW w, NEW t \in Tasks, Rest(w, t), NEW v, NEW k, NEW d, NEW Y, Typed(v),
           Changed(w, v, t, k, d), Sound(t, k, Y), Apart(k, Y)
    PROVE  Mid(v, t, Y)
BY DEF Mid, Rest, Changed

\* What a loader knows is replaced inside a handler.
LEMMA MidWithTask ==
    ASSUME NEW A, Int \subseteq A, NEW w \in Worlds(A), NEW t \in Tasks, Rest(w, t),
           NEW k \in TaskOf(A), NEW Y, Sound(t, k, Y), Apart(k, Y)
    PROVE  Mid(WithTask(w, t, k), t, Y) /\ WithTask(w, t, k) \in Worlds(A)
BY TaskEffect, MidTask DEF Typed

\* The owner of a streamed file has the parts: the loader need not keep them.
LEMMA MidStreams ==
    ASSUME NEW w, NEW t \in Tasks, NEW X, Mid(w, t, X), t \notin Files
    PROVE  Mid(w, t, {})
BY DEF Mid, Sound, Apart

-----------------------------------------------------------------------------
(* What the loaders do with a part.                                        *)

LEMMA GoodCancelOnFail ==
    ASSUME NEW w, NEW t \in Tasks, NEW X, Mid(w, t, X)
    PROVE  Good(CancelOnFail(w, t))
<1>1. CASE t \in Files
    <2>1. CancelOnFail(w, t) = CancelFile(w, t)
        BY <1>1 DEF CancelOnFail
    <2> QED BY <2>1, GoodCancelFile DEF Mid
<1>2. CASE t \notin Files
    <2>1. CancelOnFail(w, t) = w
        BY <1>2 DEF CancelOnFail
    <2> QED BY <1>2, <2>1, MidStreams, MidIsGood
<1> QED BY <1>1, <1>2

\* A handler of loader t has the parts X in its hands; some may be asked for
\* once more.
Holding(w, t, X) ==
    Typed(w) /\ Rest(w, t) /\ Sound(t, w.task[t], X) /\ Apart(w.task[t], {})

LEMMA MidIsHolding ==
    ASSUME NEW w, NEW t \in Tasks, NEW X, Mid(w, t, X)
    PROVE  Holding(w, t, X)
BY DEF Mid, Holding, Apart

\* feedPart: the parts are written; when no more are asked for, every part that
\* was asked for is there.
LEMMA MidFeedParts ==
    ASSUME NEW w, NEW t \in Tasks, NEW X, Holding(w, t, X), X \subseteq Offsets,
           Loads(w.task[t].state), NEW short, NEW saved
    PROVE  Mid(FeedParts(w, t, X, short, saved), t, {})
<1>1. CASE t \in Streams
    <2>1. t \notin Files
        BY <1>1, DownloadsAssumption
    <2>2. FeedParts(w, t, X, short, saved) = w
        BY <1>1 DEF FeedParts
    <2> QED BY <2>1, <2>2 DEF Holding, Mid, Sound
<1>2. CASE t \notin Streams
    <2>0. t \in Files
        BY <1>2 DEF Tasks
    <2>1. PICK A : Int \subseteq A /\ w \in Worlds(A)
        BY DEF Holding, Typed
    <2>2. PICK state : state = IF short THEN "cut" ELSE w.task[t].state
        OBVIOUS
    <2>3. PICK k, l : /\ k = [w.task[t] EXCEPT !.fed = w.task[t].fed \cup X, !.state = state]
                      /\ l = w.task[t]
        OBVIOUS
    <2>4. l \in TaskOf(A) /\ Sound(t, l, X) /\ Apart(l, {}) /\ Loads(l.state)
        BY <2>1, <2>3, TaskParts DEF Holding
    <2>5. /\ k \in TaskOf(A) /\ k.fed = l.fed \cup X /\ k.state = state /\ k.todo = l.todo
          /\ k.sent = l.sent /\ k.unchecked = l.unchecked /\ Loads(k.state)
        <3>1. state \in States /\ Loads(state)
            BY <2>2, <2>3, <2>4 DEF TaskOf, States, Loads
        <3> QED BY <2>3, <2>4, <3>1 DEF TaskOf
    <2>6. Sound(t, k, {}) /\ Apart(k, {}) /\ \A o \in Offsets : Has(k, o)
        <3>1. \A o \in Offsets : o \in X \/ Has(l, o)
            BY <2>0, <2>4 DEF Sound, Loads
        <3>2. \A o \in Offsets : Has(k, o)
            BY <2>5, <3>1 DEF Has
        <3>3. Whole(k)
            BY <2>5 DEF Whole, Loads
        <3> QED BY <2>4, <2>5, <3>2, <3>3 DEF Sound, Apart
    <2>7. PICK v : v = WithTask(w, t, k)
        OBVIOUS
    <2>8. v \in Worlds(A) /\ Mid(v, t, {}) /\ v.task[t] = k
        BY <2>1, <2>5, <2>6, <2>7, MidWithTask, TaskEffect DEF Holding, Changed
    <2>9. v = [w EXCEPT !.task[t].fed = @ \cup X, !.task[t].state = state]
        BY <2>1, <2>3, <2>7, WorldParts DEF WithTask
    <2>10. CASE ~HaveSentRequests(l) /\ (state = "cut" \/ l.todo = {})
        <3>1. PICK x, end : /\ x = RemoveFromQueue(v, t)
                            /\ end = IF ~saved THEN "cancelled"
                                     ELSE IF state = "cut" THEN "short" ELSE "done"
            OBVIOUS
        <3>2. Mid(x, t, {}) /\ Sends(k, x.task[t])
            BY <2>8, <3>1, MidRemoveFromQueue
        <3>3. PICK B : Int \subseteq B /\ x \in Worlds(B)
            BY <3>2 DEF Mid, Typed
        <3>4. PICK m : m = x.task[t]
            OBVIOUS
        <3>5. m \in TaskOf(B) /\ m.fed = k.fed /\ m.unchecked = {} /\ m.sent = {} /\ m.todo = k.todo
            <4>0. Sends(k, m) /\ k.unchecked = {} /\ k.sent = {} /\ (state = "cut" \/ k.todo = {})
                BY <2>5, <2>10, <3>2, <3>4 DEF HaveSentRequests
            <4>1. m.todo = k.todo /\ m.sent = {} /\ m = [k EXCEPT !.todo = m.todo, !.sent = m.sent]
                <5>1. CASE state = "cut"
                    BY <2>5, <4>0, <5>1 DEF Sends, TaskOf
                <5>2. CASE k.todo = {}
                    BY <4>0, <5>2 DEF Sends
                <5> QED BY <4>0, <5>1, <5>2
            <4>2. m.fed = k.fed /\ m.unchecked = k.unchecked
                BY <2>5, <4>1 DEF TaskOf
            <4> QED BY <3>3, <3>4, <4>0, <4>1, <4>2, TaskParts
        <3>6. \A o \in Offsets : o \in k.todo \/ o \in k.fed
            BY <2>5, <2>6, <2>10 DEF Has, HaveSentRequests
        <3>7. PICK n : n = [m EXCEPT !.state = end]
            OBVIOUS
        <3>8. /\ n \in TaskOf(B) /\ n.state = end /\ n.fed = k.fed /\ n.todo = k.todo
              /\ n.sent = {} /\ n.unchecked = {}
            BY <3>1, <3>5, <3>7 DEF TaskOf, States
        <3>9. Sound(t, n, {}) /\ Apart(n, {})
            <4>1. end \in {"cancelled", "short", "done"} /\ (end = "done" => state # "cut")
                BY <3>1
            <4>2. Whole(n)
                BY <2>5, <2>10, <3>6, <3>8, <4>1 DEF Whole, TaskOf
            <4>3. ~Loads(end) /\ end \notin {"new", "on", "cut"}
                BY <4>1 DEF Loads
            <4> QED BY <3>8, <4>2, <4>3 DEF Sound, Apart
        <3>10. PICK y : y = WithTask(x, t, n)
            OBVIOUS
        <3>11. Mid(y, t, {})
            BY <3>2, <3>3, <3>8, <3>9, <3>10, MidWithTask DEF Mid
        <3>12. y = [x EXCEPT !.task[t].state = end]
            BY <3>3, <3>4, <3>7, <3>10, WorldParts DEF WithTask
        <3>13. FeedParts(w, t, X, short, saved) = [x EXCEPT !.task[t].state = end]
            BY <1>2, <2>2, <2>3, <2>9, <2>10, <3>1 DEF FeedParts
        <3> QED BY <3>11, <3>12, <3>13
    <2>11. CASE ~(~HaveSentRequests(l) /\ (state = "cut" \/ l.todo = {}))
        <3>1. FeedParts(w, t, X, short, saved) = v
            BY <1>2, <2>2, <2>3, <2>9, <2>11 DEF FeedParts
        <3> QED BY <2>8, <3>1
    <2> QED BY <2>10, <2>11
<1> QED BY <1>1, <1>2

\* requestMoreCdnFileHashes: the request is not for a part, so nothing else is
\* known of its offset than that the part waits.
LEMMA GoodRequestMore ==
    ASSUME NEW w, NEW t \in Tasks, Typed(w), Rest(w, t), Sound(t, w.task[t], {})
    PROVE  Good(RequestMoreCdnFileHashes(w, t))
<1>1. CASE w.task[t].unchecked = {} \/ \E r \in w.task[t].sent : ForHashes(r)
    <2>1. RequestMoreCdnFileHashes(w, t) = w
        BY <1>1 DEF RequestMoreCdnFileHashes
    <2> QED BY <2>1 DEF Good, Rest
<1>2. CASE ~(w.task[t].unchecked = {} \/ \E r \in w.task[t].sent : ForHashes(r))
    <2>1. PICK B : Int \subseteq B /\ w \in Worlds(B)
        BY DEF Typed
    <2>2. PICK k : k = w.task[t]
        OBVIOUS
    <2>3. k \in TaskOf(B) /\ k.unchecked \subseteq Part /\ k.unchecked # {} /\ Sound(t, k, {})
        BY <1>2, <2>1, <2>2, TaskParts
    <2>4. \E u \in k.unchecked : \A v \in k.unchecked : u.offset <= v.offset
        <3> DEFINE S == {u.offset : u \in k.unchecked}
        <3>1. S \subseteq Nat /\ S # {}
            BY <2>3, Constants DEF Part, Offsets
        <3>2. Min(S) \in S /\ \A o \in S : Min(S) <= o
            <4> HIDE DEF S
            <4> QED BY <3>1, Smallest
        <3> QED BY <3>2
    <2>5. PICK first : first = CHOOSE u \in k.unchecked : \A v \in k.unchecked : u.offset <= v.offset
        OBVIOUS
    <2>6. first \in k.unchecked
        BY <2>4, <2>5
    <2>7. first.offset \in Offsets /\ first.index \in 1 .. MaxSessions /\ "hashes" \in Kinds
        BY <2>3, <2>6 DEF Part, Kinds
    <2>8. PICK v : v = PlaceSentRequest(w, t, first, "hashes")
        OBVIOUS
    <2>9. RequestMoreCdnFileHashes(w, t) = v
        BY <1>2, <2>2, <2>5, <2>8 DEF RequestMoreCdnFileHashes
    <2>10. PICK A : A = B \cup {w.dc.sessions[first.index].requested + 1}
        OBVIOUS
    <2>11. Int \subseteq A /\ w \in Worlds(A) /\ w.dc.sessions[first.index].requested + 1 \in A
        <3>1. B \subseteq A
            BY <2>10
        <3> QED BY <2>1, <2>10, <3>1, Widen
    <2>12. PICK r : r = PlacedRequest(w, first, "hashes")
        OBVIOUS
    <2>13. /\ v \in Worlds(A)
           /\ Changed(w, v, t, [k EXCEPT !.sent = @ \cup {r}], ChangeRequestedAmount(w.dc, {r}, 1))
        BY <2>2, <2>7, <2>8, <2>11, <2>12, PlaceEffect
    <2>14. PICK l : l = [k EXCEPT !.sent = @ \cup {r}]
        OBVIOUS
    <2>15. /\ l.state = k.state /\ l.unchecked = k.unchecked /\ l.fed = k.fed /\ l.todo = k.todo
           /\ l.sent = k.sent \cup {r} /\ r.offset = first.offset
        BY <2>3, <2>12, <2>14 DEF TaskOf, PlacedRequest
    <2>16. Sound(t, l, {})
        <3>1. \A o \in Offsets : Has(k, o) => Has(l, o)
            BY <2>15 DEF Has
        <3> QED BY <2>3, <2>6, <2>15, <3>1 DEF Sound, Whole, Loads
    <2>17. Typed(v)
        BY <2>11, <2>13 DEF Typed
    <2> QED BY <2>9, <2>13, <2>14, <2>16, <2>17, LastIsGood
<1> QED BY <1>1, <1>2

\* Inside a handler the loader changes but for its requests.
LEMMA SameRequests ==
    ASSUME NEW t, NEW k, NEW l, NEW X, Sound(t, k, X), Apart(k, X), l.state = k.state,
           l.todo = k.todo, l.sent = k.sent, l.unchecked = k.unchecked, l.fed = k.fed
    PROVE  Sound(t, l, X) /\ Apart(l, X)
BY DEF Sound, Apart, Has, Whole, Loads

LEMMA MidAddCdnHashes ==
    ASSUME NEW w, NEW t \in Tasks, NEW X, Mid(w, t, X), NEW hashes \in SUBSET Offsets
    PROVE  /\ Mid(AddCdnHashes(w, t, hashes), t, X)
           /\ AddCdnHashes(w, t, hashes).queue = w.queue
           /\ AddCdnHashes(w, t, hashes).dc = w.dc
           /\ AddCdnHashes(w, t, hashes).task[t] =
                [w.task[t] EXCEPT !.hashes = w.task[t].hashes \cup hashes]
           /\ \A u \in Tasks \ {t} : AddCdnHashes(w, t, hashes).task[u] = w.task[u]
<1>1. PICK A : Int \subseteq A /\ w \in Worlds(A)
    BY DEF Mid, Typed
<1>2. PICK k : k = [w.task[t] EXCEPT !.hashes = w.task[t].hashes \cup hashes]
    OBVIOUS
<1>3. PICK l : l = w.task[t]
    OBVIOUS
<1>4. l \in TaskOf(A) /\ Sound(t, l, X) /\ Apart(l, X)
    BY <1>1, <1>3, TaskParts DEF Mid
<1>5. /\ k \in TaskOf(A) /\ k.fed = l.fed /\ k.state = l.state /\ k.todo = l.todo
      /\ k.sent = l.sent /\ k.unchecked = l.unchecked
    BY <1>2, <1>3, <1>4 DEF TaskOf
<1>6. Sound(t, k, X) /\ Apart(k, X)
    BY <1>4, <1>5, SameRequests
<1>7. PICK v : v = WithTask(w, t, k)
    OBVIOUS
<1>8. Mid(v, t, X) /\ Changed(w, v, t, k, w.dc)
    BY <1>1, <1>5, <1>6, <1>7, MidWithTask, TaskEffect DEF Mid
<1>9. v = AddCdnHashes(w, t, hashes)
    <2>1. AddCdnHashes(w, t, hashes) = [w EXCEPT !.task[t].hashes = @ \cup hashes]
        BY DEF AddCdnHashes
    <2> QED BY <1>1, <1>2, <1>7, <2>1, WorldParts DEF WithTask
<1> QED BY <1>2, <1>8, <1>9 DEF Changed

\* The requests made again are for the same parts, with the same sessions.
LEMMA RenewedIs ==
    ASSUME NEW B, NEW w \in Worlds(B), NEW t \in Tasks
    PROVE  \E A : /\ B \subseteq A /\ Renewed(w, t) \in SentOf(A)
                  /\ \E f \in [w.task[t].sent -> Renewed(w, t)] :
                       /\ \A r \in w.task[t].sent :
                            f[r].offset = r.offset /\ f[r].index = r.index /\ f[r].kind = "part"
                       /\ \A q \in Renewed(w, t) : \E r \in w.task[t].sent : f[r] = q
<1>1. PICK sent : sent = w.task[t].sent
    OBVIOUS
<1>2. sent \subseteq RequestOf(B) /\ IsFiniteSet(sent)
    BY <1>1, TaskParts
<1> DEFINE Amount(r) == w.dc.sessions[r.index].requested
                        - Cardinality({q \in sent : q.index = r.index /\ q.offset > r.offset})
<1>3. PICK f : f = [r \in sent |-> [r EXCEPT !.kind = "part", !.old = FALSE, !.amount = Amount(r)]]
    OBVIOUS
<1>4. PICK S : S = {[r EXCEPT !.kind = "part", !.old = FALSE, !.amount = Amount(r)] : r \in sent}
    OBVIOUS
<1>5. Renewed(w, t) = S
    BY <1>1, <1>4 DEF Renewed
<1>6. PICK A : A = B \cup {Amount(r) : r \in sent}
    OBVIOUS
<1>7. \A r \in sent : Amount(r) \in A
    BY <1>6
<1> HIDE DEF Amount
<1>8. ASSUME NEW r \in sent
      PROVE  /\ f[r] \in RequestOf(A) /\ f[r] \in S
             /\ f[r].offset = r.offset /\ f[r].index = r.index /\ f[r].kind = "part"
    <2>1. f[r] = [r EXCEPT !.kind = "part", !.old = FALSE, !.amount = Amount(r)]
        BY <1>3
    <2> QED BY <1>2, <1>4, <1>7, <2>1 DEF RequestOf, Kinds
<1>9. S = {f[r] : r \in sent}
    BY <1>3, <1>4
<1>10. IsFiniteSet(S)
    <2>1. DOMAIN f = sent
        BY <1>3
    <2>2. f \in Surjection(sent, S)
        BY <1>3, <1>8, <1>9 DEF Surjection
    <2> QED BY <1>2, <2>2, FS_Surjection
<1>11. S \in SentOf(A)
    BY <1>8, <1>9, <1>10 DEF SentOf
<1>12. f \in [sent -> S]
    BY <1>3, <1>8
<1>13. B \subseteq A /\ \A q \in S : \E r \in sent : f[r] = q
    BY <1>6, <1>9
<1>14. \A r \in sent : f[r].offset = r.offset /\ f[r].index = r.index /\ f[r].kind = "part"
    BY <1>8
<1> QED BY <1>1, <1>5, <1>11, <1>12, <1>13, <1>14

\* Requests replaced by others for the same parts.
LEMMA SoundRenewed ==
    ASSUME NEW A, NEW k \in TaskOf(A), NEW t, NEW X, Sound(t, k, X), Apart(k, X),
           NEW S, NEW f \in [k.sent -> S],
           \A r \in k.sent : f[r].offset = r.offset /\ (ForHashes(f[r]) => ForHashes(r)),
           \A q \in S : \E r \in k.sent : f[r] = q,
           NEW l, l.state = k.state, l.todo = k.todo, l.sent = S, l.unchecked = k.unchecked,
           l.fed = k.fed
    PROVE  Sound(t, l, X) /\ Apart(l, X)
<1>1. ASSUME NEW o \in Offsets, Has(k, o) PROVE Has(l, o)
    <2>1. CASE \E r \in k.sent : ~ForHashes(r) /\ r.offset = o
        <3>1. PICK r \in k.sent : ~ForHashes(r) /\ r.offset = o
            BY <2>1
        <3>2. f[r] \in S /\ ~ForHashes(f[r]) /\ f[r].offset = o
            BY <3>1
        <3> QED BY <3>2 DEF Has
    <2>2. CASE ~\E r \in k.sent : ~ForHashes(r) /\ r.offset = o
        BY <1>1, <2>2 DEF Has
    <2> QED BY <2>1, <2>2
<1>2. Apart(l, X)
    BY DEF Apart
<1>3. \A o \in l.todo : /\ o \notin X
                        /\ \A q \in l.sent : q.offset # o
                        /\ \A u \in l.unchecked : u.offset # o
    BY DEF Sound
<1>4. ~Loads(l.state) => l.sent = {} /\ l.unchecked = {}
    BY DEF Sound
<1> QED BY <1>1, <1>2, <1>3, <1>4 DEF Sound, Whole, Loads

\* changeCDNParams: what the loader knows before the part is asked for again.
CdnTask(w, t, cdn, hashes) ==
    [w.task[t] EXCEPT !.cdn = cdn, !.hashes = w.task[t].hashes \cup hashes,
                      !.sent = IF w.task[t].cdn # cdn THEN Renewed(w, t) ELSE w.task[t].sent]

LEMMA ChangeCDNParamsIs ==
    ASSUME NEW B, NEW w \in Worlds(B), NEW t \in Tasks, NEW data, NEW cdn \in BOOLEAN,
           NEW hashes \in SUBSET Offsets
    PROVE  ChangeCDNParams(w, t, data, cdn, hashes) =
                MakeRequest(WithTask(w, t, CdnTask(w, t, cdn, hashes)), t, data)
<1>1. PICK k, l : k = w.task[t] /\ l = CdnTask(w, t, cdn, hashes)
    OBVIOUS
<1>2. k \in TaskOf(B)
    BY <1>1, TaskParts
<1>3. PICK sent : sent = IF k.cdn # cdn THEN Renewed(w, t) ELSE k.sent
    OBVIOUS
<1>4. PICK a, b, c : /\ a = [w EXCEPT !.task[t].cdn = cdn]
                     /\ b = [a EXCEPT !.task[t].hashes = @ \cup hashes]
                     /\ c = [b EXCEPT !.task[t].sent = sent]
    OBVIOUS
<1>5. ChangeCDNParams(w, t, data, cdn, hashes) = MakeRequest(c, t, data)
    BY <1>1, <1>3, <1>4 DEF ChangeCDNParams, AddCdnHashes
<1>6. PICK ka, kb : ka = [k EXCEPT !.cdn = cdn] /\ kb = [ka EXCEPT !.hashes = k.hashes \cup hashes]
    OBVIOUS
<1>7. a = WithTask(w, t, ka) /\ ka \in TaskOf(B) /\ ka.hashes = k.hashes
    BY <1>1, <1>2, <1>4, <1>6, WorldParts DEF WithTask, TaskOf
<1>8. a \in Worlds(B) /\ Changed(w, a, t, ka, w.dc)
    BY <1>7, TaskEffect
<1>9. b = WithTask(a, t, kb) /\ kb \in TaskOf(B)
    <2>1. kb \in TaskOf(B)
        BY <1>2, <1>6, <1>7 DEF TaskOf
    <2>2. a.task[t] = ka
        BY <1>8 DEF Changed
    <2>3. b = WithTask(a, t, [a.task[t] EXCEPT !.hashes = a.task[t].hashes \cup hashes])
        BY <1>4, <1>8, WorldParts DEF WithTask
    <2> QED BY <1>6, <1>7, <2>1, <2>2, <2>3
<1>10. b \in Worlds(B) /\ Changed(a, b, t, kb, a.dc)
    BY <1>8, <1>9, TaskEffect
<1>11. c = WithTask(b, t, l)
    <2>1. b.task[t] = kb
        BY <1>10 DEF Changed
    <2>2. c = WithTask(b, t, [b.task[t] EXCEPT !.sent = sent])
        BY <1>4, <1>10, WorldParts DEF WithTask
    <2>3. l = [k EXCEPT !.cdn = cdn, !.hashes = k.hashes \cup hashes, !.sent = sent]
        BY <1>1, <1>3 DEF CdnTask
    <2>4. l = [kb EXCEPT !.sent = sent]
        BY <1>2, <1>6, <2>3 DEF TaskOf
    <2> QED BY <2>1, <2>2, <2>4
<1>12. c = WithTask(w, t, l)
    BY <1>7, <1>9, <1>11, WithTaskTwice
<1> QED BY <1>1, <1>5, <1>12

\* changeCDNParams: the part in the hands of the handler is asked for again.
LEMMA GoodChangeCDNParams ==
    ASSUME NEW w, NEW t \in Tasks, NEW data, Mid(w, t, {data.offset}), Loads(w.task[t].state),
           data.offset \in Offsets, data.index \in 1 .. MaxSessions,
           NEW cdn \in BOOLEAN, NEW hashes \in SUBSET Offsets
    PROVE  Good(ChangeCDNParams(w, t, data, cdn, hashes))
<1>1. PICK B : Int \subseteq B /\ w \in Worlds(B)
    BY DEF Mid, Typed
<1>2. PICK k, X : k = w.task[t] /\ X = {data.offset}
    OBVIOUS
<1>3. k \in TaskOf(B) /\ Sound(t, k, X) /\ Apart(k, X) /\ Loads(k.state)
    BY <1>1, <1>2, TaskParts DEF Mid
<1>4. PICK sent : sent = IF k.cdn # cdn THEN Renewed(w, t) ELSE k.sent
    OBVIOUS
<1>5. PICK l : l = [k EXCEPT !.cdn = cdn, !.hashes = k.hashes \cup hashes, !.sent = sent]
    OBVIOUS
<1>6. \E A : Int \subseteq A /\ w \in Worlds(A) /\ l \in TaskOf(A) /\ Sound(t, l, X) /\ Apart(l, X)
    <2>1. CASE k.cdn # cdn
        <3>1. PICK A : /\ B \subseteq A /\ sent \in SentOf(A)
                       /\ \E f \in [k.sent -> sent] :
                            /\ \A r \in k.sent : f[r].offset = r.offset /\ f[r].index = r.index
                                                 /\ f[r].kind = "part"
                            /\ \A q \in sent : \E r \in k.sent : f[r] = q
            BY <1>1, <1>2, <1>4, <2>1, RenewedIs
        <3>2. PICK f \in [k.sent -> sent] :
                /\ \A r \in k.sent : f[r].offset = r.offset /\ f[r].index = r.index
                                     /\ f[r].kind = "part"
                /\ \A q \in sent : \E r \in k.sent : f[r] = q
            BY <3>1
        <3>3. Int \subseteq A /\ w \in Worlds(A)
            BY <1>1, <3>1, Widen
        <3>4. k \in TaskOf(A)
            BY <1>2, <3>3, TaskParts
        <3>5. /\ l \in TaskOf(A) /\ l.state = k.state /\ l.todo = k.todo /\ l.sent = sent
              /\ l.unchecked = k.unchecked /\ l.fed = k.fed
            BY <1>5, <3>1, <3>4 DEF TaskOf
        <3>6. \A r \in k.sent : f[r].offset = r.offset /\ (ForHashes(f[r]) => ForHashes(r))
            BY <3>2 DEF ForHashes
        <3>7. Sound(t, l, X) /\ Apart(l, X)
            BY <1>3, <3>2, <3>4, <3>5, <3>6, SoundRenewed
        <3> QED BY <3>3, <3>5, <3>7
    <2>2. CASE k.cdn = cdn
        <3>1. sent = k.sent
            BY <1>4, <2>2
        <3>2. /\ l \in TaskOf(B) /\ l.state = k.state /\ l.todo = k.todo /\ l.sent = k.sent
              /\ l.unchecked = k.unchecked /\ l.fed = k.fed
            BY <1>3, <1>5, <3>1 DEF TaskOf
        <3>3. Sound(t, l, X) /\ Apart(l, X)
            BY <1>3, <3>2, SameRequests
        <3> QED BY <1>1, <3>2, <3>3
    <2> QED BY <2>1, <2>2
<1>7. PICK A : Int \subseteq A /\ w \in Worlds(A) /\ l \in TaskOf(A) /\ Sound(t, l, X) /\ Apart(l, X)
    BY <1>6
<1>8. PICK v : v = WithTask(w, t, l)
    OBVIOUS
<1>9. Mid(v, t, X) /\ v.task[t] = l
    BY <1>7, <1>8, MidWithTask, TaskEffect DEF Mid, Changed
<1>10. Loads(l.state)
    BY <1>3, <1>5 DEF TaskOf
<1>11. PICK x : x = MakeRequest(v, t, data)
    OBVIOUS
<1>12. Mid(x, t, X \ {data.offset}) /\ X \ {data.offset} = {}
    <2>1. "part" \in Kinds /\ "part" \notin {"hashes", "failed hashes"} /\ data.offset \in X
        BY <1>2 DEF Kinds
    <2>2. x = PlaceSentRequest(v, t, data, "part")
        BY <1>11 DEF MakeRequest
    <2>3. Mid(x, t, X \ {data.offset})
        BY <1>9, <1>10, <2>1, <2>2, MidPlace
    <2> QED BY <1>2, <2>3
<1>13. ChangeCDNParams(w, t, data, cdn, hashes) = x
    <2>1. l = CdnTask(w, t, cdn, hashes)
        BY <1>2, <1>4, <1>5 DEF CdnTask
    <2> QED BY <1>1, <1>8, <1>11, <2>1, ChangeCDNParamsIs
<1> QED BY <1>12, <1>13, MidIsGood

-----------------------------------------------------------------------------
(* The removal of a session.                                               *)

\* cancelRequest of one request: its part is in the hands of the handler,
\* unless it was for hashes.
LEMMA MidCancel ==
    ASSUME NEW A, Int \subseteq A, NEW w \in Worlds(A), NEW t \in Tasks, Mid(w, t, {}),
           NEW r \in w.task[t].sent
    PROVE  /\ Mid(CancelRequests(w, t, {r}), t, {r.offset})
           /\ ForHashes(r) => Mid(CancelRequests(w, t, {r}), t, {})
<1>1. PICK S, k, v : S = {r} /\ k = w.task[t] /\ v = CancelRequests(w, t, S)
    OBVIOUS
<1>2. PICK more \in BOOLEAN :
        /\ v \in Worlds(A)
        /\ Changed(w, v, t, WithRequests(k, k.sent \ S, more, k.unchecked),
                   ChangeRequestedAmount(w.dc, S, -1))
    BY <1>1, CancelEffect
<1>3. k \in TaskOf(A) /\ k.sent \in SentOf(A) /\ k.unchecked \in SUBSET Part
      /\ Sound(t, k, {}) /\ Apart(k, {})
    BY <1>1, TaskParts DEF Mid, SentOf
<1>4. PICK l : l = WithRequests(k, k.sent \ S, more, k.unchecked)
    OBVIOUS
<1>5. k.sent \ S \in SentOf(A)
    BY <1>3, FS_Subset DEF SentOf
<1>6. /\ l.state = k.state /\ l.todo = k.todo /\ l.sent = k.sent \ S /\ l.unchecked = k.unchecked
      /\ l.fed = k.fed
    BY <1>3, <1>4 DEF WithRequests, TaskOf
<1>7. PICK Y : Y = {} \cup {r.offset}
    OBVIOUS
<1>8. PICK m : m = [k EXCEPT !.sent = @ \ {r}]
    OBVIOUS
<1>9. Sound(t, m, Y) /\ Apart(m, Y)
    BY <1>1, <1>3, <1>7, <1>8, SoundFinish
<1>10. /\ m.state = k.state /\ m.todo = k.todo /\ m.sent = k.sent \ S /\ m.unchecked = k.unchecked
       /\ m.fed = k.fed
    BY <1>1, <1>3, <1>8 DEF TaskOf
<1>11. Sound(t, l, Y) /\ Apart(l, Y)
    BY <1>6, <1>9, <1>10, SameRequests
<1>12. ForHashes(r) => Sound(t, l, {}) /\ Apart(l, {})
    <2> HAVE ForHashes(r)
    <2>1. \A o \in Offsets : Has(k, o) => Has(l, o)
        BY <1>1, <1>6 DEF Has
    <2> QED BY <1>3, <1>6, <2>1 DEF Sound, Apart, Whole, Loads
<1>13. Typed(v) /\ Rest(w, t) /\ Y = {r.offset}
    BY <1>2, <1>7 DEF Typed, Mid
<1> QED BY <1>1, <1>2, <1>4, <1>11, <1>12, <1>13, MidTask

\* The requests of loader t for part o with session i.
Those(w, t, i, o) == {r \in w.task[t].sent : r.index = i /\ r.offset = o}

\* Parts that wait for a hash go to another session.
Away(w, t, i) ==
    [w EXCEPT !.task[t].unchecked =
        {IF u.index = i THEN [u EXCEPT !.index = ChooseSessionIndex(w)] ELSE u : u \in @}]

\* A part is sent again, to the session with the least to do.
Resend(v, t, r) ==
    MakeRequest(v, t, [offset |-> r.offset, index |-> ChooseSessionIndex(v)])

LEMMA RedirectCases ==
    ASSUME NEW w, NEW t, NEW S, \A a, b \in S : a = b
    PROVE  \/ S = {} /\ Redirect(w, t, S) = CancelRequests(w, t, S)
           \/ \E r \in S : /\ S = {r} /\ ForHashes(r)
                           /\ Redirect(w, t, S) = CancelRequests(w, t, {r})
           \/ \E r \in S : /\ S = {r} /\ ~ForHashes(r)
                           /\ Redirect(w, t, S) = Resend(CancelRequests(w, t, {r}), t, r)
<1>1. PICK again : again = {r \in S : ~ForHashes(r)}
    OBVIOUS
<1>2. PICK c : c = CHOOSE a \in again : TRUE
    OBVIOUS
<1>3. PICK v : v = CancelRequests(w, t, S)
    OBVIOUS
<1>4. Redirect(w, t, S) = IF again = {} THEN v ELSE Resend(v, t, c)
    BY <1>1, <1>2, <1>3 DEF Redirect, Resend
<1>5. CASE S = {}
    BY <1>1, <1>3, <1>4, <1>5
<1>6. CASE S # {}
    <2>1. PICK r \in S : S = {r}
        BY <1>6
    <2>2. CASE ForHashes(r)
        <3>1. again = {}
            BY <1>1, <2>1, <2>2
        <3> QED BY <1>3, <1>4, <2>1, <2>2, <3>1
    <2>3. CASE ~ForHashes(r)
        <3>1. again = {r}
            BY <1>1, <2>1, <2>3
        <3>2. c = r
            BY <1>2, <3>1
        <3>3. Redirect(w, t, S) = Resend(v, t, r)
            BY <1>4, <3>1, <3>2
        <3>4. Redirect(w, t, S) = Resend(CancelRequests(w, t, {r}), t, r)
            BY <1>3, <2>1, <3>3
        <3> QED BY <2>1, <2>3, <3>4
    <2> QED BY <2>2, <2>3
<1> QED BY <1>5, <1>6

\* What is left of other offsets stays.
LEMMA ResendEffect ==
    ASSUME NEW A, Int \subseteq A, NEW v \in Worlds(A), NEW t \in Tasks, NEW r,
           r.offset \in Offsets, Mid(v, t, {r.offset}), Loads(v.task[t].state)
    PROVE  /\ Resend(v, t, r) \in Worlds(A) /\ Mid(Resend(v, t, r), t, {})
           /\ \E q : /\ q = PlacedRequest(v, [offset |-> r.offset, index |-> ChooseSessionIndex(v)], "part")
                     /\ Changed(v, Resend(v, t, r), t, [v.task[t] EXCEPT !.sent = @ \cup {q}],
                                ChangeRequestedAmount(v.dc, {q}, 1))
<1>1. PICK i : i = ChooseSessionIndex(v)
    OBVIOUS
<1>2. i \in 1 .. Len(v.dc.sessions) /\ Len(v.dc.sessions) \in 1 .. MaxSessions
      /\ v.dc.sessions[i] \in SessionRec
    BY <1>1, WorldParts, ChosenSession, SessionsParts DEF DcRec
<1>3. PICK data : data = [offset |-> r.offset, index |-> i]
    OBVIOUS
<1>4. PICK x : x = Resend(v, t, r)
    OBVIOUS
<1>5. x = PlaceSentRequest(v, t, data, "part")
    BY <1>1, <1>3, <1>4 DEF Resend, MakeRequest
<1>6. PICK X : X = {r.offset}
    OBVIOUS
<1>7. /\ data.offset \in Offsets /\ data.index \in 1 .. MaxSessions /\ data.offset \in X
      /\ "part" \in Kinds /\ "part" \notin {"hashes", "failed hashes"}
      /\ v.dc.sessions[data.index].requested + 1 \in A /\ X \ {data.offset} = {}
    BY <1>2, <1>3, <1>6, Constants DEF Kinds, SessionRec
<1>8. PICK q : q = PlacedRequest(v, data, "part")
    OBVIOUS
<1>9. /\ x \in Worlds(A)
      /\ Changed(v, x, t, [v.task[t] EXCEPT !.sent = @ \cup {q}], ChangeRequestedAmount(v.dc, {q}, 1))
    BY <1>5, <1>7, <1>8, PlaceEffect
<1>10. Mid(x, t, X \ {data.offset})
    <2>1. Mid(v, t, X)
        BY <1>6
    <2> QED BY <1>5, <1>7, <2>1, MidPlace
<1>11. Mid(x, t, {})
    BY <1>7, <1>10
<1> QED BY <1>1, <1>3, <1>4, <1>8, <1>9, <1>11

\* While the requests of loader t are redirected: those of the first o parts
\* were looked at.
Stage(A, w, t, o) ==
    {v \in Worlds(A) :
        /\ Mid(v, t, {})
        /\ v.queue = w.queue /\ Len(v.dc.sessions) = Len(w.dc.sessions)
        /\ \A u \in Tasks \ {t} : v.task[u] = w.task[u]
        /\ \A r : r.offset > o => (r \in v.task[t].sent <=> r \in w.task[t].sent)}

\* The sessions stay as many as they were.
LEMMA PlacedLen ==
    ASSUME NEW d \in DcRec, NEW r
    PROVE  Len(ChangeRequestedAmount(d, {r}, 1).sessions) = Len(d.sessions)
<1>1. PICK S : S = {r}
    OBVIOUS
<1>2. IsFiniteSet(S) /\ S # {}
    BY <1>1, FS_Singleton
<1> QED BY <1>1, <1>2, ChangeEffect

LEMMA RedirectStep ==
    ASSUME NEW A, Int \subseteq A, NEW w \in Worlds(A), NEW t \in Tasks, NEW i,
           NEW o \in 1 .. PartsCount, NEW v \in Stage(A, w, t, o - 1)
    PROVE  /\ Redirect(v, t, Those(w, t, i, o)) \in Stage(A, w, t, o)
           /\ Those(w, t, i, o) \subseteq v.task[t].sent
           /\ \A a, b \in Those(w, t, i, o) : a = b
<1>0. o \in Nat /\ o > o - 1 /\ PartsCount \in Nat
    BY Constants
<1>1. PICK S : S = Those(w, t, i, o)
    OBVIOUS
<1>2. /\ v \in Worlds(A) /\ Mid(v, t, {}) /\ v.queue = w.queue
      /\ Len(v.dc.sessions) = Len(w.dc.sessions)
      /\ \A u \in Tasks \ {t} : v.task[u] = w.task[u]
      /\ \A r : r.offset > o - 1 => (r \in v.task[t].sent <=> r \in w.task[t].sent)
    BY DEF Stage
<1>3. S \subseteq v.task[t].sent /\ \A r \in S : r.offset = o
    <2>1. \A r \in S : r \in w.task[t].sent /\ r.offset = o
        BY <1>1 DEF Those
    <2> QED BY <1>0, <1>2, <2>1
<1>4. \A a, b \in S : a = b
    BY <1>2, <1>3 DEF Mid, Apart
<1>5. PICK k : k = v.task[t]
    OBVIOUS
<1>6. /\ k \in TaskOf(A) /\ k.sent \subseteq RequestOf(A) /\ Sound(t, k, {}) /\ Apart(k, {})
      /\ w.task[t].sent \subseteq RequestOf(A)
    BY <1>2, <1>5, TaskParts DEF Mid
<1>7. PICK c : c = CancelRequests(v, t, S)
    OBVIOUS
<1>8. PICK more \in BOOLEAN :
        /\ c \in Worlds(A) /\ Len(c.dc.sessions) = Len(v.dc.sessions)
        /\ Changed(v, c, t, WithRequests(k, k.sent \ S, more, k.unchecked),
                   ChangeRequestedAmount(v.dc, S, -1))
    BY <1>2, <1>3, <1>5, <1>7, CancelEffect
<1>9. /\ c.queue = v.queue /\ c.task[t].sent = k.sent \ S /\ c.task[t].state = k.state
      /\ c.task[t].todo = k.todo /\ c.task[t].unchecked = k.unchecked /\ c.task[t].fed = k.fed
      /\ \A u \in Tasks \ {t} : c.task[u] = v.task[u]
    BY <1>6, <1>8 DEF Changed, WithRequests, TaskOf
<1>10. \A r : r.offset > o => (r \in c.task[t].sent <=> r \in w.task[t].sent)
    <2> SUFFICES ASSUME NEW r, r.offset > o PROVE r \in c.task[t].sent <=> r \in w.task[t].sent
        OBVIOUS
    <2>1. r \notin S
        BY <1>0, <1>3
    <2>2. r \in k.sent \/ r \in w.task[t].sent => r.offset \in Int
        BY <1>6 DEF RequestOf, Offsets
    <2>3. r.offset \in Int => r.offset > o - 1
        BY <1>0
    <2> QED BY <1>2, <1>5, <1>9, <2>1, <2>2, <2>3
<1>11. \/ S = {} /\ Redirect(v, t, S) = CancelRequests(v, t, S)
       \/ \E r \in S : /\ S = {r} /\ ForHashes(r)
                       /\ Redirect(v, t, S) = CancelRequests(v, t, {r})
       \/ \E r \in S : /\ S = {r} /\ ~ForHashes(r)
                       /\ Redirect(v, t, S) = Resend(CancelRequests(v, t, {r}), t, r)
    BY <1>4, RedirectCases
<1>12. CASE S = {} /\ Redirect(v, t, S) = CancelRequests(v, t, S)
    <2>1. c.task[t].sent = k.sent
        BY <1>9, <1>12
    <2>2. Sound(t, c.task[t], {}) /\ Apart(c.task[t], {})
        BY <1>6, <1>9, <2>1, SameRequests
    <2>3. Mid(c, t, {})
        BY <1>2, <1>8, <1>9, <2>2 DEF Mid, Typed, Rest
    <2>4. c \in Stage(A, w, t, o)
        BY <1>2, <1>8, <1>9, <1>10, <2>3 DEF Stage
    <2> QED BY <1>1, <1>3, <1>4, <1>7, <1>12, <2>4
<1>13. CASE \E r \in S : /\ S = {r} /\ ForHashes(r)
                         /\ Redirect(v, t, S) = CancelRequests(v, t, {r})
    <2>1. PICK r \in S : /\ S = {r} /\ ForHashes(r)
                         /\ Redirect(v, t, S) = CancelRequests(v, t, {r})
        BY <1>13
    <2>2. Mid(CancelRequests(v, t, {r}), t, {})
        BY <1>2, <1>3, <2>1, MidCancel
    <2>3. Mid(c, t, {})
        BY <1>7, <2>1, <2>2
    <2>4. c \in Stage(A, w, t, o)
        BY <1>2, <1>8, <1>9, <1>10, <2>3 DEF Stage
    <2> QED BY <1>1, <1>3, <1>4, <1>7, <2>1, <2>4
<1>14. CASE \E r \in S : /\ S = {r} /\ ~ForHashes(r)
                         /\ Redirect(v, t, S) = Resend(CancelRequests(v, t, {r}), t, r)
    <2>1. PICK r \in S : /\ S = {r} /\ ~ForHashes(r)
                         /\ Redirect(v, t, S) = Resend(CancelRequests(v, t, {r}), t, r)
        BY <1>14
    <2>2. Mid(CancelRequests(v, t, {r}), t, {r.offset})
        BY <1>2, <1>3, <2>1, MidCancel
    <2>3. Mid(c, t, {r.offset}) /\ Loads(c.task[t].state) /\ r.offset \in Offsets
        BY <1>3, <1>5, <1>6, <1>7, <1>9, <2>1, <2>2 DEF Sound, RequestOf
    <2>4. PICK x : x = Resend(c, t, r)
        OBVIOUS
    <2>5. /\ x \in Worlds(A) /\ Mid(x, t, {})
          /\ \E q : /\ q = PlacedRequest(c, [offset |-> r.offset, index |-> ChooseSessionIndex(c)], "part")
                    /\ Changed(c, x, t, [c.task[t] EXCEPT !.sent = @ \cup {q}],
                               ChangeRequestedAmount(c.dc, {q}, 1))
        BY <1>8, <2>3, <2>4, ResendEffect
    <2>6. PICK q : /\ q = PlacedRequest(c, [offset |-> r.offset, index |-> ChooseSessionIndex(c)], "part")
                   /\ Changed(c, x, t, [c.task[t] EXCEPT !.sent = @ \cup {q}],
                              ChangeRequestedAmount(c.dc, {q}, 1))
        BY <2>5
    <2>7. q.offset = o
        BY <1>3, <2>1, <2>6 DEF PlacedRequest
    <2>8. c.task[t] \in TaskOf(A) /\ c.dc \in DcRec
        BY <1>8, TaskParts, WorldParts
    <2>9. /\ x.queue = w.queue /\ x.task[t].sent = c.task[t].sent \cup {q}
          /\ \A u \in Tasks \ {t} : x.task[u] = w.task[u]
        BY <1>2, <1>9, <2>6, <2>8 DEF Changed, TaskOf
    <2>10. Len(x.dc.sessions) = Len(w.dc.sessions)
        <3>1. x.dc = ChangeRequestedAmount(c.dc, {q}, 1)
            BY <2>6 DEF Changed
        <3>2. Len(ChangeRequestedAmount(c.dc, {q}, 1).sessions) = Len(c.dc.sessions)
            BY <2>8, PlacedLen
        <3> QED BY <1>2, <1>8, <3>1, <3>2
    <2>11. \A a : a.offset > o => (a \in x.task[t].sent <=> a \in w.task[t].sent)
        BY <1>0, <1>10, <2>7, <2>9
    <2>12. x \in Stage(A, w, t, o)
        BY <2>5, <2>9, <2>10, <2>11 DEF Stage
    <2> QED BY <1>1, <1>3, <1>4, <1>7, <2>1, <2>4, <2>12
<1> QED BY <1>11, <1>12, <1>13, <1>14

\* removeSession of a loader: what is kept when the requests of each part are
\* redirected holds in the end.
LEMMA RedirectFromIn ==
    ASSUME NEW w, NEW t, NEW i, NEW U, NEW V \in [0 .. PartsCount -> SUBSET U],
           Away(w, t, i) \in V[0],
           \A o \in 1 .. PartsCount : \A v \in V[o - 1] : Redirect(v, t, Those(w, t, i, o)) \in V[o]
    PROVE  RedirectFrom(w, t, i) \in V[PartsCount]
<1>0. PICK n : n = PartsCount
    OBVIOUS
<1>1. n \in Nat
    BY <1>0, Constants
<1> DEFINE away == [w EXCEPT !.task[t].unchecked =
                        {IF u.index = i THEN [u EXCEPT !.index = ChooseSessionIndex(w)] ELSE u :
                            u \in @}]
           after[o \in 0 .. PartsCount] ==
                IF o = 0 THEN away
                ELSE Redirect(after[o - 1], t, {r \in w.task[t].sent : r.index = i /\ r.offset = o})
<1>2. RedirectFrom(w, t, i) = after[n]
    BY <1>0 DEF RedirectFrom
<1>3. away = Away(w, t, i)
    BY DEF Away
<1> HIDE DEF away
<1>4. PICK F : F = [p \in (1 .. n) \X U |-> Redirect(p[2], t, Those(w, t, i, p[1]))]
    OBVIOUS
<1>5. \A k \in 1 .. n : \A v \in U : F[<<k, v>>] = Redirect(v, t, Those(w, t, i, k))
    <2> HIDE DEF after
    <2> QED BY <1>4
<1>6. \A k \in 1 .. n : k \in 0 .. n /\ k - 1 \in 0 .. n
    <2> HIDE DEF after
    <2> QED BY <1>1
<1>7. \A k \in 0 .. n : V[k] \subseteq U
    <2> HIDE DEF after
    <2> QED BY <1>0
<1>8. Leads(n, V, F)
    <2> HIDE DEF after
    <2>1. ASSUME NEW k \in 1 .. n, NEW v \in V[k - 1] PROVE F[<<k, v>>] \in V[k]
        <3>1. v \in U
            BY <1>6, <1>7
        <3> QED BY <1>0, <1>5, <3>1
    <2> QED BY <2>1 DEF Leads
<1>9. PICK g \in [0 .. n -> U] : Iterates(n, V, F, away, g)
    <2> HIDE DEF after
    <2> QED BY <1>0, <1>1, <1>3, <1>8, Iteration
<1>10. g = [o \in 0 .. PartsCount |->
            IF o = 0 THEN away
            ELSE Redirect(g[o - 1], t, {r \in w.task[t].sent : r.index = i /\ r.offset = o})]
    <2> HIDE DEF after
    <2>1. \A k \in 1 .. n : g[k - 1] \in U
        BY <1>6
    <2>2. ASSUME NEW k \in 0 .. n
          PROVE  g[k] = IF k = 0 THEN away
                        ELSE Redirect(g[k - 1], t, {r \in w.task[t].sent : r.index = i /\ r.offset = k})
        <3>1. CASE k = 0
            BY <1>9, <3>1 DEF Iterates
        <3>2. CASE k # 0
            <4>1. k \in 1 .. n
                BY <1>1, <3>2
            <4>2. g[k] = F[<<k, g[k - 1]>>]
                BY <1>9, <4>1 DEF Iterates
            <4>3. g[k] = Redirect(g[k - 1], t, Those(w, t, i, k))
                BY <1>5, <2>1, <4>1, <4>2
            <4> QED BY <3>2, <4>3 DEF Those
        <3> QED BY <3>1, <3>2
    <2> QED BY <1>0, <2>2
<1>11. after = [o \in 0 .. PartsCount |->
            IF o = 0 THEN away
            ELSE Redirect(after[o - 1], t, {r \in w.task[t].sent : r.index = i /\ r.offset = o})]
    BY <1>10, Zenon
<1> HIDE DEF after
<1>12. after[0] \in V[0]
    BY <1>0, <1>1, <1>3, <1>11
<1>13. ASSUME NEW k \in 1 .. n, after[k - 1] \in V[k - 1] PROVE after[k] \in V[k]
    <2>0. k \in 0 .. PartsCount /\ k # 0
        BY <1>0, <1>1
    <2>1. after[k] = Redirect(after[k - 1], t, {r \in w.task[t].sent : r.index = i /\ r.offset = k})
        BY <1>11, <2>0, Zenon
    <2>2. after[k] = Redirect(after[k - 1], t, Those(w, t, i, k))
        BY <2>1 DEF Those
    <2> QED BY <1>0, <1>13, <2>2
<1>14. \A k \in 0 .. n : after[k] \in V[k]
    <2>1. PICK h : h = after
        OBVIOUS
    <2>2. h[0] \in V[0] /\ \A k \in 1 .. n : h[k - 1] \in V[k - 1] => h[k] \in V[k]
        BY <1>12, <1>13, <2>1
    <2>3. \A k \in 0 .. n : h[k] \in V[k]
        BY <1>1, <2>2, IterationIn
    <2> QED BY <2>1, <2>3
<1> QED BY <1>0, <1>1, <1>2, <1>14

\* The parts N that wait for a hash are the parts S, with session j for session i.
Rehomed(S, N, i, j) ==
    /\ \A n \in N : \E u \in S :
         n.offset = u.offset /\ n.index = IF u.index = i THEN j ELSE u.index
    /\ \A u \in S : \E n \in N : n.offset = u.offset

LEMMA AwayEffect ==
    ASSUME NEW A, Int \subseteq A, NEW w \in Worlds(A), NEW t \in Tasks, NEW i
    PROVE  \E N \in SUBSET Part :
             /\ Away(w, t, i) = WithTask(w, t, [w.task[t] EXCEPT !.unchecked = N])
             /\ [w.task[t] EXCEPT !.unchecked = N] \in TaskOf(A)
             /\ Rehomed(w.task[t].unchecked, N, i, ChooseSessionIndex(w))
<1>1. PICK k : k = w.task[t]
    OBVIOUS
<1>2. PICK j : j = ChooseSessionIndex(w)
    OBVIOUS
<1>3. j \in 1 .. MaxSessions
    BY <1>2, WorldParts, ChosenSession, SessionsParts, Constants DEF DcRec
<1>4. k \in TaskOf(A) /\ k.unchecked \subseteq Part
    BY <1>1, TaskParts
<1>5. PICK N : N = {IF u.index = i THEN [u EXCEPT !.index = j] ELSE u : u \in k.unchecked}
    OBVIOUS
<1>6. Away(w, t, i) = WithTask(w, t, [k EXCEPT !.unchecked = N])
    <2>1. Away(w, t, i) = [w EXCEPT !.task[t].unchecked = N]
        BY <1>1, <1>2, <1>5 DEF Away
    <2> QED BY <1>1, <2>1, WorldParts DEF WithTask
<1>7. ASSUME NEW u \in k.unchecked
      PROVE  LET n == IF u.index = i THEN [u EXCEPT !.index = j] ELSE u
             IN  n \in Part /\ n.offset = u.offset /\ n.index = IF u.index = i THEN j ELSE u.index
    BY <1>3, <1>4 DEF Part
<1>8. N \in SUBSET Part
    BY <1>5, <1>7
<1>9. [k EXCEPT !.unchecked = N] \in TaskOf(A)
    BY <1>4, <1>8 DEF TaskOf
<1>10. Rehomed(k.unchecked, N, i, j)
    BY <1>5, <1>7 DEF Rehomed
<1> QED BY <1>1, <1>2, <1>6, <1>8, <1>9, <1>10

LEMMA AwayStage ==
    ASSUME NEW A, Int \subseteq A, NEW w \in Worlds(A), NEW t \in Tasks, NEW i, Mid(w, t, {})
    PROVE  Away(w, t, i) \in Stage(A, w, t, 0)
<1>1. PICK N \in SUBSET Part :
             /\ Away(w, t, i) = WithTask(w, t, [w.task[t] EXCEPT !.unchecked = N])
             /\ [w.task[t] EXCEPT !.unchecked = N] \in TaskOf(A)
             /\ Rehomed(w.task[t].unchecked, N, i, ChooseSessionIndex(w))
    BY AwayEffect
<1>2. PICK k, l : k = w.task[t] /\ l = [k EXCEPT !.unchecked = N]
    OBVIOUS
<1>3. k \in TaskOf(A) /\ l \in TaskOf(A) /\ Sound(t, k, {}) /\ Apart(k, {})
    BY <1>1, <1>2, TaskParts DEF Mid
<1>4. /\ l.state = k.state /\ l.todo = k.todo /\ l.sent = k.sent /\ l.unchecked = N
      /\ l.fed = k.fed
    BY <1>2, <1>3 DEF TaskOf
<1>5. Sound(t, l, {}) /\ Apart(l, {})
    <2>1. \A n \in N : \E u \in k.unchecked : n.offset = u.offset
        BY <1>1, <1>2 DEF Rehomed
    <2>2. \A u \in k.unchecked : \E n \in N : n.offset = u.offset
        BY <1>1, <1>2 DEF Rehomed
    <2>3. \A o \in Offsets : Has(k, o) => Has(l, o)
        BY <1>4, <2>2 DEF Has
    <2>4. k.unchecked = {} => N = {}
        BY <2>1
    <2> QED BY <1>3, <1>4, <2>1, <2>3, <2>4 DEF Sound, Apart, Whole, Loads
<1>6. PICK v : v = Away(w, t, i)
    OBVIOUS
<1>7. v = WithTask(w, t, l)
    BY <1>1, <1>2, <1>6
<1>8. v \in Worlds(A) /\ Changed(w, v, t, l, w.dc) /\ Mid(v, t, {})
    BY <1>3, <1>5, <1>7, TaskEffect, MidWithTask DEF Mid
<1>9. /\ v.queue = w.queue /\ v.dc = w.dc /\ v.task[t].sent = w.task[t].sent
      /\ \A u \in Tasks \ {t} : v.task[u] = w.task[u]
    BY <1>2, <1>4, <1>8 DEF Changed
<1>10. v \in Stage(A, w, t, 0)
    BY <1>8, <1>9 DEF Stage
<1> QED BY <1>6, <1>10

LEMMA RedirectFromStage ==
    ASSUME NEW A, Int \subseteq A, NEW w \in Worlds(A), NEW t \in Tasks, NEW i, Mid(w, t, {})
    PROVE  RedirectFrom(w, t, i) \in Stage(A, w, t, PartsCount)
<1>1. PICK V : V = [o \in 0 .. PartsCount |-> Stage(A, w, t, o)]
    OBVIOUS
<1>2. V \in [0 .. PartsCount -> SUBSET Worlds(A)]
    <2>1. \A o \in 0 .. PartsCount : Stage(A, w, t, o) \subseteq Worlds(A)
        BY DEF Stage
    <2> QED BY <1>1, <2>1
<1>3. Away(w, t, i) \in V[0]
    BY <1>1, AwayStage, Constants
<1>4. ASSUME NEW o \in 1 .. PartsCount, NEW v \in V[o - 1]
      PROVE  Redirect(v, t, Those(w, t, i, o)) \in V[o]
    <2>1. o \in 0 .. PartsCount /\ o - 1 \in 0 .. PartsCount
        BY Constants
    <2>2. v \in Stage(A, w, t, o - 1)
        BY <1>1, <2>1
    <2>3. Redirect(v, t, Those(w, t, i, o)) \in Stage(A, w, t, o)
        BY <2>2, RedirectStep
    <2> QED BY <1>1, <2>1, <2>3
<1>5. RedirectFrom(w, t, i) \in V[PartsCount]
    BY <1>2, <1>3, <1>4, RedirectFromIn
<1> QED BY <1>1, <1>5, Constants

\* removeSession of the manager: what is kept when the requests of each loader
\* are redirected holds before the session goes.
Full(w) ==
    [w EXCEPT !.dc.sessions[Len(w.dc.sessions)].requested = @ + MaxWaited * MaxSessions]

Aged(r) == [r EXCEPT !.old = TRUE]

Removed(w, v) ==
    [v EXCEPT
        !.dc.sessions = SubSeq(@, 1, Len(w.dc.sessions) - 1),
        !.dc.removeTimes = IF w.dc.removeIndex = Len(w.dc.sessions)
                           THEN Min({@ + 1, MaxRemoves}) ELSE 1,
        !.dc.removeIndex = Len(w.dc.sessions),
        !.task = [t \in Tasks |-> [v.task[t] EXCEPT !.sent = {Aged(r) : r \in @}]]]

LEMMA RemoveSessionIn ==
    ASSUME NEW w, NEW n \in Nat, n = Len(w.queue), NEW U, NEW V \in [0 .. n -> SUBSET U],
           Full(w) \in V[0],
           \A k \in 1 .. n : \A v \in V[k - 1] :
                RedirectFrom(v, w.queue[k].task, Len(w.dc.sessions)) \in V[k]
    PROVE  \E v \in V[n] : RemoveSession(w) = Removed(w, v)
<1> DEFINE i == Len(w.dc.sessions)
           full == [w EXCEPT !.dc.sessions[i].requested = @ + MaxWaited * MaxSessions]
           after[k \in 0 .. Len(w.queue)] ==
                IF k = 0 THEN full ELSE RedirectFrom(after[k - 1], w.queue[k].task, i)
<1>2. RemoveSession(w) = Removed(w, after[Len(w.queue)])
    BY DEF RemoveSession, Removed, Aged
<1>3. full = Full(w)
    BY DEF Full
<1> HIDE DEF full, i
<1>4. PICK F : F = [p \in (1 .. n) \X U |-> RedirectFrom(p[2], w.queue[p[1]].task, i)]
    OBVIOUS
<1>5. \A k \in 1 .. n : \A v \in U : F[<<k, v>>] = RedirectFrom(v, w.queue[k].task, i)
    <2> HIDE DEF after
    <2> QED BY <1>4
<1>6. \A k \in 1 .. n : k \in 0 .. n /\ k - 1 \in 0 .. n
    <2> HIDE DEF after
    <2> QED OBVIOUS
<1>8. Leads(n, V, F)
    <2> HIDE DEF after
    <2>1. ASSUME NEW k \in 1 .. n, NEW v \in V[k - 1] PROVE F[<<k, v>>] \in V[k]
        <3>1. v \in U
            BY <1>6
        <3> QED BY <1>5, <3>1 DEF i
    <2> QED BY <2>1 DEF Leads
<1>9. PICK g \in [0 .. n -> U] : Iterates(n, V, F, full, g)
    <2> HIDE DEF after
    <2> QED BY <1>3, <1>8, Iteration
<1>10. g = [k \in 0 .. Len(w.queue) |->
            IF k = 0 THEN full ELSE RedirectFrom(g[k - 1], w.queue[k].task, i)]
    <2> HIDE DEF after
    <2>1. \A k \in 1 .. n : g[k - 1] \in U
        BY <1>6
    <2>2. ASSUME NEW k \in 0 .. n
          PROVE  g[k] = IF k = 0 THEN full ELSE RedirectFrom(g[k - 1], w.queue[k].task, i)
        <3>1. CASE k = 0
            BY <1>9, <3>1 DEF Iterates
        <3>2. CASE k # 0
            <4>1. k \in 1 .. n
                BY <3>2
            <4>2. g[k] = F[<<k, g[k - 1]>>]
                BY <1>9, <4>1 DEF Iterates
            <4> QED BY <1>5, <2>1, <3>2, <4>1, <4>2
        <3> QED BY <3>1, <3>2
    <2> QED BY <2>2
<1>11. after = [k \in 0 .. Len(w.queue) |->
            IF k = 0 THEN full ELSE RedirectFrom(after[k - 1], w.queue[k].task, i)]
    BY <1>10, Zenon
<1> HIDE DEF after
<1>12. after[0] \in V[0]
    BY <1>3, <1>11
<1>13. ASSUME NEW k \in 1 .. n, after[k - 1] \in V[k - 1] PROVE after[k] \in V[k]
    <2>1. after[k] = RedirectFrom(after[k - 1], w.queue[k].task, i)
        BY <1>11, SMTT(30)
    <2> QED BY <1>13, <2>1 DEF i
<1>14. \A k \in 0 .. n : after[k] \in V[k]
    <2>1. PICK h : h = after
        OBVIOUS
    <2>2. h[0] \in V[0] /\ \A k \in 1 .. n : h[k - 1] \in V[k - 1] => h[k] \in V[k]
        BY <1>12, <1>13, <2>1
    <2>3. \A k \in 0 .. n : h[k] \in V[k]
        BY <2>2, IterationIn
    <2> QED BY <2>1, <2>3
<1> QED BY <1>2, <1>14

LEMMA FullEffect ==
    ASSUME NEW A, NEW w \in Worlds(A)
    PROVE  /\ Full(w) \in Worlds(A) /\ Full(w).queue = w.queue /\ Full(w).task = w.task
           /\ Len(Full(w).dc.sessions) = Len(w.dc.sessions)
           /\ \A j \in 1 .. Len(w.dc.sessions) :
                Full(w).dc.sessions[j].requested =
                    w.dc.sessions[j].requested
                        + IF j = Len(w.dc.sessions) THEN MaxWaited * MaxSessions ELSE 0
           /\ Full(w).dc.total = w.dc.total /\ Full(w).dc.kill = w.dc.kill
<1>1. PICK n, B : n = Len(w.dc.sessions) /\ B = MaxWaited * MaxSessions
    OBVIOUS
<1>2. PICK d, s : d = w.dc /\ s = w.dc.sessions
    OBVIOUS
<1>3. d \in DcRec /\ s \in SessionLists
    BY <1>2, WorldParts DEF DcRec
<1>4. /\ DOMAIN s = 1 .. n /\ n \in 1 .. MaxSessions /\ s \in [1 .. n -> SessionRec]
      /\ \A i \in 1 .. n : s[i] \in SessionRec
    BY <1>1, <1>2, <1>3, SessionsParts
<1>5. B \in Nat /\ n \in 1 .. n
    BY <1>1, <1>4, Constants
<1>6. PICK h : h = [s[n] EXCEPT !.requested = s[n].requested + B]
    OBVIOUS
<1>7. h \in SessionRec /\ h.requested = s[n].requested + B
    BY <1>4, <1>5, <1>6 DEF SessionRec
<1>8. PICK g : g = [s EXCEPT ![n] = h]
    OBVIOUS
<1>9. g \in [1 .. n -> SessionRec] /\ g[n] = h /\ \A j \in 1 .. n : j # n => g[j] = s[j]
    BY <1>4, <1>5, <1>7, <1>8
<1>10. g \in SessionLists /\ Len(g) = n
    BY <1>4, <1>9, IsSessions
<1>11. PICK e : e = [d EXCEPT !.sessions = g]
    OBVIOUS
<1>12. e \in DcRec /\ e.sessions = g /\ e.total = d.total /\ e.kill = d.kill
    BY <1>3, <1>10, <1>11 DEF DcRec
<1>13. PICK v : v = [w EXCEPT !.dc = e]
    OBVIOUS
<1>14. v \in Worlds(A) /\ v.dc = e /\ v.queue = w.queue /\ v.task = w.task
    BY <1>12, <1>13, DcEffect
<1>15. v = Full(w)
    <2>1. Full(w) = [w EXCEPT !.dc.sessions[n].requested = @ + B]
        BY <1>1 DEF Full
    <2>2. [w EXCEPT !.dc.sessions[n].requested = @ + B]
            = [w EXCEPT !.dc = [w.dc EXCEPT !.sessions = [w.dc.sessions EXCEPT ![n] =
                    [w.dc.sessions[n] EXCEPT !.requested = w.dc.sessions[n].requested + B]]]]
        BY WorldParts
    <2> QED BY <1>2, <1>6, <1>8, <1>11, <1>13, <2>1, <2>2
<1>16. \A j \in 1 .. n : g[j].requested = s[j].requested + IF j = n THEN B ELSE 0
    <2>1. \A j \in 1 .. n : s[j].requested \in Int
        BY <1>4 DEF SessionRec
    <2> QED BY <1>5, <1>7, <1>9, <2>1
<1> QED BY <1>1, <1>2, <1>10, <1>12, <1>14, <1>15, <1>16

LEMMA RemovedEffect ==
    ASSUME NEW A, NEW w \in Worlds(A), NEW v \in Worlds(A), Len(v.dc.sessions) = Len(w.dc.sessions),
           Len(w.dc.sessions) > 1
    PROVE  LET x == Removed(w, v)
               n == Len(w.dc.sessions)
           IN  /\ x \in Worlds(A) /\ x.queue = v.queue
               /\ Len(x.dc.sessions) = n - 1
               /\ \A j \in 1 .. n - 1 : x.dc.sessions[j] = v.dc.sessions[j]
               /\ x.dc.total = v.dc.total /\ x.dc.kill = v.dc.kill
               /\ \A t \in Tasks : x.task[t] = [v.task[t] EXCEPT !.sent = {Aged(r) : r \in v.task[t].sent}]
<1>1. PICK n : n = Len(w.dc.sessions)
    OBVIOUS
<1>2. PICK d, s : d = v.dc /\ s = v.dc.sessions
    OBVIOUS
<1>3. d \in DcRec /\ s \in SessionLists /\ s \in Seq(SessionRec)
    BY <1>2, WorldParts DEF DcRec, SessionLists
<1>4. n \in 1 .. MaxSessions /\ n > 1 /\ Len(s) = n /\ \A i \in 1 .. n : s[i] \in SessionRec
    BY <1>1, <1>2, <1>3, SessionsParts
<1>5. n \in Nat /\ n - 1 \in 1 .. MaxSessions /\ n \in 0 .. MaxSessions
    BY <1>4, Constants
<1>6. PICK c : c = SubSeq(s, 1, n - 1)
    OBVIOUS
<1>7. c \in Seq(SessionRec) /\ Len(c) = n - 1 /\ \A i \in 1 .. n - 1 : c[i] = s[i]
    <2>1. PICK m \in Int : m = n - 1 /\ 1 \in Int
        BY <1>5
    <2>2. \A i \in 1 .. m : s[i] \in SessionRec
        BY <1>4, <2>1
    <2>3. /\ SubSeq(s, 1, m) \in Seq(SessionRec)
          /\ Len(SubSeq(s, 1, m)) = (IF 1 <= m THEN m - 1 + 1 ELSE 0)
          /\ \A i \in 1 .. m - 1 + 1 : SubSeq(s, 1, m)[i] = s[1 + i - 1]
        BY <2>1, <2>2, SubSeqProperties
    <2> QED BY <1>5, <1>6, <2>1, <2>3
<1>8. c \in SessionLists
    BY <1>5, <1>7 DEF SessionLists
<1>9. PICK times : times = IF w.dc.removeIndex = n THEN Min({d.removeTimes + 1, MaxRemoves}) ELSE 1
    OBVIOUS
<1>10. times \in 0 .. MaxRemoves
    <2>1. PICK S : S = {d.removeTimes + 1, MaxRemoves}
        OBVIOUS
    <2>2. S \subseteq Nat /\ S # {} /\ MaxRemoves \in S
        BY <1>3, <2>1, Constants DEF DcRec
    <2>3. Min(S) \in S /\ Min(S) <= MaxRemoves
        BY <2>2, Smallest
    <2>4. Min(S) \in 0 .. MaxRemoves
        <3>1. PICK m \in Nat : m = Min(S) /\ m <= MaxRemoves
            BY <2>2, <2>3
        <3> QED BY <3>1, Constants
    <2> QED BY <1>9, <2>1, <2>4, Constants
<1>11. PICK ts : ts = [t \in Tasks |-> [v.task[t] EXCEPT !.sent = {Aged(r) : r \in @}]]
    OBVIOUS
<1>12. ASSUME NEW t \in Tasks
       PROVE  /\ ts[t] = [v.task[t] EXCEPT !.sent = {Aged(r) : r \in v.task[t].sent}]
              /\ ts[t] \in TaskOf(A)
    <2>1. PICK k : k = v.task[t]
        OBVIOUS
    <2>2. k \in TaskOf(A) /\ k.sent \subseteq RequestOf(A) /\ IsFiniteSet(k.sent)
        BY <2>1, TaskParts
    <2>3. PICK S : S = {Aged(r) : r \in k.sent}
        OBVIOUS
    <2>4. S \subseteq RequestOf(A)
        BY <2>2, <2>3 DEF Aged, RequestOf
    <2>5. IsFiniteSet(S)
        <3>1. PICK f : f = [r \in k.sent |-> Aged(r)]
            OBVIOUS
        <3>2. f \in Surjection(k.sent, S)
            BY <2>3, <3>1 DEF Surjection
        <3> QED BY <2>2, <3>2, FS_Surjection
    <2>6. ts[t] = [k EXCEPT !.sent = S]
        BY <1>11, <2>1, <2>3
    <2>7. ts[t] \in TaskOf(A)
        BY <2>2, <2>4, <2>5, <2>6 DEF TaskOf, SentOf
    <2> QED BY <2>1, <2>3, <2>6, <2>7
<1>13. ts \in [Tasks -> TaskOf(A)]
    BY <1>11, <1>12
<1>14. PICK e : e = [d EXCEPT !.sessions = c, !.removeTimes = times, !.removeIndex = n]
    OBVIOUS
<1>15. e \in DcRec /\ e.sessions = c /\ e.total = d.total /\ e.kill = d.kill
    BY <1>3, <1>5, <1>8, <1>10, <1>14 DEF DcRec
<1>16. PICK x : x = [v EXCEPT !.dc = e, !.task = ts]
    OBVIOUS
<1>17. x \in Worlds(A) /\ x.dc = e /\ x.queue = v.queue /\ x.task = ts
    BY <1>13, <1>15, <1>16 DEF Worlds
<1>18. x = Removed(w, v)
    <2>1. Removed(w, v) =
            [v EXCEPT !.dc.sessions = SubSeq(@, 1, n - 1),
                      !.dc.removeTimes = IF w.dc.removeIndex = n
                                         THEN Min({@ + 1, MaxRemoves}) ELSE 1,
                      !.dc.removeIndex = n,
                      !.task = ts]
        BY <1>1, <1>11 DEF Removed
    <2>2. [v EXCEPT !.dc.sessions = SubSeq(@, 1, n - 1),
                    !.dc.removeTimes = IF w.dc.removeIndex = n
                                       THEN Min({@ + 1, MaxRemoves}) ELSE 1,
                    !.dc.removeIndex = n,
                    !.task = ts]
            = [v EXCEPT !.dc = [v.dc EXCEPT !.sessions = c, !.removeTimes = times, !.removeIndex = n],
                        !.task = ts]
        BY <1>2, <1>3, <1>6, <1>9, WorldParts DEF DcRec
    <2> QED BY <1>2, <1>14, <1>16, <2>1, <2>2
<1> QED BY <1>1, <1>2, <1>7, <1>12, <1>15, <1>17, <1>18

\* Requests that are marked as old are for the same parts.
LEMMA SoundAged ==
    ASSUME NEW A, NEW k \in TaskOf(A), NEW t, Sound(t, k, {}), Apart(k, {})
    PROVE  LET l == [k EXCEPT !.sent = {Aged(r) : r \in k.sent}]
           IN  Sound(t, l, {}) /\ Apart(l, {})
<1>1. PICK S, f, l : /\ S = {Aged(r) : r \in k.sent}
                     /\ f = [r \in k.sent |-> Aged(r)]
                     /\ l = [k EXCEPT !.sent = S]
    OBVIOUS
<1>2. /\ l.state = k.state /\ l.todo = k.todo /\ l.sent = S /\ l.unchecked = k.unchecked
      /\ l.fed = k.fed
    BY <1>1 DEF TaskOf
<1>3. \A r \in k.sent : f[r].offset = r.offset /\ (ForHashes(f[r]) => ForHashes(r))
    BY <1>1 DEF Aged, ForHashes, TaskOf, SentOf, RequestOf
<1>4. f \in [k.sent -> S] /\ \A q \in S : \E r \in k.sent : f[r] = q
    BY <1>1
<1>5. Sound(t, l, {}) /\ Apart(l, {})
    BY <1>2, <1>3, <1>4, SoundRenewed
<1> QED BY <1>1, <1>5

\* A session is removed: no part of any file is forgotten.
LEMMA GoodRemoveSession ==
    ASSUME NEW w, Good(w), Distinct(w), Len(w.dc.sessions) > 1
    PROVE  Good(RemoveSession(w))
<1>1. PICK A : Int \subseteq A /\ w \in Worlds(A)
    BY DEF Good, Typed
<1>2. PICK n : n = Len(w.queue)
    OBVIOUS
<1>3. w.queue \in Seq(Entry) /\ n \in Nat
    BY <1>1, <1>2, WorldParts, LenProperties
<1> DEFINE U == {v \in Worlds(A) : /\ Good(v) /\ Distinct(v) /\ v.queue = w.queue
                                   /\ Len(v.dc.sessions) = Len(w.dc.sessions)}
<1>4. Full(w) \in U
    <2>1. /\ Full(w) \in Worlds(A) /\ Full(w).queue = w.queue /\ Full(w).task = w.task
          /\ Len(Full(w).dc.sessions) = Len(w.dc.sessions)
        BY <1>1, FullEffect
    <2>2. Good(Full(w)) /\ Distinct(Full(w))
        BY <1>1, <2>1 DEF Good, Distinct, Typed
    <2> QED BY <2>1, <2>2
<1>5. ASSUME NEW k \in 1 .. n, NEW v \in U
      PROVE  RedirectFrom(v, w.queue[k].task, Len(w.dc.sessions)) \in U
    <2>1. PICK t \in Tasks : t = w.queue[k].task
        <3>1. w.queue[k] \in Entry
            BY <1>2, <1>3, ElementOfSeq
        <3> QED BY <3>1 DEF Entry
    <2>2. PICK x, i : x = RedirectFrom(v, t, i) /\ i = Len(w.dc.sessions)
        OBVIOUS
    <2>3. x \in Stage(A, v, t, PartsCount)
        BY <1>1, <2>2, GoodIsMid, RedirectFromStage
    <2>4. /\ x \in Worlds(A) /\ Mid(x, t, {}) /\ x.queue = w.queue
          /\ Len(x.dc.sessions) = Len(w.dc.sessions)
        BY <2>3 DEF Stage
    <2>5. Good(x) /\ Distinct(x)
        BY <2>4, MidIsGood DEF Mid, Rest, Apart, Distinct
    <2> QED BY <2>1, <2>2, <2>4, <2>5
<1>6. \E v \in U : RemoveSession(w) = Removed(w, v)
    <2> HIDE DEF U
    <2>1. PICK V : V = [k \in 0 .. n |-> U]
        OBVIOUS
    <2>2. V \in [0 .. n -> SUBSET U] /\ V[0] = U /\ V[n] = U
        BY <1>3, <2>1
    <2>3. \A k \in 1 .. n : V[k] = U /\ V[k - 1] = U
        BY <1>3, <2>1
    <2>4. \E v \in V[n] : RemoveSession(w) = Removed(w, v)
        BY <1>2, <1>3, <1>4, <1>5, <2>2, <2>3, RemoveSessionIn
    <2> QED BY <2>2, <2>4
<1>7. PICK v \in U : RemoveSession(w) = Removed(w, v)
    BY <1>6
<1>8. PICK x : x = Removed(w, v)
    OBVIOUS
<1>9. /\ x \in Worlds(A)
      /\ \A t \in Tasks : x.task[t] = [v.task[t] EXCEPT !.sent = {Aged(r) : r \in v.task[t].sent}]
    BY <1>1, <1>8, RemovedEffect
<1>10. ASSUME NEW t \in Tasks PROVE Sound(t, x.task[t], {})
    <2>1. PICK k : k = v.task[t]
        OBVIOUS
    <2>2. k \in TaskOf(A) /\ Sound(t, k, {}) /\ Apart(k, {})
        BY <2>1, TaskParts DEF Good, Distinct, Apart
    <2>3. Sound(t, [k EXCEPT !.sent = {Aged(r) : r \in k.sent}], {})
        BY <2>2, SoundAged
    <2> QED BY <1>9, <2>1, <2>3
<1> QED BY <1>1, <1>7, <1>8, <1>9, <1>10 DEF Good, Typed

-----------------------------------------------------------------------------
(* Answers about hashes, and requests that stay.                           *)

LEMMA MidFinishHashes ==
    ASSUME NEW w, NEW t \in Tasks, Mid(w, t, {}), NEW r \in w.task[t].sent, ForHashes(r)
    PROVE  /\ Mid(FinishSentRequests(w, t, {r}), t, {})
           /\ FinishSentRequests(w, t, {r}).queue = w.queue
           /\ FinishSentRequests(w, t, {r}).task[t] = [w.task[t] EXCEPT !.sent = @ \ {r}]
<1>1. PICK A : Int \subseteq A /\ w \in Worlds(A)
    BY DEF Mid, Typed
<1>2. PICK v : v = FinishSentRequests(w, t, {r})
    OBVIOUS
<1>3. /\ Mid(v, t, {} \cup {r.offset}) /\ v.queue = w.queue
      /\ v.task[t] = [w.task[t] EXCEPT !.sent = @ \ {r}]
    BY <1>2, MidFinish
<1>4. PICK k, l : k = w.task[t] /\ l = v.task[t]
    OBVIOUS
<1>5. /\ k \in TaskOf(A) /\ Sound(t, k, {}) /\ Apart(k, {})
    BY <1>1, <1>4, TaskParts DEF Mid
<1>6. /\ l.state = k.state /\ l.todo = k.todo /\ l.sent = k.sent \ {r}
      /\ l.unchecked = k.unchecked /\ l.fed = k.fed
    BY <1>3, <1>4, <1>5 DEF TaskOf
<1>7. \A o \in Offsets : Has(k, o) => Has(l, o)
    BY <1>6 DEF Has
<1>8. Sound(t, l, {}) /\ Apart(l, {})
    BY <1>5, <1>6, <1>7 DEF Sound, Apart, Whole, Loads
<1> QED BY <1>2, <1>3, <1>4, <1>8 DEF Mid

\* The parts whose hash is good are in the hands of the handler.
OffsetsOf(parts) == {u.offset : u \in parts}

Taken(w, t, good) == [w EXCEPT !.task[t].unchecked = @ \ good]

LEMMA HoldingChecked ==
    ASSUME NEW w, NEW t \in Tasks, Mid(w, t, {}), NEW good, good \subseteq w.task[t].unchecked
    PROVE  /\ Holding(Taken(w, t, good), t, OffsetsOf(good)) /\ OffsetsOf(good) \subseteq Offsets
           /\ Taken(w, t, good).task[t].state = w.task[t].state
<1>1. PICK A : Int \subseteq A /\ w \in Worlds(A)
    BY DEF Mid, Typed
<1>2. PICK k, l, X : /\ k = w.task[t] /\ l = [k EXCEPT !.unchecked = k.unchecked \ good]
                     /\ X = {u.offset : u \in good}
    OBVIOUS
<1>3. k \in TaskOf(A) /\ Sound(t, k, {}) /\ Apart(k, {}) /\ k.unchecked \subseteq Part
    BY <1>1, <1>2, TaskParts DEF Mid
<1>4. /\ l \in TaskOf(A) /\ l.state = k.state /\ l.todo = k.todo /\ l.sent = k.sent
      /\ l.unchecked = k.unchecked \ good /\ l.fed = k.fed
    BY <1>2, <1>3 DEF TaskOf
<1>5. \A o \in Offsets : Has(k, o) => o \in X \/ Has(l, o)
    BY <1>2, <1>4 DEF Has
<1>6. \A o \in l.todo : /\ o \notin X
                        /\ \A r \in l.sent : r.offset # o
                        /\ \A u \in l.unchecked : u.offset # o
    BY <1>2, <1>3, <1>4 DEF Sound
<1>7. ~Loads(l.state) => l.sent = {} /\ l.unchecked = {}
    BY <1>3, <1>4 DEF Sound
<1>8. Sound(t, l, X) /\ Apart(l, {})
    BY <1>3, <1>4, <1>5, <1>6, <1>7 DEF Sound, Apart, Whole, Loads
<1>9. PICK v : v = WithTask(w, t, l)
    OBVIOUS
<1>10. v \in Worlds(A) /\ Changed(w, v, t, l, w.dc)
    BY <1>1, <1>4, <1>9, TaskEffect
<1>11. v = [w EXCEPT !.task[t].unchecked = @ \ good]
    BY <1>1, <1>2, <1>9, WorldParts DEF WithTask
<1>12. Rest(v, t) /\ v.task[t] = l
    BY <1>10 DEF Changed, Rest, Mid
<1>13. Holding(v, t, X)
    BY <1>1, <1>8, <1>10, <1>12 DEF Holding, Typed
<1>14. X \subseteq Offsets
    BY <1>2, <1>3 DEF Part
<1> QED BY <1>2, <1>4, <1>11, <1>12, <1>13, <1>14 DEF Taken, OffsetsOf

\* A part whose hash is unknown waits.
LEMMA GoodWaits ==
    ASSUME NEW w, NEW t \in Tasks, NEW part \in Part, Mid(w, t, {part.offset}),
           Loads(w.task[t].state),
           NEW N, N = IF part.offset \in {u.offset : u \in w.task[t].unchecked}
                      THEN w.task[t].unchecked ELSE w.task[t].unchecked \cup {part}
    PROVE  Good(RequestMoreCdnFileHashes([w EXCEPT !.task[t].unchecked = N], t))
<1>1. PICK A : Int \subseteq A /\ w \in Worlds(A)
    BY DEF Mid, Typed
<1>2. PICK k, l, X : k = w.task[t] /\ l = [k EXCEPT !.unchecked = N] /\ X = {part.offset}
    OBVIOUS
<1>3. k \in TaskOf(A) /\ Sound(t, k, X) /\ Apart(k, X) /\ k.unchecked \subseteq Part
    BY <1>1, <1>2, TaskParts DEF Mid
<1>4. /\ N \subseteq Part /\ k.unchecked \subseteq N /\ N \subseteq k.unchecked \cup {part}
      /\ \E u \in N : u.offset = part.offset
    BY <1>2, <1>3
<1>5. /\ l \in TaskOf(A) /\ l.state = k.state /\ l.todo = k.todo /\ l.sent = k.sent
      /\ l.unchecked = N /\ l.fed = k.fed
    BY <1>2, <1>3, <1>4 DEF TaskOf
<1>6. \A o \in Offsets : o \in X \/ Has(k, o) => Has(l, o)
    BY <1>2, <1>4, <1>5 DEF Has
<1>7. Sound(t, l, {}) /\ Apart(l, {})
    BY <1>2, <1>3, <1>4, <1>5, <1>6 DEF Sound, Apart, Whole, Loads
<1>8. PICK v : v = WithTask(w, t, l)
    OBVIOUS
<1>9. Mid(v, t, {})
    BY <1>1, <1>5, <1>7, <1>8, MidWithTask DEF Mid
<1>10. v = [w EXCEPT !.task[t].unchecked = N]
    BY <1>1, <1>2, <1>8, WorldParts DEF WithTask
<1>11. Good(RequestMoreCdnFileHashes(v, t))
    BY <1>9, GoodRequestMore DEF Mid
<1> QED BY <1>10, <1>11

\* The request stays, and what it waits for is another thing.
Rekinded(w, t, r, kind) ==
    [w EXCEPT !.task[t].sent = (@ \ {r}) \cup {[r EXCEPT !.kind = kind]}]

LEMMA GoodRekinded ==
    ASSUME NEW w, NEW t \in Tasks, Mid(w, t, {}), NEW r \in w.task[t].sent, NEW kind \in Kinds,
           kind \in {"hashes", "failed hashes"} => ForHashes(r)
    PROVE  Good(Rekinded(w, t, r, kind))
<1>1. PICK A : Int \subseteq A /\ w \in Worlds(A)
    BY DEF Mid, Typed
<1>2. PICK k, q : k = w.task[t] /\ q = [r EXCEPT !.kind = kind]
    OBVIOUS
<1>3. PICK S, f : S = (k.sent \ {r}) \cup {q} /\ f = [a \in k.sent |-> IF a = r THEN q ELSE a]
    OBVIOUS
<1>4. /\ k \in TaskOf(A) /\ Sound(t, k, {}) /\ Apart(k, {}) /\ k.sent \subseteq RequestOf(A)
      /\ IsFiniteSet(k.sent)
    BY <1>1, <1>2, TaskParts DEF Mid
<1>5. r \in RequestOf(A) /\ r \in k.sent
    BY <1>2, <1>4
<1>6. q \in RequestOf(A) /\ q.offset = r.offset /\ (ForHashes(q) => ForHashes(r))
    BY <1>2, <1>5 DEF RequestOf, ForHashes
<1>7. S \in SentOf(A)
    <2>1. IsFiniteSet(k.sent \ {r})
        BY <1>4, FS_Subset
    <2>2. IsFiniteSet(S)
        BY <1>3, <2>1, FS_AddElement
    <2> QED BY <1>3, <1>4, <1>6, <2>2 DEF SentOf
<1>8. PICK l : l = [k EXCEPT !.sent = S]
    OBVIOUS
<1>9. /\ l \in TaskOf(A) /\ l.state = k.state /\ l.todo = k.todo /\ l.sent = S
      /\ l.unchecked = k.unchecked /\ l.fed = k.fed
    BY <1>4, <1>7, <1>8 DEF TaskOf
<1>10. f \in [k.sent -> S] /\ \A a \in S : \E b \in k.sent : f[b] = a
    BY <1>3, <1>5
<1>11. \A a \in k.sent : f[a].offset = a.offset /\ (ForHashes(f[a]) => ForHashes(a))
    BY <1>3, <1>6
<1>12. Sound(t, l, {}) /\ Apart(l, {})
    BY <1>4, <1>9, <1>10, <1>11, SoundRenewed
<1>13. PICK v : v = WithTask(w, t, l)
    OBVIOUS
<1>14. Mid(v, t, {})
    BY <1>1, <1>9, <1>12, <1>13, MidWithTask DEF Mid
<1>15. v = Rekinded(w, t, r, kind)
    <2>1. Rekinded(w, t, r, kind) = [w EXCEPT !.task[t].sent = S]
        BY <1>2, <1>3 DEF Rekinded
    <2> QED BY <1>1, <1>2, <1>8, <1>13, <2>1, WorldParts DEF WithTask
<1> QED BY <1>14, <1>15, MidIsGood

LEMMA GoodFail ==
    ASSUME NEW w, NEW t \in Tasks, Mid(w, t, {}), NEW r \in w.task[t].sent
    PROVE  Good(Fail(w, t, r))
<1>1. CASE t \in Files
    BY <1>1, GoodCancelFile DEF Mid, Fail
<1>2. CASE t \notin Files
    <2>1. PICK kind : kind = IF ForHashes(r) THEN "failed hashes" ELSE "failed"
        OBVIOUS
    <2>2. kind \in Kinds /\ (kind \in {"hashes", "failed hashes"} => ForHashes(r))
        BY <2>1 DEF Kinds
    <2>3. Fail(w, t, r) = Rekinded(w, t, r, kind)
        BY <1>2, <2>1 DEF Fail, Rekinded
    <2> QED BY <2>2, <2>3, GoodRekinded
<1> QED BY <1>1, <1>2

-----------------------------------------------------------------------------
(* The actions.                                                            *)

LEMMA AtStart ==
    ASSUME Good(World), Running, NEW t \in Tasks
    PROVE  /\ Mid(World, t, {}) /\ Distinct(World)
           /\ World.task = task /\ World.dc = dc /\ World.queue = queue
<1>1. World.task = task /\ World.dc = dc /\ World.queue = queue
    BY DEF World
<1>2. Distinct(World)
    BY <1>1 DEF Distinct, Running
<1> QED BY <1>1, <1>2, GoodIsMid

LEMMA AtAnswer ==
    ASSUME Good(World), NEW t \in Tasks, NEW r \in task[t].sent
    PROVE  /\ r.offset \in Offsets /\ r.index \in 1 .. MaxSessions /\ Loads(task[t].state)
           /\ {r.offset} \subseteq Offsets
<1>1. World.task = task
    BY DEF World
<1>2. PICK A : World \in Worlds(A)
    BY DEF Good, Typed
<1>3. task[t].sent \subseteq RequestOf(A) /\ Sound(t, task[t], {})
    BY <1>1, <1>2, TaskParts DEF Good
<1> QED BY <1>3 DEF RequestOf, Sound

LEMMA Arrives ==
    ASSUME NEW v, Good(v), Becomes(v)
    PROVE  Good(World')
<1>1. PICK A : v \in Worlds(A)
    BY DEF Good, Typed
<1>2. v = [dc |-> v.dc, queue |-> v.queue, task |-> v.task]
    BY <1>1, WorldParts
<1>3. World' = v
    BY <1>2 DEF World, Becomes
<1> QED BY <1>3

\* An answer: the part is in the hands of the handler.
LEMMA AnswerTaken ==
    ASSUME NEW w, NEW t \in Tasks, Mid(w, t, {}), NEW r \in w.task[t].sent,
           Loads(w.task[t].state), NEW pace
    PROVE  /\ Mid(SucceedSentRequest(w, t, r, pace), t, {r.offset})
           /\ Loads(SucceedSentRequest(w, t, r, pace).task[t].state)
           /\ Mid(FinishSentRequests(w, t, {r}), t, {r.offset})
           /\ Loads(FinishSentRequests(w, t, {r}).task[t].state)
<1>1. {} \cup {r.offset} = {r.offset}
    OBVIOUS
<1>2. PICK v : v = SucceedSentRequest(w, t, r, pace)
    OBVIOUS
<1>3. Mid(v, t, {} \cup {r.offset}) /\ v.task[t].state = w.task[t].state
    BY <1>2, MidSucceed
<1>4. PICK f : f = FinishSentRequests(w, t, {r})
    OBVIOUS
<1>5. Mid(f, t, {} \cup {r.offset}) /\ f.task[t] = [w.task[t] EXCEPT !.sent = @ \ {r}]
    BY <1>4, MidFinish
<1>6. Loads(f.task[t].state)
    <2>1. PICK A : w \in Worlds(A)
        BY DEF Mid, Typed
    <2>2. w.task[t] \in TaskOf(A)
        BY <2>1, TaskParts
    <2> QED BY <1>5, <2>2 DEF TaskOf
<1> QED BY <1>1, <1>2, <1>3, <1>4, <1>5, <1>6

\* More hashes.
LEMMA HashesTaken ==
    ASSUME NEW w, NEW t \in Tasks, NEW X, Mid(w, t, X), Loads(w.task[t].state),
           NEW hashes \in SUBSET Offsets
    PROVE  Mid(AddCdnHashes(w, t, hashes), t, X) /\ Loads(AddCdnHashes(w, t, hashes).task[t].state)
<1>1. PICK x : x = AddCdnHashes(w, t, hashes)
    OBVIOUS
<1>2. Mid(x, t, X) /\ x.task[t] = [w.task[t] EXCEPT !.hashes = w.task[t].hashes \cup hashes]
    BY <1>1, MidAddCdnHashes
<1>3. PICK A : w \in Worlds(A)
    BY DEF Mid, Typed
<1>4. w.task[t] \in TaskOf(A)
    BY <1>3, TaskParts
<1>5. Loads(x.task[t].state)
    BY <1>2, <1>4 DEF TaskOf
<1> QED BY <1>1, <1>2, <1>5

LEMMA GoodPartLoaded ==
    ASSUME Good(World), NEW t \in Tasks, NEW r \in task[t].sent, NEW pace, NEW written, NEW short, NEW saved,
           PartLoaded(t, r, pace, written, short, saved)
    PROVE  Good(World')
<1>1. Running
    BY DEF PartLoaded, Usual, Fault
<1>2. PICK w, X : w = World /\ X = {r.offset}
    OBVIOUS
<1>3. Mid(w, t, {}) /\ w.task = task /\ r \in w.task[t].sent
    BY <1>1, <1>2, AtStart
<1>4. X \subseteq Offsets /\ Loads(w.task[t].state)
    BY <1>2, <1>3, AtAnswer
<1>5. PICK v : v = SucceedSentRequest(w, t, r, pace)
    OBVIOUS
<1>6. Mid(v, t, {r.offset}) /\ Loads(v.task[t].state)
    BY <1>3, <1>4, <1>5, AnswerTaken
<1>7. Mid(v, t, X)
    BY <1>2, <1>6
<1>8. Good(FeedParts(v, t, X, short, saved)) /\ Good(CancelOnFail(v, t))
    BY <1>4, <1>6, <1>7, MidIsHolding, MidFeedParts, MidIsGood, GoodCancelOnFail
<1>9. PICK x : x = IF written THEN FeedParts(v, t, X, short, saved) ELSE CancelOnFail(v, t)
    OBVIOUS
<1>10. Becomes(x) /\ Good(x)
    BY <1>2, <1>5, <1>8, <1>9 DEF PartLoaded
<1> QED BY <1>10, Arrives

LEMMA GoodRedirected ==
    ASSUME Good(World), NEW t \in Tasks, NEW r \in task[t].sent, NEW pace,
           NEW hashes \in {{}, {r.offset}}, NEW usable, Redirected(t, r, pace, hashes, usable)
    PROVE  Good(World')
<1>1. Running
    BY DEF Redirected, Usual, Fault
<1>2. PICK w : w = World
    OBVIOUS
<1>3. Mid(w, t, {}) /\ w.task = task /\ r \in w.task[t].sent
    BY <1>1, <1>2, AtStart
<1>4. r.offset \in Offsets /\ r.index \in 1 .. MaxSessions /\ Loads(w.task[t].state)
    BY <1>3, AtAnswer
<1>5. PICK v : v = SucceedSentRequest(w, t, r, pace)
    OBVIOUS
<1>6. Mid(v, t, {r.offset}) /\ Loads(v.task[t].state)
    BY <1>3, <1>4, <1>5, AnswerTaken
<1>7. Mid(v, t, {r.offset}) /\ hashes \in SUBSET Offsets /\ TRUE \in BOOLEAN
    BY <1>4, <1>6
<1>8. PICK x : x = IF usable THEN ChangeCDNParams(v, t, r, TRUE, hashes) ELSE CancelOnFail(v, t)
    OBVIOUS
<1>9. Good(x)
    <2>1. Good(ChangeCDNParams(v, t, r, TRUE, hashes))
        BY <1>4, <1>6, <1>7, GoodChangeCDNParams
    <2>2. Good(CancelOnFail(v, t))
        BY <1>6, GoodCancelOnFail
    <2> QED BY <1>8, <2>1, <2>2
<1>10. Becomes(x)
    BY <1>2, <1>5, <1>8 DEF Redirected
<1> QED BY <1>9, <1>10, Arrives

LEMMA GoodCdnPartLoaded ==
    ASSUME Good(World), NEW t \in Tasks, NEW r \in task[t].sent, NEW pace, NEW valid, NEW short, NEW saved,
           CdnPartLoaded(t, r, pace, valid, short, saved)
    PROVE  Good(World')
<1>1. Running
    BY DEF CdnPartLoaded, Usual, Fault
<1>2. PICK w, X : w = World /\ X = {r.offset}
    OBVIOUS
<1>3. Mid(w, t, {}) /\ w.task = task /\ r \in w.task[t].sent
    BY <1>1, <1>2, AtStart
<1>4. /\ X \subseteq Offsets /\ Loads(w.task[t].state) /\ r.offset \in Offsets
      /\ r.index \in 1 .. MaxSessions
    BY <1>2, <1>3, AtAnswer
<1>5. PICK v : v = SucceedSentRequest(w, t, r, pace)
    OBVIOUS
<1>6. Mid(v, t, {r.offset}) /\ Loads(v.task[t].state)
    BY <1>3, <1>4, <1>5, AnswerTaken
<1>7. Mid(v, t, X)
    BY <1>2, <1>6
<1>8. Good(FeedParts(v, t, X, short, saved)) /\ Good(CancelOnFail(v, t))
    BY <1>4, <1>6, <1>7, MidIsHolding, MidFeedParts, MidIsGood, GoodCancelOnFail
<1>9. PICK part : part = [offset |-> r.offset, index |-> r.index]
    OBVIOUS
<1>10. part \in Part /\ Mid(v, t, {part.offset}) /\ part.offset = r.offset
    BY <1>2, <1>4, <1>7, <1>9 DEF Part
<1>11. PICK N : N = IF part.offset \in {u.offset : u \in v.task[t].unchecked}
                    THEN v.task[t].unchecked ELSE v.task[t].unchecked \cup {part}
    OBVIOUS
<1>12. PICK y : y = RequestMoreCdnFileHashes([v EXCEPT !.task[t].unchecked = N], t)
    OBVIOUS
<1>13. Good(y)
    BY <1>6, <1>10, <1>11, <1>12, GoodWaits
<1>14. PICK x : x = IF r.offset \notin v.task[t].hashes THEN y
                    ELSE IF valid THEN FeedParts(v, t, X, short, saved) ELSE CancelOnFail(v, t)
    OBVIOUS
<1>15. Becomes(x)
    <2>1. N = IF r.offset \in {u.offset : u \in v.task[t].unchecked}
              THEN v.task[t].unchecked ELSE v.task[t].unchecked \cup {part}
        BY <1>10, <1>11
    <2>2. y = RequestMoreCdnFileHashes(
                [v EXCEPT !.task[t].unchecked =
                    IF r.offset \in {u.offset : u \in v.task[t].unchecked}
                    THEN @ ELSE @ \cup {part}], t)
        BY <1>12, <2>1
    <2> QED BY <1>2, <1>5, <1>9, <1>14, <2>2 DEF CdnPartLoaded
<1>16. Good(x)
    BY <1>8, <1>13, <1>14
<1> QED BY <1>15, <1>16, Arrives

LEMMA GoodReupload ==
    ASSUME Good(World), NEW t \in Tasks, NEW r \in task[t].sent, Running,
           NEW kind \in Kinds, kind \notin {"hashes", "failed hashes"}
    PROVE  /\ Good(PlaceSentRequest(FinishSentRequests(World, t, {r}), t, r, kind))
           /\ \A hashes \in SUBSET Offsets :
                Good(PlaceSentRequest(AddCdnHashes(FinishSentRequests(World, t, {r}), t, hashes), t, r, kind))
<1>2. PICK w, X : w = World /\ X = {r.offset}
    OBVIOUS
<1>3. Mid(w, t, {}) /\ w.task = task /\ r \in w.task[t].sent
    BY <1>2, AtStart
<1>4. /\ r.offset \in Offsets /\ r.index \in 1 .. MaxSessions /\ Loads(w.task[t].state)
      /\ r.offset \in X /\ X \ {r.offset} = {}
    BY <1>2, <1>3, AtAnswer
<1>5. PICK v : v = FinishSentRequests(w, t, {r})
    OBVIOUS
<1>6. Mid(v, t, {r.offset}) /\ Loads(v.task[t].state)
    BY <1>3, <1>4, <1>5, AnswerTaken
<1>7. Mid(v, t, X) /\ Loads(v.task[t].state)
    BY <1>2, <1>6
<1>8. Mid(PlaceSentRequest(v, t, r, kind), t, X \ {r.offset})
    BY <1>4, <1>7, MidPlace
<1>9. ASSUME NEW hashes \in SUBSET Offsets
      PROVE  Mid(PlaceSentRequest(AddCdnHashes(v, t, hashes), t, r, kind), t, X \ {r.offset})
    <2>1. PICK x : x = AddCdnHashes(v, t, hashes)
        OBVIOUS
    <2>2. Mid(x, t, X) /\ Loads(x.task[t].state)
        BY <1>7, <2>1, HashesTaken
    <2>4. Mid(PlaceSentRequest(x, t, r, kind), t, X \ {r.offset})
        BY <1>4, <2>2, MidPlace
    <2> QED BY <2>1, <2>4
<1> QED BY <1>2, <1>4, <1>5, <1>8, <1>9, MidIsGood

LEMMA GoodHashesDone ==
    ASSUME Good(World), NEW t \in Tasks, NEW r \in task[t].sent, NEW hashes \in {{}, {r.offset}},
           NEW wrong, NEW short, NEW saved,
           GetCdnFileHashesDone(t, r, hashes, wrong, short, saved)
    PROVE  Good(World')
<1>1. Running /\ ForHashes(r)
    BY DEF GetCdnFileHashesDone, Usual, Fault, ForHashes
<1>2. PICK z : z = World
    OBVIOUS
<1>3. Mid(z, t, {}) /\ z.task = task /\ r \in z.task[t].sent
    BY <1>1, <1>2, AtStart
<1>4. hashes \in SUBSET Offsets /\ Loads(z.task[t].state)
    BY <1>3, AtAnswer
<1>5. PICK v : v = FinishSentRequests(z, t, {r})
    OBVIOUS
<1>6. Mid(v, t, {}) /\ Loads(v.task[t].state)
    <2>1. PICK pace, f : pace = "slow" /\ f = SucceedSentRequest(z, t, r, pace)
        OBVIOUS
    <2>2. Mid(v, t, {})
        BY <1>1, <1>3, <1>5, MidFinishHashes
    <2>3. Loads(v.task[t].state)
        BY <1>3, <1>4, <1>5, <2>1, AnswerTaken
    <2> QED BY <2>2, <2>3
<1>7. PICK w : w = AddCdnHashes(v, t, hashes)
    OBVIOUS
<1>8. Mid(w, t, {}) /\ Loads(w.task[t].state)
    BY <1>4, <1>6, <1>7, HashesTaken
<1>10. PICK k : k = w.task[t]
    OBVIOUS
<1>11. PICK checked : checked = {u \in k.unchecked : u.offset \in k.hashes}
    OBVIOUS
<1>12. PICK good : good = {u \in checked : u.offset < wrong}
    OBVIOUS
<1>13. PICK a, X : a = Taken(w, t, good) /\ X = OffsetsOf(good)
    OBVIOUS
<1>14. good \subseteq w.task[t].unchecked
    BY <1>10, <1>11, <1>12
<1>15. Holding(a, t, X) /\ X \subseteq Offsets /\ Loads(a.task[t].state)
    BY <1>8, <1>13, <1>14, HoldingChecked
<1>16. PICK fed : fed = FeedParts(a, t, X, short, saved)
    OBVIOUS
<1>17. Mid(fed, t, {})
    BY <1>15, <1>16, MidFeedParts
<1>18. PICK x : x = IF good = {} THEN CancelOnFail(w, t)
                    ELSE IF good # checked THEN CancelOnFail(fed, t)
                    ELSE RequestMoreCdnFileHashes(fed, t)
    OBVIOUS
<1>19. Good(x)
    <2>1. Good(CancelOnFail(w, t)) /\ Good(CancelOnFail(fed, t))
        BY <1>8, <1>17, GoodCancelOnFail
    <2>2. Good(RequestMoreCdnFileHashes(fed, t))
        BY <1>17, GoodRequestMore DEF Mid
    <2> QED BY <1>18, <2>1, <2>2
<1>20. Becomes(x)
    BY <1>2, <1>5, <1>7, <1>10, <1>11, <1>12, <1>13, <1>16, <1>18 DEF GetCdnFileHashesDone, Taken, OffsetsOf
<1> QED BY <1>19, <1>20, Arrives

LEMMA GoodTokenInvalid ==
    ASSUME Good(World), NEW t \in Tasks, NEW r \in task[t].sent, TokenInvalid(t, r)
    PROVE  Good(World')
<1>1. Running
    BY DEF TokenInvalid, Fault
<1>2. PICK w, pace, f : w = World /\ pace = "slow" /\ f = SucceedSentRequest(w, t, r, pace)
    OBVIOUS
<1>3. Mid(w, t, {}) /\ w.task = task /\ r \in w.task[t].sent
    BY <1>1, <1>2, AtStart
<1>4. r.offset \in Offsets /\ r.index \in 1 .. MaxSessions /\ Loads(w.task[t].state)
    BY <1>3, AtAnswer
<1>5. PICK v : v = FinishSentRequests(w, t, {r})
    OBVIOUS
<1>6. Mid(v, t, {r.offset}) /\ Loads(v.task[t].state)
    BY <1>2, <1>3, <1>4, <1>5, AnswerTaken
<1>7. PICK x, none : x = ChangeCDNParams(v, t, r, FALSE, none) /\ none = {}
    OBVIOUS
<1>8. none \in SUBSET Offsets /\ FALSE \in BOOLEAN
    BY <1>7
<1>9. Good(x)
    BY <1>4, <1>6, <1>7, <1>8, GoodChangeCDNParams
<1>10. Becomes(x)
    BY <1>2, <1>5, <1>7 DEF TokenInvalid
<1> QED BY <1>9, <1>10, Arrives

\* What a request gets as an answer.
LEMMA GoodAnswer ==
    ASSUME Good(World), NEW t \in Tasks, NEW r \in task[t].sent, Answer(t, r)
    PROVE  Good(World')
<1>0. ASSUME Running PROVE Mid(World, t, {}) /\ World.task = task
    BY <1>0, AtStart
<1>1. ASSUME NEW pace, NEW written, NEW short, NEW saved,
             PartLoaded(t, r, pace, written, short, saved)
      PROVE Good(World')
    BY <1>1, GoodPartLoaded
<1>2. ASSUME NEW pace, NEW hashes \in {{}, {r.offset}}, NEW usable, Redirected(t, r, pace, hashes, usable)
      PROVE  Good(World')
    BY <1>2, GoodRedirected
<1>3. ASSUME NEW pace, NEW valid, NEW short, NEW saved,
             CdnPartLoaded(t, r, pace, valid, short, saved)
      PROVE Good(World')
    BY <1>3, GoodCdnPartLoaded
<1>4. CASE ReuploadNeeded(t, r)
    <2>1. Running /\ "reupload" \in Kinds /\ "reupload" \notin {"hashes", "failed hashes"}
        BY <1>4 DEF ReuploadNeeded, Fault, Kinds
    <2>2. PICK x : x = PlaceSentRequest(FinishSentRequests(World, t, {r}), t, r, "reupload")
        OBVIOUS
    <2>3. Good(x)
        BY <2>1, <2>2, GoodReupload
    <2>4. Becomes(x)
        BY <1>4, <2>2 DEF ReuploadNeeded
    <2> QED BY <2>3, <2>4, Arrives
<1>5. ASSUME NEW hashes \in {{}, {r.offset}}, ReuploadDone(t, r, hashes) PROVE Good(World')
    <2>1. Running /\ "part" \in Kinds /\ "part" \notin {"hashes", "failed hashes"}
        BY <1>5 DEF ReuploadDone, Usual, Kinds
    <2>2. hashes \in SUBSET Offsets
        BY AtAnswer
    <2>3. PICK x : x = PlaceSentRequest(AddCdnHashes(FinishSentRequests(World, t, {r}), t, hashes), t, r, "part")
        OBVIOUS
    <2>4. Good(x)
        BY <2>1, <2>2, <2>3, GoodReupload
    <2>5. Becomes(x)
        BY <1>5, <2>3 DEF ReuploadDone, MakeRequest
    <2> QED BY <2>4, <2>5, Arrives
<1>6. ASSUME NEW hashes \in {{}, {r.offset}}, NEW wrong, NEW short, NEW saved,
           GetCdnFileHashesDone(t, r, hashes, wrong, short, saved)
      PROVE  Good(World')
    BY <1>6, GoodHashesDone
<1>7. CASE TokenInvalid(t, r)
    BY <1>7, GoodTokenInvalid
<1>8. CASE PartFailed(t, r)
    <2>1. Running
        BY <1>8 DEF PartFailed, Fault
    <2>2. PICK w : w = World
        OBVIOUS
    <2>3. Mid(w, t, {}) /\ r \in w.task[t].sent
        BY <1>0, <2>1, <2>2
    <2>4. PICK x : x = Fail(w, t, r)
        OBVIOUS
    <2>5. Good(x)
        BY <2>3, <2>4, GoodFail
    <2>6. Becomes(x)
        BY <1>8, <2>2, <2>4 DEF PartFailed
    <2> QED BY <2>5, <2>6, Arrives
<1>9. CASE ReferenceExpired(t, r)
    <2>1. Running /\ "stale" \in Kinds /\ "stale" \notin {"hashes", "failed hashes"}
        BY <1>9 DEF ReferenceExpired, Fault, Kinds
    <2>2. PICK w : w = World
        OBVIOUS
    <2>3. Mid(w, t, {}) /\ r \in w.task[t].sent
        BY <1>0, <2>1, <2>2
    <2>4. PICK x : x = Rekinded(w, t, r, "stale")
        OBVIOUS
    <2>5. Good(x)
        BY <2>1, <2>3, <2>4, GoodRekinded
    <2>6. Becomes(x)
        BY <1>9, <2>2, <2>4 DEF ReferenceExpired, Rekinded
    <2> QED BY <2>5, <2>6, Arrives
<1>10. ASSUME NEW fresh, ReferenceRefreshed(t, r, fresh) PROVE Good(World')
    <2>1. Running /\ "part" \in Kinds /\ "part" \notin {"hashes", "failed hashes"}
        BY <1>10 DEF ReferenceRefreshed, Usual, Kinds
    <2>2. PICK w : w = World
        OBVIOUS
    <2>3. Mid(w, t, {}) /\ r \in w.task[t].sent
        BY <1>0, <2>1, <2>2
    <2>4. PICK a, b : /\ a = PlaceSentRequest(FinishSentRequests(w, t, {r}), t, r, "part")
                      /\ b = Fail(w, t, r)
        OBVIOUS
    <2>5. Good(a) /\ Good(b)
        <3>1. Good(a)
            BY <2>1, <2>2, <2>4, GoodReupload
        <3>2. Good(b)
            BY <2>3, <2>4, GoodFail
        <3> QED BY <3>1, <3>2
    <2>6. PICK x : x = IF fresh THEN a ELSE b
        OBVIOUS
    <2>7. Becomes(x) /\ Good(x)
        BY <1>10, <2>2, <2>4, <2>5, <2>6 DEF ReferenceRefreshed, MakeRequest
    <2> QED BY <2>7, Arrives
<1> QED BY <1>1, <1>2, <1>3, <1>4, <1>5, <1>6, <1>7, <1>8, <1>9, <1>10, Zenon DEF Answer

LEMMA GoodMoreHashes ==
    ASSUME Good(World), NEW t \in Tasks, MoreCdnFileHashes(t)
    PROVE  Good(World')
<1>1. Running
    BY DEF MoreCdnFileHashes, Usual
<1>2. PICK w : w = World
    OBVIOUS
<1>3. Mid(w, t, {})
    BY <1>1, <1>2, AtStart
<1>4. PICK A : Int \subseteq A /\ w \in Worlds(A)
    BY <1>3 DEF Mid, Typed
<1>5. PICK k, l : k = w.task[t] /\ l = [k EXCEPT !.more = FALSE]
    OBVIOUS
<1>6. k \in TaskOf(A) /\ Sound(t, k, {}) /\ Apart(k, {})
    BY <1>3, <1>4, <1>5, TaskParts DEF Mid
<1>7. /\ l \in TaskOf(A) /\ l.state = k.state /\ l.todo = k.todo /\ l.sent = k.sent
      /\ l.unchecked = k.unchecked /\ l.fed = k.fed
    BY <1>5, <1>6 DEF TaskOf
<1>8. Sound(t, l, {}) /\ Apart(l, {})
    BY <1>6, <1>7, SameRequests
<1>9. PICK v : v = WithTask(w, t, l)
    OBVIOUS
<1>10. Mid(v, t, {})
    BY <1>3, <1>4, <1>7, <1>8, <1>9, MidWithTask DEF Mid
<1>11. v = [w EXCEPT !.task[t].more = FALSE]
    BY <1>4, <1>5, <1>9, WorldParts DEF WithTask
<1>12. PICK x : x = RequestMoreCdnFileHashes(v, t)
    OBVIOUS
<1>13. Good(x)
    BY <1>10, <1>12, GoodRequestMore DEF Mid
<1>14. Becomes(x)
    BY <1>2, <1>11, <1>12 DEF MoreCdnFileHashes
<1> QED BY <1>13, <1>14, Arrives

LEMMA GoodStartLoading ==
    ASSUME Good(World), NEW t \in Tasks, StartLoading(t)
    PROVE  Good(World')
<1>1. Running
    BY DEF StartLoading, Usual
<1>2. PICK w : w = World
    OBVIOUS
<1>3. Mid(w, t, {}) /\ w.task[t].state = "new"
    BY <1>1, <1>2, AtStart DEF StartLoading
<1>4. PICK A : Int \subseteq A /\ w \in Worlds(A)
    BY <1>3 DEF Mid, Typed
<1>5. PICK k, l : k = w.task[t] /\ l = [k EXCEPT !.state = "on"]
    OBVIOUS
<1>6. k \in TaskOf(A) /\ Sound(t, k, {}) /\ Apart(k, {})
    BY <1>3, <1>4, <1>5, TaskParts DEF Mid
<1>7. /\ l \in TaskOf(A) /\ Loads(l.state) /\ l.todo = k.todo /\ l.sent = k.sent
      /\ l.unchecked = k.unchecked /\ l.fed = k.fed
    BY <1>5, <1>6 DEF TaskOf, States, Loads
<1>8. Sound(t, l, {}) /\ Apart(l, {})
    <2>1. \A o \in Offsets : Has(k, o) => Has(l, o)
        BY <1>7 DEF Has
    <2> QED BY <1>3, <1>5, <1>6, <1>7, <2>1 DEF Sound, Apart, Whole, Loads
<1>9. PICK v : v = WithTask(w, t, l)
    OBVIOUS
<1>10. Mid(v, t, {})
    BY <1>3, <1>4, <1>7, <1>8, <1>9, MidWithTask DEF Mid
<1>11. v = [w EXCEPT !.task[t].state = "on"]
    BY <1>4, <1>5, <1>9, WorldParts DEF WithTask
<1>12. PICK x : x = AddToQueue(v, t, 0)
    OBVIOUS
<1>13. Mid(x, t, {})
    <2>1. 0 \in 0 .. 1
        OBVIOUS
    <2> QED BY <1>10, <1>12, <2>1, MidAddToQueue
<1>14. Becomes(x)
    BY <1>2, <1>11, <1>12 DEF StartLoading
<1> QED BY <1>13, <1>14, MidIsGood, Arrives

LEMMA GoodCancelLoading ==
    ASSUME Good(World), NEW t \in Tasks, CancelLoading(t)
    PROVE  Good(World')
<1>1. Running
    BY DEF CancelLoading, Input
<1>2. PICK w, x : w = World /\ x = CancelFile(w, t)
    OBVIOUS
<1>3. Mid(w, t, {})
    BY <1>1, <1>2, AtStart
<1>4. Good(x)
    BY <1>2, <1>3, GoodCancelFile DEF Mid
<1>5. Becomes(x)
    BY <1>2 DEF CancelLoading
<1> QED BY <1>4, <1>5, Arrives

\* The other loaders do not suffer when a loader leaves.
LEMMA RestRemoveFromQueue ==
    ASSUME NEW w, NEW t \in Tasks, Typed(w), Rest(w, t)
    PROVE  Typed(RemoveFromQueue(w, t)) /\ Rest(RemoveFromQueue(w, t), t)
<1>1. PICK A : Int \subseteq A /\ w \in Worlds(A)
    BY DEF Typed
<1>2. PICK q : q = Without(w.queue, t)
    OBVIOUS
<1>3. q \in Seq(Entry)
    BY <1>1, <1>2, WorldParts, WithoutEffect
<1>4. PICK v : v = [w EXCEPT !.queue = q]
    OBVIOUS
<1>5. v \in Worlds(A) /\ v.queue = q /\ v.task = w.task
    BY <1>1, <1>3, <1>4, QueueEffect
<1>6. PICK x : x = CheckSendNext(v)
    OBVIOUS
<1>7. RemoveFromQueue(w, t) = x
    BY <1>2, <1>4, <1>6 DEF RemoveFromQueue
<1>8. x \in Worlds(A) /\ \A u \in Tasks : Sends(w.task[u], x.task[u])
    BY <1>1, <1>5, <1>6, CheckSendNextSends
<1>9. \A u \in Tasks : w.task[u] \in TaskOf(A) /\ x.task[u] \in TaskOf(A)
    BY <1>1, <1>8, TaskParts
<1>10. Rest(x, t)
    BY <1>8, <1>9, SoundSends, ApartSends DEF Rest
<1> QED BY <1>1, <1>7, <1>8, <1>10 DEF Typed

LEMMA NewTaskType ==
    ASSUME NEW A, NEW t \in Tasks
    PROVE  /\ NewTask(t) \in TaskOf(A) /\ NewTask(t).sent = {} /\ NewTask(t).unchecked = {}
           /\ NewTask(t).state = (IF t \in Files THEN "new" ELSE "on")
           /\ NewTask(t).todo = (IF t \in Files THEN Offsets ELSE {})
<1>1. PICK state, todo : /\ state = IF t \in Files THEN "new" ELSE "on"
                         /\ todo = IF t \in Files THEN Offsets ELSE {}
    OBVIOUS
<1>2. state \in States /\ todo \in SUBSET Offsets /\ {} \in SentOf(A) /\ FALSE \in BOOLEAN
    BY <1>1, FS_EmptySet DEF States, SentOf
<1>3. NewTask(t) = [state |-> state, todo |-> todo, sent |-> {}, unchecked |-> {}, hashes |-> {},
                    fed |-> {}, cdn |-> FALSE, more |-> FALSE, priority |-> 0]
    BY <1>1 DEF NewTask
<1> QED BY <1>1, <1>2, <1>3 DEF TaskOf

LEMMA GoodDestroy ==
    ASSUME Good(World), NEW t \in Tasks, Destroy(t)
    PROVE  Good(World')
<1>1. Running
    BY DEF Destroy, Usual, Input
<1>2. PICK w : w = World
    OBVIOUS
<1>3. Mid(w, t, {})
    BY <1>1, <1>2, AtStart
<1>4. PICK A : Int \subseteq A /\ w \in Worlds(A)
    BY <1>3 DEF Mid, Typed
<1>5. PICK c : c = CancelAllRequests(w, t)
    OBVIOUS
<1>6. c \in Worlds(A) /\ Rest(c, t)
    <2>1. PICK more \in BOOLEAN :
            /\ c \in Worlds(A)
            /\ Changed(w, c, t, WithRequests(w.task[t], {}, more, {}),
                       ChangeRequestedAmount(w.dc, w.task[t].sent, -1))
        BY <1>4, <1>5, CancelAllEffect
    <2> QED BY <1>3, <2>1 DEF Changed, Rest, Mid
<1>7. PICK v : v = RemoveFromQueue(c, t)
    OBVIOUS
<1>8. Typed(v) /\ Rest(v, t)
    BY <1>4, <1>6, <1>7, RestRemoveFromQueue DEF Typed
<1>9. PICK B : Int \subseteq B /\ v \in Worlds(B)
    BY <1>8 DEF Typed
<1>10. PICK k : k = [NewTask(t) EXCEPT !.state = "gone"]
    OBVIOUS
<1>11. k \in TaskOf(B) /\ k.state = "gone" /\ k.sent = {} /\ k.unchecked = {}
    <2>1. NewTask(t) \in TaskOf(B) /\ NewTask(t).sent = {} /\ NewTask(t).unchecked = {}
        BY NewTaskType
    <2> QED BY <1>10, <2>1 DEF TaskOf, States
<1>12. Sound(t, k, {}) /\ Apart(k, {})
    BY <1>11 DEF Sound, Apart, Whole, Loads
<1>13. PICK x : x = WithTask(v, t, k)
    OBVIOUS
<1>14. Mid(x, t, {})
    BY <1>8, <1>9, <1>11, <1>12, <1>13, MidWithTask
<1>15. x = [v EXCEPT !.task[t] = [NewTask(t) EXCEPT !.state = "gone"]]
    BY <1>10, <1>13 DEF WithTask
<1>16. Becomes(x)
    BY <1>2, <1>5, <1>7, <1>15 DEF Destroy
<1> QED BY <1>14, <1>16, MidIsGood, Arrives

LEMMA GoodLoad ==
    ASSUME Good(World), NEW t \in Tasks, NEW o \in Offsets, Load(t, o)
    PROVE  Good(World')
<1>1. Running /\ t \notin Files
    BY DownloadsAssumption DEF Load, Input
<1>2. PICK w : w = World
    OBVIOUS
<1>3. Mid(w, t, {}) /\ w.task = task
    BY <1>1, <1>2, AtStart
<1>4. PICK A : Int \subseteq A /\ w \in Worlds(A)
    BY <1>3 DEF Mid, Typed
<1>5. PICK k, l : k = w.task[t] /\ l = [k EXCEPT !.todo = k.todo \cup {o}]
    OBVIOUS
<1>6. k \in TaskOf(A) /\ Sound(t, k, {}) /\ Apart(k, {})
    BY <1>3, <1>4, <1>5, TaskParts DEF Mid
<1>7. /\ l \in TaskOf(A) /\ l.state = k.state /\ l.todo = k.todo \cup {o} /\ l.sent = k.sent
      /\ l.unchecked = k.unchecked /\ l.fed = k.fed /\ k.priority \in 0 .. 1
    BY <1>5, <1>6 DEF TaskOf
<1>8. ~HaveSentRequestForOffset(k, o)
    BY <1>3, <1>5 DEF Load
<1>9. Sound(t, l, {}) /\ Apart(l, {})
    BY <1>1, <1>6, <1>7, <1>8 DEF Sound, Apart, HaveSentRequestForOffset
<1>10. PICK v : v = WithTask(w, t, l)
    OBVIOUS
<1>11. Mid(v, t, {})
    BY <1>3, <1>4, <1>7, <1>9, <1>10, MidWithTask DEF Mid
<1>12. v = [w EXCEPT !.task[t].todo = @ \cup {o}]
    BY <1>4, <1>5, <1>10, WorldParts DEF WithTask
<1>13. PICK x, p : x = AddToQueue(v, t, p) /\ p = k.priority
    OBVIOUS
<1>14. Mid(x, t, {})
    BY <1>7, <1>11, <1>13, MidAddToQueue
<1>15. Becomes(x)
    BY <1>2, <1>3, <1>5, <1>12, <1>13 DEF Load
<1> QED BY <1>14, <1>15, MidIsGood, Arrives

LEMMA GoodCancelForOffset ==
    ASSUME Good(World), NEW t \in Tasks, NEW o \in Offsets, CancelForOffset(t, o)
    PROVE  Good(World')
<1>1. Running /\ t \notin Files
    BY DownloadsAssumption DEF CancelForOffset, Input
<1>2. PICK w : w = World
    OBVIOUS
<1>3. Mid(w, t, {}) /\ w.task = task
    BY <1>1, <1>2, AtStart
<1>4. PICK A : Int \subseteq A /\ w \in Worlds(A)
    BY <1>3 DEF Mid, Typed
<1>5. PICK k : k = w.task[t]
    OBVIOUS
<1>6. /\ k \in TaskOf(A) /\ Sound(t, k, {}) /\ Apart(k, {}) /\ k.priority \in 0 .. 1
      /\ k.unchecked \subseteq Part
    BY <1>3, <1>4, <1>5, TaskParts DEF Mid, TaskOf
<1>7. CASE HaveSentRequestForOffset(task[t], o)
    <2>1. PICK S : S = {r \in k.sent : r.offset = o}
        OBVIOUS
    <2>2. PICK c : c = CancelRequests(w, t, S)
        OBVIOUS
    <2>3. S \subseteq w.task[t].sent
        BY <1>5, <2>1
    <2>4. PICK more \in BOOLEAN :
            /\ c \in Worlds(A)
            /\ Changed(w, c, t, WithRequests(k, k.sent \ S, more, k.unchecked),
                       ChangeRequestedAmount(w.dc, S, -1))
        BY <1>4, <1>5, <2>2, <2>3, CancelEffect
    <2>5. PICK m : m = c.task[t]
        OBVIOUS
    <2>6. /\ m \in TaskOf(A) /\ m.state = k.state /\ m.todo = k.todo /\ m.sent = k.sent \ S
          /\ m.unchecked = k.unchecked
        <3>1. m = WithRequests(k, k.sent \ S, more, k.unchecked) /\ m \in TaskOf(A)
            BY <2>4, <2>5, TaskParts DEF Changed
        <3> QED BY <1>6, <3>1 DEF WithRequests, TaskOf
    <2>7. PICK l : l = [m EXCEPT !.unchecked = {u \in k.unchecked : u.offset # o}]
        OBVIOUS
    <2>8. /\ l \in TaskOf(A) /\ l.state = k.state /\ l.todo = k.todo /\ l.sent = k.sent \ S
          /\ l.unchecked = {u \in k.unchecked : u.offset # o}
        BY <1>6, <2>6, <2>7 DEF TaskOf
    <2>9. Sound(t, l, {}) /\ Apart(l, {})
        BY <1>1, <1>6, <2>8 DEF Sound, Apart
    <2>10. PICK v : v = WithTask(c, t, l)
        OBVIOUS
    <2>11. Mid(v, t, {})
        <3>1. Rest(c, t)
            BY <1>3, <2>4 DEF Changed, Rest, Mid
        <3> QED BY <1>4, <2>4, <2>8, <2>9, <2>10, <3>1, MidWithTask
    <2>12. v = [c EXCEPT !.task[t].unchecked = {u \in @ : u.offset # o}]
        <3>1. [c EXCEPT !.task[t].unchecked = {u \in @ : u.offset # o}]
                = [c EXCEPT !.task[t].unchecked = {u \in k.unchecked : u.offset # o}]
            BY <2>5, <2>6
        <3> QED BY <2>4, <2>5, <2>7, <2>10, <3>1, WorldParts DEF WithTask
    <2>13. PICK x, y, p : /\ p = k.priority /\ y = AddToQueue(v, t, p)
                          /\ x = IF k.todo # {} THEN y ELSE v
        OBVIOUS
    <2>14. Mid(y, t, {})
        BY <1>6, <2>11, <2>13, MidAddToQueue
    <2>15. Good(x)
        BY <2>11, <2>13, <2>14, MidIsGood
    <2>16. Becomes(x)
        BY <1>2, <1>3, <1>5, <1>7, <2>1, <2>2, <2>12, <2>13 DEF CancelForOffset
    <2> QED BY <2>15, <2>16, Arrives
<1>8. CASE ~HaveSentRequestForOffset(task[t], o)
    <2>1. PICK l : l = [k EXCEPT !.todo = k.todo \ {o}]
        OBVIOUS
    <2>2. /\ l \in TaskOf(A) /\ l.state = k.state /\ l.todo = k.todo \ {o} /\ l.sent = k.sent
          /\ l.unchecked = k.unchecked
        BY <1>6, <2>1 DEF TaskOf
    <2>3. Sound(t, l, {}) /\ Apart(l, {})
        BY <1>1, <1>6, <2>2 DEF Sound, Apart
    <2>4. PICK v : v = WithTask(w, t, l)
        OBVIOUS
    <2>5. Mid(v, t, {})
        BY <1>3, <1>4, <2>2, <2>3, <2>4, MidWithTask DEF Mid
    <2>6. v = [w EXCEPT !.task[t].todo = @ \ {o}]
        BY <1>4, <1>5, <2>1, <2>4, WorldParts DEF WithTask
    <2>7. Becomes(v)
        BY <1>2, <1>8, <2>6 DEF CancelForOffset
    <2> QED BY <2>5, <2>7, MidIsGood, Arrives
<1> QED BY <1>7, <1>8

LEMMA GoodTryRemove ==
    ASSUME Good(World), NEW t \in Tasks, TryRemoveFromQueue(t)
    PROVE  Good(World')
<1>1. Running
    BY DEF TryRemoveFromQueue, Usual
<1>2. PICK w, x : w = World /\ x = RemoveFromQueue(w, t)
    OBVIOUS
<1>3. Mid(w, t, {})
    BY <1>1, <1>2, AtStart
<1>4. Mid(x, t, {})
    BY <1>2, <1>3, MidRemoveFromQueue
<1>5. Becomes(x)
    BY <1>2 DEF TryRemoveFromQueue
<1> QED BY <1>4, <1>5, MidIsGood, Arrives

\* The requests and the offsets of a streamed file are forgotten.
LEMMA StopEffect ==
    ASSUME NEW w, NEW t \in Tasks, Mid(w, t, {}), t \notin Files,
           NEW A, Int \subseteq A, w \in Worlds(A)
    PROVE  \E c, k : /\ c = CancelAllRequests(w, t) /\ c \in Worlds(A) /\ Rest(c, t)
                     /\ k = [c.task[t] EXCEPT !.todo = {}] /\ k \in TaskOf(A)
                     /\ c.task[t] \in TaskOf(A)
                     /\ k.todo = {} /\ k.sent = {} /\ k.unchecked = {}
                     /\ Sound(t, k, {}) /\ Apart(k, {})
                     /\ [c EXCEPT !.task[t].todo = {}] = WithTask(c, t, k)
<1>1. PICK c : c = CancelAllRequests(w, t)
    OBVIOUS
<1>2. PICK more \in BOOLEAN :
        /\ c \in Worlds(A)
        /\ Changed(w, c, t, WithRequests(w.task[t], {}, more, {}),
                   ChangeRequestedAmount(w.dc, w.task[t].sent, -1))
    BY <1>1, CancelAllEffect
<1>3. Rest(c, t)
    BY <1>2 DEF Changed, Rest, Mid
<1>4. PICK k : k = [c.task[t] EXCEPT !.todo = {}]
    OBVIOUS
<1>5. c.task[t] \in TaskOf(A) /\ w.task[t] \in TaskOf(A)
    BY <1>2, TaskParts
<1>6. c.task[t].sent = {} /\ c.task[t].unchecked = {}
    BY <1>2, <1>5 DEF Changed, WithRequests, TaskOf
<1>7. k \in TaskOf(A) /\ k.todo = {} /\ k.sent = {} /\ k.unchecked = {}
    BY <1>4, <1>5, <1>6 DEF TaskOf
<1>8. Sound(t, k, {}) /\ Apart(k, {})
    BY <1>7 DEF Sound, Apart
<1>9. [c EXCEPT !.task[t].todo = {}] = WithTask(c, t, k)
    BY <1>2, <1>4, WorldParts DEF WithTask
<1> QED BY <1>1, <1>2, <1>3, <1>4, <1>5, <1>7, <1>8, <1>9

LEMMA GoodStop ==
    ASSUME Good(World), NEW t \in Tasks, Stop(t)
    PROVE  Good(World')
<1>1. Running /\ t \notin Files
    BY DownloadsAssumption DEF Stop, Input
<1>2. PICK w : w = World
    OBVIOUS
<1>3. Mid(w, t, {})
    BY <1>1, <1>2, AtStart
<1>4. PICK A : Int \subseteq A /\ w \in Worlds(A)
    BY <1>3 DEF Mid, Typed
<1>5. PICK c, k : /\ c = CancelAllRequests(w, t) /\ c \in Worlds(A) /\ Rest(c, t)
                  /\ k \in TaskOf(A) /\ Sound(t, k, {}) /\ Apart(k, {})
                  /\ [c EXCEPT !.task[t].todo = {}] = WithTask(c, t, k)
    BY <1>1, <1>3, <1>4, StopEffect
<1>6. PICK v, x : v = WithTask(c, t, k) /\ x = RemoveFromQueue(v, t)
    OBVIOUS
<1>7. Mid(v, t, {})
    BY <1>4, <1>5, <1>6, MidWithTask
<1>8. Mid(x, t, {})
    BY <1>6, <1>7, MidRemoveFromQueue
<1>9. Becomes(x)
    BY <1>2, <1>5, <1>6 DEF Stop
<1> QED BY <1>8, <1>9, MidIsGood, Arrives

LEMMA GoodSetPriority ==
    ASSUME Good(World), NEW t \in Tasks, NEW p \in {0, 1}, SetPriority(t, p)
    PROVE  Good(World')
<1>1. Running
    BY DEF SetPriority, Input
<1>2. PICK w : w = World
    OBVIOUS
<1>3. Mid(w, t, {}) /\ w.task = task
    BY <1>1, <1>2, AtStart
<1>4. PICK A : Int \subseteq A /\ w \in Worlds(A)
    BY <1>3 DEF Mid, Typed
<1>5. PICK k, l : k = w.task[t] /\ l = [k EXCEPT !.priority = p]
    OBVIOUS
<1>6. k \in TaskOf(A) /\ Sound(t, k, {}) /\ Apart(k, {}) /\ p \in 0 .. 1
    BY <1>3, <1>4, <1>5, TaskParts DEF Mid
<1>7. /\ l \in TaskOf(A) /\ l.state = k.state /\ l.todo = k.todo /\ l.sent = k.sent
      /\ l.unchecked = k.unchecked /\ l.fed = k.fed
    BY <1>5, <1>6 DEF TaskOf
<1>8. Sound(t, l, {}) /\ Apart(l, {})
    BY <1>6, <1>7, SameRequests
<1>9. PICK v : v = WithTask(w, t, l)
    OBVIOUS
<1>10. Mid(v, t, {})
    BY <1>3, <1>4, <1>7, <1>8, <1>9, MidWithTask DEF Mid
<1>11. v = [w EXCEPT !.task[t].priority = p]
    BY <1>4, <1>5, <1>9, WorldParts DEF WithTask
<1>12. PICK x, y : y = AddToQueue(v, t, p) /\ x = IF HaveSentRequests(k) THEN y ELSE v
    OBVIOUS
<1>13. Mid(y, t, {})
    BY <1>6, <1>10, <1>12, MidAddToQueue
<1>14. Good(x)
    BY <1>10, <1>12, <1>13, MidIsGood
<1>15. Becomes(x)
    BY <1>2, <1>3, <1>5, <1>11, <1>12 DEF SetPriority
<1> QED BY <1>14, <1>15, Arrives

LEMMA GoodOwn ==
    ASSUME Good(World), NEW t \in Tasks, Own(t)
    PROVE  Good(World')
<1>1. CASE MoreCdnFileHashes(t)
    BY <1>1, GoodMoreHashes
<1>2. CASE StartLoading(t)
    BY <1>2, GoodStartLoading
<1>3. CASE CancelLoading(t)
    BY <1>3, GoodCancelLoading
<1>4. CASE Destroy(t)
    BY <1>4, GoodDestroy
<1>5. ASSUME NEW o \in Offsets, Load(t, o) PROVE Good(World')
    BY <1>5, GoodLoad
<1>6. ASSUME NEW o \in Offsets, CancelForOffset(t, o) PROVE Good(World')
    BY <1>6, GoodCancelForOffset
<1>7. CASE TryRemoveFromQueue(t)
    BY <1>7, GoodTryRemove
<1>8. ASSUME NEW p \in {0, 1}, SetPriority(t, p) PROVE Good(World')
    BY <1>8, GoodSetPriority
<1>9. CASE Stop(t)
    BY <1>9, GoodStop
<1> QED BY <1>1, <1>2, <1>3, <1>4, <1>5, <1>6, <1>7, <1>8, <1>9, Zenon DEF Own

\* The record of the data centre is replaced between handlers.
LEMMA GoodDc ==
    ASSUME NEW w, Good(w), NEW d \in DcRec
    PROVE  Good([w EXCEPT !.dc = d])
<1>1. PICK A : Int \subseteq A /\ w \in Worlds(A)
    BY DEF Good, Typed
<1>2. PICK v : v = [w EXCEPT !.dc = d]
    OBVIOUS
<1>3. v \in Worlds(A) /\ v.task = w.task
    BY <1>1, <1>2, DcEffect
<1> QED BY <1>1, <1>2, <1>3 DEF Good, Typed

\* The record of the data centre after a timeout.
TimedOut(d, timeouts) == [d EXCEPT !.sessions = NoSuccesses(@), !.timeouts = timeouts]

LEMMA TimedOutType ==
    ASSUME NEW d \in DcRec, NEW n \in 0 .. RemoveAfterTimeouts - 1
    PROVE  /\ TimedOut(d, n) \in DcRec
           /\ Len(TimedOut(d, n).sessions) = Len(d.sessions)
           /\ \A i \in 1 .. Len(d.sessions) :
                TimedOut(d, n).sessions[i].requested = d.sessions[i].requested
           /\ TimedOut(d, n).total = d.total /\ TimedOut(d, n).kill = d.kill
<1>1. PICK s, z, e : s = d.sessions /\ z = NoSuccesses(s) /\ e = TimedOut(d, n)
    OBVIOUS
<1>2. s \in SessionLists /\ \A i \in 1 .. Len(s) : s[i] \in SessionRec
    BY <1>1, SessionsParts DEF DcRec
<1>3. /\ z \in SessionLists /\ Len(z) = Len(s)
      /\ \A i \in 1 .. Len(s) : z[i] = [s[i] EXCEPT !.successes = 0]
    BY <1>1, <1>2, NoSuccessesType
<1>4. e = [d EXCEPT !.sessions = z, !.timeouts = n]
    BY <1>1 DEF TimedOut
<1>5. e \in DcRec /\ e.sessions = z /\ e.total = d.total /\ e.kill = d.kill
    BY <1>3, <1>4 DEF DcRec
<1>6. \A i \in 1 .. Len(s) : z[i].requested = s[i].requested
    BY <1>2, <1>3 DEF SessionRec
<1> QED BY <1>1, <1>3, <1>5, <1>6

\* The three outcomes of a timeout.
LEMMA TimedOutCases ==
    ASSUME Good(World), NEW i, SessionTimedOut(i)
    PROVE  /\ Running
           /\ \E n \in 0 .. RemoveAfterTimeouts - 1 :
                LET v == [World EXCEPT !.dc = TimedOut(dc, n)]
                IN  \/ Becomes(v)
                    \/ Len(dc.sessions) > 1 /\ Becomes(RemoveSession(v))
<1>1. PICK w : w = World
    OBVIOUS
<1>2. PICK A : Int \subseteq A /\ w \in Worlds(A)
    BY <1>1 DEF Good, Typed
<1>3. w.dc = dc /\ w.dc \in DcRec
    BY <1>1, <1>2, WorldParts DEF World
<1>4. Len(dc.sessions) \in Nat \ {0} /\ dc.timeouts \in 0 .. RemoveAfterTimeouts - 1
    BY <1>3, SessionsParts, Constants DEF DcRec
<1>5. PICK s : s = NoSuccesses(dc.sessions)
    OBVIOUS
<1>6. PICK w1, w2, w3 : /\ w1 = [w EXCEPT !.dc.sessions = NoSuccesses(@)]
                        /\ w2 = [w1 EXCEPT !.dc.timeouts = @ + 1]
                        /\ w3 = [w2 EXCEPT !.dc.timeouts = 0]
    OBVIOUS
<1>7. Becomes(IF Len(dc.sessions) = 1 THEN w1
              ELSE IF dc.timeouts + 1 < RemoveAfterTimeouts THEN w2
              ELSE RemoveSession(w3))
    BY <1>1, <1>6 DEF SessionTimedOut
<1>8. w1 = [w EXCEPT !.dc = [dc EXCEPT !.sessions = s, !.timeouts = dc.timeouts]]
    BY <1>2, <1>3, <1>5, <1>6, WorldParts DEF DcRec
<1> DEFINE With(d) == [dc |-> d, queue |-> w.queue, task |-> w.task]
<1>14. PICK d1, d2, d3 : /\ d1 = [dc EXCEPT !.sessions = s, !.timeouts = dc.timeouts]
                         /\ d2 = [d1 EXCEPT !.timeouts = d1.timeouts + 1]
                         /\ d3 = [d2 EXCEPT !.timeouts = 0]
    OBVIOUS
<1>15. w1 = With(d1) /\ w2 = With(d2) /\ w3 = With(d3)
    <2>1. w1 = With(d1)
        BY <1>2, <1>8, <1>14, WorldParts
    <2>2. w2 = With(d2)
        <3>1. w1.dc = d1
            BY <2>1
        <3>2. w2 = [w1 EXCEPT !.dc = [d1 EXCEPT !.timeouts = d1.timeouts + 1]]
            BY <1>6, <3>1
        <3> QED BY <1>14, <2>1, <3>2
    <2>3. w3 = With(d3)
        <3>1. w2.dc = d2
            BY <2>2
        <3>2. w3 = [w2 EXCEPT !.dc = [d2 EXCEPT !.timeouts = 0]]
            BY <1>6, <3>1
        <3> QED BY <1>14, <2>2, <3>2
    <2> QED BY <2>1, <2>2, <2>3
<1>16. /\ d2 = [dc EXCEPT !.sessions = s, !.timeouts = dc.timeouts + 1]
       /\ d3 = [dc EXCEPT !.sessions = s, !.timeouts = 0]
    BY <1>3, <1>14 DEF DcRec
<1>9. w2 = [w EXCEPT !.dc = [dc EXCEPT !.sessions = s, !.timeouts = dc.timeouts + 1]]
    BY <1>2, <1>15, <1>16, WorldParts
<1>10. w3 = [w EXCEPT !.dc = [dc EXCEPT !.sessions = s, !.timeouts = 0]]
    BY <1>2, <1>15, <1>16, WorldParts
<1>11. CASE Len(dc.sessions) = 1
    <2>1. w1 = [w EXCEPT !.dc = TimedOut(dc, dc.timeouts)]
        BY <1>5, <1>8 DEF TimedOut
    <2> QED BY <1>1, <1>4, <1>7, <1>11, <2>1 DEF SessionTimedOut, Usual
<1>12. CASE Len(dc.sessions) # 1 /\ dc.timeouts + 1 < RemoveAfterTimeouts
    <2>1. w2 = [w EXCEPT !.dc = TimedOut(dc, dc.timeouts + 1)]
        BY <1>5, <1>9 DEF TimedOut
    <2>2. dc.timeouts + 1 \in 0 .. RemoveAfterTimeouts - 1
        BY <1>4, <1>12, Constants
    <2> QED BY <1>1, <1>7, <1>12, <2>1, <2>2 DEF SessionTimedOut, Usual
<1>13. CASE Len(dc.sessions) # 1 /\ ~(dc.timeouts + 1 < RemoveAfterTimeouts)
    <2>1. w3 = [w EXCEPT !.dc = TimedOut(dc, 0)]
        BY <1>5, <1>10 DEF TimedOut
    <2>2. 0 \in 0 .. RemoveAfterTimeouts - 1 /\ Len(dc.sessions) > 1
        <3>1. PICK m : m = Len(dc.sessions)
            OBVIOUS
        <3>2. m \in Nat \ {0} /\ m # 1
            BY <1>4, <1>13, <3>1
        <3>3. m > 1
            BY <3>2
        <3>4. 0 \in 0 .. RemoveAfterTimeouts - 1
            BY Constants
        <3> QED BY <3>1, <3>3, <3>4
    <2> QED BY <1>1, <1>7, <1>13, <2>1, <2>2 DEF SessionTimedOut, Usual
<1> QED BY <1>11, <1>12, <1>13

LEMMA GoodSessionTimedOut ==
    ASSUME Good(World), NEW i, SessionTimedOut(i)
    PROVE  Good(World')
<1>1. PICK w : w = World
    OBVIOUS
<1>2. w.dc = dc /\ w.task = task /\ w.dc \in DcRec
    <2>1. PICK A : w \in Worlds(A)
        BY <1>1 DEF Good, Typed
    <2> QED BY <1>1, <2>1, WorldParts DEF World
<1>3. PICK n \in 0 .. RemoveAfterTimeouts - 1 :
        \/ Becomes([w EXCEPT !.dc = TimedOut(dc, n)])
        \/ Len(dc.sessions) > 1 /\ Becomes(RemoveSession([w EXCEPT !.dc = TimedOut(dc, n)]))
    BY <1>1, TimedOutCases
<1>4. PICK d : d = TimedOut(dc, n)
    OBVIOUS
<1>5. d \in DcRec /\ Len(d.sessions) = Len(dc.sessions)
    BY <1>2, <1>4, TimedOutType
<1>6. PICK v : v = [w EXCEPT !.dc = d]
    OBVIOUS
<1>7. Good(v)
    BY <1>1, <1>5, <1>6, GoodDc
<1>8. Distinct(v) /\ v.dc = d
    <2>1. PICK A : w \in Worlds(A)
        BY <1>1 DEF Good, Typed
    <2>2. v.task = task /\ v.dc = d
        BY <1>2, <1>5, <1>6, <2>1, DcEffect
    <2>3. Running
        BY TimedOutCases
    <2> QED BY <2>2, <2>3 DEF Distinct, Running
<1>9. Len(dc.sessions) > 1 => Good(RemoveSession(v))
    BY <1>5, <1>7, <1>8, GoodRemoveSession
<1> QED BY <1>3, <1>4, <1>6, <1>7, <1>9, Arrives

LEMMA NewDcType ==
    ASSUME NEW n \in 1 .. MaxSessions
    PROVE  LET d == NewDc([i \in 1 .. n |-> NewSession])
           IN  /\ d \in DcRec /\ Len(d.sessions) = n
               /\ \A i \in 1 .. n : d.sessions[i].requested = 0
               /\ d.total = 0 /\ d.kill = FALSE
<1>1. NewSession \in SessionRec /\ NewSession.requested = 0
    BY Constants DEF NewSession, SessionRec
<1>2. PICK s : s = [i \in 1 .. n |-> NewSession]
    OBVIOUS
<1>3. s \in SessionLists /\ Len(s) = n
    <2>1. s \in [1 .. n -> SessionRec]
        BY <1>1, <1>2
    <2> QED BY <2>1, IsSessions
<1>4. NewDc(s) \in DcRec /\ NewDc(s).sessions = s /\ NewDc(s).total = 0 /\ NewDc(s).kill = FALSE
    <2>1. 0 \in 0 .. MaxSessions /\ 0 \in 0 .. MaxRemoves /\ 0 \in 0 .. RemoveAfterTimeouts - 1
          /\ FALSE \in BOOLEAN /\ 0 \in Int
        BY Constants
    <2> QED BY <1>3, <2>1 DEF NewDc, DcRec
<1> QED BY <1>1, <1>2, <1>3, <1>4

LEMMA GoodKillSessions ==
    ASSUME Good(World), KillSessions
    PROVE  Good(World')
<1>1. PICK w : w = World
    OBVIOUS
<1>2. PICK A : w \in Worlds(A)
    BY <1>1 DEF Good, Typed
<1>3. w.dc = dc /\ w.dc \in DcRec /\ w.task = task /\ w.queue = queue
    BY <1>1, <1>2, WorldParts DEF World
<1>4. PICK n : n = Len(dc.sessions)
    OBVIOUS
<1>5. n \in 1 .. MaxSessions /\ DOMAIN dc.sessions = 1 .. n
    BY <1>3, <1>4, SessionsParts DEF DcRec
<1>6. PICK d : d = NewDc([i \in 1 .. n |-> NewSession])
    OBVIOUS
<1>7. d \in DcRec
    BY <1>5, <1>6, NewDcType
<1>8. dc' = d
    BY <1>5, <1>6 DEF KillSessions
<1>9. PICK v : v = [w EXCEPT !.dc = d]
    OBVIOUS
<1>10. Good(v)
    BY <1>1, <1>7, <1>9, GoodDc
<1>11. v.dc = d /\ v.queue = w.queue /\ v.task = w.task
    BY <1>2, <1>7, <1>9, DcEffect
<1>12. Becomes(v)
    BY <1>3, <1>8, <1>11 DEF Becomes, KillSessions
<1> QED BY <1>10, <1>12, Arrives

LEMMA NextGenerationType ==
    ASSUME NEW q \in Seq(Entry)
    PROVE  /\ NextGeneration(q) \in Seq(Entry) /\ Len(NextGeneration(q)) = Len(q)
           /\ \A i \in 1 .. Len(q) : NextGeneration(q)[i].task = q[i].task
<1>1. PICK c, n : c = NextGeneration(q) /\ n = Len(q)
    OBVIOUS
<1>2. n \in Nat /\ DOMAIN q = 1 .. n /\ \A i \in 1 .. n : q[i] \in Entry
    BY <1>1, LenProperties, ElementOfSeq
<1>3. ASSUME NEW i \in 1 .. n PROVE c[i] \in Entry /\ c[i].task = q[i].task
    <2>1. c[i] = q[i] \/ c[i] = [q[i] EXCEPT !.priority = -1]
        BY <1>1, <1>2, Zenon DEF NextGeneration
    <2> QED BY <1>2, <2>1 DEF Entry
<1>4. c \in [1 .. n -> Entry]
    <2>1. DOMAIN c = 1 .. n /\ c = [i \in 1 .. n |-> c[i]]
        BY <1>1, <1>2, Zenon DEF NextGeneration
    <2> QED BY <1>3, <2>1
<1>5. c \in Seq(Entry) /\ Len(c) = n
    BY <1>2, <1>4, FunctionIsSeq
<1> QED BY <1>1, <1>3, <1>5

LEMMA GoodResetGeneration ==
    ASSUME Good(World), ResetGeneration
    PROVE  Good(World')
<1>1. PICK w : w = World
    OBVIOUS
<1>2. PICK A : Int \subseteq A /\ w \in Worlds(A)
    BY <1>1 DEF Good, Typed
<1>3. w.dc = dc /\ w.task = task /\ w.queue = queue /\ w.queue \in Seq(Entry)
    BY <1>1, <1>2, WorldParts DEF World
<1>4. PICK q : q = NextGeneration(queue)
    OBVIOUS
<1>5. q \in Seq(Entry)
    BY <1>3, <1>4, NextGenerationType
<1>6. PICK v : v = [w EXCEPT !.queue = q]
    OBVIOUS
<1>7. v \in Worlds(A) /\ v.dc = w.dc /\ v.queue = q /\ v.task = w.task
    BY <1>2, <1>5, <1>6, QueueEffect
<1>8. Good(v)
    BY <1>1, <1>2, <1>7 DEF Good, Typed
<1>9. Becomes(v)
    BY <1>3, <1>4, <1>7 DEF Becomes, ResetGeneration
<1> QED BY <1>8, <1>9, Arrives

-----------------------------------------------------------------------------
(* Files that are finished.                                                *)

LEMMA InitGood ==
    ASSUME Init
    PROVE  Good(World)
<1>1. PICK s, n : s = [i \in 1 .. n |-> NewSession] /\ n = 1
    OBVIOUS
<1>2. n \in 1 .. MaxSessions
    BY <1>1, Constants
<1>3. dc = NewDc(s)
    <2>1. <<NewSession>> = s
        BY <1>1
    <2> QED BY <2>1 DEF Init
<1>4. dc \in DcRec
    BY <1>1, <1>2, <1>3, NewDcType
<1>5. \A t \in Tasks : /\ NewTask(t) \in TaskOf(Int) /\ NewTask(t).sent = {}
                       /\ NewTask(t).unchecked = {}
                       /\ NewTask(t).state = (IF t \in Files THEN "new" ELSE "on")
                       /\ NewTask(t).todo = (IF t \in Files THEN Offsets ELSE {})
    BY NewTaskType
<1>6. task \in [Tasks -> TaskOf(Int)] /\ \A t \in Tasks : task[t] = NewTask(t)
    BY <1>5 DEF Init
<1>7. World \in Worlds(Int)
    BY <1>4, <1>6 DEF World, Worlds, Init
<1>8. ASSUME NEW t \in Tasks PROVE Sound(t, task[t], {})
    BY <1>5, <1>6 DEF Sound, Has, Whole, Loads
<1>9. World.task = task
    BY DEF World
<1> QED BY <1>7, <1>8, <1>9 DEF Good, Typed

LEMMA NextGood ==
    ASSUME Good(World), [Next]_vars
    PROVE  Good(World')
<1>1. ASSUME NEW t \in Tasks, Own(t) PROVE Good(World')
    BY <1>1, GoodOwn
<1>2. ASSUME NEW t \in Tasks, NEW r \in task[t].sent, Answer(t, r) PROVE Good(World')
    BY <1>2, GoodAnswer
<1>3. ASSUME NEW i \in 1 .. MaxSessions, SessionTimedOut(i) PROVE Good(World')
    BY <1>3, GoodSessionTimedOut
<1>4. CASE KillSessions
    BY <1>4, GoodKillSessions
<1>5. CASE ResetGeneration
    BY <1>5, GoodResetGeneration
<1>6. CASE UNCHANGED vars
    <2>1. World' = World
        BY <1>6 DEF vars, World
    <2> QED BY <2>1
<1>7. CASE Next
    BY <1>1, <1>2, <1>3, <1>4, <1>5, <1>7, Zenon DEF Next
<1> QED BY <1>6, <1>7

\* A file is called finished only when every part of it was written or, after a
\* part that came short, every part that was asked for: whatever the manager, the
\* sessions, the CDN and the owners of the loaders do, no part of a file is
\* forgotten (file_download_mtproto.cpp, feedPart).
THEOREM FinishedFilesAreWhole == Spec => []FinishedIsWhole
<1>1. Init => Good(World)
    BY InitGood
<1>2. Good(World) /\ [Next]_vars => Good(World)'
    BY NextGood
<1>3. Good(World) => FinishedIsWhole
    <2> SUFFICES ASSUME Good(World), NEW t \in Files
                 PROVE  Whole(task[t])
        BY DEF FinishedIsWhole, Whole
    <2>1. t \in Tasks /\ World.task = task
        BY DEF Tasks, World
    <2>2. Sound(t, task[t], {})
        BY <2>1 DEF Good
    <2> QED BY <2>2 DEF Sound
<1> QED BY <1>1, <1>2, <1>3, PTL DEF Spec
=============================================================================
