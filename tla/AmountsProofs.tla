--------------------------- MODULE AmountsProofs ----------------------------
(***************************************************************************)
(* The download manager does not lose count of its requests and does not   *)
(* stop while there is something to ask for, for any number of loaders,    *)
(* parts and sessions.                                                     *)
(***************************************************************************)
EXTENDS DownloadsProofs

-----------------------------------------------------------------------------
(* The amounts and the requests.                                           *)

\* The requests of P, with their loaders, that are with session j.
With(P, j) == {p \in P : p[2].index = j}

\* The record d of the data centre has the amounts of the requests P; in
\* session j it counts extra[j] more.
Agree(P, d, extra) ==
    /\ IsFiniteSet(P)
    /\ \A j \in 1 .. Len(d.sessions) :
         d.sessions[j].requested = Cardinality(With(P, j)) + extra[j]
    /\ d.total = Cardinality(P)
    /\ \A p \in P : p[2].index \in 1 .. Len(d.sessions) /\ p[2].amount \in Nat
    /\ d.kill => d.total = 0

Extras == [1 .. MaxSessions -> Nat]

LEMMA WithFinite ==
    ASSUME NEW P, IsFiniteSet(P), NEW j
    PROVE  /\ IsFiniteSet(With(P, j)) /\ Cardinality(With(P, j)) \in Nat
           /\ With(P, j) \subseteq P
<1>1. With(P, j) \in SUBSET P
    BY DEF With
<1> QED BY <1>1, FS_Subset, FS_CardinalityType

\* Some requests are finished.
LEMMA AgreeLess ==
    ASSUME NEW P, NEW d \in DcRec, NEW extra \in Extras, Agree(P, d, extra),
           NEW Q, Q \subseteq P, Q # {}, NEW c \in DcRec, Len(c.sessions) = Len(d.sessions),
           \A j \in 1 .. Len(d.sessions) :
                c.sessions[j].requested = d.sessions[j].requested - Cardinality(With(Q, j)),
           c.total = d.total - Cardinality(Q),
           c.kill => d.kill \/ \A j \in 1 .. Len(d.sessions) : c.sessions[j].requested <= 0
    PROVE  Agree(P \ Q, c, extra)
<1>1. PICK R : R = P \ Q
    OBVIOUS
<1>2. IsFiniteSet(P) /\ IsFiniteSet(Q) /\ IsFiniteSet(R)
    BY <1>1, FS_Subset, FS_Difference DEF Agree
<1>3. Cardinality(P) \in Nat /\ Cardinality(Q) \in Nat /\ Cardinality(R) \in Nat
    BY <1>2, FS_CardinalityType
<1>4. Cardinality(R) = Cardinality(P) - Cardinality(Q)
    <2>1. P \cap Q = Q
        OBVIOUS
    <2>2. Cardinality(P \ Q) = Cardinality(P) - Cardinality(P \cap Q)
        BY <1>2, FS_Difference
    <2> QED BY <1>1, <2>1, <2>2
<1>5. ASSUME NEW j
      PROVE  /\ Cardinality(With(R, j)) = Cardinality(With(P, j)) - Cardinality(With(Q, j))
             /\ Cardinality(With(R, j)) \in Nat /\ Cardinality(With(Q, j)) \in Nat
             /\ Cardinality(With(P, j)) \in Nat
    <2>1. PICK S, T : S = With(P, j) /\ T = With(Q, j)
        OBVIOUS
    <2>2. With(R, j) = S \ T /\ S \cap T = T
        BY <1>1, <2>1 DEF With
    <2>3. Cardinality(S \ T) = Cardinality(S) - Cardinality(S \cap T)
        BY <1>2, <2>1, WithFinite, FS_Difference
    <2> QED BY <1>2, <2>1, <2>2, <2>3, WithFinite
<1>6. Len(d.sessions) \in 1 .. MaxSessions /\ Len(d.sessions) \in Nat
    BY SessionsParts DEF DcRec
<1>7. \A j \in 1 .. Len(d.sessions) : extra[j] \in Nat
    BY <1>6, Constants DEF Extras
<1>8. \A j \in 1 .. Len(d.sessions) : c.sessions[j].requested = Cardinality(With(R, j)) + extra[j]
    <2> SUFFICES ASSUME NEW j \in 1 .. Len(d.sessions)
                 PROVE  c.sessions[j].requested = Cardinality(With(R, j)) + extra[j]
        OBVIOUS
    <2>1. d.sessions[j].requested = Cardinality(With(P, j)) + extra[j]
        BY DEF Agree
    <2> QED BY <1>5, <1>7, <2>1
<1>9. c.total = Cardinality(R)
    BY <1>4 DEF Agree
<1>10. \A p \in R : p[2].index \in 1 .. Len(c.sessions) /\ p[2].amount \in Nat
    BY <1>1 DEF Agree
<1>11. c.kill => c.total = 0
    <2>1. ~d.kill
        <3>1. Cardinality(P) # 0
            BY <1>2, FS_EmptySet
        <3> QED BY <3>1 DEF Agree
    <2>2. ASSUME \A j \in 1 .. Len(d.sessions) : c.sessions[j].requested <= 0
          PROVE  R = {}
        <3> SUFFICES ASSUME NEW p \in R PROVE FALSE
            OBVIOUS
        <3>1. PICK j : j = p[2].index
            OBVIOUS
        <3>2. j \in 1 .. Len(d.sessions)
            BY <1>1, <3>1 DEF Agree
        <3>3. p \in With(R, j)
            BY <3>1 DEF With
        <3>4. Cardinality(With(R, j)) # 0
            BY <1>2, <3>3, WithFinite, FS_EmptySet
        <3>5. PICK x, y : x = Cardinality(With(R, j)) /\ y = extra[j]
            OBVIOUS
        <3>6. x \in Nat /\ x # 0 /\ y \in Nat
            BY <1>5, <1>7, <3>2, <3>4, <3>5
        <3>7. x + y <= 0
            BY <1>8, <2>2, <3>2, <3>5
        <3> QED BY <3>6, <3>7
    <2>3. R = {} => Cardinality(R) = 0
        BY FS_EmptySet
    <2> QED BY <1>9, <2>1, <2>2, <2>3
<1> QED BY <1>1, <1>2, <1>8, <1>9, <1>10, <1>11 DEF Agree

\* A request is placed.
LEMMA AgreeMore ==
    ASSUME NEW P, NEW d \in DcRec, NEW extra \in Extras, Agree(P, d, extra),
           NEW x, x \notin P, x[2].index \in 1 .. Len(d.sessions), x[2].amount \in Nat,
           NEW c \in DcRec, Len(c.sessions) = Len(d.sessions),
           \A j \in 1 .. Len(d.sessions) :
                c.sessions[j].requested =
                    d.sessions[j].requested + IF j = x[2].index THEN 1 ELSE 0,
           c.total = d.total + 1, ~c.kill
    PROVE  Agree(P \cup {x}, c, extra)
<1>1. PICK R : R = P \cup {x}
    OBVIOUS
<1>2. IsFiniteSet(P)
    BY DEF Agree
<1>3. IsFiniteSet(R) /\ Cardinality(R) = Cardinality(P) + 1
    BY <1>1, <1>2, FS_AddElement
<1>4. ASSUME NEW j
      PROVE  /\ Cardinality(With(R, j)) =
                    Cardinality(With(P, j)) + IF j = x[2].index THEN 1 ELSE 0
             /\ Cardinality(With(P, j)) \in Nat
    <2>1. PICK S : S = With(P, j)
        OBVIOUS
    <2>2. IsFiniteSet(S) /\ x \notin S /\ Cardinality(S) \in Nat
        BY <1>2, <2>1, WithFinite
    <2>3. CASE j = x[2].index
        <3>1. With(R, j) = S \cup {x}
            BY <1>1, <2>1, <2>3 DEF With
        <3>2. Cardinality(S \cup {x}) = Cardinality(S) + 1
            BY <2>2, FS_AddElement
        <3> QED BY <2>1, <2>2, <2>3, <3>1, <3>2
    <2>4. CASE j # x[2].index
        <3>1. With(R, j) = S
            BY <1>1, <2>1, <2>4 DEF With
        <3> QED BY <2>1, <2>2, <2>4, <3>1
    <2> QED BY <2>3, <2>4
<1>5. Len(d.sessions) \in 1 .. MaxSessions /\ Len(d.sessions) \in Nat
    BY SessionsParts DEF DcRec
<1>6. \A j \in 1 .. Len(d.sessions) : extra[j] \in Nat
    BY <1>5, Constants DEF Extras
<1>7. \A j \in 1 .. Len(d.sessions) : c.sessions[j].requested = Cardinality(With(R, j)) + extra[j]
    BY <1>4, <1>6 DEF Agree
<1>8. c.total = Cardinality(R)
    BY <1>3 DEF Agree
<1>9. \A p \in R : p[2].index \in 1 .. Len(c.sessions) /\ p[2].amount \in Nat
    BY <1>1 DEF Agree
<1> QED BY <1>1, <1>3, <1>7, <1>8, <1>9 DEF Agree

\* Other requests in the same sessions, one for each.
LEMMA AgreeSame ==
    ASSUME NEW P, NEW d \in DcRec, NEW extra, Agree(P, d, extra),
           NEW R, NEW f \in [P -> R],
           \A p \in P : f[p][2].index = p[2].index,
           \A p, q \in P : f[p] = f[q] => p = q,
           \A x \in R : \E p \in P : f[p] = x,
           \A x \in R : x[2].amount \in Nat
    PROVE  Agree(R, d, extra)
<1>1. IsFiniteSet(P)
    BY DEF Agree
<1>2. ASSUME NEW S, S \subseteq P, NEW T, T \subseteq R, \A p \in P : p \in S <=> f[p] \in T
      PROVE  IsFiniteSet(T) /\ Cardinality(T) = Cardinality(S)
    <2>1. PICK g : g = [p \in S |-> f[p]]
        OBVIOUS
    <2>2. g \in [S -> T] /\ \A p \in S : g[p] = f[p]
        BY <1>2, <2>1
    <2>3. \A x \in T : \E p \in S : g[p] = x
        BY <1>2, <2>2
    <2>4. \A p, q \in S : g[p] = g[q] => p = q
        BY <1>2, <2>2
    <2>5. g \in Bijection(S, T)
        BY <2>2, <2>3, <2>4 DEF Bijection, Injection, Surjection, IsInjective
    <2>6. ExistsBijection(S, T)
        BY <2>5 DEF ExistsBijection
    <2>7. IsFiniteSet(S)
        BY <1>1, <1>2, FS_Subset
    <2> QED BY <2>6, <2>7, FS_Bijection
<1>3. IsFiniteSet(R) /\ Cardinality(R) = Cardinality(P)
    BY <1>2
<1>4. ASSUME NEW j PROVE Cardinality(With(R, j)) = Cardinality(With(P, j))
    <2>1. PICK S, T : S = With(P, j) /\ T = With(R, j)
        OBVIOUS
    <2>2. S \subseteq P /\ T \subseteq R /\ \A p \in P : p \in S <=> f[p] \in T
        BY <2>1 DEF With
    <2> QED BY <1>2, <2>1, <2>2
<1>5. \A x \in R : x[2].index \in 1 .. Len(d.sessions)
    BY DEF Agree
<1> QED BY <1>3, <1>4, <1>5 DEF Agree

-----------------------------------------------------------------------------
(* States in which the books are in order.                                 *)

LEMMA WayIs ==
    ASSUME NEW w, NEW p
    PROVE  p \in OnTheWay(w) <=> \E t \in Tasks : \E r \in w.task[t].sent : p = <<t, r>>
BY DEF OnTheWay

InLine(q, t) == \E n \in 1 .. Len(q) : q[n].task = t

Once(q) == \A m, n \in 1 .. Len(q) : q[m].task = q[n].task => m = n

\* The parts that wait for a hash are with sessions that exist.
Homed(w) == \A t \in Tasks : \A u \in w.task[t].unchecked : u.index \in 1 .. Len(w.dc.sessions)

\* A loader that is owed something is in the queue.
Queued(w) ==
    \A t \in Tasks : w.task[t].sent # {} \/ w.task[t].unchecked # {} => InLine(w.queue, t)

Fair(w, extra) ==
    Agree(OnTheWay(w), w.dc, extra) /\ Homed(w) /\ Queued(w) /\ Once(w.queue)

\* The requests S of loader t.
Pairs(t, S) == {t} \X S

LEMMA Paired ==
    ASSUME NEW t, NEW S, IsFiniteSet(S)
    PROVE  IsFiniteSet(Pairs(t, S)) /\ Cardinality(Pairs(t, S)) = Cardinality(S)
<1>1. PICK f : f = [r \in S |-> <<t, r>>]
    OBVIOUS
<1>2. f \in Bijection(S, Pairs(t, S))
    BY <1>1 DEF Bijection, Injection, Surjection, IsInjective, Pairs
<1>3. ExistsBijection(S, Pairs(t, S))
    BY <1>2 DEF ExistsBijection
<1> QED BY <1>3, FS_Bijection

LEMMA PairedWith ==
    ASSUME NEW t, NEW S, IsFiniteSet(S), NEW j
    PROVE  Cardinality(With(Pairs(t, S), j)) = Requested(S, j)
<1>1. PICK R : R = {r \in S : r.index = j}
    OBVIOUS
<1>2. With(Pairs(t, S), j) = Pairs(t, R)
    BY <1>1 DEF With, Pairs
<1>3. IsFiniteSet(R)
    BY <1>1, FS_Subset
<1>4. Cardinality(Pairs(t, R)) = Cardinality(R)
    BY <1>3, Paired
<1> QED BY <1>1, <1>2, <1>4 DEF Requested

\* changeRequestedAmount: the amounts, and when killSessions is planned.
ChangedBy(d, c, S, sign) ==
    /\ c \in DcRec /\ Len(c.sessions) = Len(d.sessions)
    /\ \A i \in 1 .. Len(d.sessions) :
         c.sessions[i].requested = d.sessions[i].requested + sign * Requested(S, i)
    /\ c.total = d.total + sign * Cardinality(S)
    /\ c.kill => sign < 0
    /\ c.kill => d.kill \/ \A i \in 1 .. Len(d.sessions) : c.sessions[i].requested <= 0

LEMMA ChangedAmounts ==
    ASSUME NEW d \in DcRec, NEW S, IsFiniteSet(S), S # {}, NEW sign \in {-1, 1}
    PROVE  ChangedBy(d, ChangeRequestedAmount(d, S, sign), S, sign)
<1>0. PICK c : c = ChangeRequestedAmount(d, S, sign)
    OBVIOUS
<1>1. /\ c \in DcRec /\ Len(c.sessions) = Len(d.sessions)
      /\ \A i \in 1 .. Len(d.sessions) :
            c.sessions[i] = [d.sessions[i] EXCEPT
                !.requested = d.sessions[i].requested + sign * Requested(S, i)]
      /\ c.total = d.total + sign * Cardinality(S)
    <2>1. /\ ChangeRequestedAmount(d, S, sign) \in DcRec
          /\ Len(ChangeRequestedAmount(d, S, sign).sessions) = Len(d.sessions)
          /\ \A i \in 1 .. Len(d.sessions) :
                ChangeRequestedAmount(d, S, sign).sessions[i] = [d.sessions[i] EXCEPT
                    !.requested = d.sessions[i].requested + sign * Requested(S, i)]
          /\ ChangeRequestedAmount(d, S, sign).total = d.total + sign * Cardinality(S)
        BY ChangeEffect
    <2> QED BY <1>0, <2>1
<1>2. d.sessions \in SessionLists
    BY DEF DcRec
<1>3. /\ DOMAIN d.sessions = 1 .. Len(d.sessions)
      /\ \A i \in 1 .. Len(d.sessions) : d.sessions[i] \in SessionRec
    BY <1>2, SessionsParts
<1>4. \A i \in 1 .. Len(d.sessions) :
        c.sessions[i].requested = d.sessions[i].requested + sign * Requested(S, i)
    BY <1>1, <1>3 DEF SessionRec
<1>5. PICK s : s = [i \in DOMAIN d.sessions |->
                        [d.sessions[i] EXCEPT !.requested = @ + sign * Requested(S, i)]]
    OBVIOUS
<1>6. PICK b \in BOOLEAN : b = (sign < 0 /\ (d.kill \/ \A i \in DOMAIN s : s[i].requested <= 0))
    OBVIOUS
<1>7. PICK n : n = Cardinality(S)
    OBVIOUS
<1>8. c = [d EXCEPT !.sessions = s, !.total = @ + sign * n, !.kill = b]
    BY <1>0, <1>5, <1>6, <1>7 DEF ChangeRequestedAmount
<1>9. c.sessions = s /\ c.kill = b
    BY <1>8 DEF DcRec
<1>10. DOMAIN s = 1 .. Len(d.sessions)
    BY <1>3, <1>5
<1>11. (c.kill => sign < 0) /\ (c.kill => d.kill \/ \A i \in 1 .. Len(d.sessions) : c.sessions[i].requested <= 0)
    BY <1>6, <1>9, <1>10
<1> QED BY <1>0, <1>1, <1>4, <1>11 DEF ChangedBy

\* Requests of one loader are finished.
Finishes(w, v, t, k, S) ==
    /\ Changed(w, v, t, k, ChangeRequestedAmount(w.dc, S, -1))
    /\ S \subseteq w.task[t].sent
    /\ k.sent = w.task[t].sent \ S /\ k.unchecked \subseteq w.task[t].unchecked

LEMMA FairLess ==
    ASSUME NEW A, NEW w \in Worlds(A), NEW extra \in Extras, Fair(w, extra), NEW t \in Tasks,
           NEW S, NEW v \in Worlds(A), NEW k, Finishes(w, v, t, k, S)
    PROVE  Fair(v, extra) /\ Len(v.dc.sessions) = Len(w.dc.sessions)
<1>0. /\ Changed(w, v, t, k, ChangeRequestedAmount(w.dc, S, -1))
      /\ S \subseteq w.task[t].sent
      /\ k.sent = w.task[t].sent \ S /\ k.unchecked \subseteq w.task[t].unchecked
    BY DEF Finishes
<1>1. PICK Q : Q = Pairs(t, S)
    OBVIOUS
<1>2. PICK P : P = OnTheWay(w)
    OBVIOUS
<1>3. IsFiniteSet(S) /\ w.dc \in DcRec /\ v.dc \in DcRec
    BY <1>0, TaskParts, WorldParts, FS_Subset
<1>4. OnTheWay(v) = P \ Q
    <2> SUFFICES ASSUME NEW p PROVE p \in OnTheWay(v) <=> p \in P /\ p \notin Q
        OBVIOUS
    <2>1. p \in OnTheWay(v) <=> \E u \in Tasks : \E r \in v.task[u].sent : p = <<u, r>>
        BY WayIs
    <2>2. p \in P <=> \E u \in Tasks : \E r \in w.task[u].sent : p = <<u, r>>
        BY <1>2, WayIs
    <2>3. p \in Q <=> \E r \in S : p = <<t, r>>
        BY <1>1 DEF Pairs
    <2>4. /\ v.task[t].sent = w.task[t].sent \ S
          /\ \A u \in Tasks \ {t} : v.task[u].sent = w.task[u].sent
        BY <1>0 DEF Changed
    <2> QED BY <2>1, <2>2, <2>3, <2>4
<1>5. Agree(P \ Q, v.dc, extra) /\ Len(v.dc.sessions) = Len(w.dc.sessions)
    <2>1. CASE S = {}
        <3>1. v.dc = w.dc
            BY <1>0, <2>1 DEF Changed, ChangeRequestedAmount
        <3>2. P \ Q = P
            BY <1>1, <2>1 DEF Pairs
        <3> QED BY <1>2, <3>1, <3>2 DEF Fair
    <2>2. CASE S # {}
        <3>1. Q \subseteq P /\ Q # {}
            <4>1. \A p : p \in Q <=> \E r \in S : p = <<t, r>>
                BY <1>1 DEF Pairs
            <4>2. \A p \in Q : p \in P
                BY <1>0, <1>2, <4>1, WayIs
            <4>3. PICK r \in S : TRUE
                BY <2>2
            <4>4. <<t, r>> \in Q
                BY <4>1
            <4> QED BY <4>2, <4>4
        <3>2. PICK c : c = ChangeRequestedAmount(w.dc, S, -1)
            OBVIOUS
        <3>3. /\ c \in DcRec /\ Len(c.sessions) = Len(w.dc.sessions)
              /\ \A i \in 1 .. Len(w.dc.sessions) :
                    c.sessions[i].requested = w.dc.sessions[i].requested + (-1) * Requested(S, i)
              /\ c.total = w.dc.total + (-1) * Cardinality(S)
              /\ c.kill => \/ w.dc.kill
                           \/ \A i \in 1 .. Len(w.dc.sessions) : c.sessions[i].requested <= 0
            <4>1. PICK sign \in {-1, 1} : sign = -1
                OBVIOUS
            <4>2. ChangedBy(w.dc, ChangeRequestedAmount(w.dc, S, sign), S, sign)
                BY <1>3, <2>2, ChangedAmounts
            <4>3. ChangedBy(w.dc, c, S, -1)
                BY <3>2, <4>1, <4>2
            <4> QED BY <4>3 DEF ChangedBy
        <3>4. ASSUME NEW i \in 1 .. Len(w.dc.sessions)
              PROVE  c.sessions[i].requested = w.dc.sessions[i].requested - Cardinality(With(Q, i))
            <4>1. w.dc.sessions[i] \in SessionRec
                BY <1>3, SessionsParts DEF DcRec
            <4>2. Cardinality(With(Q, i)) = Requested(S, i) /\ Requested(S, i) \in Nat
                <5>1. Cardinality(With(Q, i)) = Requested(S, i)
                    BY <1>1, <1>3, PairedWith
                <5> QED BY <1>1, <1>3, <5>1, RequestedType
            <4> QED BY <3>3, <4>1, <4>2 DEF SessionRec
        <3>5. c.total = w.dc.total - Cardinality(Q)
            <4>1. Cardinality(Q) = Cardinality(S) /\ Cardinality(S) \in Nat
                BY <1>1, <1>3, Paired, FS_CardinalityType
            <4>2. w.dc.total \in Int
                BY <1>3 DEF DcRec
            <4> QED BY <3>3, <4>1, <4>2
        <3>7. Agree(P, w.dc, extra)
            BY <1>2 DEF Fair
        <3>8. Agree(P \ Q, c, extra)
            BY <1>3, <3>1, <3>3, <3>4, <3>5, <3>7, AgreeLess
        <3>9. v.dc = c
            BY <1>0, <3>2 DEF Changed
        <3> QED BY <3>3, <3>8, <3>9
    <2> QED BY <2>1, <2>2
<1>6. Homed(v) /\ Queued(v) /\ Once(v.queue)
    <2>1. /\ v.queue = w.queue /\ v.task[t] = k
          /\ \A u \in Tasks \ {t} : v.task[u] = w.task[u]
        BY <1>0 DEF Changed
    <2>2. ASSUME NEW u \in Tasks
          PROVE  v.task[u].sent \subseteq w.task[u].sent /\ v.task[u].unchecked \subseteq w.task[u].unchecked
        BY <1>0, <2>1
    <2> QED BY <1>5, <2>1, <2>2 DEF Homed, Queued, Fair
<1> QED BY <1>4, <1>5, <1>6 DEF Fair

\* One request more.
Added(d, c, j) ==
    /\ c \in DcRec /\ Len(c.sessions) = Len(d.sessions)
    /\ \A i \in 1 .. Len(d.sessions) :
         c.sessions[i].requested = d.sessions[i].requested + IF i = j THEN 1 ELSE 0
    /\ c.total = d.total + 1 /\ ~c.kill

LEMMA AddedAmount ==
    ASSUME NEW d \in DcRec, NEW q
    PROVE  Added(d, ChangeRequestedAmount(d, {q}, 1), q.index)
<1>0. PICK c : c = ChangeRequestedAmount(d, {q}, 1)
    OBVIOUS
<1>1. PICK S : S = {q}
    OBVIOUS
<1>2. PICK sign \in {-1, 1} : sign = 1
    OBVIOUS
<1>3. IsFiniteSet(S) /\ S # {} /\ Cardinality(S) = 1 /\ c = ChangeRequestedAmount(d, S, sign)
    BY <1>0, <1>1, <1>2, FS_Singleton
<1>4. /\ c \in DcRec /\ Len(c.sessions) = Len(d.sessions)
      /\ \A i \in 1 .. Len(d.sessions) :
            c.sessions[i].requested = d.sessions[i].requested + sign * Requested(S, i)
      /\ c.total = d.total + sign * Cardinality(S)
      /\ c.kill => sign < 0
    <2>1. ChangedBy(d, ChangeRequestedAmount(d, S, sign), S, sign)
        BY <1>3, ChangedAmounts
    <2>2. ChangedBy(d, c, S, sign)
        BY <1>3, <2>1
    <2> QED BY <2>2 DEF ChangedBy
<1>5. ASSUME NEW i \in 1 .. Len(d.sessions)
      PROVE  c.sessions[i].requested = d.sessions[i].requested + IF i = q.index THEN 1 ELSE 0
    <2>1. d.sessions[i] \in SessionRec
        BY SessionsParts DEF DcRec
    <2>2. PICK n : n = Requested(S, i)
        OBVIOUS
    <2>3. n = IF i = q.index THEN 1 ELSE 0
        <3>1. CASE i = q.index
            <4>1. {r \in S : r.index = i} = {q}
                BY <1>1, <3>1
            <4> QED BY <2>2, <3>1, <4>1, FS_Singleton DEF Requested
        <3>2. CASE i # q.index
            <4>1. {r \in S : r.index = i} = {}
                BY <1>1, <3>2
            <4> QED BY <2>2, <3>2, <4>1, FS_EmptySet DEF Requested
        <3> QED BY <3>1, <3>2
    <2>4. d.sessions[i].requested \in Int
        BY <2>1 DEF SessionRec
    <2>5. c.sessions[i].requested = d.sessions[i].requested + sign * n
        BY <1>4, <2>2
    <2> QED BY <1>2, <2>3, <2>4, <2>5
<1>6. d.total \in Int
    BY DEF DcRec
<1>7. c.total = d.total + 1 /\ ~c.kill
    BY <1>2, <1>3, <1>4, <1>6
<1> QED BY <1>0, <1>4, <1>5, <1>7 DEF Added

\* Request q of loader t, which then knows k, is placed.
Places(w, v, t, k, q) ==
    /\ Changed(w, v, t, k, ChangeRequestedAmount(w.dc, {q}, 1))
    /\ k.sent = w.task[t].sent \cup {q} /\ k.unchecked = w.task[t].unchecked
    /\ q \notin w.task[t].sent /\ q.index \in 1 .. Len(w.dc.sessions)
    /\ q.amount = w.dc.sessions[q.index].requested + 1

LEMMA FairMore ==
    ASSUME NEW A, NEW w \in Worlds(A), NEW extra \in Extras, Fair(w, extra), NEW t \in Tasks,
           InLine(w.queue, t), NEW v \in Worlds(A), NEW k, NEW q, Places(w, v, t, k, q)
    PROVE  Fair(v, extra) /\ Len(v.dc.sessions) = Len(w.dc.sessions)
<1>1. PICK x : x = <<t, q>>
    OBVIOUS
<1>2. PICK P : P = OnTheWay(w)
    OBVIOUS
<1>3. w.dc \in DcRec /\ v.dc \in DcRec /\ x[2] = q /\ Agree(P, w.dc, extra)
    BY <1>1, <1>2, WorldParts DEF Fair
<1>4. OnTheWay(v) = P \cup {x}
    <2> SUFFICES ASSUME NEW p PROVE p \in OnTheWay(v) <=> p \in P \/ p = x
        OBVIOUS
    <2>1. p \in OnTheWay(v) <=> \E u \in Tasks : \E r \in v.task[u].sent : p = <<u, r>>
        BY WayIs
    <2>2. p \in P <=> \E u \in Tasks : \E r \in w.task[u].sent : p = <<u, r>>
        BY <1>2, WayIs
    <2>4. /\ v.task[t].sent = w.task[t].sent \cup {q}
          /\ \A u \in Tasks \ {t} : v.task[u].sent = w.task[u].sent
        BY DEF Changed, Places
    <2> QED BY <1>1, <2>1, <2>2, <2>4
<1>5. x \notin P
    BY <1>1, <1>2, WayIs DEF Places
<1>6. PICK c : c = ChangeRequestedAmount(w.dc, {q}, 1)
    OBVIOUS
<1>7. /\ c \in DcRec /\ Len(c.sessions) = Len(w.dc.sessions)
      /\ \A i \in 1 .. Len(w.dc.sessions) :
            c.sessions[i].requested = w.dc.sessions[i].requested + IF i = q.index THEN 1 ELSE 0
      /\ c.total = w.dc.total + 1 /\ ~c.kill
    <2>1. Added(w.dc, c, q.index)
        BY <1>3, <1>6, AddedAmount
    <2> QED BY <2>1 DEF Added
<1>8. /\ q.index \in 1 .. Len(w.dc.sessions) /\ q.amount = w.dc.sessions[q.index].requested + 1
      /\ k.unchecked = w.task[t].unchecked
    BY DEF Places
<1>10. q.amount \in Nat
    <2>1. PICK j : j = q.index
        OBVIOUS
    <2>2. w.dc.sessions[j].requested = Cardinality(With(P, j)) + extra[j]
        BY <1>3, <1>8, <2>1 DEF Agree
    <2>3. Cardinality(With(P, j)) \in Nat
        BY <1>3, WithFinite DEF Agree
    <2>4. extra[j] \in Nat
        <3>1. Len(w.dc.sessions) \in 1 .. MaxSessions
            BY <1>3, SessionsParts DEF DcRec
        <3>2. j \in 1 .. MaxSessions
            BY <1>8, <2>1, <3>1, Constants
        <3> QED BY <3>2 DEF Extras
    <2> QED BY <1>8, <2>1, <2>2, <2>3, <2>4
<1>11. Agree(P \cup {x}, c, extra)
    <2>1. /\ x[2].index \in 1 .. Len(w.dc.sessions) /\ x[2].amount \in Nat
          /\ \A i \in 1 .. Len(w.dc.sessions) :
                c.sessions[i].requested =
                    w.dc.sessions[i].requested + IF i = x[2].index THEN 1 ELSE 0
        BY <1>3, <1>7, <1>8, <1>10
    <2> QED BY <1>3, <1>5, <1>7, <2>1, AgreeMore
<1>12. v.dc = c /\ Len(v.dc.sessions) = Len(w.dc.sessions)
    BY <1>6, <1>7 DEF Changed, Places
<1>13. Homed(v) /\ Queued(v) /\ Once(v.queue)
    <2>1. /\ v.queue = w.queue /\ v.task[t] = k
          /\ \A u \in Tasks \ {t} : v.task[u] = w.task[u]
        BY DEF Changed, Places
    <2> QED BY <1>8, <1>12, <2>1 DEF Homed, Queued, Fair
<1> QED BY <1>4, <1>11, <1>12, <1>13 DEF Fair

\* What one loader knows changes, but not its requests.
LEMMA FairKept ==
    ASSUME NEW w, NEW extra, Fair(w, extra), NEW t \in Tasks,
           NEW v, NEW k, Changed(w, v, t, k, w.dc), k.sent = w.task[t].sent,
           \A u \in k.unchecked : u.index \in 1 .. Len(w.dc.sessions),
           InLine(w.queue, t) \/ k.unchecked \subseteq w.task[t].unchecked
    PROVE  Fair(v, extra)
<1>1. /\ v.queue = w.queue /\ v.task[t] = k /\ v.dc = w.dc
      /\ \A u \in Tasks \ {t} : v.task[u] = w.task[u]
    BY DEF Changed
<1>2. \A u \in Tasks : v.task[u].sent = w.task[u].sent
    BY <1>1
<1>3. OnTheWay(v) = OnTheWay(w)
    BY <1>2 DEF OnTheWay
<1>4. Homed(v)
    BY <1>1 DEF Homed, Fair
<1>5. Queued(v)
    BY <1>1 DEF Queued, Fair
<1> QED BY <1>1, <1>3, <1>4, <1>5 DEF Fair

\* The requests of one loader are replaced by others, in the same sessions.
LEMMA FairOther ==
    ASSUME NEW A, NEW w \in Worlds(A), NEW extra, Fair(w, extra), NEW t \in Tasks,
           NEW v, NEW k, Changed(w, v, t, k, w.dc), k.unchecked = w.task[t].unchecked,
           NEW f \in [w.task[t].sent -> k.sent],
           \A r \in w.task[t].sent : f[r].index = r.index,
           \A r, q \in w.task[t].sent : f[r] = f[q] => r = q,
           \A q \in k.sent : \E r \in w.task[t].sent : f[r] = q,
           \A q \in k.sent : q.amount \in Nat
    PROVE  Fair(v, extra)
<1>1. /\ v.queue = w.queue /\ v.task[t] = k /\ v.dc = w.dc
      /\ \A u \in Tasks \ {t} : v.task[u] = w.task[u]
    BY DEF Changed
<1>2. PICK P, R : P = OnTheWay(w) /\ R = OnTheWay(v)
    OBVIOUS
<1>3. \A p : p \in P <=> \E u \in Tasks : \E r \in w.task[u].sent : p = <<u, r>>
    BY <1>2, WayIs
<1>4. \A p : p \in R <=> \E u \in Tasks : \E r \in v.task[u].sent : p = <<u, r>>
    BY <1>2, WayIs
<1>5. PICK g : g = [p \in P |-> IF p[1] = t THEN <<t, f[p[2]]>> ELSE p]
    OBVIOUS
<1>6. ASSUME NEW p \in P
      PROVE  /\ p[1] = t => p[2] \in w.task[t].sent /\ g[p] = <<t, f[p[2]]>> /\ f[p[2]] \in k.sent
             /\ p[1] # t => p \in R /\ g[p] = p
             /\ p = <<p[1], p[2]>>
    <2>1. PICK u \in Tasks : \E r \in w.task[u].sent : p = <<u, r>>
        BY <1>3
    <2>2. PICK r \in w.task[u].sent : p = <<u, r>>
        BY <2>1
    <2>3. p[1] = u /\ p[2] = r
        BY <2>2
    <2>4. CASE u = t
        BY <1>5, <2>2, <2>3, <2>4
    <2>5. CASE u # t
        <3>1. v.task[u].sent = w.task[u].sent
            BY <1>1, <2>5
        <3>2. p \in R
            BY <1>4, <2>2, <3>1
        <3> QED BY <1>5, <2>2, <2>3, <2>5, <3>2
    <2> QED BY <2>4, <2>5
<1>7. \A q \in k.sent : <<t, q>> \in R
    BY <1>1, <1>4
<1>8. ASSUME NEW p \in P PROVE g[p] \in R /\ g[p][2].index = p[2].index /\ g[p][1] = p[1]
    <2>1. CASE p[1] = t
        BY <1>6, <1>7, <2>1
    <2>2. CASE p[1] # t
        BY <1>6, <2>2
    <2> QED BY <2>1, <2>2
<1>9. g \in [P -> R]
    BY <1>5, <1>8
<1>10. ASSUME NEW p \in P, NEW q \in P, g[p] = g[q] PROVE p = q
    <2>1. p[1] = q[1]
        BY <1>8, <1>10
    <2>2. CASE p[1] = t
        <3>1. f[p[2]] = f[q[2]] /\ p[2] \in w.task[t].sent /\ q[2] \in w.task[t].sent
            BY <1>6, <1>10, <2>1, <2>2
        <3> QED BY <1>6, <2>1, <3>1
    <2>3. CASE p[1] # t
        BY <1>6, <1>10, <2>1, <2>3
    <2> QED BY <2>2, <2>3
<1>11. ASSUME NEW x \in R PROVE (\E p \in P : g[p] = x) /\ x[2].amount \in Nat
    <2>1. PICK u \in Tasks : \E r \in v.task[u].sent : x = <<u, r>>
        BY <1>4
    <2>2. PICK r \in v.task[u].sent : x = <<u, r>>
        BY <2>1
    <2>3. CASE u = t
        <3>1. r \in k.sent
            BY <1>1, <2>3
        <3>2. PICK q \in w.task[t].sent : f[q] = r
            BY <3>1
        <3>3. PICK p : p = <<t, q>>
            OBVIOUS
        <3>4. p \in P /\ p[1] = t /\ p[2] = q
            BY <1>3, <3>3
        <3>5. g[p] = x
            BY <1>6, <2>2, <2>3, <3>2, <3>4
        <3> QED BY <2>2, <3>1, <3>4, <3>5
    <2>4. CASE u # t
        <3>1. x \in P /\ x[1] = u /\ x[2] = r
            BY <1>1, <1>3, <2>2, <2>4
        <3>2. g[x] = x
            BY <1>6, <2>4, <3>1
        <3>3. x[2].amount \in Nat
            BY <1>2, <3>1 DEF Fair, Agree
        <3> QED BY <3>1, <3>2, <3>3
    <2> QED BY <2>3, <2>4
<1>12. w.dc \in DcRec /\ Agree(P, w.dc, extra)
    BY <1>2, WorldParts DEF Fair
<1>13. Agree(R, w.dc, extra)
    BY <1>8, <1>9, <1>10, <1>11, <1>12, AgreeSame
<1>14. Homed(v)
    BY <1>1 DEF Homed, Fair
<1>15. Queued(v)
    <2> SUFFICES ASSUME NEW u \in Tasks, v.task[u].sent # {} \/ v.task[u].unchecked # {}
                 PROVE  InLine(v.queue, u)
        BY DEF Queued
    <2>1. w.task[u].sent # {} \/ w.task[u].unchecked # {}
        BY <1>1
    <2> QED BY <1>1, <2>1 DEF Queued, Fair
<1> QED BY <1>1, <1>2, <1>13, <1>14, <1>15 DEF Fair

\* The record of the data centre changes but not its amounts: there may be
\* more sessions.
LEMMA FairDc ==
    ASSUME NEW w, NEW extra, Fair(w, extra), w.dc \in DcRec, NEW v,
           v.queue = w.queue, v.task = w.task, v.dc \in DcRec, Len(w.dc.sessions) <= Len(v.dc.sessions),
           \A j \in 1 .. Len(w.dc.sessions) :
                v.dc.sessions[j].requested = w.dc.sessions[j].requested,
           \A j \in Len(w.dc.sessions) + 1 .. Len(v.dc.sessions) :
                v.dc.sessions[j].requested = 0 /\ extra[j] = 0,
           v.dc.total = w.dc.total, v.dc.kill => w.dc.kill
    PROVE  Fair(v, extra)
<1>1. PICK P : P = OnTheWay(w)
    OBVIOUS
<1>2. OnTheWay(v) = P
    BY <1>1 DEF OnTheWay
<1>3. PICK n, m : n = Len(w.dc.sessions) /\ m = Len(v.dc.sessions)
    OBVIOUS
<1>4. n \in Nat /\ m \in Nat /\ n <= m
    BY <1>3, SessionsParts, Constants DEF DcRec
<1>5. Agree(P, w.dc, extra)
    BY <1>1 DEF Fair
<1>6. \A p \in P : p[2].index \in 1 .. n /\ p[2].amount \in Nat
    BY <1>3, <1>5 DEF Agree
<1>7. ASSUME NEW j \in 1 .. m PROVE v.dc.sessions[j].requested = Cardinality(With(P, j)) + extra[j]
    <2>1. CASE j \in 1 .. n
        BY <1>3, <1>5, <2>1 DEF Agree
    <2>2. CASE j \notin 1 .. n
        <3>1. j \in n + 1 .. m
            BY <1>4, <2>2
        <3>2. With(P, j) = {}
            BY <1>6, <2>2 DEF With
        <3>3. Cardinality(With(P, j)) = 0
            BY <3>2, FS_EmptySet
        <3> QED BY <1>3, <3>1, <3>3
    <2> QED BY <2>1, <2>2
<1>8. \A p \in P : p[2].index \in 1 .. m /\ p[2].amount \in Nat
    BY <1>4, <1>6
<1>9. Agree(P, v.dc, extra)
    BY <1>3, <1>5, <1>7, <1>8 DEF Agree
<1>10. \A j \in 1 .. n : j \in 1 .. m
    BY <1>4
<1>11. Homed(v) /\ Queued(v)
    BY <1>3, <1>10 DEF Homed, Queued, Fair
<1> QED BY <1>2, <1>9, <1>11 DEF Fair

\* The queue changes.
LEMMA FairQueue ==
    ASSUME NEW w, NEW extra, Fair(w, extra), NEW v, v.dc = w.dc, v.task = w.task,
           Once(v.queue),
           \A t \in Tasks : w.task[t].sent # {} \/ w.task[t].unchecked # {} => InLine(v.queue, t)
    PROVE  Fair(v, extra)
<1>1. OnTheWay(v) = OnTheWay(w)
    BY DEF OnTheWay
<1> QED BY <1>1 DEF Fair, Homed, Queued

-----------------------------------------------------------------------------
(* Sending.                                                                *)

\* What is to be asked for was not asked for.
Unasked(w) == \A t \in Tasks : \A o \in w.task[t].todo : \A r \in w.task[t].sent : r.offset # o

LEMMA FairTrySend ==
    ASSUME NEW A, Int \subseteq A, NEW w \in Worlds(A), NEW extra \in Extras, Fair(w, extra),
           Unasked(w)
    PROVE  LET v == TrySendNextPart(w)
           IN  /\ v \in Worlds(A) /\ Fair(v, extra) /\ Unasked(v)
               /\ Len(v.dc.sessions) = Len(w.dc.sessions)
<1>1. PICK x : x = TrySendNextPart(w)
    OBVIOUS
<1>2. CASE x = w
    BY <1>1, <1>2
<1>3. CASE x # w
    <2>1. PICK n \in 1 .. Len(w.queue), i \in 1 .. Len(w.dc.sessions) :
            /\ w.queue[n].task \in Tasks
            /\ ReadyToRequest(w.task[w.queue[n].task])
            /\ x = LoadPart(w, w.queue[n].task, i)
        BY <1>1, <1>3, TrySendEffect
    <2>2. PICK t : t = w.queue[n].task
        OBVIOUS
    <2>3. t \in Tasks /\ ReadyToRequest(w.task[t]) /\ x = LoadPart(w, t, i) /\ InLine(w.queue, t)
        BY <2>1, <2>2 DEF InLine
    <2> DEFINE Sent(o, r) ==
            /\ r = PlacedRequest(w, [offset |-> o, index |-> i], "part")
            /\ x \in Worlds(A)
            /\ Changed(w, x, t, [w.task[t] EXCEPT !.todo = @ \ {o}, !.sent = @ \cup {r}],
                       ChangeRequestedAmount(w.dc, {r}, 1))
    <2>4. PICK o \in w.task[t].todo : \E r : Sent(o, r)
        BY <2>3, LoadPartEffect
    <2>5. PICK r : Sent(o, r)
        BY <2>4
    <2>6. r.offset = o /\ r.index \in 1 .. Len(w.dc.sessions) /\ r.amount = w.dc.sessions[r.index].requested + 1
        BY <2>5 DEF PlacedRequest
    <2>7. r \notin w.task[t].sent
        BY <2>3, <2>6 DEF Unasked
    <2>8. PICK k : k = [w.task[t] EXCEPT !.todo = @ \ {o}, !.sent = @ \cup {r}]
        OBVIOUS
    <2>9. /\ k.sent = w.task[t].sent \cup {r} /\ k.unchecked = w.task[t].unchecked
          /\ k.todo = w.task[t].todo \ {o}
        BY <2>3, <2>8, TaskParts DEF TaskOf
    <2>10. x \in Worlds(A) /\ Changed(w, x, t, k, ChangeRequestedAmount(w.dc, {r}, 1))
        BY <2>5, <2>8
    <2>11. Fair(x, extra) /\ Len(x.dc.sessions) = Len(w.dc.sessions)
        <3>1. Places(w, x, t, k, r)
            BY <2>6, <2>7, <2>9, <2>10 DEF Places
        <3> QED BY <2>3, <2>10, <3>1, FairMore
    <2>12. Unasked(x)
        <3>1. x.task[t] = k /\ \A u \in Tasks \ {t} : x.task[u] = w.task[u]
            BY <2>10 DEF Changed
        <3>2. \A p \in k.todo : \A q \in k.sent : q.offset # p
            BY <2>3, <2>6, <2>9 DEF Unasked
        <3> QED BY <3>1, <3>2 DEF Unasked
    <2> QED BY <1>1, <2>10, <2>11, <2>12
<1> QED BY <1>2, <1>3

LEMMA FairCheckSendNext ==
    ASSUME NEW A, Int \subseteq A, NEW w \in Worlds(A), NEW extra \in Extras, Fair(w, extra),
           Unasked(w)
    PROVE  /\ CheckSendNext(w) \in Worlds(A) /\ Fair(CheckSendNext(w), extra)
           /\ Unasked(CheckSendNext(w))
           /\ Len(CheckSendNext(w).dc.sessions) = Len(w.dc.sessions)
<1> DEFINE U == {v \in Worlds(A) : /\ Fair(v, extra) /\ Unasked(v)
                                   /\ Len(v.dc.sessions) = Len(w.dc.sessions)}
<1>1. w \in U
    OBVIOUS
<1>2. ASSUME NEW v \in U PROVE TrySendNextPart(v) \in U
    <2>1. v \in Worlds(A) /\ Fair(v, extra) /\ Unasked(v) /\ Len(v.dc.sessions) = Len(w.dc.sessions)
        OBVIOUS
    <2> QED BY <2>1, FairTrySend
<1>3. CheckSendNext(w) \in U
    <2> HIDE DEF U
    <2> QED BY <1>1, <1>2, CheckSendNextIn
<1> QED BY <1>3

-----------------------------------------------------------------------------
(* The parts of the handlers keep the books.                               *)

Zero == [j \in 1 .. MaxSessions |-> 0]

LEMMA ZeroType == Zero \in Extras /\ \A j \in 1 .. MaxSessions : Zero[j] = 0
BY DEF Zero, Extras

Sane(w) == Typed(w) /\ Fair(w, Zero) /\ Unasked(w)

\* Every part to ask for is still to ask for, or less of them are.
LEMMA LessUnasked ==
    ASSUME NEW w, Unasked(w), NEW v, NEW t \in Tasks, NEW k, NEW d, Changed(w, v, t, k, d),
           k.todo \subseteq w.task[t].todo, k.sent \subseteq w.task[t].sent
    PROVE  Unasked(v)
BY DEF Unasked, Changed

LEMMA SaneFinish ==
    ASSUME NEW w, Sane(w), NEW t \in Tasks, NEW S, S \subseteq w.task[t].sent
    PROVE  /\ Sane(FinishSentRequests(w, t, S))
           /\ Len(FinishSentRequests(w, t, S).dc.sessions) = Len(w.dc.sessions)
           /\ FinishSentRequests(w, t, S).queue = w.queue
           /\ FinishSentRequests(w, t, S).task[t] = [w.task[t] EXCEPT !.sent = @ \ S]
<1>1. PICK A : Int \subseteq A /\ w \in Worlds(A)
    BY DEF Sane, Typed
<1>2. PICK v, k : v = FinishSentRequests(w, t, S) /\ k = [w.task[t] EXCEPT !.sent = @ \ S]
    OBVIOUS
<1>3. v \in Worlds(A) /\ Changed(w, v, t, k, ChangeRequestedAmount(w.dc, S, -1))
    BY <1>1, <1>2, FinishEffect
<1>4. /\ k.sent = w.task[t].sent \ S /\ k.unchecked = w.task[t].unchecked
      /\ k.todo = w.task[t].todo
    BY <1>1, <1>2, TaskParts DEF TaskOf
<1>5. Zero \in Extras /\ Fair(w, Zero) /\ Unasked(w)
    BY ZeroType DEF Sane
<1>6. Fair(v, Zero) /\ Len(v.dc.sessions) = Len(w.dc.sessions)
    <2>1. Finishes(w, v, t, k, S)
        BY <1>3, <1>4 DEF Finishes
    <2> QED BY <1>1, <1>3, <1>5, <2>1, FairLess
<1>7. Unasked(v)
    BY <1>3, <1>4, <1>5, LessUnasked
<1>8. v.queue = w.queue /\ v.task[t] = k
    BY <1>3 DEF Changed
<1> QED BY <1>1, <1>2, <1>3, <1>6, <1>7, <1>8 DEF Sane, Typed

LEMMA SaneCheckSendNext ==
    ASSUME NEW w, Sane(w)
    PROVE  Sane(CheckSendNext(w)) /\ Len(CheckSendNext(w).dc.sessions) = Len(w.dc.sessions)
<1>1. PICK A : Int \subseteq A /\ w \in Worlds(A)
    BY DEF Sane, Typed
<1> QED BY <1>1, ZeroType, FairCheckSendNext DEF Sane, Typed

\* The request is finished, and in the end the manager looks for the next part.
LEMMA SucceedLooks ==
    ASSUME NEW w, Sane(w), NEW t \in Tasks, NEW r \in w.task[t].sent, NEW pace
    PROVE  \E z : /\ Sane(z) /\ SucceedSentRequest(w, t, r, pace) = CheckSendNext(z)
                  /\ Len(w.dc.sessions) <= Len(z.dc.sessions)
                  /\ z.task = FinishSentRequests(w, t, {r}).task
<1>1. PICK S : S = {r}
    OBVIOUS
<1>2. PICK v : v = FinishSentRequests(w, t, S)
    OBVIOUS
<1>3. Sane(v) /\ Len(v.dc.sessions) = Len(w.dc.sessions)
    <2>1. S \subseteq w.task[t].sent
        BY <1>1
    <2> QED BY <1>2, <2>1, SaneFinish, ZenonT(30)
<1>4. PICK A : Int \subseteq A /\ v \in Worlds(A)
    BY <1>3 DEF Sane, Typed
<1>5. PICK soon \in BOOLEAN : soon = (pace = "soon")
    OBVIOUS
<1>6. PICK e : e = Learn(v.dc, r, soon)
    OBVIOUS
<1>7. v.dc \in DcRec
    BY <1>4, WorldParts
<1>8. /\ e \in DcRec /\ Len(v.dc.sessions) <= Len(e.sessions)
      /\ \A i \in 1 .. Len(v.dc.sessions) : e.sessions[i].requested = v.dc.sessions[i].requested
      /\ \A i \in Len(v.dc.sessions) + 1 .. Len(e.sessions) : e.sessions[i].requested = 0
      /\ e.total = v.dc.total /\ e.kill = v.dc.kill
    BY <1>6, <1>7, LearnEffect
<1>9. PICK y : y = [v EXCEPT !.dc = e]
    OBVIOUS
<1>10. y \in Worlds(A) /\ y.queue = v.queue /\ y.task = v.task /\ y.dc = e
    BY <1>4, <1>8, <1>9, DcEffect
<1>11. \A i \in Len(v.dc.sessions) + 1 .. Len(e.sessions) : Zero[i] = 0
    <2>1. Len(v.dc.sessions) \in Nat /\ Len(e.sessions) \in 1 .. MaxSessions
        BY <1>7, <1>8, SessionsParts DEF DcRec
    <2> QED BY <2>1, ZeroType, Constants
<1>12. Fair(y, Zero)
    BY <1>3, <1>7, <1>8, <1>10, <1>11, FairDc, SMTT(30) DEF Sane
<1>13. Sane(y)
    BY <1>3, <1>4, <1>10, <1>12 DEF Sane, Typed, Unasked
<1>14. PICK z : z = IF \/ r.old \/ r.amount > v.dc.sessions[r.index].maxWaited
                       \/ pace = "slow"
                    THEN v ELSE y
    OBVIOUS
<1>15. SucceedSentRequest(w, t, r, pace) = CheckSendNext(z)
    BY <1>1, <1>2, <1>5, <1>6, <1>9, <1>14 DEF SucceedSentRequest
<1>16. Sane(z) /\ Len(w.dc.sessions) <= Len(z.dc.sessions)
    <2>1. Len(v.dc.sessions) \in Nat
        BY <1>7, SessionsParts DEF DcRec
    <2> QED BY <1>3, <1>8, <1>10, <1>13, <1>14, <2>1
<1>17. z.task = FinishSentRequests(w, t, {r}).task
    BY <1>1, <1>2, <1>10, <1>14
<1> QED BY <1>15, <1>16, <1>17

LEMMA SaneSucceed ==
    ASSUME NEW w, Sane(w), NEW t \in Tasks, NEW r \in w.task[t].sent, NEW pace
    PROVE  /\ Sane(SucceedSentRequest(w, t, r, pace))
           /\ Len(w.dc.sessions) <= Len(SucceedSentRequest(w, t, r, pace).dc.sessions)
<1>1. PICK z : /\ Sane(z) /\ SucceedSentRequest(w, t, r, pace) = CheckSendNext(z)
               /\ Len(w.dc.sessions) <= Len(z.dc.sessions)
    BY SucceedLooks
<1> QED BY <1>1, SaneCheckSendNext

LEMMA SaneCancel ==
    ASSUME NEW w, Sane(w), NEW t \in Tasks, NEW S, S \subseteq w.task[t].sent
    PROVE  Sane(CancelRequests(w, t, S)) /\ CancelRequests(w, t, S).queue = w.queue
<1>1. PICK A : Int \subseteq A /\ w \in Worlds(A)
    BY DEF Sane, Typed
<1>2. PICK v : v = CancelRequests(w, t, S)
    OBVIOUS
<1>3. PICK more \in BOOLEAN :
        /\ v \in Worlds(A)
        /\ Changed(w, v, t,
                   WithRequests(w.task[t], w.task[t].sent \ S, more, w.task[t].unchecked),
                   ChangeRequestedAmount(w.dc, S, -1))
    BY <1>1, <1>2, CancelEffect
<1>4. PICK k : k = WithRequests(w.task[t], w.task[t].sent \ S, more, w.task[t].unchecked)
    OBVIOUS
<1>5. /\ k.sent = w.task[t].sent \ S /\ k.unchecked = w.task[t].unchecked
      /\ k.todo = w.task[t].todo
    BY <1>1, <1>4, TaskParts DEF TaskOf, WithRequests
<1>6. Zero \in Extras /\ Fair(w, Zero) /\ Unasked(w)
    BY ZeroType DEF Sane
<1>7. Fair(v, Zero)
    <2>1. Finishes(w, v, t, k, S)
        BY <1>3, <1>4, <1>5 DEF Finishes
    <2> QED BY <1>1, <1>3, <1>6, <2>1, FairLess
<1>8. Unasked(v)
    BY <1>3, <1>4, <1>5, <1>6, LessUnasked
<1>9. v.queue = w.queue
    BY <1>3 DEF Changed
<1> QED BY <1>1, <1>2, <1>3, <1>7, <1>8, <1>9 DEF Sane, Typed

LEMMA SaneCancelAll ==
    ASSUME NEW w, Sane(w), NEW t \in Tasks
    PROVE  /\ Sane(CancelAllRequests(w, t)) /\ CancelAllRequests(w, t).queue = w.queue
           /\ CancelAllRequests(w, t).task[t].sent = {}
           /\ CancelAllRequests(w, t).task[t].unchecked = {}
<1>1. PICK A : Int \subseteq A /\ w \in Worlds(A)
    BY DEF Sane, Typed
<1>2. PICK v, S : v = CancelAllRequests(w, t) /\ S = w.task[t].sent
    OBVIOUS
<1>3. PICK more \in BOOLEAN :
        /\ v \in Worlds(A)
        /\ Changed(w, v, t, WithRequests(w.task[t], {}, more, {}), ChangeRequestedAmount(w.dc, S, -1))
    BY <1>1, <1>2, CancelAllEffect
<1>4. PICK k : k = WithRequests(w.task[t], {}, more, {})
    OBVIOUS
<1>5. k.sent = {} /\ k.unchecked = {} /\ k.todo = w.task[t].todo
    BY <1>1, <1>4, TaskParts DEF TaskOf, WithRequests
<1>6. Zero \in Extras /\ Fair(w, Zero) /\ Unasked(w) /\ S \subseteq w.task[t].sent
    BY <1>2, ZeroType DEF Sane
<1>7. k.sent = w.task[t].sent \ S /\ k.unchecked \subseteq w.task[t].unchecked
    BY <1>2, <1>5
<1>8. Changed(w, v, t, k, ChangeRequestedAmount(w.dc, S, -1))
    BY <1>3, <1>4
<1>9. Fair(v, Zero)
    <2>1. Finishes(w, v, t, k, S)
        BY <1>6, <1>7, <1>8 DEF Finishes
    <2> QED BY <1>1, <1>3, <1>6, <2>1, FairLess
<1>10. Unasked(v)
    BY <1>5, <1>6, <1>7, <1>8, LessUnasked
<1>11. v.queue = w.queue /\ v.task[t] = k
    BY <1>8 DEF Changed
<1> QED BY <1>1, <1>2, <1>3, <1>5, <1>9, <1>10, <1>11 DEF Sane, Typed

LEMMA SanePlace ==
    ASSUME NEW w, Sane(w), NEW t \in Tasks, InLine(w.queue, t), NEW data, NEW kind \in Kinds,
           data.offset \in Offsets, data.index \in 1 .. Len(w.dc.sessions),
           data.offset \notin w.task[t].todo,
           \A r \in w.task[t].sent : r.offset # data.offset \/ r.kind # kind
    PROVE  Sane(PlaceSentRequest(w, t, data, kind))
<1>1. PICK A : Int \subseteq A /\ w \in Worlds(A)
    BY DEF Sane, Typed
<1>2. PICK i : i = data.index
    OBVIOUS
<1>3. /\ w.dc \in DcRec /\ i \in 1 .. Len(w.dc.sessions) /\ i \in 1 .. MaxSessions
      /\ w.dc.sessions[i].requested + 1 \in A
    <2>1. w.dc \in DcRec /\ Len(w.dc.sessions) \in 1 .. MaxSessions
        BY <1>1, WorldParts, SessionsParts DEF DcRec
    <2>2. w.dc.sessions[i] \in SessionRec
        BY <1>2, <2>1, SessionsParts DEF DcRec
    <2>3. w.dc.sessions[i].requested + 1 \in Int
        BY <2>2 DEF SessionRec
    <2> QED BY <1>1, <1>2, <2>1, <2>3, Constants
<1>4. PICK v, r : v = PlaceSentRequest(w, t, data, kind) /\ r = PlacedRequest(w, data, kind)
    OBVIOUS
<1>5. /\ v \in Worlds(A)
      /\ Changed(w, v, t, [w.task[t] EXCEPT !.sent = @ \cup {r}],
                 ChangeRequestedAmount(w.dc, {r}, 1))
    BY <1>1, <1>2, <1>3, <1>4, PlaceEffect
<1>6. PICK k : k = [w.task[t] EXCEPT !.sent = @ \cup {r}]
    OBVIOUS
<1>7. /\ k.sent = w.task[t].sent \cup {r} /\ k.unchecked = w.task[t].unchecked
      /\ k.todo = w.task[t].todo
    BY <1>1, <1>6, TaskParts DEF TaskOf
<1>8. /\ r.offset = data.offset /\ r.kind = kind /\ r.index = i
      /\ r.amount = w.dc.sessions[r.index].requested + 1
    BY <1>2, <1>4 DEF PlacedRequest
<1>9. Places(w, v, t, k, r)
    <2>1. r \notin w.task[t].sent
        BY <1>8
    <2> QED BY <1>3, <1>5, <1>6, <1>7, <1>8, <2>1 DEF Places
<1>10. Zero \in Extras /\ Fair(w, Zero) /\ Unasked(w)
    BY ZeroType DEF Sane
<1>11. Fair(v, Zero)
    BY <1>1, <1>5, <1>9, <1>10, FairMore
<1>12. Unasked(v)
    <2>1. v.task[t] = k /\ \A u \in Tasks \ {t} : v.task[u] = w.task[u]
        BY <1>5, <1>6 DEF Changed
    <2>2. \A o \in k.todo : \A q \in k.sent : q.offset # o
        BY <1>7, <1>8, <1>10 DEF Unasked
    <2> QED BY <1>10, <2>1, <2>2 DEF Unasked
<1> QED BY <1>1, <1>4, <1>5, <1>11, <1>12 DEF Sane, Typed

\* What a loader knows is replaced, but not its requests.
LEMMA SaneWithTask ==
    ASSUME NEW A, Int \subseteq A, NEW w \in Worlds(A), Sane(w), NEW t \in Tasks,
           NEW k \in TaskOf(A), k.sent = w.task[t].sent,
           \A u \in k.unchecked : u.index \in 1 .. Len(w.dc.sessions),
           InLine(w.queue, t) \/ k.unchecked \subseteq w.task[t].unchecked,
           \A o \in k.todo : \A r \in k.sent : r.offset # o
    PROVE  /\ Sane(WithTask(w, t, k)) /\ WithTask(w, t, k) \in Worlds(A)
           /\ WithTask(w, t, k).queue = w.queue /\ WithTask(w, t, k).dc = w.dc
           /\ WithTask(w, t, k).task[t] = k
<1>1. PICK v : v = WithTask(w, t, k)
    OBVIOUS
<1>2. v \in Worlds(A) /\ Changed(w, v, t, k, w.dc)
    BY <1>1, TaskEffect
<1>3. Fair(w, Zero) /\ Unasked(w)
    BY DEF Sane
<1>4. Fair(v, Zero)
    BY <1>2, <1>3, FairKept
<1>5. Unasked(v)
    BY <1>2, <1>3 DEF Unasked, Changed
<1>6. v.queue = w.queue /\ v.dc = w.dc /\ v.task[t] = k
    BY <1>2 DEF Changed
<1> QED BY <1>1, <1>2, <1>4, <1>5, <1>6 DEF Sane, Typed

\* The queue without a loader, and with it.
LEMMA OnceWithout ==
    ASSUME NEW q \in Seq(Entry), Once(q), NEW t
    PROVE  /\ Once(Without(q, t)) /\ ~InLine(Without(q, t), t)
           /\ \A u : u # t /\ InLine(q, u) => InLine(Without(q, t), u)
<1>0. Len(q) \in Nat
    BY LenProperties
<1>1. CASE Without(q, t) = q /\ \A i \in 1 .. Len(q) : q[i].task # t
    BY <1>1 DEF InLine
<1>2. CASE \E n \in 1 .. Len(q) : q[n].task = t /\ Dropped(q, Without(q, t), n)
    <2>1. PICK c : c = Without(q, t)
        OBVIOUS
    <2>2. PICK n \in 1 .. Len(q) : q[n].task = t /\ Dropped(q, c, n)
        BY <1>2, <2>1
    <2>3. /\ Len(c) = Len(q) - 1
          /\ \A i \in 1 .. Len(q) - 1 : c[i] = IF i < n THEN q[i] ELSE q[i + 1]
        BY <2>2 DEF Dropped
    <2>4. PICK f : f = [i \in 1 .. Len(c) |-> IF i < n THEN i ELSE i + 1]
        OBVIOUS
    <2>5. \A i \in 1 .. Len(c) : f[i] \in 1 .. Len(q) /\ f[i] # n /\ c[i] = q[f[i]]
        BY <1>0, <2>3, <2>4
    <2>6. \A i, j \in 1 .. Len(c) : f[i] = f[j] => i = j
        BY <1>0, <2>3, <2>4
    <2>7. Once(c)
        BY <2>5, <2>6, SMTT(30) DEF Once
    <2>8. ~InLine(c, t)
        BY <2>2, <2>5 DEF Once, InLine
    <2>9. ASSUME NEW u, u # t, InLine(q, u) PROVE InLine(c, u)
        <3>1. Leaves(q, c, t)
            BY <2>1, WithoutEffect
        <3>2. PICK j \in 1 .. Len(q) : q[j].task = u
            BY <2>9 DEF InLine
        <3>3. PICK i \in 1 .. Len(c) : c[i] = q[j]
            BY <2>9, <3>1, <3>2 DEF Leaves
        <3> QED BY <3>2, <3>3 DEF InLine
    <2> QED BY <2>1, <2>7, <2>8, <2>9
<1> QED BY <1>1, <1>2, WithoutIs

LEMMA OnceInQueue ==
    ASSUME NEW q \in Seq(Entry), Once(q), NEW t \in Tasks, NEW p \in 0 .. 1
    PROVE  /\ Once(InQueue(q, t, p)) /\ InLine(InQueue(q, t, p), t)
           /\ \A u : InLine(q, u) => InLine(InQueue(q, t, p), u)
<1>1. PICK rest, c, e : /\ rest = Without(q, t) /\ c = InQueue(q, t, p)
                        /\ e = [task |-> t, priority |-> p]
    OBVIOUS
<1>2. rest \in Seq(Entry) /\ Once(rest) /\ ~InLine(rest, t)
    BY <1>1, InQueueIs, OnceWithout
<1>3. PICK n \in 1 .. Len(rest) + 1 : Inserted(rest, c, n, e)
    BY <1>1, InQueueIs
<1>4. /\ Len(c) = Len(rest) + 1
      /\ \A j \in 1 .. Len(rest) + 1 :
            c[j] = IF j < n THEN rest[j] ELSE IF j = n THEN e ELSE rest[j - 1]
    BY <1>3 DEF Inserted
<1>5. Len(rest) \in Nat
    BY <1>2, LenProperties
<1>6. PICK f : f = [j \in 1 .. Len(c) |-> IF j < n THEN j ELSE j - 1]
    OBVIOUS
<1>7. \A j \in 1 .. Len(c) : j # n => f[j] \in 1 .. Len(rest) /\ c[j] = rest[f[j]]
    BY <1>4, <1>5, <1>6
<1>8. \A i, j \in 1 .. Len(c) : i # n /\ j # n /\ f[i] = f[j] => i = j
    BY <1>4, <1>5, <1>6
<1>9. n \in 1 .. Len(c) /\ c[n].task = t
    BY <1>1, <1>4, <1>5
<1>10. \A j \in 1 .. Len(c) : j # n => c[j].task # t
    BY <1>2, <1>7 DEF InLine
<1>11. Once(c)
    <2> SUFFICES ASSUME NEW i \in 1 .. Len(c), NEW j \in 1 .. Len(c), c[i].task = c[j].task
                 PROVE  i = j
        BY DEF Once
    <2>1. CASE i = n
        BY <1>9, <1>10, <2>1
    <2>2. CASE j = n
        BY <1>9, <1>10, <2>2
    <2>3. CASE i # n /\ j # n
        <3>1. rest[f[i]].task = rest[f[j]].task /\ f[i] \in 1 .. Len(rest) /\ f[j] \in 1 .. Len(rest)
            BY <1>7, <2>3
        <3>2. f[i] = f[j]
            BY <1>2, <3>1 DEF Once
        <3> QED BY <1>8, <2>3, <3>2
    <2> QED BY <2>1, <2>2, <2>3
<1>12. ASSUME NEW u, InLine(q, u) PROVE InLine(c, u)
    <2>1. Enters(q, c, t)
        BY <1>1, InQueueEffect
    <2>2. PICK j \in 1 .. Len(q) : q[j].task = u
        BY <1>12 DEF InLine
    <2> QED BY <2>1, <2>2 DEF Enters, InLine
<1> QED BY <1>1, <1>9, <1>11, <1>12 DEF InLine

LEMMA AddLooks ==
    ASSUME NEW w, Sane(w), NEW t \in Tasks, NEW p \in 0 .. 1
    PROVE  \E v : Sane(v) /\ AddToQueue(w, t, p) = CheckSendNext(v) /\ v.task = w.task
<1>1. PICK A : Int \subseteq A /\ w \in Worlds(A)
    BY DEF Sane, Typed
<1>2. PICK q : q = InQueue(w.queue, t, p)
    OBVIOUS
<1>3. w.queue \in Seq(Entry) /\ Once(w.queue) /\ Queued(w) /\ Fair(w, Zero) /\ Unasked(w)
    BY <1>1, WorldParts DEF Sane, Fair
<1>4. Once(q) /\ \A u : InLine(w.queue, u) => InLine(q, u)
    BY <1>2, <1>3, OnceInQueue
<1>5. q \in Seq(Entry)
    BY <1>2, <1>3, InQueueEffect
<1>6. PICK v : v = [w EXCEPT !.queue = q]
    OBVIOUS
<1>7. v \in Worlds(A) /\ v.dc = w.dc /\ v.queue = q /\ v.task = w.task
    BY <1>1, <1>5, <1>6, QueueEffect
<1>8. Fair(v, Zero)
    BY <1>3, <1>4, <1>7, FairQueue DEF Queued
<1>9. Sane(v)
    BY <1>1, <1>3, <1>7, <1>8 DEF Sane, Typed, Unasked
<1>10. AddToQueue(w, t, p) = CheckSendNext(v)
    BY <1>2, <1>6 DEF AddToQueue
<1> QED BY <1>7, <1>9, <1>10

LEMMA SaneAdd ==
    ASSUME NEW w, Sane(w), NEW t \in Tasks, NEW p \in 0 .. 1
    PROVE  Sane(AddToQueue(w, t, p))
BY AddLooks, SaneCheckSendNext

\* A loader that leaves the queue is owed nothing, and gets nothing.
LEMMA RemoveLooks ==
    ASSUME NEW w, Sane(w), NEW t \in Tasks, w.task[t].sent = {}, w.task[t].unchecked = {}
    PROVE  \E v : /\ Sane(v) /\ RemoveFromQueue(w, t) = CheckSendNext(v) /\ v.task = w.task
                  /\ v.queue = Without(w.queue, t) /\ ~InLine(v.queue, t)
<1>1. PICK A : Int \subseteq A /\ w \in Worlds(A)
    BY DEF Sane, Typed
<1>2. PICK q : q = Without(w.queue, t)
    OBVIOUS
<1>3. w.queue \in Seq(Entry) /\ Once(w.queue) /\ Queued(w) /\ Fair(w, Zero) /\ Unasked(w)
    BY <1>1, WorldParts DEF Sane, Fair
<1>4. Once(q) /\ ~InLine(q, t) /\ \A u : u # t /\ InLine(w.queue, u) => InLine(q, u)
    BY <1>2, <1>3, OnceWithout
<1>5. q \in Seq(Entry)
    BY <1>2, <1>3, WithoutEffect
<1>6. PICK v : v = [w EXCEPT !.queue = q]
    OBVIOUS
<1>7. v \in Worlds(A) /\ v.dc = w.dc /\ v.queue = q /\ v.task = w.task
    BY <1>1, <1>5, <1>6, QueueEffect
<1>8. Fair(v, Zero)
    BY <1>3, <1>4, <1>7, FairQueue DEF Queued
<1>9. Sane(v)
    BY <1>1, <1>3, <1>7, <1>8 DEF Sane, Typed, Unasked
<1>10. RemoveFromQueue(w, t) = CheckSendNext(v)
    BY <1>2, <1>6 DEF RemoveFromQueue
<1> QED BY <1>2, <1>4, <1>7, <1>9, <1>10

LEMMA SaneRemove ==
    ASSUME NEW w, Sane(w), NEW t \in Tasks, w.task[t].sent = {}, w.task[t].unchecked = {}
    PROVE  /\ Sane(RemoveFromQueue(w, t))
           /\ RemoveFromQueue(w, t).task[t].sent = {}
           /\ RemoveFromQueue(w, t).task[t].unchecked = {}
<1>1. PICK v : Sane(v) /\ RemoveFromQueue(w, t) = CheckSendNext(v) /\ ~InLine(v.queue, t)
    BY RemoveLooks
<1>2. PICK A : Int \subseteq A /\ v \in Worlds(A)
    BY <1>1 DEF Sane, Typed
<1>3. PICK x : x = CheckSendNext(v)
    OBVIOUS
<1>4. Sane(x) /\ x.queue = v.queue
    BY <1>1, <1>2, <1>3, SaneCheckSendNext, CheckSendNextSends
<1>5. x.task[t].sent = {} /\ x.task[t].unchecked = {}
    BY <1>1, <1>4 DEF Sane, Fair, Queued
<1> QED BY <1>1, <1>3, <1>4, <1>5

LEMMA SaneCancelFile ==
    ASSUME NEW w, Sane(w), NEW t \in Tasks
    PROVE  Sane(CancelFile(w, t))
<1>1. PICK v : v = CancelAllRequests(w, t)
    OBVIOUS
<1>2. Sane(v) /\ v.task[t].sent = {} /\ v.task[t].unchecked = {}
    BY <1>1, SaneCancelAll
<1>3. PICK A : Int \subseteq A /\ v \in Worlds(A)
    BY <1>2 DEF Sane, Typed
<1>4. PICK k : k = [v.task[t] EXCEPT !.state = "cancelled"]
    OBVIOUS
<1>5. v.task[t] \in TaskOf(A)
    BY <1>3, TaskParts
<1>6. k \in TaskOf(A) /\ k.sent = {} /\ k.unchecked = {}
    BY <1>2, <1>4, <1>5 DEF TaskOf, States
<1>7. CancelFile(w, t) = WithTask(v, t, k)
    BY <1>1, <1>3, <1>4 DEF CancelFile, WithTask
<1>8. /\ k.sent = v.task[t].sent /\ k.unchecked \subseteq v.task[t].unchecked
      /\ \A u \in k.unchecked : u.index \in 1 .. Len(v.dc.sessions)
      /\ \A o \in k.todo : \A r \in k.sent : r.offset # o
    BY <1>2, <1>6
<1>9. Sane(WithTask(v, t, k))
    BY <1>2, <1>3, <1>6, <1>8, SaneWithTask
<1> QED BY <1>7, <1>9

LEMMA SaneCancelOnFail ==
    ASSUME NEW w, Sane(w), NEW t \in Tasks
    PROVE  Sane(CancelOnFail(w, t))
BY SaneCancelFile DEF CancelOnFail

LEMMA SaneFeedParts ==
    ASSUME NEW w, Sane(w), NEW t \in Tasks, NEW X, X \subseteq Offsets,
           NEW short, NEW saved
    PROVE  /\ Sane(FeedParts(w, t, X, short, saved))
           /\ Len(FeedParts(w, t, X, short, saved).dc.sessions) \in Nat
<1>0. ASSUME NEW x, Sane(x) PROVE Len(x.dc.sessions) \in Nat
    BY <1>0, WorldParts, SessionsParts DEF Sane, Typed, DcRec
<1> SUFFICES Sane(FeedParts(w, t, X, short, saved))
    BY <1>0
<1>1. CASE t \in Streams
    BY <1>1 DEF FeedParts
<1>2. CASE t \notin Streams
    <2>1. PICK A : Int \subseteq A /\ w \in Worlds(A)
        BY DEF Sane, Typed
    <2>2. PICK k, state, l :
            /\ state = IF short THEN "cut" ELSE w.task[t].state
            /\ k = [w.task[t] EXCEPT !.fed = w.task[t].fed \cup X, !.state = state]
            /\ l = w.task[t]
        OBVIOUS
    <2>3. w.task[t] \in TaskOf(A)
        BY <2>1, TaskParts
    <2>4. /\ k \in TaskOf(A) /\ k.todo = w.task[t].todo
          /\ k.sent = w.task[t].sent /\ k.unchecked = w.task[t].unchecked
        <3>1. state \in States
            BY <2>2, <2>3 DEF States, TaskOf
        <3> QED BY <2>2, <2>3, <3>1 DEF TaskOf
    <2>5. PICK v : v = WithTask(w, t, k)
        OBVIOUS
    <2>6. /\ \A u \in k.unchecked : u.index \in 1 .. Len(w.dc.sessions)
          /\ \A o \in k.todo : \A r \in k.sent : r.offset # o
          /\ InLine(w.queue, t) \/ k.unchecked \subseteq w.task[t].unchecked
        BY <2>4 DEF Sane, Fair, Homed, Unasked
    <2>7. Sane(v) /\ v \in Worlds(A) /\ v.task[t] = k
        BY <2>1, <2>4, <2>5, <2>6, SaneWithTask
    <2>8. v = [w EXCEPT !.task[t].fed = @ \cup X, !.task[t].state = state]
        BY <2>1, <2>2, <2>5, WorldParts DEF WithTask
    <2>9. CASE ~HaveSentRequests(l) /\ (state = "cut" \/ l.todo = {})
        <3>1. PICK x, end : /\ x = RemoveFromQueue(v, t)
                            /\ end = IF ~saved THEN "cancelled"
                                     ELSE IF state = "cut" THEN "short" ELSE "done"
            OBVIOUS
        <3>2. k.sent = {} /\ k.unchecked = {}
            BY <2>2, <2>4, <2>9 DEF HaveSentRequests
        <3>3. Sane(x) /\ x.task[t].sent = {} /\ x.task[t].unchecked = {}
            BY <2>7, <3>1, <3>2, SaneRemove
        <3>4. PICK B : Int \subseteq B /\ x \in Worlds(B)
            BY <3>3 DEF Sane, Typed
        <3>5. PICK m : m = [x.task[t] EXCEPT !.state = end]
            OBVIOUS
        <3>6. x.task[t] \in TaskOf(B)
            BY <3>4, TaskParts
        <3>7. m \in TaskOf(B) /\ m.sent = {} /\ m.unchecked = {}
            <4>1. end \in States
                BY <3>1 DEF States
            <4> QED BY <3>3, <3>5, <3>6, <4>1 DEF TaskOf
        <3>8. /\ m.sent = x.task[t].sent /\ m.unchecked \subseteq x.task[t].unchecked
              /\ \A u \in m.unchecked : u.index \in 1 .. Len(x.dc.sessions)
              /\ \A o \in m.todo : \A r \in m.sent : r.offset # o
            BY <3>3, <3>7
        <3>9. Sane(WithTask(x, t, m))
            BY <3>3, <3>4, <3>7, <3>8, SaneWithTask
        <3>10. FeedParts(w, t, X, short, saved) = [x EXCEPT !.task[t].state = end]
            BY <1>2, <2>2, <2>8, <2>9, <3>1 DEF FeedParts
        <3>11. FeedParts(w, t, X, short, saved) = WithTask(x, t, m)
            BY <3>4, <3>5, <3>10, WorldParts DEF WithTask
        <3> QED BY <3>9, <3>11
    <2>10. CASE ~(~HaveSentRequests(l) /\ (state = "cut" \/ l.todo = {}))
        <3>1. FeedParts(w, t, X, short, saved) = v
            BY <1>2, <2>2, <2>8, <2>10 DEF FeedParts
        <3> QED BY <2>7, <3>1
    <2> QED BY <2>9, <2>10
<1> QED BY <1>1, <1>2

LEMMA SaneRequestMore ==
    ASSUME NEW w, Sane(w), NEW t \in Tasks,
           \A o \in w.task[t].todo : \A u \in w.task[t].unchecked : u.offset # o
    PROVE  Sane(RequestMoreCdnFileHashes(w, t))
<1>1. CASE w.task[t].unchecked = {} \/ \E r \in w.task[t].sent : ForHashes(r)
    BY <1>1 DEF RequestMoreCdnFileHashes
<1>2. CASE ~(w.task[t].unchecked = {} \/ \E r \in w.task[t].sent : ForHashes(r))
    <2>1. PICK B : Int \subseteq B /\ w \in Worlds(B)
        BY DEF Sane, Typed
    <2>2. PICK k : k = w.task[t]
        OBVIOUS
    <2>3. k.unchecked \subseteq Part /\ k.unchecked # {}
        BY <1>2, <2>1, <2>2, TaskParts
    <2>4. \E u \in k.unchecked : \A v \in k.unchecked : u.offset <= v.offset
        <3> DEFINE S == {u.offset : u \in k.unchecked}
        <3>1. S \subseteq Nat /\ S # {}
            BY <2>3, Constants DEF Part, Offsets
        <3>2. Min(S) \in S /\ \A o \in S : Min(S) <= o
            <4> HIDE DEF S
            <4> QED BY <3>1, Smallest
        <3> QED BY <3>2
    <2>5. PICK first : first = CHOOSE u \in k.unchecked : \A v \in k.unchecked : u.offset <= v.offset
        OBVIOUS
    <2>6. first \in k.unchecked
        BY <2>4, <2>5
    <2>7. /\ first.offset \in Offsets /\ first.index \in 1 .. Len(w.dc.sessions)
          /\ first.offset \notin w.task[t].todo /\ InLine(w.queue, t)
        BY <2>2, <2>3, <2>6 DEF Part, Sane, Fair, Homed, Queued
    <2>8. "hashes" \in Kinds /\ \A r \in w.task[t].sent : r.offset # first.offset \/ r.kind # "hashes"
        BY <1>2 DEF Kinds, ForHashes
    <2>9. Sane(PlaceSentRequest(w, t, first, "hashes"))
        BY <2>7, <2>8, SanePlace
    <2>10. RequestMoreCdnFileHashes(w, t) = PlaceSentRequest(w, t, first, "hashes")
        BY <1>2, <2>2, <2>5 DEF RequestMoreCdnFileHashes
    <2> QED BY <2>9, <2>10
<1> QED BY <1>1, <1>2

\* The requests of one loader with a session are some of those the session has.
LEMMA OwnAmount ==
    ASSUME NEW w, Sane(w), NEW t \in Tasks, NEW j \in 1 .. Len(w.dc.sessions),
           NEW S, S \subseteq w.task[t].sent, \A r \in S : r.index = j
    PROVE  /\ IsFiniteSet(S) /\ Cardinality(S) \in Nat
           /\ w.dc.sessions[j].requested \in Nat
           /\ Cardinality(S) <= w.dc.sessions[j].requested
<1>1. PICK A : Int \subseteq A /\ w \in Worlds(A)
    BY DEF Sane, Typed
<1>2. IsFiniteSet(S) /\ Cardinality(S) \in Nat
    BY <1>1, TaskParts, FS_Subset, FS_CardinalityType
<1>3. PICK P, Q : P = With(OnTheWay(w), j) /\ Q = Pairs(t, S)
    OBVIOUS
<1>4. Q \subseteq P
    <2>1. \A r \in S : <<t, r>> \in OnTheWay(w)
        BY DEF OnTheWay
    <2> QED BY <1>3, <2>1 DEF With, Pairs
<1>5. IsFiniteSet(P) /\ Cardinality(P) \in Nat
    BY <1>3, WithFinite DEF Sane, Fair, Agree
<1>6. Cardinality(Q) <= Cardinality(P) /\ Cardinality(Q) = Cardinality(S)
    BY <1>2, <1>3, <1>4, <1>5, FS_Subset, Paired
<1>7. Len(w.dc.sessions) \in 1 .. MaxSessions
    BY <1>1, WorldParts, SessionsParts DEF DcRec
<1>8. Zero[j] = 0
    BY <1>7, ZeroType, Constants
<1>9. w.dc.sessions[j].requested = Cardinality(P) + Zero[j]
    BY <1>3 DEF Sane, Fair, Agree
<1> QED BY <1>2, <1>5, <1>6, <1>8, <1>9

LEMMA RenewedAmounts ==
    ASSUME NEW w, Sane(w), NEW t \in Tasks, NEW q \in Renewed(w, t)
    PROVE  q.amount \in Nat
<1>0. PICK A : Int \subseteq A /\ w \in Worlds(A)
    BY DEF Sane, Typed
<1>1. PICK sent : sent = w.task[t].sent
    OBVIOUS
<1>2. sent \subseteq RequestOf(A)
    BY <1>0, <1>1, TaskParts
<1> DEFINE Later(r) == {a \in sent : a.index = r.index /\ a.offset > r.offset}
<1>3. PICK r \in sent : q = [r EXCEPT !.kind = "part", !.old = FALSE,
                !.amount = w.dc.sessions[r.index].requested - Cardinality(Later(r))]
    BY <1>1 DEF Renewed
<1>4. q.amount = w.dc.sessions[r.index].requested - Cardinality(Later(r))
    BY <1>2, <1>3 DEF RequestOf
<1>5. PICK j, S : j = r.index /\ S = Later(r)
    OBVIOUS
<1>6. j \in 1 .. Len(w.dc.sessions)
    <2>1. <<t, r>> \in OnTheWay(w)
        BY <1>1 DEF OnTheWay
    <2>2. <<t, r>>[2].index \in 1 .. Len(w.dc.sessions)
        BY <2>1 DEF Sane, Fair, Agree
    <2> QED BY <1>5, <2>2
<1>7. S \subseteq w.task[t].sent /\ \A a \in S : a.index = j
    BY <1>1, <1>5
<1>8. /\ Cardinality(S) \in Nat /\ w.dc.sessions[j].requested \in Nat
      /\ Cardinality(S) <= w.dc.sessions[j].requested
    BY <1>6, <1>7, OwnAmount
<1> QED BY <1>4, <1>5, <1>8

\* changeCDNParams: every request is with the session it was with.
LEMMA SaneChangeCDNParams ==
    ASSUME NEW w, Sane(w), NEW t \in Tasks, NEW data, Mid(w, t, {data.offset}),
           InLine(w.queue, t), data.offset \in Offsets, data.index \in 1 .. Len(w.dc.sessions),
           NEW cdn \in BOOLEAN, NEW hashes \in SUBSET Offsets
    PROVE  Sane(ChangeCDNParams(w, t, data, cdn, hashes))
<1>1. PICK B : Int \subseteq B /\ w \in Worlds(B)
    BY DEF Sane, Typed
<1>2. PICK k, X : k = w.task[t] /\ X = {data.offset}
    OBVIOUS
<1>3. k \in TaskOf(B) /\ Sound(t, k, X) /\ Apart(k, X)
    BY <1>1, <1>2, TaskParts DEF Mid
<1>4. PICK sent : sent = IF k.cdn # cdn THEN Renewed(w, t) ELSE k.sent
    OBVIOUS
<1>5. PICK l : l = [k EXCEPT !.cdn = cdn, !.hashes = k.hashes \cup hashes, !.sent = sent]
    OBVIOUS
<1>6. l = CdnTask(w, t, cdn, hashes)
    BY <1>2, <1>4, <1>5 DEF CdnTask
<1>7. /\ l.todo = k.todo /\ l.sent = sent /\ l.unchecked = k.unchecked
    BY <1>3, <1>5 DEF TaskOf
<1>8. PICK A : /\ B \subseteq A /\ l \in TaskOf(A)
               /\ \E f \in [k.sent -> sent] :
                    /\ \A r \in k.sent : f[r].offset = r.offset /\ f[r].index = r.index
                    /\ \A q \in sent : \E r \in k.sent : f[r] = q
    <2>1. CASE k.cdn # cdn
        <3>1. PICK A : /\ B \subseteq A /\ sent \in SentOf(A)
                       /\ \E f \in [k.sent -> sent] :
                            /\ \A r \in k.sent : f[r].offset = r.offset /\ f[r].index = r.index
                                                 /\ f[r].kind = "part"
                            /\ \A q \in sent : \E r \in k.sent : f[r] = q
            BY <1>1, <1>2, <1>4, <2>1, RenewedIs
        <3>2. k \in TaskOf(A)
            BY <1>1, <1>2, <3>1, Widen, TaskParts
        <3>3. l \in TaskOf(A)
            BY <1>5, <3>1, <3>2 DEF TaskOf
        <3>4. \E f \in [k.sent -> sent] :
                    /\ \A r \in k.sent : f[r].offset = r.offset /\ f[r].index = r.index
                    /\ \A q \in sent : \E r \in k.sent : f[r] = q
            BY <3>1
        <3> QED BY <3>1, <3>3, <3>4
    <2>2. CASE k.cdn = cdn
        <3>1. sent = k.sent
            BY <1>4, <2>2
        <3>2. l \in TaskOf(B)
            BY <1>3, <1>5, <3>1 DEF TaskOf
        <3>3. PICK f : f = [r \in k.sent |-> r]
            OBVIOUS
        <3>4. /\ f \in [k.sent -> sent]
              /\ \A r \in k.sent : f[r].offset = r.offset /\ f[r].index = r.index
              /\ \A q \in sent : \E r \in k.sent : f[r] = q
            BY <3>1, <3>3
        <3> QED BY <3>2, <3>4
    <2> QED BY <2>1, <2>2
<1>9. PICK f \in [k.sent -> sent] :
        /\ \A r \in k.sent : f[r].offset = r.offset /\ f[r].index = r.index
        /\ \A q \in sent : \E r \in k.sent : f[r] = q
    BY <1>8
<1>10. Int \subseteq A /\ w \in Worlds(A)
    BY <1>1, <1>8, Widen
<1>11. PICK v : v = WithTask(w, t, l)
    OBVIOUS
<1>12. v \in Worlds(A) /\ Changed(w, v, t, l, w.dc)
    BY <1>8, <1>10, <1>11, TaskEffect
<1>13. \A q \in sent : q.amount \in Nat
    <2>1. CASE k.cdn # cdn
        BY <1>4, <2>1, RenewedAmounts
    <2>2. CASE k.cdn = cdn
        <3> SUFFICES ASSUME NEW q \in k.sent PROVE q.amount \in Nat
            BY <1>4, <2>2
        <3>1. <<t, q>> \in OnTheWay(w)
            BY <1>2 DEF OnTheWay
        <3>2. <<t, q>>[2].amount \in Nat
            BY <3>1 DEF Sane, Fair, Agree
        <3> QED BY <3>2
    <2> QED BY <2>1, <2>2
<1>14. \A r, q \in k.sent : f[r] = f[q] => r = q
    BY <1>3, <1>9 DEF Apart
<1>15. Fair(v, Zero)
    <2>1. Fair(w, Zero) /\ k.sent = w.task[t].sent /\ l.unchecked = w.task[t].unchecked
        BY <1>2, <1>7 DEF Sane
    <2>2. f \in [w.task[t].sent -> l.sent]
        BY <1>2, <1>7, <1>9
    <2>3. /\ \A r \in w.task[t].sent : f[r].index = r.index
          /\ \A r, q \in w.task[t].sent : f[r] = f[q] => r = q
          /\ \A q \in l.sent : \E r \in w.task[t].sent : f[r] = q
          /\ \A q \in l.sent : q.amount \in Nat
        BY <1>7, <1>9, <1>13, <1>14, <2>1
    <2> QED BY <1>10, <1>12, <2>1, <2>2, <2>3, FairOther
<1>16. \A o \in l.todo : \A q \in l.sent : q.offset # o
    BY <1>2, <1>7, <1>9 DEF Sane, Unasked
<1>17. Unasked(v)
    BY <1>12, <1>16 DEF Sane, Unasked, Changed
<1>18. Sane(v)
    BY <1>10, <1>12, <1>15, <1>17 DEF Sane, Typed
<1>19. v.queue = w.queue /\ v.dc = w.dc /\ v.task[t] = l
    BY <1>12 DEF Changed
<1>20. data.offset \notin v.task[t].todo
    BY <1>2, <1>3, <1>7, <1>19 DEF Sound
<1>21. \A r \in v.task[t].sent : r.offset # data.offset
    BY <1>2, <1>3, <1>7, <1>9, <1>19 DEF Apart
<1>22. Sane(PlaceSentRequest(v, t, data, "part"))
    <2>1. "part" \in Kinds /\ \A r \in v.task[t].sent : r.offset # data.offset \/ r.kind # "part"
        BY <1>21 DEF Kinds
    <2>2. InLine(v.queue, t) /\ data.index \in 1 .. Len(v.dc.sessions)
        BY <1>19
    <2> QED BY <1>18, <1>20, <2>1, <2>2, SanePlace
<1>23. ChangeCDNParams(w, t, data, cdn, hashes) = PlaceSentRequest(v, t, data, "part")
    BY <1>1, <1>6, <1>11, ChangeCDNParamsIs DEF MakeRequest
<1> QED BY <1>22, <1>23

LEMMA SaneRekinded ==
    ASSUME NEW w, Sane(w), NEW t \in Tasks, Apart(w.task[t], {}), NEW r \in w.task[t].sent,
           NEW kind \in Kinds
    PROVE  Sane(Rekinded(w, t, r, kind))
<1>1. PICK A : Int \subseteq A /\ w \in Worlds(A)
    BY DEF Sane, Typed
<1>2. PICK k, q : k = w.task[t] /\ q = [r EXCEPT !.kind = kind]
    OBVIOUS
<1>3. PICK S, f : S = (k.sent \ {r}) \cup {q} /\ f = [a \in k.sent |-> IF a = r THEN q ELSE a]
    OBVIOUS
<1>4. k \in TaskOf(A) /\ k.sent \subseteq RequestOf(A) /\ IsFiniteSet(k.sent)
    BY <1>1, <1>2, TaskParts
<1>5. r \in RequestOf(A) /\ r \in k.sent
    BY <1>2, <1>4
<1>6. q \in RequestOf(A) /\ q.offset = r.offset /\ q.index = r.index /\ q.amount = r.amount
    BY <1>2, <1>5 DEF RequestOf
<1>7. S \in SentOf(A)
    <2>1. IsFiniteSet(k.sent \ {r})
        BY <1>4, FS_Subset
    <2>2. IsFiniteSet(S)
        BY <1>3, <2>1, FS_AddElement
    <2> QED BY <1>3, <1>4, <1>6, <2>2 DEF SentOf
<1>8. PICK l : l = [k EXCEPT !.sent = S]
    OBVIOUS
<1>9. /\ l \in TaskOf(A) /\ l.todo = k.todo /\ l.sent = S /\ l.unchecked = k.unchecked
    BY <1>4, <1>7, <1>8 DEF TaskOf
<1>10. f \in [k.sent -> S] /\ \A a \in S : \E b \in k.sent : f[b] = a
    BY <1>3, <1>5
<1>11. \A a \in k.sent : f[a].offset = a.offset /\ f[a].index = a.index /\ f[a].amount = a.amount
    BY <1>3, <1>6
<1>12. \A a, b \in k.sent : f[a] = f[b] => a = b
    BY <1>2, <1>11 DEF Apart
<1>13. \A a \in k.sent : a.amount \in Nat
    <2> SUFFICES ASSUME NEW a \in k.sent PROVE a.amount \in Nat
        OBVIOUS
    <2>1. <<t, a>> \in OnTheWay(w)
        BY <1>2 DEF OnTheWay
    <2>2. <<t, a>>[2].amount \in Nat
        BY <2>1 DEF Sane, Fair, Agree
    <2> QED BY <2>2
<1>14. \A a \in S : a.amount \in Nat
    BY <1>10, <1>11, <1>13
<1>15. PICK v : v = WithTask(w, t, l)
    OBVIOUS
<1>16. v \in Worlds(A) /\ Changed(w, v, t, l, w.dc)
    BY <1>1, <1>9, <1>15, TaskEffect
<1>17. Fair(v, Zero)
    <2>1. Fair(w, Zero) /\ k.sent = w.task[t].sent /\ l.unchecked = w.task[t].unchecked
        BY <1>2, <1>9 DEF Sane
    <2>2. f \in [w.task[t].sent -> l.sent]
        BY <1>2, <1>9, <1>10
    <2>3. /\ \A a \in w.task[t].sent : f[a].index = a.index
          /\ \A a, b \in w.task[t].sent : f[a] = f[b] => a = b
          /\ \A a \in l.sent : \E b \in w.task[t].sent : f[b] = a
          /\ \A a \in l.sent : a.amount \in Nat
        BY <1>9, <1>10, <1>11, <1>12, <1>14, <2>1
    <2> QED BY <1>1, <1>16, <2>1, <2>2, <2>3, FairOther
<1>18. \A o \in l.todo : \A a \in l.sent : a.offset # o
    BY <1>2, <1>9, <1>10, <1>11 DEF Sane, Unasked
<1>19. Unasked(v)
    BY <1>16, <1>18 DEF Sane, Unasked, Changed
<1>20. v = Rekinded(w, t, r, kind)
    <2>1. Rekinded(w, t, r, kind) = [w EXCEPT !.task[t].sent = S]
        BY <1>2, <1>3 DEF Rekinded
    <2> QED BY <1>1, <1>2, <1>8, <1>15, <2>1, WorldParts DEF WithTask
<1> QED BY <1>1, <1>16, <1>17, <1>19, <1>20 DEF Sane, Typed

LEMMA SaneFail ==
    ASSUME NEW w, Sane(w), NEW t \in Tasks, Apart(w.task[t], {}), NEW r \in w.task[t].sent
    PROVE  Sane(Fail(w, t, r))
<1>1. CASE t \in Files
    BY <1>1, SaneCancelFile DEF Fail
<1>2. CASE t \notin Files
    <2>1. PICK kind : kind = IF ForHashes(r) THEN "failed hashes" ELSE "failed"
        OBVIOUS
    <2>2. kind \in Kinds
        BY <2>1 DEF Kinds
    <2>3. Fail(w, t, r) = Rekinded(w, t, r, kind)
        BY <1>2, <2>1 DEF Fail, Rekinded
    <2> QED BY <2>2, <2>3, SaneRekinded
<1> QED BY <1>1, <1>2

-----------------------------------------------------------------------------
(* The removal of a session keeps the books.                               *)

\* Of two sessions with as much to do the first is chosen.
LEMMA NotChosen ==
    ASSUME NEW w, w.dc \in DcRec, NEW i \in 1 .. Len(w.dc.sessions),
           NEW j \in 1 .. Len(w.dc.sessions), j < i,
           w.dc.sessions[j].requested <= w.dc.sessions[i].requested
    PROVE  ChooseSessionIndex(w) # i
<1> DEFINE s == w.dc.sessions
<1>1. /\ DOMAIN s = 1 .. Len(s) /\ Len(s) \in 1 .. MaxSessions
      /\ \A m \in 1 .. Len(s) : s[m] \in SessionRec
    BY SessionsParts DEF DcRec
<1>2. PICK f : f = [m \in DOMAIN s |-> s[m].requested]
    OBVIOUS
<1>3. PICK n : n = Len(s)
    OBVIOUS
<1>4. n \in Nat \ {0} /\ f \in [1 .. n -> Int]
    BY <1>1, <1>2, <1>3, Constants, SMTT(30) DEF SessionRec
<1>5. ChooseSessionIndex(w) = LeastLoaded(f)
    BY <1>2 DEF ChooseSessionIndex
<1>6. i \in 1 .. n /\ j \in 1 .. n /\ f[j] <= f[i]
    BY <1>1, <1>2, <1>3
<1> HIDE DEF s
<1> SUFFICES ASSUME LeastLoaded(f) = i PROVE FALSE
    BY <1>5
<1>7. PICK S : S = {m \in 1 .. n : \A l \in 1 .. n : f[m] <= f[l]}
    OBVIOUS
<1>8. LeastLoaded(f) = Min(S)
    BY <1>4, <1>7 DEF LeastLoaded
<1>9. \A l \in 1 .. n : f[i] <= f[l]
    BY <1>4, LeastLoadedIs
<1>10. j \in S
    BY <1>4, <1>6, <1>7, <1>9
<1>11. S \subseteq Nat /\ S # {}
    BY <1>7, <1>10
<1>12. Min(S) <= j
    BY <1>10, <1>11, Smallest
<1> QED BY <1>4, <1>6, <1>8, <1>12

\* Session i is to be removed: it counts more than can be asked for.
Booked(i) == [j \in 1 .. MaxSessions |-> IF j = i THEN MaxWaited * MaxSessions ELSE 0]

LEMMA BookedType ==
    ASSUME NEW i
    PROVE  /\ Booked(i) \in Extras /\ MaxWaited * MaxSessions \in Nat
           /\ \A j \in 1 .. MaxSessions :
                Booked(i)[j] = IF j = i THEN MaxWaited * MaxSessions ELSE 0
<1>1. MaxWaited * MaxSessions \in Nat
    BY Constants
<1> QED BY <1>1 DEF Booked, Extras

\* Session j has room for what session i has.
Roomy(d, j, i) ==
    d.sessions[j].requested + d.sessions[i].requested
        <= MaxWaited * MaxSessions + MaxWaited * MaxSessions

LEMMA MoreThanAll ==
    ASSUME NEW A, NEW v \in Worlds(A), NEW i \in 1 .. Len(v.dc.sessions), Fair(v, Booked(i))
    PROVE  v.dc.sessions[i].requested \in Int /\ v.dc.sessions[i].requested >= MaxWaited * MaxSessions
<1>1. v.dc \in DcRec /\ Len(v.dc.sessions) \in 1 .. MaxSessions
    BY WorldParts, SessionsParts DEF DcRec
<1>2. i \in 1 .. MaxSessions
    BY <1>1, Constants
<1>3. PICK n : n = Cardinality(With(OnTheWay(v), i))
    OBVIOUS
<1>4. n \in Nat
    BY <1>3, WithFinite DEF Fair, Agree
<1>5. PICK b : b = MaxWaited * MaxSessions
    OBVIOUS
<1>6. b \in Nat /\ Booked(i)[i] = b
    BY <1>2, <1>5, BookedType
<1>7. v.dc.sessions[i].requested = n + b
    BY <1>3, <1>6 DEF Fair, Agree
<1> QED BY <1>4, <1>5, <1>6, <1>7

\* While session j has room, session i is not chosen.
LEMMA Elsewhere ==
    ASSUME NEW A, NEW v \in Worlds(A), NEW i \in 1 .. Len(v.dc.sessions), Fair(v, Booked(i)),
           NEW j \in 1 .. Len(v.dc.sessions), j < i, Roomy(v.dc, j, i)
    PROVE  ChooseSessionIndex(v) # i
<1>1. PICK a, b, c : /\ a = v.dc.sessions[j].requested /\ b = MaxWaited * MaxSessions
                     /\ c = v.dc.sessions[i].requested
    OBVIOUS
<1>2. v.dc \in DcRec /\ v.dc.sessions[j] \in SessionRec
    BY WorldParts, SessionsParts DEF DcRec
<1>3. a \in Int /\ b \in Nat /\ c \in Int /\ c >= b /\ a + c <= b + b
    BY <1>1, <1>2, BookedType, MoreThanAll DEF SessionRec, Roomy
<1>4. a <= c
    BY <1>3
<1> QED BY <1>1, <1>2, <1>4, NotChosen

\* One request less.
LEMMA SubtractedAmount ==
    ASSUME NEW d \in DcRec, NEW q
    PROVE  /\ ChangeRequestedAmount(d, {q}, -1) \in DcRec
           /\ \A i \in 1 .. Len(d.sessions) :
                ChangeRequestedAmount(d, {q}, -1).sessions[i].requested =
                    d.sessions[i].requested - IF i = q.index THEN 1 ELSE 0
<1>0. PICK c : c = ChangeRequestedAmount(d, {q}, -1)
    OBVIOUS
<1>1. PICK S : S = {q}
    OBVIOUS
<1>2. PICK sign \in {-1, 1} : sign = -1
    OBVIOUS
<1>3. IsFiniteSet(S) /\ S # {} /\ c = ChangeRequestedAmount(d, S, sign)
    BY <1>0, <1>1, <1>2, FS_Singleton
<1>4. /\ c \in DcRec
      /\ \A i \in 1 .. Len(d.sessions) :
            c.sessions[i].requested = d.sessions[i].requested + sign * Requested(S, i)
    <2>1. ChangedBy(d, ChangeRequestedAmount(d, S, sign), S, sign)
        BY <1>3, ChangedAmounts
    <2>2. ChangedBy(d, c, S, sign)
        BY <1>3, <2>1
    <2> QED BY <2>2 DEF ChangedBy
<1>5. ASSUME NEW i \in 1 .. Len(d.sessions)
      PROVE  c.sessions[i].requested = d.sessions[i].requested - IF i = q.index THEN 1 ELSE 0
    <2>1. d.sessions[i].requested \in Int
        BY SessionsParts DEF DcRec, SessionRec
    <2>2. PICK n : n = Requested(S, i)
        OBVIOUS
    <2>3. n = IF i = q.index THEN 1 ELSE 0
        <3>1. CASE i = q.index
            <4>1. {r \in S : r.index = i} = {q}
                BY <1>1, <3>1
            <4> QED BY <2>2, <3>1, <4>1, FS_Singleton DEF Requested
        <3>2. CASE i # q.index
            <4>1. {r \in S : r.index = i} = {}
                BY <1>1, <3>2
            <4> QED BY <2>2, <3>2, <4>1, FS_EmptySet DEF Requested
        <3> QED BY <3>1, <3>2
    <2>4. c.sessions[i].requested = d.sessions[i].requested + sign * n
        BY <1>4, <2>2
    <2> QED BY <1>2, <2>1, <2>3, <2>4
<1> QED BY <1>0, <1>4, <1>5

LEMMA FairCancel ==
    ASSUME NEW A, NEW w \in Worlds(A), NEW extra \in Extras, Fair(w, extra), NEW t \in Tasks,
           NEW S, S \subseteq w.task[t].sent
    PROVE  LET v == CancelRequests(w, t, S)
           IN  /\ v \in Worlds(A) /\ Fair(v, extra) /\ v.queue = w.queue
               /\ Len(v.dc.sessions) = Len(w.dc.sessions)
               /\ v.dc = ChangeRequestedAmount(w.dc, S, -1)
               /\ v.task[t].sent = w.task[t].sent \ S
               /\ v.task[t].unchecked = w.task[t].unchecked /\ v.task[t].state = w.task[t].state
<1>2. PICK v : v = CancelRequests(w, t, S)
    OBVIOUS
<1>3. PICK more \in BOOLEAN :
        /\ v \in Worlds(A)
        /\ Changed(w, v, t,
                   WithRequests(w.task[t], w.task[t].sent \ S, more, w.task[t].unchecked),
                   ChangeRequestedAmount(w.dc, S, -1))
    BY <1>2, CancelEffect
<1>4. PICK k : k = WithRequests(w.task[t], w.task[t].sent \ S, more, w.task[t].unchecked)
    OBVIOUS
<1>5. /\ k.sent = w.task[t].sent \ S /\ k.unchecked = w.task[t].unchecked
      /\ k.state = w.task[t].state
    BY <1>4, TaskParts DEF TaskOf, WithRequests
<1>7. Fair(v, extra) /\ Len(v.dc.sessions) = Len(w.dc.sessions)
    <2>1. Finishes(w, v, t, k, S)
        BY <1>3, <1>4, <1>5 DEF Finishes
    <2> QED BY <1>3, <2>1, FairLess
<1>8. v.queue = w.queue /\ v.task[t] = k /\ v.dc = ChangeRequestedAmount(w.dc, S, -1)
    BY <1>3, <1>4 DEF Changed
<1> QED BY <1>2, <1>3, <1>5, <1>7, <1>8

\* The first o parts of a loader are not with session i.
Clear(k, i, o) ==
    /\ \A r \in k.sent : r.index = i => r.offset > o
    /\ \A u \in k.unchecked : u.index # i

Moving(A, w, t, i, j, o) ==
    {v \in Stage(A, w, t, o) :
        Fair(v, Booked(i)) /\ Roomy(v.dc, j, i) /\ Clear(v.task[t], i, o)}

LEMMA MovingStep ==
    ASSUME NEW A, Int \subseteq A, NEW w \in Worlds(A), NEW t \in Tasks,
           NEW i \in 1 .. Len(w.dc.sessions), NEW j \in 1 .. Len(w.dc.sessions), j < i,
           NEW o \in 1 .. PartsCount, NEW v \in Moving(A, w, t, i, j, o - 1)
    PROVE  Redirect(v, t, Those(w, t, i, o)) \in Moving(A, w, t, i, j, o)
<1>1. PICK S, x : S = Those(w, t, i, o) /\ x = Redirect(v, t, S)
    OBVIOUS
<1>2. v \in Stage(A, w, t, o - 1) /\ Fair(v, Booked(i)) /\ Roomy(v.dc, j, i) /\ Clear(v.task[t], i, o - 1)
    BY DEF Moving
<1>3. x \in Stage(A, w, t, o) /\ S \subseteq v.task[t].sent /\ \A a, b \in S : a = b
    BY <1>1, <1>2, RedirectStep
<1>4. /\ v \in Worlds(A) /\ Mid(v, t, {}) /\ Len(v.dc.sessions) = Len(w.dc.sessions)
      /\ \A r : r.offset > o - 1 => (r \in v.task[t].sent <=> r \in w.task[t].sent)
    BY <1>2 DEF Stage
<1>5. PICK c : c = CancelRequests(v, t, S)
    OBVIOUS
<1>6. /\ c \in Worlds(A) /\ Fair(c, Booked(i)) /\ c.queue = v.queue
      /\ Len(c.dc.sessions) = Len(v.dc.sessions)
      /\ c.dc = ChangeRequestedAmount(v.dc, S, -1)
      /\ c.task[t].sent = v.task[t].sent \ S
      /\ c.task[t].unchecked = v.task[t].unchecked /\ c.task[t].state = v.task[t].state
    BY <1>2, <1>3, <1>4, <1>5, BookedType, FairCancel
<1>7. Clear(c.task[t], i, o)
    <2>1. ASSUME NEW r \in c.task[t].sent, r.index = i PROVE r.offset > o
        <3>1. r \in v.task[t].sent /\ r \notin S
            BY <1>6, <2>1
        <3>2. r.offset > o - 1
            BY <1>2, <2>1, <3>1 DEF Clear
        <3>3. r \in w.task[t].sent
            BY <1>4, <3>1, <3>2
        <3>4. r.offset # o
            BY <1>1, <2>1, <3>1, <3>3 DEF Those
        <3>5. r.offset \in Int
            <4>1. r \in RequestOf(A)
                BY <3>3, TaskParts
            <4> QED BY <4>1, Constants DEF RequestOf, Offsets
        <3> QED BY <3>2, <3>4, <3>5, Constants
    <2>2. \A u \in c.task[t].unchecked : u.index # i
        BY <1>2, <1>6 DEF Clear
    <2> QED BY <2>1, <2>2 DEF Clear
<1>8. /\ v.dc \in DcRec /\ c.dc \in DcRec
      /\ v.dc.sessions[i].requested \in Int /\ v.dc.sessions[j].requested \in Int
      /\ c.dc.sessions[i].requested \in Int /\ c.dc.sessions[j].requested \in Int
    <2>1. ASSUME NEW d \in DcRec, Len(d.sessions) = Len(w.dc.sessions)
          PROVE  d.sessions[i].requested \in Int /\ d.sessions[j].requested \in Int
        BY <2>1, SessionsParts DEF DcRec, SessionRec
    <2>2. v.dc \in DcRec /\ c.dc \in DcRec
        BY <1>4, <1>6, WorldParts
    <2> QED BY <1>4, <1>6, <2>1, <2>2
<1>9. PICK b : b = MaxWaited * MaxSessions
    OBVIOUS
<1>10. b \in Nat /\ v.dc.sessions[j].requested + v.dc.sessions[i].requested <= b + b
    BY <1>2, <1>9, BookedType DEF Roomy
<1>11. \/ S = {} /\ x = c
       \/ \E r \in S : S = {r} /\ ForHashes(r) /\ x = c
       \/ \E r \in S : S = {r} /\ ~ForHashes(r) /\ x = Resend(c, t, r)
    <2>1. \/ S = {} /\ Redirect(v, t, S) = CancelRequests(v, t, S)
          \/ \E r \in S : /\ S = {r} /\ ForHashes(r)
                          /\ Redirect(v, t, S) = CancelRequests(v, t, {r})
          \/ \E r \in S : /\ S = {r} /\ ~ForHashes(r)
                          /\ Redirect(v, t, S) = Resend(CancelRequests(v, t, {r}), t, r)
        BY <1>3, RedirectCases
    <2>2. CASE S = {} /\ Redirect(v, t, S) = CancelRequests(v, t, S)
        BY <1>1, <1>5, <2>2
    <2>3. CASE \E r \in S : /\ S = {r} /\ ForHashes(r)
                            /\ Redirect(v, t, S) = CancelRequests(v, t, {r})
        BY <1>1, <1>5, <2>3
    <2>4. CASE \E r \in S : /\ S = {r} /\ ~ForHashes(r)
                            /\ Redirect(v, t, S) = Resend(CancelRequests(v, t, {r}), t, r)
        <3>1. PICK r \in S : /\ S = {r} /\ ~ForHashes(r)
                             /\ Redirect(v, t, S) = Resend(CancelRequests(v, t, {r}), t, r)
            BY <2>4
        <3>2. x = Resend(c, t, r)
            BY <1>1, <1>5, <3>1
        <3> QED BY <3>1, <3>2
    <2> QED BY <2>1, <2>2, <2>3, <2>4
<1>12. S = {} => c.dc = v.dc
    BY <1>6 DEF ChangeRequestedAmount
<1>13. ASSUME NEW r \in S, S = {r}
       PROVE  /\ c.dc.sessions[j].requested + c.dc.sessions[i].requested <= b + b - 1
              /\ c.dc.sessions[j].requested + c.dc.sessions[i].requested <= b + b
    <2>1. r.index = i
        BY <1>1 DEF Those
    <2>2. c.dc = ChangeRequestedAmount(v.dc, {r}, -1)
        BY <1>6, <1>13
    <2>3. \A m \in 1 .. Len(v.dc.sessions) :
            c.dc.sessions[m].requested = v.dc.sessions[m].requested - IF m = r.index THEN 1 ELSE 0
        BY <1>8, <2>2, SubtractedAmount, SMTT(30)
    <2>4. i \in 1 .. Len(v.dc.sessions) /\ j \in 1 .. Len(v.dc.sessions) /\ j # i
        <3>1. Len(w.dc.sessions) \in Nat
            BY WorldParts, SessionsParts DEF DcRec
        <3> QED BY <1>4, <3>1
    <2>5. /\ c.dc.sessions[i].requested = v.dc.sessions[i].requested - 1
          /\ c.dc.sessions[j].requested = v.dc.sessions[j].requested
        BY <1>8, <2>1, <2>3, <2>4
    <2>6. PICK y, z : y = v.dc.sessions[i].requested /\ z = v.dc.sessions[j].requested
        OBVIOUS
    <2>7. y \in Int /\ z \in Int /\ z + y <= b + b /\ b \in Nat
        BY <1>8, <1>10, <2>6
    <2>8. z + (y - 1) <= b + b - 1 /\ z + (y - 1) <= b + b
        BY <2>7
    <2> QED BY <2>5, <2>6, <2>8
<1>14. Roomy(c.dc, j, i)
    <2>1. CASE S = {}
        BY <1>2, <1>12, <2>1
    <2>2. CASE \E r \in S : S = {r}
        <3>2. c.dc.sessions[j].requested + c.dc.sessions[i].requested <= b + b
            BY <1>13, <2>2
        <3> QED BY <1>9, <3>2 DEF Roomy
    <2> QED BY <1>11, <2>1, <2>2
<1>15. CASE x = c
    BY <1>1, <1>3, <1>6, <1>7, <1>14, <1>15 DEF Moving
<1>16. CASE \E r \in S : S = {r} /\ ~ForHashes(r) /\ x = Resend(c, t, r)
    <2>1. PICK r \in S : S = {r} /\ ~ForHashes(r) /\ x = Resend(c, t, r)
        BY <1>16
    <2>2. r \in v.task[t].sent
        BY <1>3
    <2>3. r.offset \in Offsets
        BY <1>4, <2>2, TaskParts DEF RequestOf
    <2>4. Loads(c.task[t].state) /\ InLine(c.queue, t)
        BY <1>2, <1>4, <1>6, <2>2 DEF Mid, Sound, Fair, Queued
    <2>5. Mid(c, t, {r.offset})
        BY <1>4, <1>5, <2>1, <2>2, MidCancel
    <2>6. PICK m : m = ChooseSessionIndex(c)
        OBVIOUS
    <2>7. m \in 1 .. Len(c.dc.sessions) /\ m # i
        <3>1. i \in 1 .. Len(c.dc.sessions) /\ j \in 1 .. Len(c.dc.sessions)
            BY <1>4, <1>6
        <3> QED BY <1>6, <1>8, <1>14, <2>6, <3>1, ChosenSession, Elsewhere
    <2>8. PICK q : /\ x \in Worlds(A)
                   /\ q = PlacedRequest(c, [offset |-> r.offset, index |-> m], "part")
                   /\ Changed(c, x, t, [c.task[t] EXCEPT !.sent = @ \cup {q}],
                              ChangeRequestedAmount(c.dc, {q}, 1))
        BY <1>6, <2>1, <2>3, <2>4, <2>5, <2>6, ResendEffect
    <2>9. q.offset = r.offset /\ q.index = m /\ q.amount = c.dc.sessions[q.index].requested + 1
        BY <2>8 DEF PlacedRequest
    <2>10. PICK k : k = [c.task[t] EXCEPT !.sent = @ \cup {q}]
        OBVIOUS
    <2>11. k.sent = c.task[t].sent \cup {q} /\ k.unchecked = c.task[t].unchecked
        BY <1>6, <2>10, TaskParts DEF TaskOf
    <2>12. q \notin c.task[t].sent
        BY <2>5, <2>9 DEF Mid, Apart
    <2>13. Fair(x, Booked(i))
        <3>1. Places(c, x, t, k, q)
            BY <2>7, <2>8, <2>9, <2>10, <2>11, <2>12 DEF Places
        <3> QED BY <1>6, <2>4, <2>8, <3>1, BookedType, FairMore
    <2>14. x.task[t] = k /\ x.dc = ChangeRequestedAmount(c.dc, {q}, 1)
        BY <2>8, <2>10 DEF Changed
    <2>15. Clear(x.task[t], i, o)
        BY <1>7, <2>7, <2>9, <2>11, <2>14 DEF Clear
    <2>16. /\ x.dc.sessions[i].requested = c.dc.sessions[i].requested
           /\ x.dc.sessions[j].requested <= c.dc.sessions[j].requested + 1
           /\ x.dc.sessions[j].requested \in Int
        <3>1. Added(c.dc, ChangeRequestedAmount(c.dc, {q}, 1), q.index)
            BY <1>8, AddedAmount
        <3>2. \A y \in 1 .. Len(c.dc.sessions) :
                x.dc.sessions[y].requested = c.dc.sessions[y].requested + IF y = m THEN 1 ELSE 0
            BY <2>9, <2>14, <3>1 DEF Added
        <3>3. i \in 1 .. Len(c.dc.sessions) /\ j \in 1 .. Len(c.dc.sessions)
            BY <1>4, <1>6
        <3>4. PICK y, z : y = c.dc.sessions[i].requested /\ z = c.dc.sessions[j].requested
            OBVIOUS
        <3>5. y \in Int /\ z \in Int
            BY <1>8, <3>4
        <3>6. x.dc.sessions[i].requested = y + 0
            BY <2>7, <3>2, <3>3, <3>4
        <3>7. x.dc.sessions[j].requested = z + IF j = m THEN 1 ELSE 0
            BY <3>2, <3>3, <3>4
        <3> QED BY <3>4, <3>5, <3>6, <3>7
    <2>17. Roomy(x.dc, j, i)
        <3>1. c.dc.sessions[j].requested + c.dc.sessions[i].requested <= b + b - 1
            BY <1>13, <2>1
        <3>2. x.dc.sessions[j].requested + x.dc.sessions[i].requested <= b + b
            <4>1. PICK y, z, a : /\ y = c.dc.sessions[i].requested
                                 /\ z = c.dc.sessions[j].requested
                                 /\ a = x.dc.sessions[j].requested
                OBVIOUS
            <4>2. y \in Int /\ z \in Int /\ a \in Int /\ a <= z + 1 /\ z + y <= b + b - 1 /\ b \in Nat
                BY <1>8, <1>10, <2>16, <3>1, <4>1
            <4>3. a + y <= b + b
                BY <4>2
            <4> QED BY <2>16, <4>1, <4>3
        <3> QED BY <1>9, <3>2 DEF Roomy
    <2> QED BY <1>1, <1>3, <2>13, <2>15, <2>17 DEF Moving
<1> QED BY <1>11, <1>15, <1>16

\* The parts that wait for a hash are moved first.
LEMMA MovingAway ==
    ASSUME NEW A, Int \subseteq A, NEW w \in Worlds(A), NEW t \in Tasks, Mid(w, t, {}),
           NEW i \in 1 .. Len(w.dc.sessions), NEW j \in 1 .. Len(w.dc.sessions), j < i,
           Fair(w, Booked(i)), Roomy(w.dc, j, i)
    PROVE  Away(w, t, i) \in Moving(A, w, t, i, j, 0)
<1>1. PICK x, m : x = Away(w, t, i) /\ m = ChooseSessionIndex(w)
    OBVIOUS
<1>2. x \in Stage(A, w, t, 0)
    BY <1>1, AwayStage
<1>3. PICK N \in SUBSET Part :
        /\ Away(w, t, i) = WithTask(w, t, [w.task[t] EXCEPT !.unchecked = N])
        /\ [w.task[t] EXCEPT !.unchecked = N] \in TaskOf(A)
        /\ Rehomed(w.task[t].unchecked, N, i, ChooseSessionIndex(w))
    BY AwayEffect
<1>4. PICK k : k = [w.task[t] EXCEPT !.unchecked = N]
    OBVIOUS
<1>5. k \in TaskOf(A) /\ k.unchecked = N /\ k.sent = w.task[t].sent
    BY <1>3, <1>4, TaskParts DEF TaskOf
<1>6. Changed(w, x, t, k, w.dc)
    BY <1>1, <1>3, <1>4, <1>5, TaskEffect
<1>7. m # i /\ m \in 1 .. Len(w.dc.sessions)
    BY <1>1, Elsewhere, WorldParts, ChosenSession
<1>8. \A n \in N : n.index # i /\ n.index \in 1 .. Len(w.dc.sessions)
    BY <1>1, <1>3, <1>7 DEF Rehomed, Fair, Homed
<1>9. InLine(w.queue, t) \/ k.unchecked \subseteq w.task[t].unchecked
    BY <1>3, <1>5 DEF Rehomed, Fair, Queued
<1>10. Fair(x, Booked(i))
    BY <1>5, <1>6, <1>8, <1>9, FairKept
<1>11. x.task[t] = k /\ x.dc = w.dc
    BY <1>6 DEF Changed
<1>12. \A r \in k.sent : r.offset > 0
    BY <1>5, TaskParts, Constants DEF RequestOf, Offsets
<1>13. Clear(x.task[t], i, 0)
    BY <1>5, <1>8, <1>11, <1>12 DEF Clear
<1> QED BY <1>1, <1>2, <1>10, <1>11, <1>13 DEF Moving

LEMMA MovingAll ==
    ASSUME NEW A, Int \subseteq A, NEW w \in Worlds(A), NEW t \in Tasks, Mid(w, t, {}),
           NEW i \in 1 .. Len(w.dc.sessions), NEW j \in 1 .. Len(w.dc.sessions), j < i,
           Fair(w, Booked(i)), Roomy(w.dc, j, i)
    PROVE  RedirectFrom(w, t, i) \in Moving(A, w, t, i, j, PartsCount)
<1>1. PICK V : V = [o \in 0 .. PartsCount |-> Moving(A, w, t, i, j, o)]
    OBVIOUS
<1>2. V \in [0 .. PartsCount -> SUBSET Worlds(A)]
    <2>1. \A o \in 0 .. PartsCount : Moving(A, w, t, i, j, o) \subseteq Worlds(A)
        BY DEF Stage, Moving
    <2> QED BY <1>1, <2>1
<1>3. Away(w, t, i) \in V[0]
    BY <1>1, MovingAway, Constants
<1>4. ASSUME NEW o \in 1 .. PartsCount, NEW v \in V[o - 1]
      PROVE  Redirect(v, t, Those(w, t, i, o)) \in V[o]
    <2>1. o \in 0 .. PartsCount /\ o - 1 \in 0 .. PartsCount
        BY Constants
    <2>2. v \in Moving(A, w, t, i, j, o - 1)
        BY <1>1, <2>1
    <2>3. Redirect(v, t, Those(w, t, i, o)) \in Moving(A, w, t, i, j, o)
        BY <2>2, MovingStep
    <2> QED BY <1>1, <2>1, <2>3
<1>5. RedirectFrom(w, t, i) \in V[PartsCount]
    BY <1>2, <1>3, <1>4, RedirectFromIn
<1> QED BY <1>1, <1>5, Constants

\* Together with what the last session has, every other session has more than
\* all sessions are meant to have.
Overbooked(d) ==
    /\ Len(d.sessions) > 1
    /\ \A j \in 1 .. Len(d.sessions) - 1 :
         d.sessions[j].requested + d.sessions[Len(d.sessions)].requested
            > MaxWaited * MaxSessions

LEMMA FairFull ==
    ASSUME NEW A, NEW w \in Worlds(A), Fair(w, Zero), NEW i, i = Len(w.dc.sessions),
           NEW j \in 1 .. i - 1,
           w.dc.sessions[j].requested + w.dc.sessions[i].requested <= MaxWaited * MaxSessions
    PROVE  Fair(Full(w), Booked(i)) /\ Roomy(Full(w).dc, j, i)
<1>1. PICK v, b, d : v = Full(w) /\ b = MaxWaited * MaxSessions /\ d = w.dc
    OBVIOUS
<1>2. d \in DcRec /\ i \in 1 .. MaxSessions /\ \A m \in 1 .. i : d.sessions[m].requested \in Int
    BY <1>1, WorldParts, SessionsParts DEF DcRec, SessionRec
<1>3. /\ v \in Worlds(A) /\ v.queue = w.queue /\ v.task = w.task /\ Len(v.dc.sessions) = i
      /\ \A m \in 1 .. i : v.dc.sessions[m].requested = d.sessions[m].requested + IF m = i THEN b ELSE 0
      /\ v.dc.total = d.total /\ v.dc.kill = d.kill
    BY <1>1, FullEffect
<1>4. b \in Nat /\ \A m \in 1 .. i : Booked(i)[m] = (IF m = i THEN b ELSE 0) /\ Zero[m] = 0
    BY <1>1, <1>2, BookedType, ZeroType, Constants
<1>5. PICK P : P = OnTheWay(w)
    OBVIOUS
<1>6. OnTheWay(v) = P
    BY <1>3, <1>5 DEF OnTheWay
<1>7. Agree(P, d, Zero)
    BY <1>1, <1>5 DEF Fair
<1>8. ASSUME NEW m \in 1 .. i
      PROVE  v.dc.sessions[m].requested = Cardinality(With(P, m)) + Booked(i)[m]
    <2>1. PICK c : c = Cardinality(With(P, m))
        OBVIOUS
    <2>2. c \in Nat
        BY <1>7, <2>1, WithFinite DEF Agree
    <2>3. d.sessions[m].requested = c + 0
        BY <1>1, <1>4, <1>7, <2>1 DEF Agree
    <2>4. v.dc.sessions[m].requested = (c + 0) + IF m = i THEN b ELSE 0
        BY <1>3, <2>3
    <2> QED BY <1>4, <2>1, <2>2, <2>4
<1>9. Agree(P, v.dc, Booked(i))
    BY <1>1, <1>3, <1>7, <1>8 DEF Agree
<1>10. Fair(v, Booked(i))
    BY <1>3, <1>6, <1>9 DEF Fair, Homed, Queued
<1>11. Roomy(v.dc, j, i)
    <2>1. PICK y, z : y = d.sessions[i].requested /\ z = d.sessions[j].requested
        OBVIOUS
    <2>2. y \in Int /\ z \in Int /\ z + y <= b /\ j \in 1 .. i /\ i \in 1 .. i /\ j # i
        BY <1>1, <1>2, <2>1, Constants
    <2>3. v.dc.sessions[i].requested = y + b /\ v.dc.sessions[j].requested = z + 0
        BY <1>3, <2>1, <2>2
    <2>4. (z + 0) + (y + b) <= b + b
        BY <1>4, <2>2
    <2> QED BY <1>1, <2>3, <2>4 DEF Roomy
<1> QED BY <1>1, <1>10, <1>11

\* The session is gone, and nothing was with it.
LEMMA FairRemoved ==
    ASSUME NEW A, NEW w \in Worlds(A), NEW v \in Worlds(A), NEW i, i = Len(w.dc.sessions), i > 1,
           Len(v.dc.sessions) = i, Fair(v, Booked(i)), Distinct(v),
           \A t \in Tasks : Clear(v.task[t], i, PartsCount)
    PROVE  Fair(Removed(w, v), Zero)
<1>1. PICK x, n : x = Removed(w, v) /\ n = i - 1
    OBVIOUS
<1>2. /\ x \in Worlds(A) /\ x.queue = v.queue
      /\ Len(x.dc.sessions) = n
      /\ \A j \in 1 .. n : x.dc.sessions[j] = v.dc.sessions[j]
      /\ x.dc.total = v.dc.total /\ x.dc.kill = v.dc.kill
      /\ \A t \in Tasks : x.task[t] = [v.task[t] EXCEPT !.sent = {Aged(r) : r \in v.task[t].sent}]
    BY <1>1, RemovedEffect
<1>3. i \in 1 .. MaxSessions /\ i \in Nat /\ MaxSessions \in Nat
    BY WorldParts, SessionsParts, Constants, SMTT(30) DEF DcRec
<1>4. ASSUME NEW t \in Tasks
      PROVE  /\ x.task[t].sent = {Aged(r) : r \in v.task[t].sent}
             /\ x.task[t].unchecked = v.task[t].unchecked
             /\ v.task[t].sent \subseteq RequestOf(A)
    <2>1. PICK k, S : k = v.task[t] /\ S = {Aged(r) : r \in k.sent}
        OBVIOUS
    <2>2. k \in TaskOf(A) /\ k.sent \subseteq RequestOf(A)
        BY <2>1, TaskParts
    <2>3. x.task[t] = [k EXCEPT !.sent = S]
        BY <1>2, <2>1
    <2>4. x.task[t].sent = S /\ x.task[t].unchecked = k.unchecked
        BY <2>2, <2>3 DEF TaskOf
    <2> QED BY <2>1, <2>2, <2>4
<1>5. ASSUME NEW r \in RequestOf(A)
      PROVE  Aged(r).index = r.index /\ Aged(r).offset = r.offset /\ Aged(r).amount = r.amount
    BY DEF Aged, RequestOf
<1>6. PICK P, R : P = OnTheWay(v) /\ R = OnTheWay(x)
    OBVIOUS
<1>7. PICK f : f = [p \in P |-> <<p[1], Aged(p[2])>>]
    OBVIOUS
<1>8. ASSUME NEW p \in P
      PROVE  /\ p = <<p[1], p[2]>> /\ p[1] \in Tasks /\ p[2] \in v.task[p[1]].sent
             /\ p[2] \in RequestOf(A)
             /\ f[p] = <<p[1], Aged(p[2])>> /\ f[p] \in R
    <2>1. PICK t \in Tasks : \E r \in v.task[t].sent : p = <<t, r>>
        BY <1>6, WayIs
    <2>2. PICK r \in v.task[t].sent : p = <<t, r>>
        BY <2>1
    <2>3. r \in RequestOf(A) /\ Aged(r) \in x.task[t].sent
        BY <1>4
    <2>4. <<t, Aged(r)>> \in R
        BY <1>6, <2>3, WayIs
    <2> QED BY <1>7, <2>2, <2>3, <2>4
<1>9. f \in [P -> R]
    BY <1>7, <1>8
<1>10. \A p \in P : f[p][2].index = p[2].index /\ f[p][2].amount = p[2].amount
    BY <1>5, <1>8
<1>11. ASSUME NEW p \in P, NEW q \in P, f[p] = f[q] PROVE p = q
    <2>1. p[1] = q[1] /\ Aged(p[2]) = Aged(q[2])
        BY <1>8, <1>11
    <2>2. p[2].offset = q[2].offset
        BY <1>5, <1>8, <2>1
    <2>3. p[2] = q[2]
        BY <1>8, <2>1, <2>2 DEF Distinct
    <2> QED BY <1>8, <2>1, <2>3
<1>12. ASSUME NEW y \in R PROVE \E p \in P : f[p] = y
    <2>1. PICK t \in Tasks : \E q \in x.task[t].sent : y = <<t, q>>
        BY <1>6, WayIs
    <2>2. PICK q \in x.task[t].sent : y = <<t, q>>
        BY <2>1
    <2>3. PICK r \in v.task[t].sent : q = Aged(r)
        BY <1>4
    <2>4. PICK p : p = <<t, r>>
        OBVIOUS
    <2>5. p \in P
        BY <1>6, <2>4, WayIs
    <2>6. f[p] = y
        BY <1>8, <2>2, <2>3, <2>4, <2>5
    <2> QED BY <2>5, <2>6
<1>13. Agree(P, v.dc, Booked(i)) /\ v.dc \in DcRec
    BY <1>6, WorldParts DEF Fair
<1>14. \A y \in R : y[2].amount \in Nat
    BY <1>10, <1>12, <1>13 DEF Agree
<1>15. Agree(R, v.dc, Booked(i))
    BY <1>9, <1>10, <1>11, <1>12, <1>13, <1>14, AgreeSame
<1>16. ASSUME NEW y \in R PROVE y[2].index \in 1 .. n
    <2>1. PICK p \in P : f[p] = y
        BY <1>12
    <2>2. p[2].index # i
        <3>1. p[2].offset <= PartsCount /\ p[2].offset \in Int
            BY <1>8, Constants DEF RequestOf, Offsets
        <3>2. p[2].index = i => p[2].offset > PartsCount
            BY <1>8 DEF Clear
        <3> QED BY <3>1, <3>2, Constants
    <2>3. y[2].index = p[2].index /\ y[2].index \in 1 .. i
        BY <1>10, <1>15, <2>1 DEF Agree
    <2> QED BY <1>1, <1>3, <2>2, <2>3
<1>17. ASSUME NEW m \in 1 .. n PROVE x.dc.sessions[m].requested = Cardinality(With(R, m)) + Zero[m]
    <2>1. m \in 1 .. i /\ m # i /\ m \in 1 .. MaxSessions
        BY <1>1, <1>3
    <2>2. Booked(i)[m] = 0 /\ Zero[m] = 0
        BY <2>1, BookedType, ZeroType
    <2> QED BY <1>2, <1>15, <2>1, <2>2 DEF Agree
<1>18. Agree(R, x.dc, Zero)
    BY <1>2, <1>15, <1>16, <1>17 DEF Agree
<1>19. Homed(x)
    <2> SUFFICES ASSUME NEW t \in Tasks, NEW u \in v.task[t].unchecked PROVE u.index \in 1 .. n
        BY <1>2, <1>4 DEF Homed
    <2>1. u.index # i /\ u.index \in 1 .. i
        BY DEF Clear, Fair, Homed
    <2> QED BY <1>1, <1>3, <2>1
<1>20. Queued(x)
    <2> SUFFICES ASSUME NEW t \in Tasks, x.task[t].sent # {} \/ x.task[t].unchecked # {}
                 PROVE  InLine(v.queue, t)
        BY <1>2 DEF Queued
    <2>1. v.task[t].sent # {} \/ v.task[t].unchecked # {}
        BY <1>4
    <2> QED BY <2>1 DEF Fair, Queued
<1>21. Once(x.queue)
    BY <1>2 DEF Fair
<1> QED BY <1>1, <1>6, <1>18, <1>19, <1>20, <1>21 DEF Fair

\* The requests of the last session go to sessions that stay.
LEMMA FairRemoveSession ==
    ASSUME NEW w, Good(w), Distinct(w), Fair(w, Zero), Len(w.dc.sessions) > 1, ~Overbooked(w.dc)
    PROVE  Fair(RemoveSession(w), Zero)
<1>1. PICK A : Int \subseteq A /\ w \in Worlds(A)
    BY DEF Good, Typed
<1>2. PICK n, i : n = Len(w.queue) /\ i = Len(w.dc.sessions)
    OBVIOUS
<1>3. /\ w.queue \in Seq(Entry) /\ n \in Nat /\ i \in 1 .. MaxSessions /\ i \in Nat
      /\ w.dc \in DcRec /\ \A m \in 1 .. i : w.dc.sessions[m].requested \in Int
    <2>1. w.queue \in Seq(Entry) /\ w.dc \in DcRec
        BY <1>1, WorldParts
    <2>2. n \in Nat
        BY <1>2, <2>1, LenProperties
    <2>3. PICK s : s = w.dc.sessions
        OBVIOUS
    <2>4. s \in SessionLists
        BY <2>1, <2>3 DEF DcRec
    <2>5. /\ i \in 1 .. MaxSessions /\ \A m \in 1 .. i : s[m] \in SessionRec
        BY <1>2, <2>3, <2>4, SessionsParts
    <2>6. \A m \in 1 .. i : s[m].requested \in Int
        BY <2>5 DEF SessionRec
    <2>7. i \in Nat
        BY <2>5, Constants
    <2> QED BY <2>1, <2>2, <2>3, <2>5, <2>6, <2>7
<1>4. PICK j \in 1 .. i - 1 :
        w.dc.sessions[j].requested + w.dc.sessions[i].requested <= MaxWaited * MaxSessions
    <2>1. PICK j \in 1 .. i - 1 :
            ~(w.dc.sessions[j].requested + w.dc.sessions[i].requested > MaxWaited * MaxSessions)
        BY <1>2 DEF Overbooked
    <2>2. PICK y, z, b : /\ y = w.dc.sessions[i].requested /\ z = w.dc.sessions[j].requested
                         /\ b = MaxWaited * MaxSessions
        OBVIOUS
    <2>3. y \in Int /\ z \in Int /\ b \in Nat /\ ~(z + y > b)
        BY <1>2, <1>3, <2>1, <2>2, BookedType, SMTT(30)
    <2>4. z + y <= b
        BY <2>3
    <2> QED BY <2>2, <2>4
<1>5. i \in 1 .. Len(w.dc.sessions) /\ j \in 1 .. Len(w.dc.sessions) /\ j < i
    BY <1>2, <1>3
<1> DEFINE Moved(k) ==
        {v \in Worlds(A) :
            /\ Good(v) /\ Distinct(v) /\ v.queue = w.queue /\ Len(v.dc.sessions) = i
            /\ Fair(v, Booked(i)) /\ Roomy(v.dc, j, i)
            /\ \A m \in 1 .. k : Clear(v.task[w.queue[m].task], i, PartsCount)}
<1>6. Full(w) \in Moved(0)
    <2>1. /\ Full(w) \in Worlds(A) /\ Full(w).queue = w.queue /\ Full(w).task = w.task
          /\ Len(Full(w).dc.sessions) = i
        BY <1>1, <1>2, FullEffect
    <2>2. Good(Full(w)) /\ Distinct(Full(w))
        BY <1>1, <2>1 DEF Good, Distinct, Typed
    <2>3. Fair(Full(w), Booked(i)) /\ Roomy(Full(w).dc, j, i)
        BY <1>1, <1>2, <1>4, FairFull
    <2> QED BY <2>1, <2>2, <2>3
<1>7. ASSUME NEW k \in 1 .. n, NEW v \in Moved(k - 1)
      PROVE  RedirectFrom(v, w.queue[k].task, i) \in Moved(k)
    <2>1. PICK t \in Tasks : t = w.queue[k].task
        <3>1. w.queue[k] \in Entry
            BY <1>2, <1>3, ElementOfSeq
        <3> QED BY <3>1 DEF Entry
    <2>2. PICK x : x = RedirectFrom(v, t, i)
        OBVIOUS
    <2>3. /\ v \in Worlds(A) /\ Good(v) /\ Distinct(v) /\ v.queue = w.queue
          /\ Len(v.dc.sessions) = i /\ Fair(v, Booked(i)) /\ Roomy(v.dc, j, i)
          /\ \A m \in 1 .. k - 1 : Clear(v.task[w.queue[m].task], i, PartsCount)
        OBVIOUS
    <2>4. x \in Moving(A, v, t, i, j, PartsCount)
        <3>1. i \in 1 .. Len(v.dc.sessions) /\ j \in 1 .. Len(v.dc.sessions)
            BY <1>2, <1>5, <2>3
        <3> QED BY <1>1, <1>5, <2>2, <2>3, <3>1, GoodIsMid, MovingAll
    <2>5. /\ x \in Worlds(A) /\ Mid(x, t, {}) /\ x.queue = w.queue /\ Len(x.dc.sessions) = i
          /\ \A u \in Tasks \ {t} : x.task[u] = v.task[u]
          /\ Fair(x, Booked(i)) /\ Roomy(x.dc, j, i) /\ Clear(x.task[t], i, PartsCount)
        BY <2>3, <2>4 DEF Moving, Stage
    <2>6. Good(x) /\ Distinct(x)
        BY <2>5, MidIsGood DEF Mid, Rest, Apart, Distinct
    <2>7. ASSUME NEW m \in 1 .. k PROVE Clear(x.task[w.queue[m].task], i, PartsCount)
        <3>1. CASE w.queue[m].task = t
            BY <2>5, <3>1
        <3>2. CASE w.queue[m].task # t
            <4>1. m \in 1 .. k - 1 /\ m \in 1 .. Len(w.queue)
                BY <1>2, <1>3, <2>1, <3>2
            <4>2. w.queue[m].task \in Tasks
                <5>1. w.queue[m] \in Entry
                    BY <1>3, <4>1, ElementOfSeq
                <5> QED BY <5>1 DEF Entry
            <4> QED BY <2>3, <2>5, <3>2, <4>1, <4>2
        <3> QED BY <3>1, <3>2
    <2> QED BY <2>1, <2>2, <2>5, <2>6, <2>7
<1>8. \E v \in Moved(n) : RemoveSession(w) = Removed(w, v)
    <2>1. \A k \in 0 .. n : Moved(k) \subseteq Worlds(A)
        OBVIOUS
    <2> HIDE DEF Moved
    <2>2. PICK V : V = [k \in 0 .. n |-> Moved(k)]
        OBVIOUS
    <2>3. V \in [0 .. n -> SUBSET Worlds(A)] /\ V[0] = Moved(0) /\ V[n] = Moved(n)
        BY <1>3, <2>1, <2>2
    <2>4. \A k \in 1 .. n : V[k] = Moved(k) /\ V[k - 1] = Moved(k - 1)
        BY <1>3, <2>2
    <2>5. Full(w) \in V[0] /\ \A k \in 1 .. n : \A v \in V[k - 1] :
            RedirectFrom(v, w.queue[k].task, Len(w.dc.sessions)) \in V[k]
        BY <1>2, <1>6, <1>7, <2>3, <2>4
    <2>6. \E v \in V[n] : RemoveSession(w) = Removed(w, v)
        BY <1>2, <1>3, <2>3, <2>5, RemoveSessionIn
    <2> QED BY <2>3, <2>6
<1>9. PICK v \in Moved(n) : RemoveSession(w) = Removed(w, v)
    BY <1>8
<1>10. ASSUME NEW t \in Tasks PROVE Clear(v.task[t], i, PartsCount)
    <2>1. CASE InLine(v.queue, t)
        BY <1>2, <2>1 DEF InLine
    <2>2. CASE ~InLine(v.queue, t)
        <3>1. v.task[t].sent = {} /\ v.task[t].unchecked = {}
            BY <2>2 DEF Fair, Queued
        <3> QED BY <3>1 DEF Clear
    <2> QED BY <2>1, <2>2
<1>11. v \in Worlds(A) /\ Len(v.dc.sessions) = i /\ Fair(v, Booked(i)) /\ Distinct(v)
    OBVIOUS
<1> QED BY <1>1, <1>2, <1>9, <1>10, <1>11, FairRemoved
-----------------------------------------------------------------------------
(* The actions keep the books.                                             *)

LEMMA SaneStart ==
    ASSUME Good(World), Fair(World, Zero), Running, NEW t \in Tasks
    PROVE  /\ Mid(World, t, {}) /\ Sane(World)
           /\ World.task = task /\ World.dc = dc /\ World.queue = queue
<1>1. /\ Mid(World, t, {})
      /\ World.task = task /\ World.dc = dc /\ World.queue = queue
    BY AtStart
<1>2. PICK w : w = World
    OBVIOUS
<1>3. Unasked(w)
    BY <1>2 DEF Good, Sound, Unasked
<1> QED BY <1>1, <1>2, <1>3 DEF Sane, Good

LEMMA SaneArrives ==
    ASSUME NEW v, Sane(v), Becomes(v)
    PROVE  Fair(World', Zero)
<1>1. PICK A : v \in Worlds(A)
    BY DEF Sane, Typed
<1>2. v = [dc |-> v.dc, queue |-> v.queue, task |-> v.task]
    BY <1>1, WorldParts
<1>3. World' = v
    BY <1>2 DEF World, Becomes
<1> QED BY <1>3 DEF Sane

\* The handler of an answer has the part of request r in its hands; the loader
\* is in the queue and the session of the request exists.
Held(v, t, r) ==
    /\ Sane(v) /\ Mid(v, t, {r.offset}) /\ Loads(v.task[t].state)
    /\ InLine(v.queue, t) /\ r.index \in 1 .. Len(v.dc.sessions) /\ r.offset \in Offsets

LEMMA Asked ==
    ASSUME NEW w, Sane(w), NEW t \in Tasks, NEW r \in w.task[t].sent
    PROVE  /\ InLine(w.queue, t) /\ r.index \in 1 .. Len(w.dc.sessions) /\ r.offset \in Offsets
           /\ Len(w.dc.sessions) \in Nat
<1>1. PICK A : w \in Worlds(A)
    BY DEF Sane, Typed
<1>2. w.task[t].sent \subseteq RequestOf(A)
    BY <1>1, TaskParts
<1>3. r.offset \in Offsets
    BY <1>2 DEF RequestOf
<1>4. InLine(w.queue, t)
    BY DEF Sane, Fair, Queued
<1>5. PICK p : p = <<t, r>>
    OBVIOUS
<1>6. p \in OnTheWay(w) /\ p[2] = r
    BY <1>5, WayIs
<1>7. r.index \in 1 .. Len(w.dc.sessions)
    BY <1>6 DEF Sane, Fair, Agree
<1>8. Len(w.dc.sessions) \in Nat
    BY <1>1, WorldParts, SessionsParts, Constants DEF DcRec
<1> QED BY <1>3, <1>4, <1>7, <1>8

LEMMA AnswerHeld ==
    ASSUME NEW w, NEW t \in Tasks, Mid(w, t, {}), Sane(w), NEW r \in w.task[t].sent,
           Loads(w.task[t].state), NEW pace
    PROVE  /\ Held(SucceedSentRequest(w, t, r, pace), t, r)
           /\ Held(FinishSentRequests(w, t, {r}), t, r)
<1>1. /\ InLine(w.queue, t) /\ r.index \in 1 .. Len(w.dc.sessions) /\ r.offset \in Offsets
      /\ Len(w.dc.sessions) \in Nat
    BY Asked
<1>2. PICK v, f, S, N : /\ v = SucceedSentRequest(w, t, r, pace) /\ S = {r} /\ N = {}
                        /\ f = FinishSentRequests(w, t, S)
    OBVIOUS
<1>3. /\ Mid(v, t, {r.offset}) /\ Loads(v.task[t].state)
      /\ Mid(f, t, {r.offset}) /\ Loads(f.task[t].state)
    BY <1>2, AnswerTaken
<1>4. Mid(w, t, N)
    BY <1>2
<1>5. v.queue = w.queue
    BY <1>2, <1>4, MidSucceed, ZenonT(30)
<1>6. Sane(v) /\ Len(w.dc.sessions) <= Len(v.dc.sessions)
    BY <1>2, SaneSucceed
<1>7. S \subseteq w.task[t].sent
    BY <1>2
<1>8. Sane(f) /\ Len(f.dc.sessions) = Len(w.dc.sessions) /\ f.queue = w.queue
    <2>1. /\ Sane(FinishSentRequests(w, t, S))
          /\ Len(FinishSentRequests(w, t, S).dc.sessions) = Len(w.dc.sessions)
          /\ FinishSentRequests(w, t, S).queue = w.queue
        BY <1>7, SaneFinish
    <2> QED BY <1>2, <2>1
<1>9. r.index \in 1 .. Len(v.dc.sessions)
    <2>1. PICK A : v \in Worlds(A)
        BY <1>6 DEF Sane, Typed
    <2>2. PICK m, n, j : m = Len(w.dc.sessions) /\ n = Len(v.dc.sessions) /\ j = r.index
        OBVIOUS
    <2>3. n \in Nat
        BY <2>1, <2>2, WorldParts, SessionsParts, Constants DEF DcRec
    <2>4. j \in 1 .. m /\ m <= n /\ m \in Nat
        BY <1>1, <1>6, <2>2
    <2>5. j \in 1 .. n
        BY <2>3, <2>4
    <2> QED BY <2>2, <2>5
<1>10. Held(v, t, r)
    BY <1>1, <1>3, <1>5, <1>6, <1>9 DEF Held
<1>11. Held(f, t, r)
    BY <1>1, <1>3, <1>8 DEF Held
<1> QED BY <1>2, <1>10, <1>11

\* More hashes.
LEMMA SaneHashes ==
    ASSUME NEW w, Sane(w), NEW t \in Tasks, NEW X, Mid(w, t, X), NEW hashes \in SUBSET Offsets
    PROVE  /\ Sane(AddCdnHashes(w, t, hashes))
           /\ AddCdnHashes(w, t, hashes).queue = w.queue /\ AddCdnHashes(w, t, hashes).dc = w.dc
<1>1. PICK v : v = AddCdnHashes(w, t, hashes)
    OBVIOUS
<1>2. /\ Mid(v, t, X) /\ v.queue = w.queue /\ v.dc = w.dc
      /\ v.task[t] = [w.task[t] EXCEPT !.hashes = w.task[t].hashes \cup hashes]
      /\ \A u \in Tasks \ {t} : v.task[u] = w.task[u]
    BY <1>1, MidAddCdnHashes
<1>3. PICK A : w \in Worlds(A)
    BY DEF Sane, Typed
<1>4. PICK k, l : k = w.task[t] /\ l = v.task[t]
    OBVIOUS
<1>5. k \in TaskOf(A) /\ l = [k EXCEPT !.hashes = k.hashes \cup hashes]
    BY <1>2, <1>3, <1>4, TaskParts
<1>6. l.sent = k.sent /\ l.unchecked = k.unchecked /\ l.todo = k.todo
    BY <1>5 DEF TaskOf
<1>7. Changed(w, v, t, l, w.dc)
    BY <1>2, <1>4 DEF Changed
<1>8. l.unchecked \subseteq w.task[t].unchecked /\ l.sent = w.task[t].sent
    BY <1>4, <1>6
<1>9. \A u \in l.unchecked : u.index \in 1 .. Len(w.dc.sessions)
    BY <1>8 DEF Sane, Fair, Homed
<1>10. Fair(v, Zero)
    BY <1>7, <1>8, <1>9, FairKept DEF Sane
<1>11. Unasked(v)
    BY <1>4, <1>6, <1>7, LessUnasked DEF Sane
<1> QED BY <1>1, <1>2, <1>10, <1>11 DEF Sane, Mid

LEMMA HeldHashes ==
    ASSUME NEW w, NEW t \in Tasks, NEW r, Held(w, t, r), NEW hashes \in SUBSET Offsets
    PROVE  Held(AddCdnHashes(w, t, hashes), t, r)
<1>1. PICK v, X : v = AddCdnHashes(w, t, hashes) /\ X = {r.offset}
    OBVIOUS
<1>2. Mid(w, t, X) /\ Sane(w) /\ Loads(w.task[t].state)
    BY <1>1 DEF Held
<1>3. Sane(v) /\ v.queue = w.queue /\ v.dc = w.dc
    BY <1>1, <1>2, SaneHashes
<1>4. Mid(v, t, X) /\ Loads(v.task[t].state)
    BY <1>1, <1>2, HashesTaken
<1> QED BY <1>1, <1>3, <1>4 DEF Held

\* The part is asked for once more.
LEMMA HeldPlace ==
    ASSUME NEW w, NEW t \in Tasks, NEW r, Held(w, t, r), NEW kind \in Kinds
    PROVE  Sane(PlaceSentRequest(w, t, r, kind))
<1>1. /\ Sane(w) /\ InLine(w.queue, t) /\ r.index \in 1 .. Len(w.dc.sessions)
      /\ r.offset \in Offsets
    BY DEF Held
<1>2. Sound(t, w.task[t], {r.offset}) /\ Apart(w.task[t], {r.offset})
    BY DEF Held, Mid
<1>3. r.offset \notin w.task[t].todo /\ \A q \in w.task[t].sent : q.offset # r.offset
    BY <1>2 DEF Sound, Apart
<1> QED BY <1>1, <1>3, SanePlace

\* A part whose hash is unknown waits.
LEMMA HeldWaits ==
    ASSUME NEW w, NEW t \in Tasks, NEW r, Held(w, t, r), NEW part \in Part,
           part.offset = r.offset, part.index = r.index,
           NEW N, N = IF part.offset \in {u.offset : u \in w.task[t].unchecked}
                      THEN w.task[t].unchecked ELSE w.task[t].unchecked \cup {part}
    PROVE  /\ Sane([w EXCEPT !.task[t].unchecked = N])
           /\ Sane(RequestMoreCdnFileHashes([w EXCEPT !.task[t].unchecked = N], t))
<1>0. /\ Sane(w) /\ InLine(w.queue, t) /\ part.index \in 1 .. Len(w.dc.sessions)
      /\ Sound(t, w.task[t], {part.offset})
    BY DEF Held, Mid
<1>1. PICK A : Int \subseteq A /\ w \in Worlds(A)
    BY <1>0 DEF Sane, Typed
<1>2. PICK k, l : k = w.task[t] /\ l = [k EXCEPT !.unchecked = N]
    OBVIOUS
<1>3. k \in TaskOf(A) /\ Sound(t, k, {part.offset}) /\ k.unchecked \subseteq Part
    BY <1>0, <1>1, <1>2, TaskParts
<1>4. N \subseteq Part /\ N \subseteq k.unchecked \cup {part}
    BY <1>2, <1>3
<1>5. l \in TaskOf(A) /\ l.todo = k.todo /\ l.sent = k.sent /\ l.unchecked = N
    BY <1>2, <1>3, <1>4 DEF TaskOf
<1>6. \A u \in l.unchecked : u.index \in 1 .. Len(w.dc.sessions)
    <2>1. \A u \in k.unchecked : u.index \in 1 .. Len(w.dc.sessions)
        BY <1>0, <1>2 DEF Sane, Fair, Homed
    <2> QED BY <1>0, <1>4, <1>5, <2>1
<1>7. \A o \in l.todo : \A q \in l.sent : q.offset # o
    BY <1>3, <1>5 DEF Sound
<1>8. PICK v : v = WithTask(w, t, l)
    OBVIOUS
<1>9. Sane(v) /\ v.task[t] = l
    <2>1. l.sent = w.task[t].sent
        BY <1>2, <1>5
    <2>2. Sane(WithTask(w, t, l)) /\ WithTask(w, t, l).task[t] = l
        BY <1>0, <1>1, <1>5, <1>6, <1>7, <2>1, SaneWithTask
    <2> QED BY <1>8, <2>2
<1>10. v = [w EXCEPT !.task[t].unchecked = N]
    BY <1>1, <1>2, <1>8, WorldParts DEF WithTask
<1>11. \A o \in v.task[t].todo : \A u \in v.task[t].unchecked : u.offset # o
    BY <1>3, <1>4, <1>5, <1>9 DEF Sound
<1>12. Sane(RequestMoreCdnFileHashes(v, t))
    BY <1>9, <1>11, SaneRequestMore
<1> QED BY <1>9, <1>10, <1>12

\* Where an answer finds the loader.
LEMMA SaneAnswer ==
    ASSUME Good(World), Fair(World, Zero), Running, NEW t \in Tasks, NEW r \in task[t].sent, NEW pace
    PROVE  /\ Held(SucceedSentRequest(World, t, r, pace), t, r)
           /\ Held(FinishSentRequests(World, t, {r}), t, r)
           /\ Mid(World, t, {}) /\ Sane(World) /\ World.task = task
<1>1. Mid(World, t, {}) /\ Sane(World) /\ World.task = task
    BY SaneStart
<1>2. Loads(task[t].state)
    BY AtAnswer
<1>3. PICK w : w = World
    OBVIOUS
<1>4. Mid(w, t, {}) /\ Sane(w) /\ r \in w.task[t].sent /\ Loads(w.task[t].state)
    BY <1>1, <1>2, <1>3
<1>5. Held(SucceedSentRequest(w, t, r, pace), t, r) /\ Held(FinishSentRequests(w, t, {r}), t, r)
    BY <1>4, AnswerHeld
<1> QED BY <1>1, <1>3, <1>5

LEMMA FairPartLoaded ==
    ASSUME Good(World), Fair(World, Zero), NEW t \in Tasks, NEW r \in task[t].sent, NEW pace,
           NEW written, NEW short, NEW saved, PartLoaded(t, r, pace, written, short, saved)
    PROVE  Fair(World', Zero)
<1>1. Running
    BY DEF PartLoaded, Usual, Fault
<1>2. PICK w, X : w = World /\ X = {r.offset}
    OBVIOUS
<1>3. PICK v : v = SucceedSentRequest(w, t, r, pace)
    OBVIOUS
<1>4. Held(v, t, r)
    BY <1>1, <1>2, <1>3, SaneAnswer
<1>5. Sane(v) /\ X \subseteq Offsets
    BY <1>2, <1>4 DEF Held
<1>6. Sane(FeedParts(v, t, X, short, saved)) /\ Sane(CancelOnFail(v, t))
    BY <1>5, SaneFeedParts, SaneCancelOnFail
<1>7. PICK x : x = IF written THEN FeedParts(v, t, X, short, saved) ELSE CancelOnFail(v, t)
    OBVIOUS
<1>8. Becomes(x) /\ Sane(x)
    BY <1>2, <1>3, <1>6, <1>7 DEF PartLoaded
<1> QED BY <1>8, SaneArrives

LEMMA HeldChangeCDNParams ==
    ASSUME NEW w, NEW t \in Tasks, NEW r, Held(w, t, r), NEW cdn \in BOOLEAN,
           NEW hashes \in SUBSET Offsets
    PROVE  Sane(ChangeCDNParams(w, t, r, cdn, hashes))
BY SaneChangeCDNParams DEF Held

LEMMA FairRedirected ==
    ASSUME Good(World), Fair(World, Zero), NEW t \in Tasks, NEW r \in task[t].sent, NEW pace,
           NEW hashes \in {{}, {r.offset}}, NEW usable, Redirected(t, r, pace, hashes, usable)
    PROVE  Fair(World', Zero)
<1>1. Running
    BY DEF Redirected, Usual, Fault
<1>2. PICK w : w = World
    OBVIOUS
<1>3. PICK v : v = SucceedSentRequest(w, t, r, pace)
    OBVIOUS
<1>4. Held(v, t, r)
    BY <1>1, <1>2, <1>3, SaneAnswer
<1>5. hashes \in SUBSET Offsets /\ TRUE \in BOOLEAN
    BY <1>4 DEF Held
<1>6. PICK x : x = IF usable THEN ChangeCDNParams(v, t, r, TRUE, hashes) ELSE CancelOnFail(v, t)
    OBVIOUS
<1>7. Sane(x)
    <2>1. Sane(ChangeCDNParams(v, t, r, TRUE, hashes))
        BY <1>4, <1>5, HeldChangeCDNParams
    <2>2. Sane(CancelOnFail(v, t))
        BY <1>4, SaneCancelOnFail DEF Held
    <2> QED BY <1>6, <2>1, <2>2
<1>8. Becomes(x)
    BY <1>2, <1>3, <1>6 DEF Redirected
<1> QED BY <1>7, <1>8, SaneArrives

LEMMA FairCdnPartLoaded ==
    ASSUME Good(World), Fair(World, Zero), NEW t \in Tasks, NEW r \in task[t].sent, NEW pace,
           NEW valid, NEW short, NEW saved, CdnPartLoaded(t, r, pace, valid, short, saved)
    PROVE  Fair(World', Zero)
<1>1. Running
    BY DEF CdnPartLoaded, Usual, Fault
<1>2. PICK w, X : w = World /\ X = {r.offset}
    OBVIOUS
<1>3. PICK v : v = SucceedSentRequest(w, t, r, pace)
    OBVIOUS
<1>4. Held(v, t, r)
    BY <1>1, <1>2, <1>3, SaneAnswer
<1>5. Sane(v) /\ X \subseteq Offsets /\ r.offset \in Offsets
    BY <1>2, <1>4 DEF Held
<1>6. r.index \in 1 .. MaxSessions
    BY AtAnswer
<1>7. Sane(FeedParts(v, t, X, short, saved)) /\ Sane(CancelOnFail(v, t))
    BY <1>5, SaneFeedParts, SaneCancelOnFail
<1>9. PICK part : part = [offset |-> r.offset, index |-> r.index]
    OBVIOUS
<1>10. part \in Part /\ part.offset = r.offset /\ part.index = r.index
    BY <1>5, <1>6, <1>9 DEF Part
<1>11. PICK N : N = IF part.offset \in {u.offset : u \in v.task[t].unchecked}
                    THEN v.task[t].unchecked ELSE v.task[t].unchecked \cup {part}
    OBVIOUS
<1>12. PICK y : y = RequestMoreCdnFileHashes([v EXCEPT !.task[t].unchecked = N], t)
    OBVIOUS
<1>13. Sane(y)
    BY <1>4, <1>10, <1>11, <1>12, HeldWaits
<1>14. PICK x : x = IF r.offset \notin v.task[t].hashes THEN y
                    ELSE IF valid THEN FeedParts(v, t, X, short, saved) ELSE CancelOnFail(v, t)
    OBVIOUS
<1>15. Becomes(x)
    <2>1. N = IF r.offset \in {u.offset : u \in v.task[t].unchecked}
              THEN v.task[t].unchecked ELSE v.task[t].unchecked \cup {part}
        BY <1>10, <1>11
    <2>2. y = RequestMoreCdnFileHashes(
                [v EXCEPT !.task[t].unchecked =
                    IF r.offset \in {u.offset : u \in v.task[t].unchecked}
                    THEN @ ELSE @ \cup {part}], t)
        BY <1>12, <2>1
    <2> QED BY <1>2, <1>3, <1>9, <1>14, <2>2 DEF CdnPartLoaded
<1>16. Sane(x)
    BY <1>7, <1>13, <1>14
<1> QED BY <1>15, <1>16, SaneArrives

LEMMA FairReupload ==
    ASSUME Good(World), Fair(World, Zero), NEW t \in Tasks, NEW r \in task[t].sent, Running,
           NEW kind \in Kinds
    PROVE  /\ Sane(PlaceSentRequest(FinishSentRequests(World, t, {r}), t, r, kind))
           /\ \A hashes \in SUBSET Offsets :
                Sane(PlaceSentRequest(AddCdnHashes(FinishSentRequests(World, t, {r}), t, hashes), t, r, kind))
<1>1. PICK w, v, pace, f : /\ w = World /\ v = FinishSentRequests(w, t, {r})
                           /\ pace = "slow" /\ f = SucceedSentRequest(w, t, r, pace)
    OBVIOUS
<1>2. Held(v, t, r)
    BY <1>1, SaneAnswer
<1>3. Sane(PlaceSentRequest(v, t, r, kind))
    BY <1>2, HeldPlace
<1>4. ASSUME NEW hashes \in SUBSET Offsets
      PROVE  Sane(PlaceSentRequest(AddCdnHashes(v, t, hashes), t, r, kind))
    <2>1. PICK x : x = AddCdnHashes(v, t, hashes)
        OBVIOUS
    <2>2. Held(x, t, r)
        BY <1>2, <2>1, HeldHashes
    <2>3. Sane(PlaceSentRequest(x, t, r, kind))
        BY <2>2, HeldPlace
    <2> QED BY <2>1, <2>3
<1> QED BY <1>1, <1>3, <1>4

\* The parts whose hash is good are taken.
LEMMA SaneTaken ==
    ASSUME NEW w, Sane(w), NEW t \in Tasks, NEW good
    PROVE  Sane(Taken(w, t, good))
<1>1. PICK A : Int \subseteq A /\ w \in Worlds(A)
    BY DEF Sane, Typed
<1>2. PICK k, l : k = w.task[t] /\ l = [k EXCEPT !.unchecked = k.unchecked \ good]
    OBVIOUS
<1>3. k \in TaskOf(A)
    BY <1>1, <1>2, TaskParts
<1>4. l \in TaskOf(A) /\ l.todo = k.todo /\ l.sent = k.sent /\ l.unchecked \subseteq k.unchecked
    BY <1>2, <1>3 DEF TaskOf
<1>5. l.sent = w.task[t].sent /\ l.unchecked \subseteq w.task[t].unchecked
    BY <1>2, <1>4
<1>6. \A u \in l.unchecked : u.index \in 1 .. Len(w.dc.sessions)
    BY <1>5 DEF Sane, Fair, Homed
<1>7. \A o \in l.todo : \A q \in l.sent : q.offset # o
    BY <1>2, <1>4 DEF Sane, Unasked
<1>8. Sane(WithTask(w, t, l))
    BY <1>1, <1>4, <1>5, <1>6, <1>7, SaneWithTask
<1>9. WithTask(w, t, l) = Taken(w, t, good)
    BY <1>1, <1>2, WorldParts DEF WithTask, Taken
<1> QED BY <1>8, <1>9

LEMMA FairHashesDone ==
    ASSUME Good(World), Fair(World, Zero), NEW t \in Tasks, NEW r \in task[t].sent,
           NEW hashes \in {{}, {r.offset}}, NEW wrong, NEW short, NEW saved,
           GetCdnFileHashesDone(t, r, hashes, wrong, short, saved)
    PROVE  Fair(World', Zero)
<1>1. Running /\ ForHashes(r)
    BY DEF GetCdnFileHashesDone, Usual, Fault, ForHashes
<1>2. PICK z, pace, f : z = World /\ pace = "slow" /\ f = SucceedSentRequest(z, t, r, pace)
    OBVIOUS
<1>3. Mid(z, t, {}) /\ z.task = task /\ r \in z.task[t].sent
    BY <1>1, <1>2, AtStart
<1>4. hashes \in SUBSET Offsets
    BY AtAnswer
<1>5. PICK v : v = FinishSentRequests(z, t, {r})
    OBVIOUS
<1>6. Mid(v, t, {}) /\ Sane(v) /\ Loads(v.task[t].state)
    <2>1. Mid(v, t, {})
        BY <1>1, <1>3, <1>5, MidFinishHashes
    <2>2. Held(v, t, r)
        BY <1>1, <1>2, <1>5, SaneAnswer
    <2> QED BY <2>1, <2>2 DEF Held
<1>7. PICK w : w = AddCdnHashes(v, t, hashes)
    OBVIOUS
<1>8. Mid(w, t, {}) /\ Sane(w) /\ Loads(w.task[t].state)
    <2>1. PICK X : X = {}
        OBVIOUS
    <2>2. Mid(v, t, X)
        BY <1>6, <2>1
    <2>3. Mid(w, t, X) /\ Loads(w.task[t].state)
        BY <1>4, <1>6, <1>7, <2>2, HashesTaken
    <2>4. Sane(w)
        BY <1>4, <1>6, <1>7, <2>2, SaneHashes
    <2> QED BY <2>1, <2>3, <2>4
<1>10. PICK k : k = w.task[t]
    OBVIOUS
<1>11. PICK checked : checked = {u \in k.unchecked : u.offset \in k.hashes}
    OBVIOUS
<1>12. PICK good : good = {u \in checked : u.offset < wrong}
    OBVIOUS
<1>13. PICK a, X : a = Taken(w, t, good) /\ X = OffsetsOf(good)
    OBVIOUS
<1>14. good \subseteq w.task[t].unchecked
    BY <1>10, <1>11, <1>12
<1>15. Holding(a, t, X) /\ X \subseteq Offsets /\ Loads(a.task[t].state) /\ Sane(a)
    BY <1>8, <1>13, <1>14, HoldingChecked, SaneTaken
<1>16. PICK fed : fed = FeedParts(a, t, X, short, saved)
    OBVIOUS
<1>17. Mid(fed, t, {}) /\ Sane(fed)
    BY <1>15, <1>16, MidFeedParts, SaneFeedParts
<1>18. PICK x : x = IF good = {} THEN CancelOnFail(w, t)
                    ELSE IF good # checked THEN CancelOnFail(fed, t)
                    ELSE RequestMoreCdnFileHashes(fed, t)
    OBVIOUS
<1>19. Sane(x)
    <2>1. Sane(CancelOnFail(w, t)) /\ Sane(CancelOnFail(fed, t))
        BY <1>8, <1>17, SaneCancelOnFail
    <2>2. \A o \in fed.task[t].todo : \A u \in fed.task[t].unchecked : u.offset # o
        BY <1>17 DEF Mid, Sound
    <2>3. Sane(RequestMoreCdnFileHashes(fed, t))
        BY <1>17, <2>2, SaneRequestMore
    <2> QED BY <1>18, <2>1, <2>3
<1>20. Becomes(x)
    BY <1>2, <1>5, <1>7, <1>10, <1>11, <1>12, <1>13, <1>16, <1>18 DEF GetCdnFileHashesDone, Taken, OffsetsOf
<1> QED BY <1>19, <1>20, SaneArrives

LEMMA FairTokenInvalid ==
    ASSUME Good(World), Fair(World, Zero), NEW t \in Tasks, NEW r \in task[t].sent,
           TokenInvalid(t, r)
    PROVE  Fair(World', Zero)
<1>1. Running
    BY DEF TokenInvalid, Fault
<1>2. PICK w, pace, f : w = World /\ pace = "slow" /\ f = SucceedSentRequest(w, t, r, pace)
    OBVIOUS
<1>3. PICK v : v = FinishSentRequests(w, t, {r})
    OBVIOUS
<1>4. Held(v, t, r)
    BY <1>1, <1>2, <1>3, SaneAnswer
<1>5. PICK x, none : x = ChangeCDNParams(v, t, r, FALSE, none) /\ none = {}
    OBVIOUS
<1>6. none \in SUBSET Offsets /\ FALSE \in BOOLEAN
    BY <1>5
<1>7. Sane(x)
    BY <1>4, <1>5, <1>6, HeldChangeCDNParams
<1>8. Becomes(x)
    BY <1>2, <1>3, <1>5 DEF TokenInvalid
<1> QED BY <1>7, <1>8, SaneArrives

LEMMA FairAnswer ==
    ASSUME Good(World), Fair(World, Zero), NEW t \in Tasks, NEW r \in task[t].sent, Answer(t, r)
    PROVE  Fair(World', Zero)
<1>0. ASSUME Running PROVE Apart(World.task[t], {}) /\ Sane(World) /\ World.task = task
    BY <1>0, SaneStart DEF Mid
<1>1. ASSUME NEW pace, NEW written, NEW short, NEW saved,
             PartLoaded(t, r, pace, written, short, saved)
      PROVE Fair(World', Zero)
    BY <1>1, FairPartLoaded
<1>2. ASSUME NEW pace, NEW hashes \in {{}, {r.offset}}, NEW usable, Redirected(t, r, pace, hashes, usable)
      PROVE  Fair(World', Zero)
    BY <1>2, FairRedirected
<1>3. ASSUME NEW pace, NEW valid, NEW short, NEW saved,
             CdnPartLoaded(t, r, pace, valid, short, saved)
      PROVE Fair(World', Zero)
    BY <1>3, FairCdnPartLoaded
<1>4. CASE ReuploadNeeded(t, r)
    <2>1. Running /\ "reupload" \in Kinds
        BY <1>4 DEF ReuploadNeeded, Fault, Kinds
    <2>2. PICK x : x = PlaceSentRequest(FinishSentRequests(World, t, {r}), t, r, "reupload")
        OBVIOUS
    <2>3. Sane(x)
        BY <2>1, <2>2, FairReupload
    <2>4. Becomes(x)
        BY <1>4, <2>2 DEF ReuploadNeeded
    <2> QED BY <2>3, <2>4, SaneArrives
<1>5. ASSUME NEW hashes \in {{}, {r.offset}}, ReuploadDone(t, r, hashes) PROVE Fair(World', Zero)
    <2>1. Running /\ "part" \in Kinds
        BY <1>5 DEF ReuploadDone, Usual, Kinds
    <2>2. hashes \in SUBSET Offsets
        BY AtAnswer
    <2>3. PICK x : x = PlaceSentRequest(AddCdnHashes(FinishSentRequests(World, t, {r}), t, hashes), t, r, "part")
        OBVIOUS
    <2>4. Sane(x)
        BY <2>1, <2>2, <2>3, FairReupload
    <2>5. Becomes(x)
        BY <1>5, <2>3 DEF ReuploadDone, MakeRequest
    <2> QED BY <2>4, <2>5, SaneArrives
<1>6. ASSUME NEW hashes \in {{}, {r.offset}}, NEW wrong, NEW short, NEW saved,
           GetCdnFileHashesDone(t, r, hashes, wrong, short, saved)
      PROVE  Fair(World', Zero)
    BY <1>6, FairHashesDone
<1>7. CASE TokenInvalid(t, r)
    BY <1>7, FairTokenInvalid
<1>8. CASE PartFailed(t, r)
    <2>1. Running
        BY <1>8 DEF PartFailed, Fault
    <2>2. PICK w : w = World
        OBVIOUS
    <2>3. Apart(w.task[t], {}) /\ Sane(w) /\ r \in w.task[t].sent
        BY <1>0, <2>1, <2>2
    <2>4. PICK x : x = Fail(w, t, r)
        OBVIOUS
    <2>5. Sane(x)
        BY <2>3, <2>4, SaneFail
    <2>6. Becomes(x)
        BY <1>8, <2>2, <2>4 DEF PartFailed
    <2> QED BY <2>5, <2>6, SaneArrives
<1>9. CASE ReferenceExpired(t, r)
    <2>1. Running /\ "stale" \in Kinds
        BY <1>9 DEF ReferenceExpired, Fault, Kinds
    <2>2. PICK w : w = World
        OBVIOUS
    <2>3. Apart(w.task[t], {}) /\ Sane(w) /\ r \in w.task[t].sent
        BY <1>0, <2>1, <2>2
    <2>4. PICK x : x = Rekinded(w, t, r, "stale")
        OBVIOUS
    <2>5. Sane(x)
        BY <2>1, <2>3, <2>4, SaneRekinded
    <2>6. Becomes(x)
        BY <1>9, <2>2, <2>4 DEF ReferenceExpired, Rekinded
    <2> QED BY <2>5, <2>6, SaneArrives
<1>10. ASSUME NEW fresh, ReferenceRefreshed(t, r, fresh) PROVE Fair(World', Zero)
    <2>1. Running /\ "part" \in Kinds
        BY <1>10 DEF ReferenceRefreshed, Usual, Kinds
    <2>2. PICK w : w = World
        OBVIOUS
    <2>3. Apart(w.task[t], {}) /\ Sane(w) /\ r \in w.task[t].sent
        BY <1>0, <2>1, <2>2
    <2>4. PICK a, b : /\ a = PlaceSentRequest(FinishSentRequests(w, t, {r}), t, r, "part")
                      /\ b = Fail(w, t, r)
        OBVIOUS
    <2>5. Sane(a) /\ Sane(b)
        <3>1. Sane(a)
            BY <2>1, <2>2, <2>4, FairReupload
        <3>2. Sane(b)
            BY <2>3, <2>4, SaneFail
        <3> QED BY <3>1, <3>2
    <2>6. PICK x : x = IF fresh THEN a ELSE b
        OBVIOUS
    <2>7. Becomes(x) /\ Sane(x)
        BY <1>10, <2>2, <2>4, <2>5, <2>6 DEF ReferenceRefreshed, MakeRequest
    <2> QED BY <2>7, SaneArrives
<1> QED BY <1>1, <1>2, <1>3, <1>4, <1>5, <1>6, <1>7, <1>8, <1>9, <1>10, Zenon DEF Answer

\* What the owner of a loader changes: not its requests.
LEMMA SaneOwned ==
    ASSUME NEW A, Int \subseteq A, NEW w \in Worlds(A), Sane(w), NEW t \in Tasks,
           NEW l \in TaskOf(A), l.sent = w.task[t].sent, l.unchecked \subseteq w.task[t].unchecked,
           Sound(t, l, {})
    PROVE  Sane(WithTask(w, t, l)) /\ WithTask(w, t, l).task[t] = l
<1>1. \A u \in l.unchecked : u.index \in 1 .. Len(w.dc.sessions)
    BY DEF Sane, Fair, Homed
<1>2. \A o \in l.todo : \A q \in l.sent : q.offset # o
    BY DEF Sound
<1> QED BY <1>1, <1>2, SaneWithTask

LEMMA FairMoreHashes ==
    ASSUME Good(World), Fair(World, Zero), NEW t \in Tasks, MoreCdnFileHashes(t)
    PROVE  Fair(World', Zero)
<1>1. Running
    BY DEF MoreCdnFileHashes, Usual
<1>2. PICK w : w = World
    OBVIOUS
<1>3. Mid(w, t, {}) /\ Sane(w)
    BY <1>1, <1>2, SaneStart
<1>4. PICK A : Int \subseteq A /\ w \in Worlds(A)
    BY <1>3 DEF Mid, Typed
<1>5. PICK k, l : k = w.task[t] /\ l = [k EXCEPT !.more = FALSE]
    OBVIOUS
<1>6. k \in TaskOf(A) /\ Sound(t, k, {}) /\ Apart(k, {})
    BY <1>3, <1>4, <1>5, TaskParts DEF Mid
<1>7. /\ l \in TaskOf(A) /\ l.state = k.state /\ l.todo = k.todo /\ l.sent = k.sent
      /\ l.unchecked = k.unchecked /\ l.fed = k.fed
    BY <1>5, <1>6 DEF TaskOf
<1>8. Sound(t, l, {}) /\ l.sent = w.task[t].sent /\ l.unchecked \subseteq w.task[t].unchecked
    <2>1. PICK X : X = {}
        OBVIOUS
    <2>2. Sound(t, k, X) /\ Apart(k, X)
        BY <1>6, <2>1
    <2>3. Sound(t, l, X)
        BY <1>7, <2>2, SameRequests, Zenon
    <2>4. l.sent = w.task[t].sent /\ l.unchecked \subseteq w.task[t].unchecked
        BY <1>5, <1>7
    <2> QED BY <2>1, <2>3, <2>4
<1>9. PICK v : v = WithTask(w, t, l)
    OBVIOUS
<1>10. Sane(v) /\ v.task[t] = l
    BY <1>3, <1>4, <1>7, <1>8, <1>9, SaneOwned
<1>11. v = [w EXCEPT !.task[t].more = FALSE]
    BY <1>4, <1>5, <1>9, WorldParts DEF WithTask
<1>12. PICK x : x = RequestMoreCdnFileHashes(v, t)
    OBVIOUS
<1>13. \A o \in v.task[t].todo : \A u \in v.task[t].unchecked : u.offset # o
    BY <1>8, <1>10 DEF Sound
<1>14. Sane(x)
    BY <1>10, <1>12, <1>13, SaneRequestMore
<1>15. Becomes(x)
    BY <1>2, <1>11, <1>12 DEF MoreCdnFileHashes
<1> QED BY <1>14, <1>15, SaneArrives

LEMMA FairStartLoading ==
    ASSUME Good(World), Fair(World, Zero), NEW t \in Tasks, StartLoading(t)
    PROVE  Fair(World', Zero)
<1>1. Running
    BY DEF StartLoading, Usual
<1>2. PICK w : w = World
    OBVIOUS
<1>3. Mid(w, t, {}) /\ Sane(w)
    BY <1>1, <1>2, SaneStart
<1>4. PICK A : Int \subseteq A /\ w \in Worlds(A)
    BY <1>3 DEF Mid, Typed
<1>5. PICK k, l : k = w.task[t] /\ l = [k EXCEPT !.state = "on"]
    OBVIOUS
<1>6. k \in TaskOf(A) /\ Sound(t, k, {})
    BY <1>3, <1>4, <1>5, TaskParts DEF Mid
<1>7. /\ l \in TaskOf(A) /\ l.todo = k.todo /\ l.sent = k.sent /\ l.unchecked = k.unchecked
    BY <1>5, <1>6 DEF TaskOf, States
<1>8. l.sent = w.task[t].sent /\ l.unchecked \subseteq w.task[t].unchecked
    BY <1>5, <1>7
<1>9. \A u \in l.unchecked : u.index \in 1 .. Len(w.dc.sessions)
    BY <1>3, <1>8 DEF Sane, Fair, Homed
<1>10. \A o \in l.todo : \A q \in l.sent : q.offset # o
    BY <1>6, <1>7 DEF Sound
<1>11. PICK v : v = WithTask(w, t, l)
    OBVIOUS
<1>12. Sane(v)
    <2>1. Sane(WithTask(w, t, l))
        BY <1>3, <1>4, <1>7, <1>8, <1>9, <1>10, SaneWithTask
    <2> QED BY <1>11, <2>1
<1>13. v = [w EXCEPT !.task[t].state = "on"]
    BY <1>4, <1>5, <1>11, WorldParts DEF WithTask
<1>14. PICK x : x = AddToQueue(v, t, 0)
    OBVIOUS
<1>15. Sane(x)
    <2>1. 0 \in 0 .. 1
        OBVIOUS
    <2> QED BY <1>12, <1>14, <2>1, SaneAdd
<1>16. Becomes(x)
    BY <1>2, <1>13, <1>14 DEF StartLoading
<1> QED BY <1>15, <1>16, SaneArrives

LEMMA FairCancelLoading ==
    ASSUME Good(World), Fair(World, Zero), NEW t \in Tasks, CancelLoading(t)
    PROVE  Fair(World', Zero)
<1>1. Running
    BY DEF CancelLoading, Input
<1>2. PICK w, x : w = World /\ x = CancelFile(w, t)
    OBVIOUS
<1>3. Sane(w)
    BY <1>1, <1>2, SaneStart
<1>4. Sane(x)
    BY <1>2, <1>3, SaneCancelFile
<1>5. Becomes(x)
    BY <1>2 DEF CancelLoading
<1> QED BY <1>4, <1>5, SaneArrives

LEMMA FairDestroy ==
    ASSUME Good(World), Fair(World, Zero), NEW t \in Tasks, Destroy(t)
    PROVE  Fair(World', Zero)
<1>1. Running
    BY DEF Destroy, Usual, Input
<1>2. PICK w : w = World
    OBVIOUS
<1>3. Sane(w)
    BY <1>1, <1>2, SaneStart
<1>5. PICK c : c = CancelAllRequests(w, t)
    OBVIOUS
<1>6. Sane(c) /\ c.task[t].sent = {} /\ c.task[t].unchecked = {}
    BY <1>3, <1>5, SaneCancelAll
<1>7. PICK v : v = RemoveFromQueue(c, t)
    OBVIOUS
<1>8. Sane(v) /\ v.task[t].sent = {} /\ v.task[t].unchecked = {}
    BY <1>6, <1>7, SaneRemove
<1>9. PICK B : Int \subseteq B /\ v \in Worlds(B)
    BY <1>8 DEF Sane, Typed
<1>10. PICK k : k = [NewTask(t) EXCEPT !.state = "gone"]
    OBVIOUS
<1>11. k \in TaskOf(B) /\ k.state = "gone" /\ k.sent = {} /\ k.unchecked = {}
    <2>1. NewTask(t) \in TaskOf(B) /\ NewTask(t).sent = {} /\ NewTask(t).unchecked = {}
        BY NewTaskType
    <2> QED BY <1>10, <2>1 DEF TaskOf, States
<1>12. k.sent = v.task[t].sent /\ k.unchecked \subseteq v.task[t].unchecked /\ Sound(t, k, {})
    BY <1>8, <1>11 DEF Sound, Whole, Loads
<1>13. PICK x : x = WithTask(v, t, k)
    OBVIOUS
<1>14. Sane(x)
    BY <1>8, <1>9, <1>11, <1>12, <1>13, SaneOwned
<1>15. x = [v EXCEPT !.task[t] = [NewTask(t) EXCEPT !.state = "gone"]]
    BY <1>10, <1>13 DEF WithTask
<1>16. Becomes(x)
    BY <1>2, <1>5, <1>7, <1>15 DEF Destroy
<1> QED BY <1>14, <1>16, SaneArrives

LEMMA FairLoad ==
    ASSUME Good(World), Fair(World, Zero), NEW t \in Tasks, NEW o \in Offsets, Load(t, o)
    PROVE  Fair(World', Zero)
<1>1. Running /\ t \notin Files
    BY DownloadsAssumption DEF Load, Input
<1>2. PICK w : w = World
    OBVIOUS
<1>3. Mid(w, t, {}) /\ w.task = task /\ Sane(w)
    BY <1>1, <1>2, SaneStart
<1>4. PICK A : Int \subseteq A /\ w \in Worlds(A)
    BY <1>3 DEF Mid, Typed
<1>5. PICK k, l : k = w.task[t] /\ l = [k EXCEPT !.todo = k.todo \cup {o}]
    OBVIOUS
<1>6. k \in TaskOf(A) /\ Sound(t, k, {})
    BY <1>3, <1>4, <1>5, TaskParts DEF Mid
<1>7. /\ l \in TaskOf(A) /\ l.state = k.state /\ l.todo = k.todo \cup {o} /\ l.sent = k.sent
      /\ l.unchecked = k.unchecked /\ l.fed = k.fed /\ k.priority \in 0 .. 1
    BY <1>5, <1>6 DEF TaskOf
<1>8. ~HaveSentRequestForOffset(k, o)
    BY <1>3, <1>5 DEF Load
<1>9. Sound(t, l, {}) /\ l.sent = w.task[t].sent /\ l.unchecked \subseteq w.task[t].unchecked
    BY <1>1, <1>5, <1>6, <1>7, <1>8 DEF Sound, HaveSentRequestForOffset
<1>10. PICK v : v = WithTask(w, t, l)
    OBVIOUS
<1>11. Sane(v)
    BY <1>3, <1>4, <1>7, <1>9, <1>10, SaneOwned
<1>12. v = [w EXCEPT !.task[t].todo = @ \cup {o}]
    BY <1>4, <1>5, <1>10, WorldParts DEF WithTask
<1>13. PICK x, p : x = AddToQueue(v, t, p) /\ p = k.priority
    OBVIOUS
<1>14. Sane(x)
    BY <1>7, <1>11, <1>13, SaneAdd
<1>15. Becomes(x)
    BY <1>2, <1>3, <1>5, <1>12, <1>13 DEF Load
<1> QED BY <1>14, <1>15, SaneArrives

LEMMA FairCancelForOffset ==
    ASSUME Good(World), Fair(World, Zero), NEW t \in Tasks, NEW o \in Offsets, CancelForOffset(t, o)
    PROVE  Fair(World', Zero)
<1>1. Running /\ t \notin Files
    BY DownloadsAssumption DEF CancelForOffset, Input
<1>2. PICK w : w = World
    OBVIOUS
<1>3. Mid(w, t, {}) /\ w.task = task /\ Sane(w)
    BY <1>1, <1>2, SaneStart
<1>4. PICK A : Int \subseteq A /\ w \in Worlds(A)
    BY <1>3 DEF Mid, Typed
<1>5. PICK k : k = w.task[t]
    OBVIOUS
<1>6. k \in TaskOf(A) /\ Sound(t, k, {}) /\ k.priority \in 0 .. 1 /\ k.unchecked \subseteq Part
    BY <1>3, <1>4, <1>5, TaskParts DEF Mid, TaskOf
<1>7. CASE HaveSentRequestForOffset(task[t], o)
    <2>1. PICK S : S = {r \in k.sent : r.offset = o}
        OBVIOUS
    <2>2. PICK c : c = CancelRequests(w, t, S)
        OBVIOUS
    <2>3. S \subseteq w.task[t].sent
        BY <1>5, <2>1
    <2>4. PICK more \in BOOLEAN :
            /\ c \in Worlds(A)
            /\ Changed(w, c, t, WithRequests(k, k.sent \ S, more, k.unchecked),
                       ChangeRequestedAmount(w.dc, S, -1))
        BY <1>4, <1>5, <2>2, <2>3, CancelEffect
    <2>5. PICK m : m = c.task[t]
        OBVIOUS
    <2>6. /\ m \in TaskOf(A) /\ m.state = k.state /\ m.todo = k.todo /\ m.sent = k.sent \ S
          /\ m.unchecked = k.unchecked
        <3>1. m = WithRequests(k, k.sent \ S, more, k.unchecked) /\ m \in TaskOf(A)
            BY <2>4, <2>5, TaskParts DEF Changed
        <3> QED BY <1>6, <3>1 DEF WithRequests, TaskOf
    <2>7. PICK l : l = [m EXCEPT !.unchecked = {u \in k.unchecked : u.offset # o}]
        OBVIOUS
    <2>8. /\ l \in TaskOf(A) /\ l.state = k.state /\ l.todo = k.todo /\ l.sent = k.sent \ S
          /\ l.unchecked = {u \in k.unchecked : u.offset # o}
        BY <1>6, <2>6, <2>7 DEF TaskOf
    <2>9. Sound(t, l, {}) /\ l.sent = c.task[t].sent /\ l.unchecked \subseteq c.task[t].unchecked
        BY <1>1, <1>6, <2>5, <2>6, <2>8 DEF Sound
    <2>10. PICK v : v = WithTask(c, t, l)
        OBVIOUS
    <2>11. Sane(v)
        <3>1. Sane(c)
            BY <1>3, <2>2, <2>3, SaneCancel
        <3> QED BY <1>4, <2>4, <2>8, <2>9, <2>10, <3>1, SaneOwned
    <2>12. v = [c EXCEPT !.task[t].unchecked = {u \in @ : u.offset # o}]
        <3>1. [c EXCEPT !.task[t].unchecked = {u \in @ : u.offset # o}]
                = [c EXCEPT !.task[t].unchecked = {u \in k.unchecked : u.offset # o}]
            BY <2>5, <2>6
        <3> QED BY <2>4, <2>5, <2>7, <2>10, <3>1, WorldParts DEF WithTask
    <2>13. PICK x, y, p : /\ p = k.priority /\ y = AddToQueue(v, t, p)
                          /\ x = IF k.todo # {} THEN y ELSE v
        OBVIOUS
    <2>14. Sane(y)
        BY <1>6, <2>11, <2>13, SaneAdd
    <2>15. Sane(x)
        BY <2>11, <2>13, <2>14
    <2>16. Becomes(x)
        BY <1>2, <1>3, <1>5, <1>7, <2>1, <2>2, <2>12, <2>13 DEF CancelForOffset
    <2> QED BY <2>15, <2>16, SaneArrives
<1>8. CASE ~HaveSentRequestForOffset(task[t], o)
    <2>1. PICK l : l = [k EXCEPT !.todo = k.todo \ {o}]
        OBVIOUS
    <2>2. /\ l \in TaskOf(A) /\ l.state = k.state /\ l.todo = k.todo \ {o} /\ l.sent = k.sent
          /\ l.unchecked = k.unchecked
        BY <1>6, <2>1 DEF TaskOf
    <2>3. Sound(t, l, {}) /\ l.sent = w.task[t].sent /\ l.unchecked \subseteq w.task[t].unchecked
        BY <1>1, <1>5, <1>6, <2>2 DEF Sound
    <2>4. PICK v : v = WithTask(w, t, l)
        OBVIOUS
    <2>5. Sane(v)
        BY <1>3, <1>4, <2>2, <2>3, <2>4, SaneOwned
    <2>6. v = [w EXCEPT !.task[t].todo = @ \ {o}]
        BY <1>4, <1>5, <2>1, <2>4, WorldParts DEF WithTask
    <2>7. Becomes(v)
        BY <1>2, <1>8, <2>6 DEF CancelForOffset
    <2> QED BY <2>5, <2>7, SaneArrives
<1> QED BY <1>7, <1>8

LEMMA FairTryRemove ==
    ASSUME Good(World), Fair(World, Zero), NEW t \in Tasks, TryRemoveFromQueue(t)
    PROVE  Fair(World', Zero)
<1>1. Running
    BY DEF TryRemoveFromQueue, Usual
<1>2. PICK w, x : w = World /\ x = RemoveFromQueue(w, t)
    OBVIOUS
<1>3. Sane(w) /\ w.task = task
    BY <1>1, <1>2, SaneStart
<1>4. w.task[t].sent = {} /\ w.task[t].unchecked = {}
    BY <1>3 DEF TryRemoveFromQueue, HaveSentRequests
<1>5. Sane(x)
    BY <1>2, <1>3, <1>4, SaneRemove
<1>6. Becomes(x)
    BY <1>2 DEF TryRemoveFromQueue
<1> QED BY <1>5, <1>6, SaneArrives

LEMMA SaneStop ==
    ASSUME NEW w, NEW t \in Tasks, Mid(w, t, {}), Sane(w), t \notin Files
    PROVE  \E c, k, v : /\ c = CancelAllRequests(w, t) /\ Sane(c)
                        /\ v = [c EXCEPT !.task[t].todo = {}] /\ Sane(v)
                        /\ v.task[t].sent = {} /\ v.task[t].unchecked = {}
                        /\ Changed(c, v, t, k, c.dc) /\ k.sent = {}
<1>1. PICK A : Int \subseteq A /\ w \in Worlds(A)
    BY DEF Mid, Typed
<1>2. PICK c, k : /\ c = CancelAllRequests(w, t) /\ c \in Worlds(A)
                  /\ k \in TaskOf(A) /\ k.sent = {} /\ k.unchecked = {} /\ Sound(t, k, {})
                  /\ [c EXCEPT !.task[t].todo = {}] = WithTask(c, t, k)
    BY <1>1, StopEffect
<1>3. Sane(c) /\ c.task[t].sent = {} /\ c.task[t].unchecked = {}
    BY <1>2, SaneCancelAll
<1>4. PICK v : v = WithTask(c, t, k)
    OBVIOUS
<1>5. k.sent = c.task[t].sent /\ k.unchecked \subseteq c.task[t].unchecked
    BY <1>2, <1>3
<1>6. Sane(v)
    BY <1>1, <1>2, <1>3, <1>4, <1>5, SaneOwned
<1>7. Changed(c, v, t, k, c.dc)
    BY <1>2, <1>4, TaskEffect
<1>8. v.task[t] = k
    BY <1>7 DEF Changed
<1> QED BY <1>2, <1>3, <1>4, <1>6, <1>7, <1>8

LEMMA FairStop ==
    ASSUME Good(World), Fair(World, Zero), NEW t \in Tasks, Stop(t)
    PROVE  Fair(World', Zero)
<1>1. Running /\ t \notin Files
    BY DownloadsAssumption DEF Stop, Input
<1>2. PICK w : w = World
    OBVIOUS
<1>3. Mid(w, t, {}) /\ Sane(w)
    BY <1>1, <1>2, SaneStart
<1>4. PICK v : /\ v = [CancelAllRequests(w, t) EXCEPT !.task[t].todo = {}] /\ Sane(v)
               /\ v.task[t].sent = {} /\ v.task[t].unchecked = {}
    BY <1>1, <1>3, SaneStop
<1>5. PICK x : x = RemoveFromQueue(v, t)
    OBVIOUS
<1>6. Sane(x)
    BY <1>4, <1>5, SaneRemove
<1>7. Becomes(x)
    BY <1>2, <1>4, <1>5 DEF Stop
<1> QED BY <1>6, <1>7, SaneArrives

LEMMA FairSetPriority ==
    ASSUME Good(World), Fair(World, Zero), NEW t \in Tasks, NEW p \in {0, 1}, SetPriority(t, p)
    PROVE  Fair(World', Zero)
<1>1. Running
    BY DEF SetPriority, Input
<1>2. PICK w : w = World
    OBVIOUS
<1>3. Mid(w, t, {}) /\ w.task = task /\ Sane(w)
    BY <1>1, <1>2, SaneStart
<1>4. PICK A : Int \subseteq A /\ w \in Worlds(A)
    BY <1>3 DEF Mid, Typed
<1>5. PICK k, l : k = w.task[t] /\ l = [k EXCEPT !.priority = p]
    OBVIOUS
<1>6. k \in TaskOf(A) /\ Sound(t, k, {}) /\ Apart(k, {}) /\ p \in 0 .. 1
    BY <1>3, <1>4, <1>5, TaskParts DEF Mid
<1>7. /\ l \in TaskOf(A) /\ l.state = k.state /\ l.todo = k.todo /\ l.sent = k.sent
      /\ l.unchecked = k.unchecked /\ l.fed = k.fed
    BY <1>5, <1>6 DEF TaskOf
<1>8. Sound(t, l, {}) /\ l.sent = w.task[t].sent /\ l.unchecked \subseteq w.task[t].unchecked
    <2>1. PICK X : X = {}
        OBVIOUS
    <2>2. Sound(t, k, X) /\ Apart(k, X)
        BY <1>6, <2>1
    <2>3. Sound(t, l, X)
        BY <1>7, <2>2, SameRequests, Zenon
    <2>4. l.sent = w.task[t].sent /\ l.unchecked \subseteq w.task[t].unchecked
        BY <1>5, <1>7
    <2> QED BY <2>1, <2>3, <2>4
<1>9. PICK v : v = WithTask(w, t, l)
    OBVIOUS
<1>10. Sane(v)
    BY <1>3, <1>4, <1>7, <1>8, <1>9, SaneOwned
<1>11. v = [w EXCEPT !.task[t].priority = p]
    BY <1>4, <1>5, <1>9, WorldParts DEF WithTask
<1>12. PICK x, y : y = AddToQueue(v, t, p) /\ x = IF HaveSentRequests(k) THEN y ELSE v
    OBVIOUS
<1>13. Sane(y)
    BY <1>6, <1>10, <1>12, SaneAdd
<1>14. Sane(x)
    BY <1>10, <1>12, <1>13
<1>15. Becomes(x)
    BY <1>2, <1>3, <1>5, <1>11, <1>12 DEF SetPriority
<1> QED BY <1>14, <1>15, SaneArrives

LEMMA FairOwn ==
    ASSUME Good(World), Fair(World, Zero), NEW t \in Tasks, Own(t)
    PROVE  Fair(World', Zero)
<1>1. CASE MoreCdnFileHashes(t)
    BY <1>1, FairMoreHashes
<1>2. CASE StartLoading(t)
    BY <1>2, FairStartLoading
<1>3. CASE CancelLoading(t)
    BY <1>3, FairCancelLoading
<1>4. CASE Destroy(t)
    BY <1>4, FairDestroy
<1>5. ASSUME NEW o \in Offsets, Load(t, o) PROVE Fair(World', Zero)
    BY <1>5, FairLoad
<1>6. ASSUME NEW o \in Offsets, CancelForOffset(t, o) PROVE Fair(World', Zero)
    BY <1>6, FairCancelForOffset
<1>7. CASE TryRemoveFromQueue(t)
    BY <1>7, FairTryRemove
<1>8. ASSUME NEW p \in {0, 1}, SetPriority(t, p) PROVE Fair(World', Zero)
    BY <1>8, FairSetPriority
<1>9. CASE Stop(t)
    BY <1>9, FairStop
<1> QED BY <1>1, <1>2, <1>3, <1>4, <1>5, <1>6, <1>7, <1>8, <1>9, Zenon DEF Own

LEMMA FairSessionTimedOut ==
    ASSUME Good(World), Fair(World, Zero), NEW i, SessionTimedOut(i), ~Overbooked(dc)
    PROVE  Fair(World', Zero)
<1>1. PICK w : w = World
    OBVIOUS
<1>2. w.dc = dc /\ w.task = task /\ w.dc \in DcRec
    <2>1. PICK A : w \in Worlds(A)
        BY <1>1 DEF Good, Typed
    <2> QED BY <1>1, <2>1, WorldParts DEF World
<1>3. PICK n \in 0 .. RemoveAfterTimeouts - 1 :
        \/ Becomes([w EXCEPT !.dc = TimedOut(dc, n)])
        \/ Len(dc.sessions) > 1 /\ Becomes(RemoveSession([w EXCEPT !.dc = TimedOut(dc, n)]))
    BY <1>1, TimedOutCases
<1>4. PICK d : d = TimedOut(dc, n)
    OBVIOUS
<1>5. /\ d \in DcRec /\ Len(d.sessions) = Len(dc.sessions)
      /\ \A j \in 1 .. Len(dc.sessions) : d.sessions[j].requested = dc.sessions[j].requested
      /\ d.total = dc.total /\ d.kill = dc.kill
    BY <1>2, <1>4, TimedOutType
<1>6. PICK v : v = [w EXCEPT !.dc = d]
    OBVIOUS
<1>7. Good(v)
    BY <1>1, <1>5, <1>6, GoodDc
<1>8. Distinct(v) /\ v.dc = d /\ v.queue = w.queue /\ v.task = w.task
    <2>1. PICK A : w \in Worlds(A)
        BY <1>1 DEF Good, Typed
    <2>2. v.task = task /\ v.dc = d /\ v.queue = w.queue /\ v.task = w.task
        BY <1>2, <1>5, <1>6, <2>1, DcEffect
    <2>3. Running
        BY TimedOutCases
    <2> QED BY <2>2, <2>3 DEF Distinct, Running
<1>9. Fair(v, Zero)
    <2>1. PICK m : m = Len(dc.sessions)
        OBVIOUS
    <2>2. m \in Nat
        BY <1>2, <2>1, SessionsParts, Constants DEF DcRec
    <2>3. /\ Len(w.dc.sessions) <= Len(v.dc.sessions)
          /\ \A j \in Len(w.dc.sessions) + 1 .. Len(v.dc.sessions) :
                v.dc.sessions[j].requested = 0 /\ Zero[j] = 0
        <3>1. Len(w.dc.sessions) = m /\ Len(v.dc.sessions) = m
            BY <1>2, <1>5, <1>8, <2>1
        <3>2. m <= m /\ ~ \E j \in m + 1 .. m : TRUE
            BY <2>2
        <3> QED BY <3>1, <3>2
    <2>4. /\ \A j \in 1 .. Len(w.dc.sessions) :
                v.dc.sessions[j].requested = w.dc.sessions[j].requested
          /\ v.dc.total = w.dc.total /\ (v.dc.kill => w.dc.kill) /\ v.dc \in DcRec
        BY <1>2, <1>5, <1>8
    <2>5. Fair(w, Zero)
        BY <1>1
    <2> QED BY <1>2, <1>8, <2>3, <2>4, <2>5, FairDc
<1>10. ASSUME Len(dc.sessions) > 1, Becomes(RemoveSession(v)) PROVE Fair(World', Zero)
    <2>1. ~Overbooked(d)
        <3>1. PICK m : m = Len(dc.sessions)
            OBVIOUS
        <3>2. m \in Nat /\ m > 1
            BY <1>2, <1>10, <3>1, SessionsParts, Constants DEF DcRec
        <3>3. PICK j \in 1 .. m - 1 :
                ~(dc.sessions[j].requested + dc.sessions[m].requested > MaxWaited * MaxSessions)
            BY <3>1, <3>2 DEF Overbooked
        <3>4. j \in 1 .. m /\ m \in 1 .. m
            BY <3>2
        <3>5. ~(d.sessions[j].requested + d.sessions[m].requested > MaxWaited * MaxSessions)
            BY <1>5, <3>1, <3>3, <3>4
        <3>6. Len(d.sessions) = m
            BY <1>5, <3>1
        <3> QED BY <3>3, <3>5, <3>6 DEF Overbooked
    <2>2. Len(v.dc.sessions) > 1 /\ ~Overbooked(v.dc)
        BY <1>5, <1>8, <1>10, <2>1
    <2>3. PICK x : x = RemoveSession(v)
        OBVIOUS
    <2>4. Fair(x, Zero)
        BY <1>7, <1>8, <1>9, <2>2, <2>3, FairRemoveSession
    <2>5. Good(x)
        BY <1>7, <1>8, <2>2, <2>3, GoodRemoveSession
    <2>6. Sane(x)
        BY <2>4, <2>5 DEF Sane, Good, Sound, Unasked
    <2> QED BY <1>10, <2>3, <2>6, SaneArrives
<1>11. Sane(v)
    BY <1>7, <1>9 DEF Sane, Good, Sound, Unasked
<1> QED BY <1>3, <1>4, <1>6, <1>10, <1>11, SaneArrives

LEMMA NothingAsked ==
    ASSUME NEW w, Agree(OnTheWay(w), w.dc, Zero), w.dc.total = 0
    PROVE  OnTheWay(w) = {}
BY FS_EmptySet DEF Agree

LEMMA AgreeNothing ==
    ASSUME NEW d \in DcRec, d.total = 0, ~d.kill,
           \A j \in 1 .. Len(d.sessions) : d.sessions[j].requested = 0
    PROVE  Agree({}, d, Zero)
<1>1. IsFiniteSet({}) /\ Cardinality({}) = 0
    BY FS_EmptySet
<1>3. Len(d.sessions) \in 1 .. MaxSessions
    BY SessionsParts DEF DcRec
<1>4. \A j \in 1 .. Len(d.sessions) : Zero[j] = 0
    BY <1>3, ZeroType, Constants
<1>5. PICK P : P = {}
    OBVIOUS
<1>6. \A j \in 1 .. Len(d.sessions) : d.sessions[j].requested = Cardinality(With(P, j)) + Zero[j]
    <2> SUFFICES ASSUME NEW j \in 1 .. Len(d.sessions)
                 PROVE  d.sessions[j].requested = Cardinality(With(P, j)) + Zero[j]
        OBVIOUS
    <2>1. With(P, j) = {}
        BY <1>5 DEF With
    <2>2. Cardinality(With(P, j)) = 0
        BY <1>1, <2>1
    <2>3. Zero[j] = 0
        BY <1>4
    <2> QED BY <2>2, <2>3
<1>7. IsFiniteSet(P) /\ d.total = Cardinality(P) /\ \A p : p \notin P
    BY <1>1, <1>5
<1>8. Agree(P, d, Zero)
    BY <1>6, <1>7 DEF Agree
<1> QED BY <1>5, <1>8

LEMMA FairKillSessions ==
    ASSUME Good(World), Fair(World, Zero), KillSessions
    PROVE  Fair(World', Zero)
<1>1. PICK w : w = World
    OBVIOUS
<1>2. PICK A : w \in Worlds(A)
    BY <1>1 DEF Good, Typed
<1>3. w.dc = dc /\ w.dc \in DcRec /\ w.task = task /\ w.queue = queue
    BY <1>1, <1>2, WorldParts DEF World
<1>4. PICK n : n = Len(dc.sessions)
    OBVIOUS
<1>5. n \in 1 .. MaxSessions /\ DOMAIN dc.sessions = 1 .. n
    BY <1>3, <1>4, SessionsParts DEF DcRec
<1>6. PICK d : d = NewDc([i \in 1 .. n |-> NewSession])
    OBVIOUS
<1>7. /\ d \in DcRec /\ Len(d.sessions) = n /\ \A i \in 1 .. n : d.sessions[i].requested = 0
      /\ d.total = 0 /\ ~d.kill
    BY <1>5, <1>6, NewDcType
<1>8. dc' = d
    BY <1>5, <1>6 DEF KillSessions
<1>9. PICK v : v = [w EXCEPT !.dc = d]
    OBVIOUS
<1>10. Good(v)
    BY <1>1, <1>7, <1>9, GoodDc
<1>11. v.dc = d /\ v.queue = w.queue /\ v.task = w.task
    BY <1>2, <1>7, <1>9, DcEffect
<1>12. Becomes(v)
    BY <1>3, <1>8, <1>11 DEF Becomes, KillSessions
<1>13. OnTheWay(w) = {} /\ OnTheWay(v) = {}
    <2>1. Agree(OnTheWay(w), w.dc, Zero) /\ w.dc.total = 0
        BY <1>1, <1>3 DEF Fair, Agree, KillSessions
    <2>2. OnTheWay(w) = {}
        BY <2>1, NothingAsked
    <2>3. OnTheWay(v) = OnTheWay(w)
        BY <1>11 DEF OnTheWay
    <2> QED BY <2>2, <2>3
<1>14. Agree({}, d, Zero)
    BY <1>7, AgreeNothing
<1>15. Homed(v) /\ Queued(v) /\ Once(v.queue)
    BY <1>1, <1>3, <1>4, <1>7, <1>11 DEF Fair, Homed, Queued
<1>16. Sane(v)
    BY <1>10, <1>11, <1>13, <1>14, <1>15 DEF Sane, Fair, Good, Sound, Unasked
<1> QED BY <1>12, <1>16, SaneArrives

LEMMA FairResetGeneration ==
    ASSUME Good(World), Fair(World, Zero), ResetGeneration
    PROVE  Fair(World', Zero)
<1>1. PICK w : w = World
    OBVIOUS
<1>2. PICK A : Int \subseteq A /\ w \in Worlds(A)
    BY <1>1 DEF Good, Typed
<1>3. w.dc = dc /\ w.task = task /\ w.queue = queue /\ w.queue \in Seq(Entry)
    BY <1>1, <1>2, WorldParts DEF World
<1>4. PICK q : q = NextGeneration(queue)
    OBVIOUS
<1>5. q \in Seq(Entry) /\ Len(q) = Len(queue) /\ \A i \in 1 .. Len(queue) : q[i].task = queue[i].task
    BY <1>3, <1>4, NextGenerationType
<1>6. PICK v : v = [w EXCEPT !.queue = q]
    OBVIOUS
<1>7. v \in Worlds(A) /\ v.dc = w.dc /\ v.queue = q /\ v.task = w.task
    BY <1>2, <1>5, <1>6, QueueEffect
<1>8. Becomes(v)
    BY <1>3, <1>4, <1>7 DEF Becomes, ResetGeneration
<1>9. Once(queue) /\ Queued(w)
    BY <1>1, <1>3 DEF Fair
<1>10. Once(v.queue)
    BY <1>5, <1>7, <1>9 DEF Once
<1>11. \A t : InLine(queue, t) => InLine(v.queue, t)
    BY <1>5, <1>7 DEF InLine
<1>12. Fair(v, Zero)
    <2>1. \A t \in Tasks : w.task[t].sent # {} \/ w.task[t].unchecked # {} => InLine(v.queue, t)
        BY <1>3, <1>9, <1>11 DEF Queued
    <2> QED BY <1>1, <1>7, <1>10, <2>1, FairQueue
<1>13. Good(v)
    BY <1>1, <1>2, <1>7 DEF Good, Typed
<1>14. Sane(v)
    BY <1>12, <1>13 DEF Sane, Good, Sound, Unasked
<1> QED BY <1>8, <1>14, SaneArrives

-----------------------------------------------------------------------------
(* The amounts.                                                            *)

LEMMA InitFair ==
    ASSUME Init
    PROVE  Fair(World, Zero)
<1>1. PICK s, n : s = [i \in 1 .. n |-> NewSession] /\ n = 1
    OBVIOUS
<1>2. n \in 1 .. MaxSessions
    BY <1>1, Constants
<1>3. dc = NewDc(s)
    <2>1. <<NewSession>> = s
        BY <1>1
    <2> QED BY <2>1 DEF Init
<1>4. /\ dc \in DcRec /\ Len(dc.sessions) = n /\ \A i \in 1 .. n : dc.sessions[i].requested = 0
      /\ dc.total = 0 /\ ~dc.kill
    BY <1>1, <1>2, <1>3, NewDcType
<1>5. \A t \in Tasks : task[t].sent = {} /\ task[t].unchecked = {}
    <2>1. \A t \in Tasks : task[t] = NewTask(t)
        BY DEF Init
    <2>2. \A t \in Tasks : NewTask(t).sent = {} /\ NewTask(t).unchecked = {}
        BY NewTaskType
    <2> QED BY <2>1, <2>2
<1>6. PICK w : w = World
    OBVIOUS
<1>7. w.dc = dc /\ w.queue = <<>> /\ w.task = task
    BY <1>6 DEF World, Init
<1>8. OnTheWay(w) = {}
    BY <1>5, <1>7 DEF OnTheWay
<1>9. Agree(OnTheWay(w), w.dc, Zero)
    BY <1>4, <1>7, <1>8, AgreeNothing
<1>10. Homed(w) /\ Queued(w)
    BY <1>5, <1>7 DEF Homed, Queued
<1>11. Once(w.queue)
    BY <1>7 DEF Once
<1> QED BY <1>6, <1>9, <1>10, <1>11 DEF Fair

LEMMA NextFair ==
    ASSUME Good(World), Fair(World, Zero), Running => ~Overbooked(dc), [Next]_vars
    PROVE  Fair(World', Zero)
<1>1. ASSUME NEW t \in Tasks, Own(t) PROVE Fair(World', Zero)
    BY <1>1, FairOwn
<1>2. ASSUME NEW t \in Tasks, NEW r \in task[t].sent, Answer(t, r) PROVE Fair(World', Zero)
    BY <1>2, FairAnswer
<1>3. ASSUME NEW i \in 1 .. MaxSessions, SessionTimedOut(i) PROVE Fair(World', Zero)
    <2>1. Running
        BY <1>3 DEF SessionTimedOut, Usual
    <2> QED BY <1>3, <2>1, FairSessionTimedOut
<1>4. CASE KillSessions
    BY <1>4, FairKillSessions
<1>5. CASE ResetGeneration
    BY <1>5, FairResetGeneration
<1>6. CASE UNCHANGED vars
    <2>1. World' = World
        BY <1>6 DEF vars, World
    <2> QED BY <2>1
<1>7. CASE Next
    BY <1>1, <1>2, <1>3, <1>4, <1>5, <1>7, Zenon DEF Next
<1> QED BY <1>6, <1>7

LEMMA FairAmounts ==
    ASSUME Good(World), Fair(World, Zero)
    PROVE  AmountsMatch
<1>1. PICK w : w = World
    OBVIOUS
<1>2. PICK A : w \in Worlds(A)
    BY <1>1 DEF Good, Typed
<1>3. w.dc = dc /\ w.dc \in DcRec /\ w.task = task
    BY <1>1, <1>2, WorldParts DEF World
<1>4. DOMAIN dc.sessions = 1 .. Len(dc.sessions) /\ Len(dc.sessions) \in 1 .. MaxSessions
    BY <1>3, SessionsParts DEF DcRec
<1>5. PICK P : P = OnTheWay(w)
    OBVIOUS
<1>6. Agree(P, dc, Zero) /\ Homed(w) /\ IsFiniteSet(P)
    BY <1>1, <1>3, <1>5 DEF Fair, Agree
<1>7. ASSUME NEW i \in DOMAIN dc.sessions
      PROVE  dc.sessions[i].requested = Cardinality({p \in P : p[2].index = i})
    <2>1. i \in 1 .. Len(dc.sessions) /\ i \in 1 .. MaxSessions
        BY <1>4, Constants
    <2>2. PICK c : c = Cardinality(With(P, i))
        OBVIOUS
    <2>3. c \in Nat
        BY <1>6, <2>2, WithFinite
    <2>4. dc.sessions[i].requested = c + Zero[i] /\ Zero[i] = 0
        BY <1>6, <2>1, <2>2, ZeroType DEF Agree
    <2> QED BY <2>2, <2>3, <2>4 DEF With
<1>8. dc.total = Cardinality(P) /\ (dc.kill => dc.total = 0)
    BY <1>6 DEF Agree
<1>9. ASSUME NEW t \in Tasks, NEW r \in task[t].sent \cup task[t].unchecked
      PROVE  r.index \in DOMAIN dc.sessions
    <2>1. CASE r \in task[t].sent
        <3>1. PICK p : p = <<t, r>>
            OBVIOUS
        <3>2. p \in P /\ p[2] = r
            BY <1>3, <1>5, <2>1, <3>1, WayIs
        <3> QED BY <1>4, <1>6, <3>2 DEF Agree
    <2>2. CASE r \in task[t].unchecked
        BY <1>3, <1>4, <1>6, <2>2 DEF Homed
    <2> QED BY <2>1, <2>2
<1> QED BY <1>1, <1>5, <1>7, <1>8, <1>9 DEF AmountsMatch

LEMMA FairTypes ==
    ASSUME Good(World), Fair(World, Zero)
    PROVE  TypeOK
<1>1. PICK w : w = World
    OBVIOUS
<1>2. PICK A : w \in Worlds(A)
    BY <1>1 DEF Good, Typed
<1>3. /\ w.dc = dc /\ w.dc \in DcRec /\ w.task = task /\ w.queue = queue
      /\ w.queue \in Seq(Entry)
    BY <1>1, <1>2, WorldParts DEF World
<1>4. PICK s, n : s = dc.sessions /\ n = Len(s)
    OBVIOUS
<1>5. /\ s \in Seq(SessionRec) /\ n \in 1 .. MaxSessions /\ DOMAIN s = 1 .. n
      /\ \A i \in 1 .. n : s[i] \in SessionRec
    BY <1>3, <1>4, SessionsParts DEF DcRec, SessionLists
<1>6. Agree(OnTheWay(w), dc, Zero) /\ IsFiniteSet(OnTheWay(w))
    BY <1>1, <1>3 DEF Fair, Agree
<1>7. \A i \in 1 .. n : s[i].requested \in Nat
    <2> SUFFICES ASSUME NEW i \in 1 .. n PROVE s[i].requested \in Nat
        OBVIOUS
    <2>1. PICK c : c = Cardinality(With(OnTheWay(w), i))
        OBVIOUS
    <2>2. c \in Nat
        BY <1>6, <2>1, WithFinite
    <2>3. s[i].requested = c + Zero[i] /\ Zero[i] = 0
        BY <1>4, <1>5, <1>6, <2>1, ZeroType, Constants DEF Agree
    <2> QED BY <2>2, <2>3
<1>8. PICK R : R = [requested : Nat, successes : 0 .. RetrySuccesses * MaxRemoves,
                    maxWaited : StartWaited .. MaxWaited]
    OBVIOUS
<1>9. s \in Seq(R)
    <2>1. ASSUME NEW i \in 1 .. n PROVE s[i] \in R
        <3>1. s[i] \in SessionRec /\ s[i].requested \in Nat
            BY <1>5, <1>7
        <3> QED BY <1>8, <3>1 DEF SessionRec
    <2>2. s \in [1 .. n -> R] /\ n \in Nat
        <3>1. s = [i \in 1 .. n |-> s[i]]
            BY <1>5
        <3> QED BY <1>5, <2>1, <3>1, Constants
    <2> QED BY <2>2, FunctionIsSeq
<1>10. dc.total \in Nat
    BY <1>6, FS_CardinalityType DEF Agree
<1>11. /\ dc.timeouts \in 0 .. RemoveAfterTimeouts - 1 /\ dc.removeTimes \in 0 .. MaxRemoves
       /\ dc.removeIndex \in 0 .. MaxSessions /\ dc.kill \in BOOLEAN
    BY <1>3 DEF DcRec
<1>12. queue \in Seq([task : Tasks, priority : -1 .. 1])
    BY <1>3 DEF Entry
<1>13. ASSUME NEW t \in Tasks
       PROVE  /\ task[t].state \in {"new", "on", "cut", "done", "short", "cancelled", "gone"}
              /\ task[t].sent \subseteq Request
              /\ task[t].unchecked \subseteq [offset : Offsets, index : 1 .. MaxSessions]
              /\ task[t].todo \cup task[t].hashes \cup task[t].fed \subseteq Offsets
    <2>1. PICK k : k = task[t]
        OBVIOUS
    <2>2. k \in TaskOf(A) /\ k.sent \subseteq RequestOf(A) /\ k.unchecked \subseteq Part
        BY <1>2, <1>3, <2>1, TaskParts
    <2>3. ASSUME NEW r \in k.sent PROVE r \in Request
        <3>1. PICK p : p = <<t, r>>
            OBVIOUS
        <3>2. p \in OnTheWay(w) /\ p[2] = r
            BY <1>3, <2>1, <3>1, WayIs
        <3>3. r.amount \in Nat /\ r \in RequestOf(A)
            BY <1>6, <2>2, <3>2 DEF Agree
        <3> QED BY <3>3 DEF RequestOf, Request, Kinds
    <2>4. k.state \in States /\ k.todo \cup k.hashes \cup k.fed \subseteq Offsets
        BY <2>2 DEF TaskOf
    <2> QED BY <2>1, <2>2, <2>3, <2>4 DEF Part, States
<1> QED BY <1>4, <1>5, <1>8, <1>9, <1>10, <1>11, <1>12, <1>13 DEF TypeOK

\* The amounts of the sessions are those of the requests on the way, nobody
\* remembers a session that was removed, and killing the sessions is planned
\* only while nothing is asked for - as long as some session has room for the
\* requests of a session that is removed.  removeSession of
\* download_manager_mtproto.cpp fills the session it removes, so that nothing
\* is sent there again while its requests are redirected; that is not enough
\* when every other session is as full.
THEOREM AmountsMatchUnlessOverbooked == Spec /\ []~Overbooked(dc) => []AmountsMatch
<1>1. Init => Good(World) /\ Fair(World, Zero)
    BY InitGood, InitFair
<1>2. Good(World) /\ Fair(World, Zero) /\ ~Overbooked(dc) /\ [Next]_vars
        => Good(World)' /\ Fair(World, Zero)'
    BY NextGood, NextFair DEF Zero
<1>3. Good(World) /\ Fair(World, Zero) => AmountsMatch
    BY FairAmounts
<1> QED BY <1>1, <1>2, <1>3, PTL DEF Spec

\* The variables keep their shapes under the same condition: no amount of a
\* session, nor the amount a request was sent with, is ever negative.
THEOREM TypesUnlessOverbooked == Spec /\ []~Overbooked(dc) => []TypeOK
<1>1. Init => Good(World) /\ Fair(World, Zero)
    BY InitGood, InitFair
<1>2. Good(World) /\ Fair(World, Zero) /\ ~Overbooked(dc) /\ [Next]_vars
        => Good(World)' /\ Fair(World, Zero)'
    BY NextGood, NextFair DEF Zero
<1>3. Good(World) /\ Fair(World, Zero) => TypeOK
    BY FairTypes
<1> QED BY <1>1, <1>2, <1>3, PTL DEF Spec

-----------------------------------------------------------------------------
(* Who looked for the next part last.                                      *)

\* While nothing is asked for, nothing is left ready.
Awake(w) ==
    w.dc.total = 0 => \A n \in 1 .. Len(w.queue) : ~ReadyToRequest(w.task[w.queue[n].task])

\* Nothing is asked for, every loader of the queue is ready and no CDN is used.
Stalled(w) ==
    /\ w.dc.total = 0 /\ Len(w.queue) # 0
    /\ \A n \in 1 .. Len(w.queue) : ReadyToRequest(w.task[w.queue[n].task])
    /\ \A t \in Tasks : ~UsesCdn(w.task[t])

LEMMA AwakeNotStalled ==
    ASSUME NEW w, Sane(w), Awake(w)
    PROVE  ~Stalled(w)
<1>1. PICK A : w \in Worlds(A)
    BY DEF Sane, Typed
<1>2. Len(w.queue) \in Nat
    BY <1>1, WorldParts, LenProperties
<1> QED BY <1>2 DEF Awake, Stalled

\* A request is on the way.
LEMMA AskedFor ==
    ASSUME NEW w, Sane(w), NEW t \in Tasks, w.task[t].sent # {}
    PROVE  w.dc.total # 0
<1>1. PICK r \in w.task[t].sent : TRUE
    OBVIOUS
<1>2. <<t, r>> \in OnTheWay(w)
    BY <1>1, WayIs
<1> QED BY <1>2, NothingAsked DEF Sane, Fair

LEMMA AskedIsAwake ==
    ASSUME NEW w, Sane(w), NEW t \in Tasks, w.task[t].sent # {}
    PROVE  Awake(w)
BY AskedFor DEF Awake

LEMMA NobodyAsks ==
    ASSUME NEW w, Sane(w), w.dc.total = 0
    PROVE  \A t \in Tasks : w.task[t].sent = {}
BY AskedFor

LEMMA NobodyAsksIsZero ==
    ASSUME NEW w, Sane(w), \A t \in Tasks : w.task[t].sent = {}
    PROVE  w.dc.total = 0
<1>1. OnTheWay(w) = {}
    BY WayIs
<1>2. w.dc.total = Cardinality({})
    BY <1>1 DEF Sane, Fair, Agree
<1> QED BY <1>2, FS_EmptySet

\* Nothing is asked for and a loader is ready: its part is sent.
LEMMA TrySendSends ==
    ASSUME NEW A, Int \subseteq A, NEW w \in Worlds(A), Sane(w), w.dc.total = 0,
           NEW m \in 1 .. Len(w.queue), ReadyToRequest(w.task[w.queue[m].task])
    PROVE  \E t \in Tasks : TrySendNextPart(w).task[t].sent # {}
<1> DEFINE s == w.dc.sessions
<1>0. w.queue \in Seq(Entry) /\ DOMAIN w.queue = 1 .. Len(w.queue) /\ Len(w.queue) \in Nat
    BY WorldParts, LenProperties
<1>1. /\ DOMAIN s = 1 .. Len(s) /\ Len(s) \in 1 .. MaxSessions
      /\ \A i \in 1 .. Len(s) : s[i] \in SessionRec
    BY WorldParts, SessionsParts DEF DcRec
<1>2. OnTheWay(w) = {}
    BY NothingAsked DEF Sane, Fair
<1>3. ASSUME NEW i \in 1 .. Len(s) PROVE s[i].requested = 0 /\ 0 + 1 <= s[i].maxWaited
    <2>1. s[i].requested = Cardinality(With({}, i)) + Zero[i]
        BY <1>2 DEF Sane, Fair, Agree
    <2>2. With({}, i) = {}
        BY DEF With
    <2>3. Cardinality(With({}, i)) = 0
        BY <2>2, FS_EmptySet
    <2>4. i \in 1 .. MaxSessions
        BY <1>1, Constants
    <2>5. Zero[i] = 0
        BY <2>4, ZeroType
    <2>6. s[i].maxWaited \in StartWaited .. MaxWaited
        BY <1>1 DEF SessionRec
    <2>7. 0 + 1 <= s[i].maxWaited
        BY <2>6, Constants
    <2> QED BY <2>1, <2>3, <2>5, <2>7
<1>4. PICK f : f = [i \in DOMAIN s |-> IF s[i].requested < s[i].maxWaited
                                       THEN s[i].requested ELSE MaxWaited]
    OBVIOUS
<1>5. PICK best : best = LeastLoaded(f)
    OBVIOUS
<1>6. best \in 1 .. Len(s)
    <2>1. PICK k : k = Len(s)
        OBVIOUS
    <2>2. k \in Nat \ {0} /\ f \in [1 .. k -> Int]
        BY <1>1, <1>4, <2>1, Constants DEF SessionRec
    <2> QED BY <1>5, <2>1, <2>2, LeastLoadedIs
<1>7. PICK next : next = NextTasks(w, w.dc.total > 0)
    OBVIOUS
<1>8. next = {i \in 1 .. Len(w.queue) : ReadyToRequest(w.task[w.queue[i].task])}
    <2>1. ~(w.dc.total > 0)
        OBVIOUS
    <2> QED BY <1>0, <1>7, <2>1 DEF NextTasks
<1>9. next # {} /\ next \subseteq Nat
    BY <1>0, <1>8
<1>10. PICK n : n = Min(next)
    OBVIOUS
<1>11. n \in next
    BY <1>9, <1>10, Smallest
<1>12. PICK t : t = w.queue[n].task
    OBVIOUS
<1>13. t \in Tasks /\ ReadyToRequest(w.task[t])
    <2>1. n \in 1 .. Len(w.queue) /\ ReadyToRequest(w.task[t])
        BY <1>8, <1>11, <1>12
    <2>2. w.queue[n] \in Entry
        BY <1>0, <2>1, ElementOfSeq
    <2> QED BY <1>12, <2>1, <2>2 DEF Entry
<1>14. TrySendNextPart(w) = LoadPart(w, t, best)
    <2>1. TrySendNextPart(w) = IF s[best].requested + 1 <= s[best].maxWaited /\ next # {}
                               THEN LoadPart(w, w.queue[Min(next)].task, best) ELSE w
        BY <1>4, <1>5, <1>7 DEF TrySendNextPart
    <2>2. s[best].requested + 1 <= s[best].maxWaited
        BY <1>3, <1>6
    <2> QED BY <1>9, <1>10, <1>12, <2>1, <2>2
<1>15. PICK o, request :
         Changed(w, LoadPart(w, t, best), t,
                 [w.task[t] EXCEPT !.todo = @ \ {o}, !.sent = @ \cup {request}],
                 ChangeRequestedAmount(w.dc, {request}, 1))
    <2>1. PICK i \in 1 .. Len(w.dc.sessions) : i = best
        BY <1>6
    <2>2. \E o \in w.task[t].todo : \E request :
             Changed(w, LoadPart(w, t, i), t,
                     [w.task[t] EXCEPT !.todo = @ \ {o}, !.sent = @ \cup {request}],
                     ChangeRequestedAmount(w.dc, {request}, 1))
        BY <1>13, LoadPartEffect
    <2> QED BY <2>1, <2>2
<1>16. LoadPart(w, t, best).task[t].sent # {}
    <2>1. PICK k : k = [w.task[t] EXCEPT !.todo = @ \ {o}, !.sent = @ \cup {request}]
        OBVIOUS
    <2>2. k.sent = w.task[t].sent \cup {request}
        BY <1>13, <2>1, TaskParts DEF TaskOf
    <2>3. LoadPart(w, t, best).task[t] = k
        BY <1>15, <2>1 DEF Changed
    <2> QED BY <2>2, <2>3
<1> QED BY <1>13, <1>14, <1>16

\* checkSendNext leaves nothing ready, unless something is asked for.
LEMMA AwakeCheckSendNext ==
    ASSUME NEW w, Sane(w)
    PROVE  Awake(CheckSendNext(w))
<1>1. PICK A : Int \subseteq A /\ w \in Worlds(A)
    BY DEF Sane, Typed
<1> DEFINE U == {v \in Worlds(A) : Sane(v)}
<1>2. ASSUME NEW v \in U PROVE TrySendNextPart(v) \in U
    <2>1. TrySendNextPart(v) \in Worlds(A) /\ Fair(TrySendNextPart(v), Zero) /\ Unasked(TrySendNextPart(v))
        BY <1>1, ZeroType, FairTrySend DEF Sane
    <2> QED BY <1>1, <2>1 DEF Sane, Typed
<1>3. \E v \in U : CheckSendNext(w) = TrySendNextPart(v)
    <2>1. w \in U
        BY <1>1
    <2> HIDE DEF U
    <2> QED BY <1>2, <2>1, CheckSendNextIn
<1>4. PICK v \in U : CheckSendNext(w) = TrySendNextPart(v)
    BY <1>3
<1>5. PICK x : x = TrySendNextPart(v)
    OBVIOUS
<1>6. x \in U /\ Sane(x)
    BY <1>2, <1>5
<1>7. v \in Worlds(A) /\ Sane(v)
    OBVIOUS
<1> HIDE DEF U
<1>8. CASE v.dc.total = 0 /\ \E m \in 1 .. Len(v.queue) : ReadyToRequest(v.task[v.queue[m].task])
    <2>1. PICK t \in Tasks : x.task[t].sent # {}
        BY <1>1, <1>5, <1>7, <1>8, TrySendSends
    <2> QED BY <1>4, <1>5, <1>6, <2>1, AskedIsAwake
<1>9. CASE x = v /\ ~ \E m \in 1 .. Len(v.queue) : ReadyToRequest(v.task[v.queue[m].task])
    BY <1>4, <1>5, <1>9 DEF Awake
<1>10. CASE x = v /\ v.dc.total # 0
    BY <1>4, <1>5, <1>10 DEF Awake
<1>11. CASE x # v
    <2>1. PICK n \in 1 .. Len(v.queue), i \in 1 .. Len(v.dc.sessions) :
             /\ v.queue[n].task \in Tasks /\ ReadyToRequest(v.task[v.queue[n].task])
             /\ x = LoadPart(v, v.queue[n].task, i)
        BY <1>5, <1>7, <1>11, TrySendEffect
    <2>2. PICK t \in Tasks : t = v.queue[n].task
        BY <2>1
    <2>3. PICK o, request :
            Changed(v, x, t, [v.task[t] EXCEPT !.todo = @ \ {o}, !.sent = @ \cup {request}],
                    ChangeRequestedAmount(v.dc, {request}, 1))
        BY <1>1, <1>7, <2>1, <2>2, LoadPartEffect
    <2>4. x.task[t].sent # {}
        <3>1. PICK k : k = [v.task[t] EXCEPT !.todo = @ \ {o}, !.sent = @ \cup {request}]
            OBVIOUS
        <3>2. k.sent = v.task[t].sent \cup {request}
            BY <1>7, <3>1, TaskParts DEF TaskOf
        <3>3. x.task[t] = k
            BY <2>3, <3>1 DEF Changed
        <3> QED BY <3>2, <3>3
    <2> QED BY <1>4, <1>5, <1>6, <2>4, AskedIsAwake
<1> QED BY <1>8, <1>9, <1>10, <1>11, Zenon

-----------------------------------------------------------------------------
(* A request for hashes is made by a loader that uses a CDN.               *)

\* Loader k has a reason to ask for the hashes of part o.
Bound(k, o) == k.cdn \/ k.hashes # {} \/ \E u \in k.unchecked : u.offset = o

Knows(k) == \A r \in k.sent : ForHashes(r) => Bound(k, r.offset)

Tied(w) == \A t \in Tasks : Knows(w.task[t])

\* What loader k knows of its CDN, l knows too.
Recalls(k, l) ==
    /\ k.cdn => l.cdn
    /\ k.hashes \subseteq l.hashes
    /\ \A u \in k.unchecked : \E n \in l.unchecked : n.offset = u.offset

LEMMA RecallsBound ==
    ASSUME NEW k, NEW l, Recalls(k, l), NEW o, Bound(k, o)
    PROVE  Bound(l, o)
BY DEF Recalls, Bound

LEMMA BoundUses ==
    ASSUME NEW k, NEW o, Bound(k, o)
    PROVE  UsesCdn(k)
BY DEF Bound, UsesCdn

LEMMA RecallsUses ==
    ASSUME NEW k, NEW l, Recalls(k, l), UsesCdn(k)
    PROVE  UsesCdn(l)
BY DEF Recalls, UsesCdn

LEMMA SameRecalls ==
    ASSUME NEW k, NEW l, l.cdn = k.cdn, l.hashes = k.hashes, l.unchecked = k.unchecked
    PROVE  Recalls(k, l)
BY DEF Recalls

\* Requests for hashes stay or go, and nothing is forgotten.
LEMMA KnowsKept ==
    ASSUME NEW k, Knows(k), NEW l, Recalls(k, l),
           \A r \in l.sent : ForHashes(r) => \E q \in k.sent : ForHashes(q) /\ q.offset = r.offset
    PROVE  Knows(l)
<1> SUFFICES ASSUME NEW r \in l.sent, ForHashes(r) PROVE Bound(l, r.offset)
    BY DEF Knows
<1>1. PICK q \in k.sent : ForHashes(q) /\ q.offset = r.offset
    OBVIOUS
<1>2. Bound(k, r.offset)
    BY <1>1 DEF Knows
<1> QED BY <1>2, RecallsBound

LEMMA TiedChanged ==
    ASSUME NEW w, Tied(w), NEW t \in Tasks, NEW v, NEW k, NEW d, Changed(w, v, t, k, d), Knows(k)
    PROVE  Tied(v)
BY DEF Tied, Changed

\* Parts that are sent are not requests for hashes.
LEMMA SendsRecalls ==
    ASSUME NEW A, NEW k \in TaskOf(A), NEW l, Sends(k, l)
    PROVE  /\ Recalls(k, l) /\ Recalls(l, k) /\ l.state = k.state
           /\ l.cdn = k.cdn /\ l.hashes = k.hashes /\ l.unchecked = k.unchecked
           /\ \A r \in l.sent : ForHashes(r) => r \in k.sent
<1>1. PICK todo, sent : todo = l.todo /\ sent = l.sent
    OBVIOUS
<1>2. l = [k EXCEPT !.todo = todo, !.sent = sent]
    BY <1>1 DEF Sends
<1>3. /\ l.state = k.state /\ l.cdn = k.cdn /\ l.hashes = k.hashes /\ l.unchecked = k.unchecked
    BY <1>2 DEF TaskOf
<1>4. Recalls(k, l) /\ Recalls(l, k)
    BY <1>3, SameRecalls
<1>5. \A r \in l.sent : ForHashes(r) => r \in k.sent
    BY DEF Sends, ForHashes
<1> QED BY <1>3, <1>4, <1>5

LEMMA TiedCheckSendNext ==
    ASSUME NEW w, Typed(w), Tied(w)
    PROVE  Tied(CheckSendNext(w))
<1>1. PICK A : Int \subseteq A /\ w \in Worlds(A)
    BY DEF Typed
<1>2. PICK v : v = CheckSendNext(w)
    OBVIOUS
<1>3. ASSUME NEW t \in Tasks PROVE Knows(v.task[t])
    <2>1. PICK k, l : k = w.task[t] /\ l = v.task[t]
        OBVIOUS
    <2>2. k \in TaskOf(A) /\ Sends(k, l)
        BY <1>1, <1>2, <2>1, TaskParts, CheckSendNextSends
    <2>3. Recalls(k, l) /\ \A r \in l.sent : ForHashes(r) => r \in k.sent
        BY <2>2, SendsRecalls
    <2>4. Knows(k)
        BY <2>1 DEF Tied
    <2>5. Knows(l)
        BY <2>3, <2>4, KnowsKept
    <2> QED BY <2>1, <2>5
<1> QED BY <1>2, <1>3 DEF Tied

\* Some requests of a loader are finished, and nothing is forgotten.
LEMMA KnowsFewer ==
    ASSUME NEW k, Knows(k), NEW l, Recalls(k, l), l.sent \subseteq k.sent
    PROVE  Knows(l)
BY KnowsKept

LEMMA KnowsNothing ==
    ASSUME NEW k, k.sent = {}
    PROVE  Knows(k)
BY DEF Knows

LEMMA TiedFinish ==
    ASSUME NEW w, Typed(w), Tied(w), NEW t \in Tasks, NEW S, S \subseteq w.task[t].sent
    PROVE  Tied(FinishSentRequests(w, t, S))
<1>1. PICK A : Int \subseteq A /\ w \in Worlds(A)
    BY DEF Typed
<1>2. PICK v, k, l : /\ v = FinishSentRequests(w, t, S) /\ k = w.task[t]
                     /\ l = [k EXCEPT !.sent = k.sent \ S]
    OBVIOUS
<1>3. k \in TaskOf(A) /\ Knows(k)
    BY <1>1, <1>2, TaskParts DEF Tied
<1>4. /\ l.sent = k.sent \ S /\ l.cdn = k.cdn /\ l.hashes = k.hashes
      /\ l.unchecked = k.unchecked
    BY <1>2, <1>3 DEF TaskOf
<1>5. Knows(l)
    BY <1>3, <1>4, SameRecalls, KnowsFewer
<1>6. Changed(w, v, t, l, ChangeRequestedAmount(w.dc, S, -1))
    BY <1>1, <1>2, FinishEffect
<1>7. Tied(v)
    BY <1>5, <1>6, TiedChanged
<1> QED BY <1>2, <1>7

LEMMA TiedSucceed ==
    ASSUME NEW w, Sane(w), Tied(w), NEW t \in Tasks, NEW r \in w.task[t].sent, NEW pace
    PROVE  Tied(SucceedSentRequest(w, t, r, pace)) /\ Awake(SucceedSentRequest(w, t, r, pace))
<1>1. PICK z : /\ Sane(z) /\ SucceedSentRequest(w, t, r, pace) = CheckSendNext(z)
               /\ z.task = FinishSentRequests(w, t, {r}).task
    BY SucceedLooks
<1>2. Tied(FinishSentRequests(w, t, {r}))
    <2>1. Typed(w)
        BY DEF Sane
    <2>2. PICK S : S = {r}
        OBVIOUS
    <2>3. S \subseteq w.task[t].sent
        BY <2>2
    <2>4. Tied(FinishSentRequests(w, t, S))
        BY <2>1, <2>3, TiedFinish
    <2> QED BY <2>2, <2>4
<1>3. Tied(z) /\ Typed(z)
    BY <1>1, <1>2 DEF Tied, Sane
<1> QED BY <1>1, <1>3, TiedCheckSendNext, AwakeCheckSendNext

LEMMA TiedCancel ==
    ASSUME NEW w, Typed(w), Tied(w), NEW t \in Tasks, NEW S, S \subseteq w.task[t].sent
    PROVE  Tied(CancelRequests(w, t, S))
<1>1. PICK A : Int \subseteq A /\ w \in Worlds(A)
    BY DEF Typed
<1>2. PICK v, k : v = CancelRequests(w, t, S) /\ k = w.task[t]
    OBVIOUS
<1>3. k \in TaskOf(A) /\ Knows(k)
    BY <1>1, <1>2, TaskParts DEF Tied
<1>4. PICK more \in BOOLEAN :
        Changed(w, v, t, WithRequests(k, k.sent \ S, more, k.unchecked),
                ChangeRequestedAmount(w.dc, S, -1))
    BY <1>1, <1>2, CancelEffect
<1>5. PICK l : l = WithRequests(k, k.sent \ S, more, k.unchecked)
    OBVIOUS
<1>6. /\ l.sent = k.sent \ S /\ l.cdn = k.cdn /\ l.hashes = k.hashes
      /\ l.unchecked = k.unchecked
    BY <1>3, <1>5 DEF TaskOf, WithRequests
<1>7. Knows(l)
    BY <1>3, <1>6, SameRecalls, KnowsFewer
<1>8. Tied(v)
    BY <1>4, <1>5, <1>7, TiedChanged
<1> QED BY <1>2, <1>8

\* A request is placed: for hashes only where a part waits for one.
Due(k, o, kind) == kind \in {"hashes", "failed hashes"} => Bound(k, o)

LEMMA TiedPlace ==
    ASSUME NEW w, Typed(w), Tied(w), NEW t \in Tasks, NEW data, data.offset \in Offsets,
           data.index \in 1 .. Len(w.dc.sessions), NEW kind \in Kinds,
           Due(w.task[t], data.offset, kind)
    PROVE  /\ Tied(PlaceSentRequest(w, t, data, kind))
           /\ PlaceSentRequest(w, t, data, kind).task[t].sent # {}
           /\ PlaceSentRequest(w, t, data, kind).task[t].unchecked = w.task[t].unchecked
<1>1. PICK A : Int \subseteq A /\ w \in Worlds(A)
    BY DEF Typed
<1>2. PICK v, k, q : /\ v = PlaceSentRequest(w, t, data, kind) /\ k = w.task[t]
                     /\ q = PlacedRequest(w, data, kind)
    OBVIOUS
<1>3. k \in TaskOf(A) /\ Knows(k)
    BY <1>1, <1>2, TaskParts DEF Tied
<1>4. q.offset = data.offset /\ q.kind = kind
    BY <1>2 DEF PlacedRequest
<1>5. PICK l : l = [k EXCEPT !.sent = k.sent \cup {q}]
    OBVIOUS
<1>6. /\ l.sent = k.sent \cup {q} /\ l.cdn = k.cdn /\ l.hashes = k.hashes
      /\ l.unchecked = k.unchecked
    BY <1>3, <1>5 DEF TaskOf
<1>7. Knows(l)
    <2>1. Recalls(k, l)
        BY <1>6, SameRecalls
    <2>2. ASSUME NEW r \in k.sent, ForHashes(r) PROVE Bound(l, r.offset)
        BY <1>3, <2>1, <2>2, RecallsBound DEF Knows
    <2>3. ASSUME ForHashes(q) PROVE Bound(l, q.offset)
        <3>1. Bound(k, q.offset)
            BY <1>2, <1>4, <2>3 DEF ForHashes, Due
        <3> QED BY <2>1, <3>1, RecallsBound
    <2> QED BY <1>6, <2>2, <2>3 DEF Knows
<1>8. Changed(w, v, t, l, ChangeRequestedAmount(w.dc, {q}, 1))
    <2>1. data.index \in 1 .. MaxSessions /\ w.dc.sessions[data.index].requested + 1 \in Int
        <3>1. /\ Len(w.dc.sessions) \in 1 .. MaxSessions
              /\ w.dc.sessions[data.index] \in SessionRec
            BY <1>1, WorldParts, SessionsParts DEF DcRec
        <3>2. w.dc.sessions[data.index].requested \in Int
            BY <3>1 DEF SessionRec
        <3>3. PICK n, i, y : /\ n = Len(w.dc.sessions) /\ i = data.index
                             /\ y = w.dc.sessions[data.index].requested
            OBVIOUS
        <3>4. i \in 1 .. MaxSessions /\ y + 1 \in Int
            <4>1. i \in 1 .. n /\ n \in 1 .. MaxSessions /\ y \in Int
                BY <3>1, <3>2, <3>3
            <4>2. MaxSessions \in Int
                BY Constants
            <4> QED BY <4>1, <4>2
        <3> QED BY <3>3, <3>4
    <2>2. Changed(w, PlaceSentRequest(w, t, data, kind), t,
                  [w.task[t] EXCEPT !.sent = @ \cup {PlacedRequest(w, data, kind)}],
                  ChangeRequestedAmount(w.dc, {PlacedRequest(w, data, kind)}, 1))
        BY <1>1, <2>1, PlaceEffect
    <2> QED BY <1>2, <1>5, <2>2
<1>9. Tied(v)
    BY <1>7, <1>8, TiedChanged
<1>10. v.task[t].sent # {} /\ v.task[t].unchecked = w.task[t].unchecked
    BY <1>2, <1>6, <1>8 DEF Changed
<1> QED BY <1>2, <1>9, <1>10

-----------------------------------------------------------------------------
(* What every step keeps: no loader waits for a look nobody will take.     *)

\* Loaders know what they ask hashes for, and the manager is not stalled.
Quiet(w) == Tied(w) /\ ~Stalled(w)

LEMMA InTasks ==
    ASSUME NEW w, Typed(w), NEW n \in 1 .. Len(w.queue)
    PROVE  w.queue[n].task \in Tasks
<1>1. PICK A : w \in Worlds(A)
    BY DEF Typed
<1>2. w.queue[n] \in Entry
    BY <1>1, WorldParts, ElementOfSeq
<1> QED BY <1>2 DEF Entry

\* A loader changes, is not ready unless it was, and forgets nothing of its CDN.
LEMMA QuietSame ==
    ASSUME NEW w, Typed(w), Tied(w), ~Stalled(w), NEW t \in Tasks, NEW v, NEW k,
           Changed(w, v, t, k, w.dc), Knows(k),
           ReadyToRequest(k) => ReadyToRequest(w.task[t]), UsesCdn(w.task[t]) => UsesCdn(k)
    PROVE  Quiet(v)
<1>1. Tied(v)
    BY TiedChanged
<1>2. v.queue = w.queue /\ v.dc = w.dc
    BY DEF Changed
<1>3. ASSUME Stalled(v) PROVE Stalled(w)
    <2>1. ASSUME NEW n \in 1 .. Len(w.queue) PROVE ReadyToRequest(w.task[w.queue[n].task])
        <3>1. PICK u \in Tasks : u = w.queue[n].task
            BY InTasks
        <3>2. ReadyToRequest(v.task[u])
            BY <1>2, <1>3, <3>1 DEF Stalled
        <3>3. CASE u = t
            BY <3>1, <3>2, <3>3 DEF Changed
        <3>4. CASE u # t
            BY <3>1, <3>2, <3>4 DEF Changed
        <3> QED BY <3>3, <3>4
    <2>2. ASSUME NEW u \in Tasks PROVE ~UsesCdn(w.task[u])
        <3>1. ~UsesCdn(v.task[u])
            BY <1>3 DEF Stalled
        <3> QED BY <3>1 DEF Changed
    <2> QED BY <1>2, <1>3, <2>1, <2>2 DEF Stalled
<1> QED BY <1>1, <1>3 DEF Quiet

LEMMA AwakeSame ==
    ASSUME NEW w, Typed(w), Awake(w), NEW t \in Tasks, NEW v, NEW k,
           Changed(w, v, t, k, w.dc), ReadyToRequest(k) => ReadyToRequest(w.task[t])
    PROVE  Awake(v)
<1>1. v.queue = w.queue /\ v.dc = w.dc
    BY DEF Changed
<1> SUFFICES ASSUME w.dc.total = 0, NEW n \in 1 .. Len(w.queue)
             PROVE  ~ReadyToRequest(v.task[w.queue[n].task])
    BY <1>1 DEF Awake
<1>2. PICK u \in Tasks : u = w.queue[n].task
    BY InTasks
<1>3. ~ReadyToRequest(w.task[u])
    BY <1>2 DEF Awake
<1> QED BY <1>2, <1>3 DEF Changed

\* A CDN is used.
LEMMA QuietUses ==
    ASSUME NEW w, Tied(w), NEW t \in Tasks, UsesCdn(w.task[t])
    PROVE  Quiet(w)
BY DEF Quiet, Stalled

\* Something is asked for.
LEMMA QuietAsked ==
    ASSUME NEW w, Sane(w), Tied(w), NEW t \in Tasks, w.task[t].sent # {}
    PROVE  Quiet(w)
BY AskedFor DEF Quiet, Stalled

\* A loader of the queue is not ready.
LEMMA QuietUnready ==
    ASSUME NEW w, Tied(w), NEW t, InLine(w.queue, t), ~ReadyToRequest(w.task[t])
    PROVE  Quiet(w)
BY DEF Quiet, Stalled, InLine

LEMMA CancelFileIs ==
    ASSUME NEW w, NEW t \in Tasks, Typed(w)
    PROVE  \E k : /\ Changed(w, CancelFile(w, t), t, k, ChangeRequestedAmount(w.dc, w.task[t].sent, -1))
                  /\ k.state = "cancelled" /\ k.sent = {} /\ k.unchecked = {}
                  /\ k.cdn = w.task[t].cdn /\ k.hashes = w.task[t].hashes
<1>1. PICK A : Int \subseteq A /\ w \in Worlds(A)
    BY DEF Typed
<1>2. PICK v : v = CancelAllRequests(w, t)
    OBVIOUS
<1>3. PICK more \in BOOLEAN :
        /\ v \in Worlds(A)
        /\ Changed(w, v, t, WithRequests(w.task[t], {}, more, {}),
                   ChangeRequestedAmount(w.dc, w.task[t].sent, -1))
    BY <1>1, <1>2, CancelAllEffect
<1>4. v.task[t] \in TaskOf(A) /\ w.task[t] \in TaskOf(A)
    BY <1>1, <1>3, TaskParts
<1>5. /\ v.task[t].sent = {} /\ v.task[t].unchecked = {}
      /\ v.task[t].cdn = w.task[t].cdn /\ v.task[t].hashes = w.task[t].hashes
    BY <1>3, <1>4 DEF Changed, WithRequests, TaskOf
<1>6. PICK k : k = [v.task[t] EXCEPT !.state = "cancelled"]
    OBVIOUS
<1>7. /\ k \in TaskOf(A) /\ k.state = "cancelled" /\ k.sent = {} /\ k.unchecked = {}
      /\ k.cdn = w.task[t].cdn /\ k.hashes = w.task[t].hashes
    BY <1>4, <1>5, <1>6 DEF TaskOf, States
<1>9. PICK c : c = WithTask(v, t, k)
    OBVIOUS
<1>10. c \in Worlds(A) /\ Changed(v, c, t, k, v.dc)
    BY <1>3, <1>7, <1>9, TaskEffect
<1>11. c = CancelFile(w, t)
    <2>1. CancelFile(w, t) = [v EXCEPT !.task[t].state = "cancelled"]
        BY <1>2 DEF CancelFile
    <2> QED BY <1>3, <1>6, <1>9, <2>1, WorldParts DEF WithTask
<1>12. Changed(w, c, t, k, ChangeRequestedAmount(w.dc, w.task[t].sent, -1))
    BY <1>3, <1>10 DEF Changed
<1> QED BY <1>7, <1>11, <1>12

\* A loader that is cancelled stays in the queue, and is not ready.
LEMMA QuietCancelFile ==
    ASSUME NEW w, Sane(w), Tied(w), NEW t \in Tasks, InLine(w.queue, t) \/ ~Stalled(w)
    PROVE  Quiet(CancelFile(w, t))
<1>0. Typed(w) /\ Queued(w)
    BY DEF Sane, Fair
<1>1. PICK k : /\ Changed(w, CancelFile(w, t), t, k, ChangeRequestedAmount(w.dc, w.task[t].sent, -1))
               /\ k.state = "cancelled" /\ k.sent = {} /\ k.unchecked = {}
               /\ k.cdn = w.task[t].cdn /\ k.hashes = w.task[t].hashes
    BY <1>0, CancelFileIs
<1>2. PICK v : v = CancelFile(w, t)
    OBVIOUS
<1>3. ~ReadyToRequest(k) /\ Knows(k)
    BY <1>1, KnowsNothing DEF ReadyToRequest
<1>4. Tied(v) /\ v.queue = w.queue /\ v.task[t] = k
    BY <1>1, <1>2, <1>3, TiedChanged DEF Changed
<1>5. CASE InLine(w.queue, t)
    BY <1>2, <1>3, <1>4, <1>5, QuietUnready
<1>6. CASE ~InLine(w.queue, t)
    <2>1. w.task[t].sent = {} /\ w.task[t].unchecked = {} /\ ~Stalled(w)
        BY <1>0, <1>6 DEF Queued
    <2>2. ChangeRequestedAmount(w.dc, w.task[t].sent, -1) = w.dc
        BY <2>1 DEF ChangeRequestedAmount
    <2>3. Changed(w, v, t, k, w.dc)
        BY <1>1, <1>2, <2>2
    <2>4. UsesCdn(w.task[t]) => UsesCdn(k)
        BY <1>1, <2>1 DEF UsesCdn
    <2>5. Quiet(v)
        BY <1>0, <1>3, <2>1, <2>3, <2>4, QuietSame
    <2> QED BY <1>2, <2>5
<1> QED BY <1>5, <1>6

LEMMA QuietCancelOnFail ==
    ASSUME NEW w, Sane(w), Quiet(w), NEW t \in Tasks
    PROVE  Quiet(CancelOnFail(w, t))
BY QuietCancelFile DEF CancelOnFail, Quiet

\* requestMoreCdnFileHashes: the request is for a part that waits.
LEMMA QuietRequestMore ==
    ASSUME NEW w, Sane(w), Quiet(w), NEW t \in Tasks
    PROVE  Quiet(RequestMoreCdnFileHashes(w, t))
<1>1. CASE w.task[t].unchecked = {} \/ \E r \in w.task[t].sent : ForHashes(r)
    BY <1>1 DEF RequestMoreCdnFileHashes
<1>2. CASE ~(w.task[t].unchecked = {} \/ \E r \in w.task[t].sent : ForHashes(r))
    <2>1. PICK B : Int \subseteq B /\ w \in Worlds(B)
        BY DEF Sane, Typed
    <2>2. PICK k : k = w.task[t]
        OBVIOUS
    <2>3. k.unchecked \subseteq Part /\ k.unchecked # {}
        BY <1>2, <2>1, <2>2, TaskParts
    <2>4. \E u \in k.unchecked : \A v \in k.unchecked : u.offset <= v.offset
        <3> DEFINE S == {u.offset : u \in k.unchecked}
        <3>1. S \subseteq Nat /\ S # {}
            BY <2>3, Constants DEF Part, Offsets
        <3>2. Min(S) \in S /\ \A o \in S : Min(S) <= o
            <4> HIDE DEF S
            <4> QED BY <3>1, Smallest
        <3> QED BY <3>2
    <2>5. PICK first : first = CHOOSE u \in k.unchecked : \A v \in k.unchecked : u.offset <= v.offset
        OBVIOUS
    <2>6. first \in k.unchecked
        BY <2>4, <2>5
    <2>7. PICK kind \in Kinds : kind = "hashes"
        BY DEF Kinds
    <2>8. PICK v : v = PlaceSentRequest(w, t, first, kind)
        OBVIOUS
    <2>9. RequestMoreCdnFileHashes(w, t) = v
        BY <1>2, <2>2, <2>5, <2>7, <2>8 DEF RequestMoreCdnFileHashes
    <2>10. first.offset \in Offsets /\ first.index \in 1 .. Len(w.dc.sessions)
        BY <2>2, <2>3, <2>6 DEF Part, Sane, Fair, Homed
    <2>11. Due(w.task[t], first.offset, kind)
        BY <2>2, <2>6 DEF Due, Bound
    <2>12. Typed(w) /\ Tied(w)
        BY DEF Sane, Quiet
    <2>13. Tied(v) /\ v.task[t].unchecked # {}
        BY <2>2, <2>3, <2>8, <2>10, <2>11, <2>12, TiedPlace
    <2>14. Quiet(v)
        BY <2>13, QuietUses DEF UsesCdn
    <2> QED BY <2>9, <2>14
<1> QED BY <1>1, <1>2

-----------------------------------------------------------------------------
(* The operators keep what is known of the CDNs, and look for the next part. *)

LEMMA TiedTask ==
    ASSUME NEW w, Tied(w), NEW v, v.task = w.task
    PROVE  Tied(v)
BY DEF Tied

LEMMA TiedLooks ==
    ASSUME NEW w, Sane(w), Tied(w)
    PROVE  Tied(CheckSendNext(w)) /\ Awake(CheckSendNext(w))
BY TiedCheckSendNext, AwakeCheckSendNext DEF Sane

LEMMA TiedAdd ==
    ASSUME NEW w, Sane(w), Tied(w), NEW t \in Tasks, NEW p \in 0 .. 1
    PROVE  Quiet(AddToQueue(w, t, p))
<1>1. PICK v : Sane(v) /\ AddToQueue(w, t, p) = CheckSendNext(v) /\ v.task = w.task
    BY AddLooks
<1>2. PICK x : x = CheckSendNext(v)
    OBVIOUS
<1>3. Tied(v)
    BY <1>1, TiedTask
<1>4. Tied(x) /\ Awake(x) /\ Sane(x)
    BY <1>1, <1>2, <1>3, TiedLooks, SaneCheckSendNext
<1>5. ~Stalled(x)
    BY <1>4, AwakeNotStalled
<1> QED BY <1>1, <1>2, <1>4, <1>5 DEF Quiet

LEMMA TiedRemove ==
    ASSUME NEW w, Sane(w), Tied(w), NEW t \in Tasks, w.task[t].sent = {}, w.task[t].unchecked = {}
    PROVE  /\ Tied(RemoveFromQueue(w, t)) /\ Awake(RemoveFromQueue(w, t))
           /\ \A u \in Tasks : Sends(w.task[u], RemoveFromQueue(w, t).task[u])
<1>1. PICK v : Sane(v) /\ RemoveFromQueue(w, t) = CheckSendNext(v) /\ v.task = w.task
    BY RemoveLooks
<1>2. PICK A : Int \subseteq A /\ v \in Worlds(A)
    BY <1>1 DEF Sane, Typed
<1>3. PICK x : x = CheckSendNext(v)
    OBVIOUS
<1>4. Tied(v)
    BY <1>1, TiedTask
<1>5. Tied(x) /\ Awake(x)
    BY <1>1, <1>3, <1>4, TiedLooks
<1>6. \A u \in Tasks : Sends(v.task[u], x.task[u])
    BY <1>2, <1>3, CheckSendNextSends
<1> QED BY <1>1, <1>3, <1>5, <1>6

\* feedPart: the loader of a file that is whole leaves the queue.
LEMMA TiedFeedParts ==
    ASSUME NEW w, Sane(w), Tied(w), NEW t \in Tasks, NEW X, X \subseteq Offsets,
           NEW short, NEW saved
    PROVE  /\ Tied(FeedParts(w, t, X, short, saved))
           /\ (Awake(w) => Awake(FeedParts(w, t, X, short, saved)))
           /\ Recalls(w.task[t], FeedParts(w, t, X, short, saved).task[t])
<1>1. CASE t \in Streams
    <2>1. FeedParts(w, t, X, short, saved) = w
        BY <1>1 DEF FeedParts
    <2> QED BY <2>1, SameRecalls
<1>2. CASE t \notin Streams
    <2>1. PICK A : Int \subseteq A /\ w \in Worlds(A)
        BY DEF Sane, Typed
    <2>2. PICK j, k, state : /\ j = w.task[t]
                             /\ state = IF short THEN "cut" ELSE w.task[t].state
                             /\ k = [j EXCEPT !.fed = j.fed \cup X, !.state = state]
        OBVIOUS
    <2>3. j \in TaskOf(A) /\ Knows(j)
        BY <2>1, <2>2, TaskParts DEF Tied
    <2>4. /\ k \in TaskOf(A) /\ k.todo = j.todo /\ k.state = state
          /\ k.sent = j.sent /\ k.unchecked = j.unchecked /\ k.cdn = j.cdn /\ k.hashes = j.hashes
        <3>1. state \in States
            BY <2>2, <2>3 DEF States, TaskOf
        <3> QED BY <2>2, <2>3, <3>1 DEF TaskOf
    <2>5. PICK v : v = WithTask(w, t, k)
        OBVIOUS
    <2>6. v \in Worlds(A) /\ Changed(w, v, t, k, w.dc) /\ v.task[t] = k
        BY <2>1, <2>4, <2>5, TaskEffect DEF Changed
    <2>7. Sane(v)
        <3>1. /\ \A u \in k.unchecked : u.index \in 1 .. Len(w.dc.sessions)
              /\ \A o \in k.todo : \A r \in k.sent : r.offset # o
              /\ k.unchecked \subseteq w.task[t].unchecked /\ k.sent = w.task[t].sent
            BY <2>2, <2>4 DEF Sane, Fair, Homed, Unasked
        <3> QED BY <2>1, <2>4, <2>5, <3>1, SaneWithTask
    <2>8. v = [w EXCEPT !.task[t].fed = @ \cup X, !.task[t].state = state]
        BY <2>1, <2>2, <2>5, WorldParts DEF WithTask
    <2>9. Recalls(j, k) /\ Knows(k)
        BY <2>3, <2>4, SameRecalls, KnowsFewer
    <2>10. Tied(v)
        BY <2>6, <2>9, TiedChanged
    <2>11. CASE ~HaveSentRequests(j) /\ (state = "cut" \/ j.todo = {})
        <3>1. PICK x, end : /\ x = RemoveFromQueue(v, t)
                            /\ end = IF ~saved THEN "cancelled"
                                     ELSE IF state = "cut" THEN "short" ELSE "done"
            OBVIOUS
        <3>2. v.task[t].sent = {} /\ v.task[t].unchecked = {}
            BY <2>4, <2>6, <2>11 DEF HaveSentRequests
        <3>3. Tied(x) /\ Awake(x) /\ Sends(k, x.task[t]) /\ Typed(x)
            BY <2>6, <2>7, <2>10, <3>1, <3>2, TiedRemove, SaneRemove DEF Sane
        <3>4. PICK B : Int \subseteq B /\ x \in Worlds(B)
            BY <3>3 DEF Typed
        <3>5. PICK l, m : l = x.task[t] /\ m = [l EXCEPT !.state = end]
            OBVIOUS
        <3>6. l \in TaskOf(B) /\ Recalls(k, l) /\ Knows(l)
            BY <2>4, <3>3, <3>4, <3>5, TaskParts, SendsRecalls DEF Tied
        <3>7. /\ m \in TaskOf(B) /\ m.sent = l.sent /\ m.unchecked = l.unchecked
              /\ m.cdn = l.cdn /\ m.hashes = l.hashes /\ m.state # "on"
            <4>1. end \in States /\ end # "on"
                BY <3>1 DEF States
            <4> QED BY <3>5, <3>6, <4>1 DEF TaskOf
        <3>8. Recalls(l, m) /\ Knows(m) /\ ~ReadyToRequest(m)
            BY <3>6, <3>7, SameRecalls, KnowsFewer DEF ReadyToRequest
        <3>9. PICK y : y = WithTask(x, t, m)
            OBVIOUS
        <3>10. Changed(x, y, t, m, x.dc)
            BY <3>4, <3>7, <3>9, TaskEffect
        <3>11. Tied(y) /\ Awake(y) /\ y.task[t] = m
            BY <3>3, <3>8, <3>10, TiedChanged, AwakeSame DEF Changed
        <3>12. Recalls(j, m)
            BY <2>9, <3>6, <3>8 DEF Recalls
        <3>13. FeedParts(w, t, X, short, saved) = [x EXCEPT !.task[t].state = end]
            BY <1>2, <2>2, <2>8, <2>11, <3>1 DEF FeedParts
        <3>14. FeedParts(w, t, X, short, saved) = y
            BY <3>4, <3>5, <3>9, <3>13, WorldParts DEF WithTask
        <3> QED BY <2>2, <3>11, <3>12, <3>14
    <2>12. CASE ~(~HaveSentRequests(j) /\ (state = "cut" \/ j.todo = {}))
        <3>1. FeedParts(w, t, X, short, saved) = v
            BY <1>2, <2>2, <2>8, <2>12 DEF FeedParts
        <3>2. ASSUME Awake(w) PROVE Awake(v)
            <4>1. ReadyToRequest(k) => ReadyToRequest(w.task[t])
                BY <2>2, <2>4 DEF ReadyToRequest
            <4>2. Typed(w)
                BY DEF Sane
            <4> QED BY <2>6, <3>2, <4>1, <4>2, AwakeSame
        <3> QED BY <2>2, <2>6, <2>9, <2>10, <3>1, <3>2
    <2> QED BY <2>11, <2>12
<1> QED BY <1>1, <1>2

LEMMA TiedHashes ==
    ASSUME NEW w, Typed(w), Tied(w), NEW t \in Tasks, NEW X, Mid(w, t, X),
           NEW hashes \in SUBSET Offsets
    PROVE  /\ Tied(AddCdnHashes(w, t, hashes))
           /\ Recalls(w.task[t], AddCdnHashes(w, t, hashes).task[t])
<1>1. PICK A : w \in Worlds(A)
    BY DEF Typed
<1>2. PICK v : v = AddCdnHashes(w, t, hashes)
    OBVIOUS
<1>3. /\ v.queue = w.queue /\ v.dc = w.dc
      /\ v.task[t] = [w.task[t] EXCEPT !.hashes = w.task[t].hashes \cup hashes]
      /\ \A u \in Tasks \ {t} : v.task[u] = w.task[u]
    BY <1>2, MidAddCdnHashes
<1>4. PICK k, l : k = w.task[t] /\ l = v.task[t]
    OBVIOUS
<1>5. k \in TaskOf(A) /\ Knows(k) /\ l = [k EXCEPT !.hashes = k.hashes \cup hashes]
    BY <1>1, <1>3, <1>4, TaskParts DEF Tied
<1>6. /\ l.sent = k.sent /\ l.unchecked = k.unchecked /\ l.cdn = k.cdn
      /\ l.hashes = k.hashes \cup hashes
    BY <1>5 DEF TaskOf
<1>7. Recalls(k, l)
    BY <1>6 DEF Recalls
<1>8. Knows(l)
    BY <1>5, <1>6, <1>7, KnowsFewer
<1>9. Changed(w, v, t, l, w.dc)
    BY <1>3, <1>4 DEF Changed
<1>10. Tied(v)
    BY <1>8, <1>9, TiedChanged
<1> QED BY <1>2, <1>4, <1>7, <1>10

\* changeCDNParams: requests made again are for parts.
LEMMA TiedChangeCDNParams ==
    ASSUME NEW w, Typed(w), Tied(w), NEW t \in Tasks, NEW data, data.offset \in Offsets,
           data.index \in 1 .. Len(w.dc.sessions), NEW cdn \in BOOLEAN,
           NEW hashes \in SUBSET Offsets
    PROVE  /\ Tied(ChangeCDNParams(w, t, data, cdn, hashes))
           /\ ChangeCDNParams(w, t, data, cdn, hashes).task[t].sent # {}
<1>1. PICK B : Int \subseteq B /\ w \in Worlds(B)
    BY DEF Typed
<1>2. PICK k : k = w.task[t]
    OBVIOUS
<1>3. k \in TaskOf(B) /\ Knows(k)
    BY <1>1, <1>2, TaskParts DEF Tied
<1>4. PICK sent : sent = IF k.cdn # cdn THEN Renewed(w, t) ELSE k.sent
    OBVIOUS
<1>5. PICK l : l = [k EXCEPT !.cdn = cdn, !.hashes = k.hashes \cup hashes, !.sent = sent]
    OBVIOUS
<1>6. l = CdnTask(w, t, cdn, hashes)
    BY <1>2, <1>4, <1>5 DEF CdnTask
<1>7. /\ l.cdn = cdn /\ l.sent = sent /\ l.unchecked = k.unchecked
      /\ l.hashes = k.hashes \cup hashes
    BY <1>3, <1>5 DEF TaskOf
<1>8. \E A : Int \subseteq A /\ w \in Worlds(A) /\ l \in TaskOf(A) /\ Knows(l)
    <2>1. CASE k.cdn # cdn
        <3>1. PICK A : /\ B \subseteq A /\ sent \in SentOf(A)
                       /\ \E f \in [k.sent -> sent] :
                            /\ \A r \in k.sent : f[r].offset = r.offset /\ f[r].index = r.index
                                                 /\ f[r].kind = "part"
                            /\ \A q \in sent : \E r \in k.sent : f[r] = q
            BY <1>1, <1>2, <1>4, <2>1, RenewedIs
        <3>2. \A q \in sent : q.kind = "part"
            BY <3>1
        <3>3. Knows(l)
            BY <1>7, <3>2 DEF Knows, ForHashes
        <3>4. Int \subseteq A /\ w \in Worlds(A)
            BY <1>1, <3>1, Widen
        <3>5. k \in TaskOf(A)
            BY <1>2, <3>4, TaskParts
        <3>6. l \in TaskOf(A)
            BY <1>5, <3>1, <3>5 DEF TaskOf
        <3> QED BY <3>3, <3>4, <3>6
    <2>2. CASE k.cdn = cdn
        <3>1. sent = k.sent
            BY <1>4, <2>2
        <3>2. l \in TaskOf(B)
            BY <1>3, <1>5, <3>1 DEF TaskOf
        <3>3. Recalls(k, l)
            BY <1>7, <2>2 DEF Recalls
        <3>4. Knows(l)
            BY <1>3, <1>7, <3>1, <3>3, KnowsFewer
        <3> QED BY <1>1, <3>2, <3>4
    <2> QED BY <2>1, <2>2
<1>9. PICK A : Int \subseteq A /\ w \in Worlds(A) /\ l \in TaskOf(A) /\ Knows(l)
    BY <1>8
<1>10. PICK v : v = WithTask(w, t, l)
    OBVIOUS
<1>11. v \in Worlds(A) /\ Changed(w, v, t, l, w.dc)
    BY <1>9, <1>10, TaskEffect
<1>12. Tied(v) /\ Typed(v) /\ data.index \in 1 .. Len(v.dc.sessions)
    BY <1>9, <1>11, TiedChanged DEF Typed, Changed
<1>13. PICK kind \in Kinds : kind = "part"
    BY DEF Kinds
<1>14. Due(v.task[t], data.offset, kind)
    BY <1>13 DEF Due
<1>15. PICK x : x = PlaceSentRequest(v, t, data, kind)
    OBVIOUS
<1>16. Tied(x) /\ x.task[t].sent # {}
    BY <1>12, <1>14, <1>15, TiedPlace
<1>17. ChangeCDNParams(w, t, data, cdn, hashes) = x
    BY <1>1, <1>6, <1>10, <1>13, <1>15, ChangeCDNParamsIs DEF MakeRequest
<1> QED BY <1>16, <1>17

\* A request gets another kind; it is for hashes only if it was.
LEMMA QuietRekinded ==
    ASSUME NEW w, Sane(w), Quiet(w), NEW t \in Tasks, NEW r \in w.task[t].sent, NEW kind \in Kinds,
           kind \in {"hashes", "failed hashes"} => ForHashes(r)
    PROVE  Quiet(Rekinded(w, t, r, kind))
<1>1. PICK A : Int \subseteq A /\ w \in Worlds(A)
    BY DEF Sane, Typed
<1>2. PICK k, q : k = w.task[t] /\ q = [r EXCEPT !.kind = kind]
    OBVIOUS
<1>3. PICK S : S = (k.sent \ {r}) \cup {q}
    OBVIOUS
<1>4. k \in TaskOf(A) /\ k.sent \subseteq RequestOf(A) /\ IsFiniteSet(k.sent) /\ Knows(k)
    BY <1>1, <1>2, TaskParts DEF Quiet, Tied
<1>5. r \in RequestOf(A) /\ r \in k.sent
    BY <1>2, <1>4
<1>6. q \in RequestOf(A) /\ q.offset = r.offset /\ q.kind = kind
    BY <1>2, <1>5 DEF RequestOf
<1>7. S \in SentOf(A)
    <2>1. IsFiniteSet(k.sent \ {r})
        BY <1>4, FS_Subset
    <2>2. IsFiniteSet(S)
        BY <1>3, <2>1, FS_AddElement
    <2> QED BY <1>3, <1>4, <1>6, <2>2 DEF SentOf
<1>8. PICK l : l = [k EXCEPT !.sent = S]
    OBVIOUS
<1>9. /\ l \in TaskOf(A) /\ l.todo = k.todo /\ l.sent = S /\ l.unchecked = k.unchecked
      /\ l.state = k.state /\ l.cdn = k.cdn /\ l.hashes = k.hashes
    BY <1>4, <1>7, <1>8 DEF TaskOf
<1>10. Knows(l)
    <2>1. ASSUME NEW a \in l.sent, ForHashes(a)
          PROVE  \E b \in k.sent : ForHashes(b) /\ b.offset = a.offset
        BY <1>3, <1>5, <1>6, <1>9, <2>1 DEF ForHashes
    <2> QED BY <1>4, <1>9, <2>1, SameRecalls, KnowsKept
<1>11. PICK v : v = WithTask(w, t, l)
    OBVIOUS
<1>12. Changed(w, v, t, l, w.dc)
    BY <1>1, <1>9, <1>11, TaskEffect
<1>13. /\ ReadyToRequest(l) => ReadyToRequest(w.task[t])
       /\ UsesCdn(w.task[t]) => UsesCdn(l)
    BY <1>2, <1>9 DEF ReadyToRequest, UsesCdn
<1>14. Quiet(v)
    <2>1. Typed(w) /\ Tied(w) /\ ~Stalled(w)
        BY DEF Sane, Quiet
    <2> QED BY <1>10, <1>12, <1>13, <2>1, QuietSame
<1>15. v = Rekinded(w, t, r, kind)
    <2>1. Rekinded(w, t, r, kind) = [w EXCEPT !.task[t].sent = S]
        BY <1>2, <1>3 DEF Rekinded
    <2> QED BY <1>1, <1>2, <1>8, <1>11, <2>1, WorldParts DEF WithTask
<1> QED BY <1>14, <1>15

LEMMA QuietFail ==
    ASSUME NEW w, Sane(w), Quiet(w), NEW t \in Tasks, NEW r \in w.task[t].sent
    PROVE  Quiet(Fail(w, t, r))
<1>1. CASE t \in Files
    <2>1. Tied(w) /\ ~Stalled(w)
        BY DEF Quiet
    <2> QED BY <1>1, <2>1, QuietCancelFile DEF Fail
<1>2. CASE t \notin Files
    <2>1. PICK kind : kind = IF ForHashes(r) THEN "failed hashes" ELSE "failed"
        OBVIOUS
    <2>2. kind \in Kinds /\ (kind \in {"hashes", "failed hashes"} => ForHashes(r))
        BY <2>1 DEF Kinds
    <2>3. Fail(w, t, r) = Rekinded(w, t, r, kind)
        BY <1>2, <2>1 DEF Fail, Rekinded
    <2> QED BY <2>2, <2>3, QuietRekinded
<1> QED BY <1>1, <1>2

-----------------------------------------------------------------------------
(* Answers leave nothing stalled.                                          *)

LEMMA QuietArrives ==
    ASSUME NEW v, Quiet(v), Becomes(v)
    PROVE  Quiet(World')
<1>1. World'.dc = v.dc /\ World'.queue = v.queue /\ World'.task = v.task
    BY DEF World, Becomes
<1> QED BY <1>1 DEF Quiet, Tied, Stalled

\* Something was asked for.
LEMMA PlacedArrives ==
    ASSUME NEW v, Tied(v), Becomes(v), NEW t \in Tasks, v.task[t].sent # {}, Sane(World')
    PROVE  Quiet(World')
<1>1. World'.task = v.task
    BY DEF World, Becomes
<1>2. PICK x : x = World'
    OBVIOUS
<1>3. Sane(x) /\ Tied(x) /\ x.task[t].sent # {}
    BY <1>1, <1>2, TiedTask
<1>4. Quiet(x)
    BY <1>3, QuietAsked
<1> QED BY <1>2, <1>4

LEMMA QuietAwake ==
    ASSUME NEW w, Sane(w), Tied(w), Awake(w)
    PROVE  Quiet(w)
BY AwakeNotStalled DEF Quiet

\* What an answer finds.
LEMMA TiedAnswer ==
    ASSUME Good(World), Fair(World, Zero), Quiet(World), Running, NEW t \in Tasks,
           NEW r \in task[t].sent, NEW pace
    PROVE  /\ Held(SucceedSentRequest(World, t, r, pace), t, r)
           /\ Tied(SucceedSentRequest(World, t, r, pace))
           /\ Awake(SucceedSentRequest(World, t, r, pace))
           /\ Held(FinishSentRequests(World, t, {r}), t, r)
           /\ Tied(FinishSentRequests(World, t, {r}))
<1>1. PICK w, S : w = World /\ S = {r}
    OBVIOUS
<1>2. Sane(w) /\ r \in w.task[t].sent /\ Tied(w) /\ Typed(w)
    BY <1>1, SaneAnswer DEF Quiet, Sane
<1>3. Tied(SucceedSentRequest(w, t, r, pace)) /\ Awake(SucceedSentRequest(w, t, r, pace))
    BY <1>2, TiedSucceed
<1>4. S \subseteq w.task[t].sent
    BY <1>1, <1>2
<1>5. Tied(FinishSentRequests(w, t, S))
    BY <1>2, <1>4, TiedFinish
<1>6. /\ Held(SucceedSentRequest(World, t, r, pace), t, r)
      /\ Held(FinishSentRequests(World, t, {r}), t, r)
    BY SaneAnswer
<1> QED BY <1>1, <1>3, <1>5, <1>6

LEMMA QuietPartLoaded ==
    ASSUME Good(World), Fair(World, Zero), Quiet(World), NEW t \in Tasks, NEW r \in task[t].sent,
           NEW pace, NEW written, NEW short, NEW saved, PartLoaded(t, r, pace, written, short, saved)
    PROVE  Quiet(World')
<1>1. Running
    BY DEF PartLoaded, Usual, Fault
<1>2. PICK w, X : w = World /\ X = {r.offset}
    OBVIOUS
<1>3. PICK v : v = SucceedSentRequest(w, t, r, pace)
    OBVIOUS
<1>4. Held(v, t, r) /\ Tied(v) /\ Awake(v)
    BY <1>1, <1>2, <1>3, TiedAnswer
<1>5. Sane(v) /\ X \subseteq Offsets
    BY <1>2, <1>4 DEF Held
<1>6. Quiet(FeedParts(v, t, X, short, saved))
    BY <1>4, <1>5, SaneFeedParts, TiedFeedParts, QuietAwake
<1>7. Quiet(CancelOnFail(v, t))
    BY <1>4, <1>5, QuietAwake, QuietCancelOnFail
<1>8. PICK x : x = IF written THEN FeedParts(v, t, X, short, saved) ELSE CancelOnFail(v, t)
    OBVIOUS
<1>9. Becomes(x) /\ Quiet(x)
    BY <1>2, <1>3, <1>6, <1>7, <1>8 DEF PartLoaded
<1> QED BY <1>9, QuietArrives

LEMMA QuietRedirected ==
    ASSUME Good(World), Fair(World, Zero), Quiet(World), NEW t \in Tasks, NEW r \in task[t].sent,
           NEW pace, NEW hashes \in {{}, {r.offset}}, NEW usable,
           Redirected(t, r, pace, hashes, usable), Sane(World')
    PROVE  Quiet(World')
<1>1. Running
    BY DEF Redirected, Usual, Fault
<1>2. PICK w : w = World
    OBVIOUS
<1>3. PICK v : v = SucceedSentRequest(w, t, r, pace)
    OBVIOUS
<1>4. Held(v, t, r) /\ Tied(v) /\ Awake(v)
    BY <1>1, <1>2, <1>3, TiedAnswer
<1>5. /\ hashes \in SUBSET Offsets /\ Typed(v) /\ r.offset \in Offsets
      /\ r.index \in 1 .. Len(v.dc.sessions)
    BY <1>4 DEF Held, Sane
<1>6. PICK x, cdn : x = ChangeCDNParams(v, t, r, cdn, hashes) /\ cdn = TRUE
    OBVIOUS
<1>7. cdn \in BOOLEAN
    BY <1>6
<1>8. Tied(x) /\ x.task[t].sent # {}
    BY <1>4, <1>5, <1>6, <1>7, TiedChangeCDNParams
<1>9. CASE usable
    <2>1. Becomes(x)
        BY <1>2, <1>3, <1>6, <1>9 DEF Redirected
    <2> QED BY <1>8, <2>1, PlacedArrives
<1>10. CASE ~usable
    <2>1. PICK y : y = CancelOnFail(v, t)
        OBVIOUS
    <2>2. Becomes(y)
        BY <1>2, <1>3, <1>10, <2>1 DEF Redirected
    <2>3. Quiet(y)
        <3>1. Sane(v)
            BY <1>4 DEF Held
        <3> QED BY <1>4, <2>1, <3>1, QuietAwake, QuietCancelOnFail
    <2> QED BY <2>2, <2>3, QuietArrives
<1> QED BY <1>9, <1>10

\* A part waits for its hash.
LEMMA QuietWaits ==
    ASSUME NEW w, Tied(w), Sane(w), NEW t \in Tasks, NEW N, w.task[t].unchecked \subseteq N, N # {},
           Sane([w EXCEPT !.task[t].unchecked = N])
    PROVE  Quiet(RequestMoreCdnFileHashes([w EXCEPT !.task[t].unchecked = N], t))
<1>1. PICK A : Int \subseteq A /\ w \in Worlds(A)
    BY DEF Sane, Typed
<1>2. PICK k, l : k = w.task[t] /\ l = [k EXCEPT !.unchecked = N]
    OBVIOUS
<1>3. k \in TaskOf(A) /\ Knows(k)
    BY <1>1, <1>2, TaskParts DEF Tied
<1>4. l.sent = k.sent /\ l.unchecked = N /\ l.cdn = k.cdn /\ l.hashes = k.hashes
    BY <1>2, <1>3 DEF TaskOf
<1>5. Recalls(k, l) /\ k.unchecked \subseteq l.unchecked
    BY <1>2, <1>4 DEF Recalls
<1>6. Knows(l) /\ UsesCdn(l)
    BY <1>3, <1>4, <1>5, KnowsFewer DEF UsesCdn
<1>7. PICK v : v = [w EXCEPT !.task[t].unchecked = N]
    OBVIOUS
<1>8. v.task[t] = l /\ \A u \in Tasks \ {t} : v.task[u] = w.task[u]
    BY <1>1, <1>2, <1>7, WorldParts
<1>9. Tied(v)
    BY <1>6, <1>8 DEF Tied
<1>10. Quiet(v)
    BY <1>6, <1>8, <1>9, QuietUses
<1>11. Quiet(RequestMoreCdnFileHashes(v, t))
    BY <1>7, <1>10, QuietRequestMore
<1> QED BY <1>7, <1>11

LEMMA QuietCdnPartLoaded ==
    ASSUME Good(World), Fair(World, Zero), Quiet(World), NEW t \in Tasks, NEW r \in task[t].sent,
           NEW pace, NEW valid, NEW short, NEW saved, CdnPartLoaded(t, r, pace, valid, short, saved)
    PROVE  Quiet(World')
<1>1. Running
    BY DEF CdnPartLoaded, Usual, Fault
<1>2. PICK w, X : w = World /\ X = {r.offset}
    OBVIOUS
<1>3. PICK v : v = SucceedSentRequest(w, t, r, pace)
    OBVIOUS
<1>4. Held(v, t, r) /\ Tied(v) /\ Awake(v)
    BY <1>1, <1>2, <1>3, TiedAnswer
<1>5. Sane(v) /\ X \subseteq Offsets /\ r.offset \in Offsets
    BY <1>2, <1>4 DEF Held
<1>6. r.index \in 1 .. MaxSessions
    BY AtAnswer
<1>7. Quiet(FeedParts(v, t, X, short, saved))
    BY <1>4, <1>5, SaneFeedParts, TiedFeedParts, QuietAwake
<1>8. Quiet(CancelOnFail(v, t))
    BY <1>4, <1>5, QuietAwake, QuietCancelOnFail
<1>9. PICK part : part = [offset |-> r.offset, index |-> r.index]
    OBVIOUS
<1>10. part \in Part /\ part.offset = r.offset /\ part.index = r.index
    BY <1>5, <1>6, <1>9 DEF Part
<1>11. PICK N : N = IF part.offset \in {u.offset : u \in v.task[t].unchecked}
                    THEN v.task[t].unchecked ELSE v.task[t].unchecked \cup {part}
    OBVIOUS
<1>12. PICK y : y = RequestMoreCdnFileHashes([v EXCEPT !.task[t].unchecked = N], t)
    OBVIOUS
<1>13. Quiet(y)
    <2>1. Sane([v EXCEPT !.task[t].unchecked = N])
        BY <1>4, <1>10, <1>11, HeldWaits
    <2>2. v.task[t].unchecked \subseteq N /\ N # {}
        BY <1>11
    <2> QED BY <1>4, <1>5, <1>12, <2>1, <2>2, QuietWaits
<1>14. PICK x : x = IF r.offset \notin v.task[t].hashes THEN y
                    ELSE IF valid THEN FeedParts(v, t, X, short, saved) ELSE CancelOnFail(v, t)
    OBVIOUS
<1>15. Becomes(x)
    <2>1. N = IF r.offset \in {u.offset : u \in v.task[t].unchecked}
              THEN v.task[t].unchecked ELSE v.task[t].unchecked \cup {part}
        BY <1>10, <1>11
    <2>2. y = RequestMoreCdnFileHashes(
                [v EXCEPT !.task[t].unchecked =
                    IF r.offset \in {u.offset : u \in v.task[t].unchecked}
                    THEN @ ELSE @ \cup {part}], t)
        BY <1>12, <2>1
    <2> QED BY <1>2, <1>3, <1>9, <1>14, <2>2 DEF CdnPartLoaded
<1>16. Quiet(x)
    BY <1>7, <1>8, <1>13, <1>14
<1> QED BY <1>15, <1>16, QuietArrives

\* An answer is followed by a request, perhaps after more hashes.
LEMMA QuietPlaced ==
    ASSUME Good(World), Fair(World, Zero), Quiet(World), Running, NEW t \in Tasks,
           NEW r \in task[t].sent, NEW kind \in {"part", "reupload"}, NEW hashes \in SUBSET Offsets,
           \/ Becomes(PlaceSentRequest(FinishSentRequests(World, t, {r}), t, r, kind))
           \/ Becomes(PlaceSentRequest(AddCdnHashes(FinishSentRequests(World, t, {r}), t, hashes),
                                       t, r, kind)),
           Sane(World')
    PROVE  Quiet(World')
<1>1. PICK v, pace, f, X : /\ v = FinishSentRequests(World, t, {r}) /\ X = {r.offset}
                           /\ pace = "slow" /\ f = SucceedSentRequest(World, t, r, pace)
    OBVIOUS
<1>2. Held(v, t, r) /\ Tied(v)
    BY <1>1, TiedAnswer
<1>3. /\ Typed(v) /\ Mid(v, t, X) /\ r.offset \in Offsets
    BY <1>1, <1>2 DEF Held, Sane
<1>4. kind \in Kinds
    BY DEF Kinds
<1>5. PICK y : y = AddCdnHashes(v, t, hashes)
    OBVIOUS
<1>6. Held(y, t, r) /\ Tied(y)
    BY <1>2, <1>3, <1>5, HeldHashes, TiedHashes
<1>7. ASSUME NEW z, Held(z, t, r), Tied(z), Becomes(PlaceSentRequest(z, t, r, kind))
      PROVE  Quiet(World')
    <2>1. /\ Typed(z) /\ r.index \in 1 .. Len(z.dc.sessions)
        BY <1>7 DEF Held, Sane
    <2>2. Due(z.task[t], r.offset, kind)
        BY DEF Due
    <2>3. PICK x : x = PlaceSentRequest(z, t, r, kind)
        OBVIOUS
    <2>4. Tied(x) /\ x.task[t].sent # {}
        BY <1>3, <1>4, <1>7, <2>1, <2>2, <2>3, TiedPlace
    <2> QED BY <1>7, <2>3, <2>4, PlacedArrives
<1> QED BY <1>1, <1>2, <1>5, <1>6, <1>7

\* The parts whose hash is good are taken; the hashes stay.
LEMMA QuietTaken ==
    ASSUME NEW w, Tied(w), Typed(w), NEW t \in Tasks, NEW good, w.task[t].hashes # {}
    PROVE  Tied(Taken(w, t, good)) /\ UsesCdn(Taken(w, t, good).task[t])
<1>1. PICK A : w \in Worlds(A)
    BY DEF Typed
<1>2. PICK k, l : k = w.task[t] /\ l = [k EXCEPT !.unchecked = k.unchecked \ good]
    OBVIOUS
<1>3. k \in TaskOf(A)
    BY <1>1, <1>2, TaskParts
<1>4. l.hashes # {}
    BY <1>2, <1>3 DEF TaskOf
<1>5. Knows(l) /\ UsesCdn(l)
    BY <1>4 DEF Knows, Bound, UsesCdn
<1>6. PICK v : v = Taken(w, t, good)
    OBVIOUS
<1>7. v.task[t] = l /\ \A u \in Tasks \ {t} : v.task[u] = w.task[u]
    BY <1>1, <1>2, <1>6, WorldParts DEF Taken
<1>8. Tied(v)
    BY <1>5, <1>7 DEF Tied
<1> QED BY <1>5, <1>6, <1>7, <1>8

LEMMA QuietHashesDone ==
    ASSUME Good(World), Fair(World, Zero), Quiet(World), NEW t \in Tasks, NEW r \in task[t].sent,
           NEW hashes \in {{}, {r.offset}}, NEW wrong, NEW short, NEW saved,
           GetCdnFileHashesDone(t, r, hashes, wrong, short, saved)
    PROVE  Quiet(World')
<1>1. Running /\ ForHashes(r)
    BY DEF GetCdnFileHashesDone, Usual, Fault, ForHashes
<1>2. PICK z, pace, f, S : /\ z = World /\ pace = "slow" /\ f = SucceedSentRequest(z, t, r, pace)
                           /\ S = {r}
    OBVIOUS
<1>3. Sane(z) /\ Tied(z) /\ r \in z.task[t].sent
    BY <1>1, <1>2, SaneAnswer DEF Quiet
<1>4. hashes \in SUBSET Offsets
    BY AtAnswer
<1>5. PICK v : v = FinishSentRequests(z, t, S)
    OBVIOUS
<1>6. Held(v, t, r) /\ Tied(v)
    BY <1>1, <1>2, <1>5, TiedAnswer
<1>7. UsesCdn(v.task[t])
    <2>1. PICK A : z \in Worlds(A)
        BY <1>3 DEF Sane, Typed
    <2>2. PICK j, l : j = z.task[t] /\ l = v.task[t]
        OBVIOUS
    <2>3. S \subseteq z.task[t].sent
        BY <1>2, <1>3
    <2>4. FinishSentRequests(z, t, S).task[t] = [z.task[t] EXCEPT !.sent = @ \ S]
        BY <1>3, <2>3, SaneFinish
    <2>5. j \in TaskOf(A) /\ Knows(j) /\ r \in j.sent
        BY <1>3, <2>1, <2>2, TaskParts DEF Tied
    <2>6. l.cdn = j.cdn /\ l.hashes = j.hashes /\ l.unchecked = j.unchecked
        BY <1>5, <2>2, <2>4, <2>5 DEF TaskOf
    <2>7. UsesCdn(j)
        BY <1>1, <2>5, BoundUses DEF Knows
    <2> QED BY <2>2, <2>6, <2>7 DEF UsesCdn
<1>8. PICK w : w = AddCdnHashes(v, t, hashes)
    OBVIOUS
<1>9. Sane(w) /\ Tied(w) /\ UsesCdn(w.task[t])
    <2>1. PICK X : X = {r.offset}
        OBVIOUS
    <2>2. Mid(v, t, X) /\ Typed(v)
        BY <1>6, <2>1 DEF Held, Sane
    <2>3. Sane(w)
        BY <1>4, <1>6, <1>8, HeldHashes DEF Held
    <2>4. Tied(w) /\ Recalls(v.task[t], w.task[t])
        BY <1>4, <1>6, <1>8, <2>2, TiedHashes
    <2> QED BY <1>7, <2>3, <2>4, RecallsUses
<1>10. PICK k : k = w.task[t]
    OBVIOUS
<1>11. PICK checked : checked = {u \in k.unchecked : u.offset \in k.hashes}
    OBVIOUS
<1>12. PICK good : good = {u \in checked : u.offset < wrong}
    OBVIOUS
<1>13. PICK a, X : a = Taken(w, t, good) /\ X = OffsetsOf(good)
    OBVIOUS
<1>14. PICK fed : fed = FeedParts(a, t, X, short, saved)
    OBVIOUS
<1>15. Quiet(CancelOnFail(w, t))
    BY <1>9, QuietUses, QuietCancelOnFail
<1>16. ASSUME good # {} PROVE Quiet(CancelOnFail(fed, t)) /\ Quiet(RequestMoreCdnFileHashes(fed, t))
    <2>1. w.task[t].hashes # {}
        BY <1>10, <1>11, <1>12, <1>16
    <2>2. Typed(w)
        BY <1>9 DEF Sane
    <2>3. Tied(a) /\ UsesCdn(a.task[t]) /\ Sane(a)
        BY <1>9, <1>13, <2>1, <2>2, QuietTaken, SaneTaken
    <2>4. X \subseteq Offsets
        <3>1. k.unchecked \subseteq Part
            BY <1>10, <2>2, TaskParts DEF Typed
        <3> QED BY <1>11, <1>12, <1>13, <3>1 DEF OffsetsOf, Part
    <2>5. Tied(fed) /\ Sane(fed) /\ Recalls(a.task[t], fed.task[t])
        BY <1>14, <2>3, <2>4, TiedFeedParts, SaneFeedParts
    <2>6. Quiet(fed)
        BY <2>3, <2>5, RecallsUses, QuietUses
    <2> QED BY <2>5, <2>6, QuietCancelOnFail, QuietRequestMore
<1>17. PICK x : x = IF good = {} THEN CancelOnFail(w, t)
                    ELSE IF good # checked THEN CancelOnFail(fed, t)
                    ELSE RequestMoreCdnFileHashes(fed, t)
    OBVIOUS
<1>18. Quiet(x)
    BY <1>15, <1>16, <1>17
<1>19. Becomes(x)
    BY <1>2, <1>5, <1>8, <1>10, <1>11, <1>12, <1>13, <1>14, <1>17 DEF GetCdnFileHashesDone, Taken, OffsetsOf
<1> QED BY <1>18, <1>19, QuietArrives

LEMMA QuietTokenInvalid ==
    ASSUME Good(World), Fair(World, Zero), Quiet(World), NEW t \in Tasks, NEW r \in task[t].sent,
           TokenInvalid(t, r), Sane(World')
    PROVE  Quiet(World')
<1>1. Running
    BY DEF TokenInvalid, Fault
<1>2. PICK w, pace, f : w = World /\ pace = "slow" /\ f = SucceedSentRequest(w, t, r, pace)
    OBVIOUS
<1>3. PICK v : v = FinishSentRequests(w, t, {r})
    OBVIOUS
<1>4. Held(v, t, r) /\ Tied(v)
    BY <1>1, <1>2, <1>3, TiedAnswer
<1>5. Typed(v) /\ r.offset \in Offsets /\ r.index \in 1 .. Len(v.dc.sessions)
    BY <1>4 DEF Held, Sane
<1>6. PICK x, none, cdn : x = ChangeCDNParams(v, t, r, cdn, none) /\ none = {} /\ cdn = FALSE
    OBVIOUS
<1>7. none \in SUBSET Offsets /\ cdn \in BOOLEAN
    BY <1>6
<1>8. Tied(x) /\ x.task[t].sent # {}
    BY <1>4, <1>5, <1>6, <1>7, TiedChangeCDNParams
<1>9. Becomes(x)
    BY <1>2, <1>3, <1>6 DEF TokenInvalid
<1> QED BY <1>8, <1>9, PlacedArrives

LEMMA QuietAnswer ==
    ASSUME Good(World), Fair(World, Zero), Quiet(World), NEW t \in Tasks, NEW r \in task[t].sent,
           Answer(t, r), Sane(World')
    PROVE  Quiet(World')
<1>0. ASSUME Running PROVE Sane(World) /\ World.task = task
    BY <1>0, SaneStart
<1>1. ASSUME NEW pace, NEW written, NEW short, NEW saved,
             PartLoaded(t, r, pace, written, short, saved)
      PROVE Quiet(World')
    BY <1>1, QuietPartLoaded
<1>2. ASSUME NEW pace, NEW hashes \in {{}, {r.offset}}, NEW usable, Redirected(t, r, pace, hashes, usable)
      PROVE  Quiet(World')
    BY <1>2, QuietRedirected
<1>3. ASSUME NEW pace, NEW valid, NEW short, NEW saved,
             CdnPartLoaded(t, r, pace, valid, short, saved)
      PROVE Quiet(World')
    BY <1>3, QuietCdnPartLoaded
<1>4. CASE ReuploadNeeded(t, r)
    <2>1. Running
        BY <1>4 DEF ReuploadNeeded, Fault
    <2>2. PICK kind \in {"part", "reupload"}, hashes \in SUBSET Offsets : kind = "reupload" /\ hashes = {}
        OBVIOUS
    <2>3. Becomes(PlaceSentRequest(FinishSentRequests(World, t, {r}), t, r, kind))
        BY <1>4, <2>2 DEF ReuploadNeeded
    <2> QED BY <2>1, <2>2, <2>3, QuietPlaced
<1>5. ASSUME NEW hashes \in {{}, {r.offset}}, ReuploadDone(t, r, hashes) PROVE Quiet(World')
    <2>1. Running
        BY <1>5 DEF ReuploadDone, Usual
    <2>2. hashes \in SUBSET Offsets
        BY AtAnswer
    <2>3. PICK kind \in {"part", "reupload"} : kind = "part"
        OBVIOUS
    <2>4. Becomes(PlaceSentRequest(AddCdnHashes(FinishSentRequests(World, t, {r}), t, hashes),
                                   t, r, kind))
        BY <1>5, <2>3 DEF ReuploadDone, MakeRequest
    <2> QED BY <2>1, <2>2, <2>3, <2>4, QuietPlaced
<1>6. ASSUME NEW hashes \in {{}, {r.offset}}, NEW wrong, NEW short, NEW saved,
           GetCdnFileHashesDone(t, r, hashes, wrong, short, saved)
      PROVE  Quiet(World')
    BY <1>6, QuietHashesDone
<1>7. CASE TokenInvalid(t, r)
    BY <1>7, QuietTokenInvalid
<1>8. CASE PartFailed(t, r)
    <2>1. Running
        BY <1>8 DEF PartFailed, Fault
    <2>2. PICK w : w = World
        OBVIOUS
    <2>3. Quiet(w) /\ Sane(w) /\ r \in w.task[t].sent
        BY <1>0, <2>1, <2>2
    <2>4. PICK x : x = Fail(w, t, r)
        OBVIOUS
    <2>5. Quiet(x)
        BY <2>3, <2>4, QuietFail
    <2>6. Becomes(x)
        BY <1>8, <2>2, <2>4 DEF PartFailed
    <2> QED BY <2>5, <2>6, QuietArrives
<1>9. CASE ReferenceExpired(t, r)
    <2>1. Running /\ "stale" \in Kinds /\ "stale" \notin {"hashes", "failed hashes"}
        BY <1>9 DEF ReferenceExpired, Fault, Kinds
    <2>2. PICK w : w = World
        OBVIOUS
    <2>3. Quiet(w) /\ Sane(w) /\ r \in w.task[t].sent
        BY <1>0, <2>1, <2>2
    <2>4. PICK x : x = Rekinded(w, t, r, "stale")
        OBVIOUS
    <2>5. Quiet(x)
        BY <2>1, <2>3, <2>4, QuietRekinded
    <2>6. Becomes(x)
        BY <1>9, <2>2, <2>4 DEF ReferenceExpired, Rekinded
    <2> QED BY <2>5, <2>6, QuietArrives
<1>10. ASSUME NEW fresh, ReferenceRefreshed(t, r, fresh) PROVE Quiet(World')
    <2>1. Running
        BY <1>10 DEF ReferenceRefreshed, Usual
    <2>2. PICK w : w = World
        OBVIOUS
    <2>3. Quiet(w) /\ Sane(w) /\ r \in w.task[t].sent
        BY <1>0, <2>1, <2>2
    <2>4. CASE fresh
        <3>1. PICK kind \in {"part", "reupload"}, hashes \in SUBSET Offsets : kind = "part" /\ hashes = {}
            OBVIOUS
        <3>2. Becomes(PlaceSentRequest(FinishSentRequests(World, t, {r}), t, r, kind))
            BY <1>10, <2>4, <3>1 DEF ReferenceRefreshed, MakeRequest
        <3> QED BY <2>1, <3>1, <3>2, QuietPlaced
    <2>5. CASE ~fresh
        <3>1. PICK x : x = Fail(w, t, r)
            OBVIOUS
        <3>2. Quiet(x)
            BY <2>3, <3>1, QuietFail
        <3>3. Becomes(x)
            BY <1>10, <2>2, <2>5, <3>1 DEF ReferenceRefreshed
        <3> QED BY <3>2, <3>3, QuietArrives
    <2> QED BY <2>4, <2>5
<1> QED BY <1>1, <1>2, <1>3, <1>4, <1>5, <1>6, <1>7, <1>8, <1>9, <1>10, Zenon DEF Answer

-----------------------------------------------------------------------------
(* The owners of the loaders leave nothing stalled.                        *)

LEMMA QuietMoreHashes ==
    ASSUME Good(World), Fair(World, Zero), Quiet(World), NEW t \in Tasks, MoreCdnFileHashes(t)
    PROVE  Quiet(World')
<1>1. Running
    BY DEF MoreCdnFileHashes, Usual
<1>2. PICK w : w = World
    OBVIOUS
<1>3. Mid(w, t, {}) /\ Sane(w) /\ Quiet(w)
    BY <1>1, <1>2, SaneStart
<1>4. PICK A : Int \subseteq A /\ w \in Worlds(A)
    BY <1>3 DEF Mid, Typed
<1>5. PICK k, l : k = w.task[t] /\ l = [k EXCEPT !.more = FALSE]
    OBVIOUS
<1>6. k \in TaskOf(A) /\ Sound(t, k, {}) /\ Apart(k, {}) /\ Knows(k)
    BY <1>3, <1>4, <1>5, TaskParts DEF Mid, Quiet, Tied
<1>7. /\ l \in TaskOf(A) /\ l.state = k.state /\ l.todo = k.todo /\ l.sent = k.sent
      /\ l.unchecked = k.unchecked /\ l.fed = k.fed /\ l.cdn = k.cdn /\ l.hashes = k.hashes
    BY <1>5, <1>6 DEF TaskOf
<1>8. Sound(t, l, {}) /\ l.sent = w.task[t].sent /\ l.unchecked \subseteq w.task[t].unchecked
    <2>1. PICK X : X = {}
        OBVIOUS
    <2>2. Sound(t, k, X) /\ Apart(k, X)
        BY <1>6, <2>1
    <2>3. Sound(t, l, X)
        BY <1>7, <2>2, SameRequests, Zenon
    <2>4. l.sent = w.task[t].sent /\ l.unchecked \subseteq w.task[t].unchecked
        BY <1>5, <1>7
    <2> QED BY <2>1, <2>3, <2>4
<1>9. PICK v : v = WithTask(w, t, l)
    OBVIOUS
<1>10. Sane(v)
    BY <1>3, <1>4, <1>7, <1>8, <1>9, SaneOwned
<1>11. Quiet(v)
    <2>1. Changed(w, v, t, l, w.dc)
        BY <1>4, <1>7, <1>9, TaskEffect
    <2>2. Knows(l)
        BY <1>6, <1>7, SameRecalls, KnowsFewer
    <2>3. /\ ReadyToRequest(l) => ReadyToRequest(w.task[t])
          /\ UsesCdn(w.task[t]) => UsesCdn(l)
        BY <1>5, <1>7 DEF ReadyToRequest, UsesCdn
    <2>4. Typed(w) /\ Tied(w) /\ ~Stalled(w)
        BY <1>3 DEF Sane, Quiet
    <2> QED BY <2>1, <2>2, <2>3, <2>4, QuietSame
<1>12. v = [w EXCEPT !.task[t].more = FALSE]
    BY <1>4, <1>5, <1>9, WorldParts DEF WithTask
<1>13. PICK x : x = RequestMoreCdnFileHashes(v, t)
    OBVIOUS
<1>14. Quiet(x)
    BY <1>10, <1>11, <1>13, QuietRequestMore
<1>15. Becomes(x)
    BY <1>2, <1>12, <1>13 DEF MoreCdnFileHashes
<1> QED BY <1>14, <1>15, QuietArrives

LEMMA QuietStartLoading ==
    ASSUME Good(World), Fair(World, Zero), Quiet(World), NEW t \in Tasks, StartLoading(t)
    PROVE  Quiet(World')
<1>1. Running
    BY DEF StartLoading, Usual
<1>2. PICK w : w = World
    OBVIOUS
<1>3. Mid(w, t, {}) /\ Sane(w) /\ Tied(w)
    BY <1>1, <1>2, SaneStart DEF Quiet
<1>4. PICK A : Int \subseteq A /\ w \in Worlds(A)
    BY <1>3 DEF Mid, Typed
<1>5. PICK k, l : k = w.task[t] /\ l = [k EXCEPT !.state = "on"]
    OBVIOUS
<1>6. k \in TaskOf(A) /\ Sound(t, k, {}) /\ Knows(k)
    BY <1>3, <1>4, <1>5, TaskParts DEF Mid, Tied
<1>7. /\ l \in TaskOf(A) /\ l.todo = k.todo /\ l.sent = k.sent /\ l.unchecked = k.unchecked
      /\ l.cdn = k.cdn /\ l.hashes = k.hashes
    BY <1>5, <1>6 DEF TaskOf, States
<1>8. l.sent = w.task[t].sent /\ l.unchecked \subseteq w.task[t].unchecked
    BY <1>5, <1>7
<1>9. \A u \in l.unchecked : u.index \in 1 .. Len(w.dc.sessions)
    BY <1>3, <1>8 DEF Sane, Fair, Homed
<1>10. \A o \in l.todo : \A q \in l.sent : q.offset # o
    BY <1>6, <1>7 DEF Sound
<1>11. PICK v : v = WithTask(w, t, l)
    OBVIOUS
<1>12. Sane(v)
    <2>1. Sane(WithTask(w, t, l))
        BY <1>3, <1>4, <1>7, <1>8, <1>9, <1>10, SaneWithTask
    <2> QED BY <1>11, <2>1
<1>13. Tied(v)
    <2>1. Changed(w, v, t, l, w.dc)
        BY <1>4, <1>7, <1>11, TaskEffect
    <2>2. Knows(l)
        BY <1>6, <1>7, SameRecalls, KnowsFewer
    <2> QED BY <1>3, <2>1, <2>2, TiedChanged
<1>14. v = [w EXCEPT !.task[t].state = "on"]
    BY <1>4, <1>5, <1>11, WorldParts DEF WithTask
<1>15. PICK x : x = AddToQueue(v, t, 0)
    OBVIOUS
<1>16. Quiet(x)
    <2>1. 0 \in 0 .. 1
        OBVIOUS
    <2> QED BY <1>12, <1>13, <1>15, <2>1, TiedAdd
<1>17. Becomes(x)
    BY <1>2, <1>14, <1>15 DEF StartLoading
<1> QED BY <1>16, <1>17, QuietArrives

LEMMA QuietCancelLoading ==
    ASSUME Good(World), Fair(World, Zero), Quiet(World), NEW t \in Tasks, CancelLoading(t)
    PROVE  Quiet(World')
<1>1. Running
    BY DEF CancelLoading, Input
<1>2. PICK w, x : w = World /\ x = CancelFile(w, t)
    OBVIOUS
<1>3. Sane(w) /\ Tied(w) /\ ~Stalled(w)
    BY <1>1, <1>2, SaneStart DEF Quiet
<1>4. Quiet(x)
    BY <1>2, <1>3, QuietCancelFile
<1>5. Becomes(x)
    BY <1>2 DEF CancelLoading
<1> QED BY <1>4, <1>5, QuietArrives

LEMMA QuietDestroy ==
    ASSUME Good(World), Fair(World, Zero), Quiet(World), NEW t \in Tasks, Destroy(t)
    PROVE  Quiet(World')
<1>1. Running
    BY DEF Destroy, Usual, Input
<1>2. PICK w : w = World
    OBVIOUS
<1>3. Sane(w) /\ Tied(w)
    BY <1>1, <1>2, SaneStart DEF Quiet
<1>4. PICK c : c = CancelAllRequests(w, t)
    OBVIOUS
<1>5. Sane(c) /\ c.task[t].sent = {} /\ c.task[t].unchecked = {}
    BY <1>3, <1>4, SaneCancelAll
<1>6. Tied(c)
    <2>1. PICK A : Int \subseteq A /\ w \in Worlds(A)
        BY <1>3 DEF Sane, Typed
    <2>2. PICK k, d : Changed(w, c, t, k, d)
        BY <1>4, <2>1, CancelAllEffect
    <2>3. k.sent = {}
        BY <1>5, <2>2 DEF Changed
    <2> QED BY <1>3, <2>2, <2>3, KnowsNothing, TiedChanged
<1>7. PICK v : v = RemoveFromQueue(c, t)
    OBVIOUS
<1>8. Sane(v) /\ v.task[t].sent = {} /\ v.task[t].unchecked = {} /\ Tied(v) /\ Awake(v)
    BY <1>5, <1>6, <1>7, SaneRemove, TiedRemove
<1>9. PICK B : Int \subseteq B /\ v \in Worlds(B)
    BY <1>8 DEF Sane, Typed
<1>10. PICK k : k = [NewTask(t) EXCEPT !.state = "gone"]
    OBVIOUS
<1>11. k \in TaskOf(B) /\ k.state = "gone" /\ k.sent = {} /\ k.unchecked = {}
    <2>1. NewTask(t) \in TaskOf(B) /\ NewTask(t).sent = {} /\ NewTask(t).unchecked = {}
        BY NewTaskType
    <2> QED BY <1>10, <2>1 DEF TaskOf, States
<1>12. k.sent = v.task[t].sent /\ k.unchecked \subseteq v.task[t].unchecked /\ Sound(t, k, {})
    BY <1>8, <1>11 DEF Sound, Whole, Loads
<1>13. PICK x : x = WithTask(v, t, k)
    OBVIOUS
<1>14. Sane(x)
    BY <1>8, <1>9, <1>11, <1>12, <1>13, SaneOwned
<1>15. Tied(x) /\ Awake(x)
    <2>1. Changed(v, x, t, k, v.dc)
        BY <1>9, <1>11, <1>13, TaskEffect
    <2>2. Knows(k) /\ ~ReadyToRequest(k) /\ Typed(v)
        BY <1>8, <1>11, KnowsNothing DEF ReadyToRequest, Sane
    <2> QED BY <1>8, <2>1, <2>2, TiedChanged, AwakeSame
<1>16. x = [v EXCEPT !.task[t] = [NewTask(t) EXCEPT !.state = "gone"]]
    BY <1>10, <1>13 DEF WithTask
<1>17. Becomes(x)
    BY <1>2, <1>4, <1>7, <1>16 DEF Destroy
<1>18. Quiet(x)
    BY <1>14, <1>15, QuietAwake
<1> QED BY <1>17, <1>18, QuietArrives

LEMMA QuietLoad ==
    ASSUME Good(World), Fair(World, Zero), Quiet(World), NEW t \in Tasks, NEW o \in Offsets, Load(t, o)
    PROVE  Quiet(World')
<1>1. Running /\ t \notin Files
    BY DownloadsAssumption DEF Load, Input
<1>2. PICK w : w = World
    OBVIOUS
<1>3. Mid(w, t, {}) /\ w.task = task /\ Sane(w) /\ Tied(w)
    BY <1>1, <1>2, SaneStart DEF Quiet
<1>4. PICK A : Int \subseteq A /\ w \in Worlds(A)
    BY <1>3 DEF Mid, Typed
<1>5. PICK k, l : k = w.task[t] /\ l = [k EXCEPT !.todo = k.todo \cup {o}]
    OBVIOUS
<1>6. k \in TaskOf(A) /\ Sound(t, k, {}) /\ Knows(k)
    BY <1>3, <1>4, <1>5, TaskParts DEF Mid, Tied
<1>7. /\ l \in TaskOf(A) /\ l.state = k.state /\ l.todo = k.todo \cup {o} /\ l.sent = k.sent
      /\ l.unchecked = k.unchecked /\ l.fed = k.fed /\ k.priority \in 0 .. 1
      /\ l.cdn = k.cdn /\ l.hashes = k.hashes
    BY <1>5, <1>6 DEF TaskOf
<1>8. ~HaveSentRequestForOffset(k, o)
    BY <1>3, <1>5 DEF Load
<1>9. Sound(t, l, {}) /\ l.sent = w.task[t].sent /\ l.unchecked \subseteq w.task[t].unchecked
    BY <1>1, <1>5, <1>6, <1>7, <1>8 DEF Sound, HaveSentRequestForOffset
<1>10. PICK v : v = WithTask(w, t, l)
    OBVIOUS
<1>11. Sane(v)
    BY <1>3, <1>4, <1>7, <1>9, <1>10, SaneOwned
<1>12. Tied(v)
    <2>1. Changed(w, v, t, l, w.dc)
        BY <1>4, <1>7, <1>10, TaskEffect
    <2>2. Knows(l)
        BY <1>6, <1>7, SameRecalls, KnowsFewer
    <2> QED BY <1>3, <2>1, <2>2, TiedChanged
<1>13. v = [w EXCEPT !.task[t].todo = @ \cup {o}]
    BY <1>4, <1>5, <1>10, WorldParts DEF WithTask
<1>14. PICK x, p : x = AddToQueue(v, t, p) /\ p = k.priority
    OBVIOUS
<1>15. Quiet(x)
    BY <1>7, <1>11, <1>12, <1>14, TiedAdd
<1>16. Becomes(x)
    BY <1>2, <1>3, <1>5, <1>13, <1>14 DEF Load
<1> QED BY <1>15, <1>16, QuietArrives

\* Requests for hashes of other parts stay, and so do the parts.
LEMMA KnowsWithout ==
    ASSUME NEW k, Knows(k), NEW o, NEW l, l.cdn = k.cdn, l.hashes = k.hashes,
           l.sent = k.sent \ {r \in k.sent : r.offset = o},
           l.unchecked = {u \in k.unchecked : u.offset # o}
    PROVE  Knows(l)
<1> SUFFICES ASSUME NEW r \in l.sent, ForHashes(r) PROVE Bound(l, r.offset)
    BY DEF Knows
<1>1. r \in k.sent /\ r.offset # o
    OBVIOUS
<1>2. Bound(k, r.offset)
    BY <1>1 DEF Knows
<1> QED BY <1>1, <1>2 DEF Bound

LEMMA QuietCancelForOffset ==
    ASSUME Good(World), Fair(World, Zero), Quiet(World), NEW t \in Tasks, NEW o \in Offsets,
           CancelForOffset(t, o)
    PROVE  Quiet(World')
<1>1. Running /\ t \notin Files
    BY DownloadsAssumption DEF CancelForOffset, Input
<1>2. PICK w : w = World
    OBVIOUS
<1>3. Mid(w, t, {}) /\ w.task = task /\ Sane(w) /\ Quiet(w)
    BY <1>1, <1>2, SaneStart
<1>4. PICK A : Int \subseteq A /\ w \in Worlds(A)
    BY <1>3 DEF Mid, Typed
<1>5. PICK k : k = w.task[t]
    OBVIOUS
<1>6. /\ k \in TaskOf(A) /\ Sound(t, k, {}) /\ k.priority \in 0 .. 1 /\ k.unchecked \subseteq Part
      /\ Knows(k)
    BY <1>3, <1>4, <1>5, TaskParts DEF Mid, TaskOf, Quiet, Tied
<1>7. CASE HaveSentRequestForOffset(task[t], o)
    <2>1. PICK S : S = {r \in k.sent : r.offset = o}
        OBVIOUS
    <2>2. PICK c : c = CancelRequests(w, t, S)
        OBVIOUS
    <2>3. S \subseteq w.task[t].sent
        BY <1>5, <2>1
    <2>4. PICK more \in BOOLEAN :
            /\ c \in Worlds(A)
            /\ Changed(w, c, t, WithRequests(k, k.sent \ S, more, k.unchecked),
                       ChangeRequestedAmount(w.dc, S, -1))
        BY <1>4, <1>5, <2>2, <2>3, CancelEffect
    <2>5. PICK m : m = c.task[t]
        OBVIOUS
    <2>6. /\ m \in TaskOf(A) /\ m.state = k.state /\ m.todo = k.todo /\ m.sent = k.sent \ S
          /\ m.unchecked = k.unchecked /\ m.cdn = k.cdn /\ m.hashes = k.hashes
        <3>1. m = WithRequests(k, k.sent \ S, more, k.unchecked) /\ m \in TaskOf(A)
            BY <2>4, <2>5, TaskParts DEF Changed
        <3> QED BY <1>6, <3>1 DEF WithRequests, TaskOf
    <2>7. PICK l : l = [m EXCEPT !.unchecked = {u \in k.unchecked : u.offset # o}]
        OBVIOUS
    <2>8. /\ l \in TaskOf(A) /\ l.state = k.state /\ l.todo = k.todo /\ l.sent = k.sent \ S
          /\ l.unchecked = {u \in k.unchecked : u.offset # o}
          /\ l.cdn = k.cdn /\ l.hashes = k.hashes
        BY <1>6, <2>6, <2>7 DEF TaskOf
    <2>9. Sound(t, l, {}) /\ l.sent = c.task[t].sent /\ l.unchecked \subseteq c.task[t].unchecked
        BY <1>1, <1>6, <2>5, <2>6, <2>8 DEF Sound
    <2>10. PICK v : v = WithTask(c, t, l)
        OBVIOUS
    <2>11. Sane(c) /\ Tied(c)
        <3>1. Typed(w) /\ Tied(w)
            BY <1>3 DEF Sane, Quiet
        <3> QED BY <1>3, <2>2, <2>3, <3>1, SaneCancel, TiedCancel
    <2>12. Sane(v)
        BY <1>4, <2>4, <2>8, <2>9, <2>10, <2>11, SaneOwned
    <2>13. Changed(c, v, t, l, c.dc)
        BY <2>4, <2>8, <2>10, TaskEffect
    <2>14. Tied(v)
        <3>1. Knows(l)
            BY <1>6, <2>1, <2>8, KnowsWithout
        <3> QED BY <2>11, <2>13, <3>1, TiedChanged
    <2>15. v = [c EXCEPT !.task[t].unchecked = {u \in @ : u.offset # o}]
        <3>1. [c EXCEPT !.task[t].unchecked = {u \in @ : u.offset # o}]
                = [c EXCEPT !.task[t].unchecked = {u \in k.unchecked : u.offset # o}]
            BY <2>5, <2>6
        <3> QED BY <2>4, <2>5, <2>7, <2>10, <3>1, WorldParts DEF WithTask
    <2>16. PICK x, y, p : /\ p = k.priority /\ y = AddToQueue(v, t, p)
                          /\ x = IF k.todo # {} THEN y ELSE v
        OBVIOUS
    <2>17. Quiet(y)
        BY <1>6, <2>12, <2>14, <2>16, TiedAdd
    <2>18. ASSUME k.todo = {} PROVE Quiet(v)
        <3>1. k.sent # {} \/ k.unchecked # {}
            BY <1>3, <1>5, <1>7 DEF HaveSentRequestForOffset
        <3>2. InLine(w.queue, t)
            BY <1>3, <1>5, <3>1 DEF Sane, Fair, Queued
        <3>3. v.queue = w.queue /\ v.task[t] = l
            BY <2>4, <2>13 DEF Changed
        <3>4. ~ReadyToRequest(l)
            BY <2>8, <2>18 DEF ReadyToRequest
        <3> QED BY <2>14, <3>2, <3>3, <3>4, QuietUnready
    <2>19. Quiet(x)
        BY <2>16, <2>17, <2>18
    <2>20. Becomes(x)
        BY <1>2, <1>3, <1>5, <1>7, <2>1, <2>2, <2>15, <2>16 DEF CancelForOffset
    <2> QED BY <2>19, <2>20, QuietArrives
<1>8. CASE ~HaveSentRequestForOffset(task[t], o)
    <2>1. PICK l : l = [k EXCEPT !.todo = k.todo \ {o}]
        OBVIOUS
    <2>2. /\ l \in TaskOf(A) /\ l.state = k.state /\ l.todo = k.todo \ {o} /\ l.sent = k.sent
          /\ l.unchecked = k.unchecked /\ l.cdn = k.cdn /\ l.hashes = k.hashes
        BY <1>6, <2>1 DEF TaskOf
    <2>3. PICK v : v = WithTask(w, t, l)
        OBVIOUS
    <2>4. Quiet(v)
        <3>1. Changed(w, v, t, l, w.dc)
            BY <1>4, <2>2, <2>3, TaskEffect
        <3>2. Knows(l)
            BY <1>6, <2>2, SameRecalls, KnowsFewer
        <3>3. /\ ReadyToRequest(l) => ReadyToRequest(w.task[t])
              /\ UsesCdn(w.task[t]) => UsesCdn(l)
            BY <1>5, <2>2 DEF ReadyToRequest, UsesCdn
        <3>4. Typed(w) /\ Tied(w) /\ ~Stalled(w)
            BY <1>3 DEF Sane, Quiet
        <3> QED BY <3>1, <3>2, <3>3, <3>4, QuietSame
    <2>5. v = [w EXCEPT !.task[t].todo = @ \ {o}]
        BY <1>4, <1>5, <2>1, <2>3, WorldParts DEF WithTask
    <2>6. Becomes(v)
        BY <1>2, <1>8, <2>5 DEF CancelForOffset
    <2> QED BY <2>4, <2>6, QuietArrives
<1> QED BY <1>7, <1>8

LEMMA QuietTryRemove ==
    ASSUME Good(World), Fair(World, Zero), Quiet(World), NEW t \in Tasks, TryRemoveFromQueue(t)
    PROVE  Quiet(World')
<1>1. Running
    BY DEF TryRemoveFromQueue, Usual
<1>2. PICK w, x : w = World /\ x = RemoveFromQueue(w, t)
    OBVIOUS
<1>3. Sane(w) /\ w.task = task /\ Tied(w)
    BY <1>1, <1>2, SaneStart DEF Quiet
<1>4. w.task[t].sent = {} /\ w.task[t].unchecked = {}
    BY <1>3 DEF TryRemoveFromQueue, HaveSentRequests
<1>5. Sane(x) /\ Tied(x) /\ Awake(x)
    BY <1>2, <1>3, <1>4, SaneRemove, TiedRemove
<1>6. Becomes(x)
    BY <1>2 DEF TryRemoveFromQueue
<1>7. Quiet(x)
    BY <1>5, QuietAwake
<1> QED BY <1>6, <1>7, QuietArrives

LEMMA QuietStop ==
    ASSUME Good(World), Fair(World, Zero), Quiet(World), NEW t \in Tasks, Stop(t)
    PROVE  Quiet(World')
<1>1. Running /\ t \notin Files
    BY DownloadsAssumption DEF Stop, Input
<1>2. PICK w : w = World
    OBVIOUS
<1>3. Mid(w, t, {}) /\ Sane(w) /\ Tied(w)
    BY <1>1, <1>2, SaneStart DEF Quiet
<1>4. PICK c, k, v : /\ c = CancelAllRequests(w, t) /\ Sane(c)
                     /\ v = [c EXCEPT !.task[t].todo = {}] /\ Sane(v)
                     /\ v.task[t].sent = {} /\ v.task[t].unchecked = {}
                     /\ Changed(c, v, t, k, c.dc) /\ k.sent = {}
    BY <1>1, <1>3, SaneStop
<1>5. Tied(c)
    <2>1. PICK A : Int \subseteq A /\ w \in Worlds(A)
        BY <1>3 DEF Sane, Typed
    <2>2. PICK l, d : Changed(w, c, t, l, d)
        BY <1>4, <2>1, CancelAllEffect
    <2>3. l.sent = {}
        <3>1. c.task[t].sent = {}
            BY <1>3, <1>4, SaneCancelAll
        <3> QED BY <2>2, <3>1 DEF Changed
    <2> QED BY <1>3, <2>2, <2>3, KnowsNothing, TiedChanged
<1>6. Tied(v)
    BY <1>4, <1>5, KnowsNothing, TiedChanged
<1>7. PICK x : x = RemoveFromQueue(v, t)
    OBVIOUS
<1>8. Sane(x) /\ Tied(x) /\ Awake(x)
    BY <1>4, <1>6, <1>7, SaneRemove, TiedRemove
<1>9. Becomes(x)
    BY <1>2, <1>4, <1>7 DEF Stop
<1>10. Quiet(x)
    BY <1>8, QuietAwake
<1> QED BY <1>9, <1>10, QuietArrives

LEMMA QuietSetPriority ==
    ASSUME Good(World), Fair(World, Zero), Quiet(World), NEW t \in Tasks, NEW p \in {0, 1},
           SetPriority(t, p)
    PROVE  Quiet(World')
<1>1. Running
    BY DEF SetPriority, Input
<1>2. PICK w : w = World
    OBVIOUS
<1>3. Mid(w, t, {}) /\ w.task = task /\ Sane(w) /\ Quiet(w)
    BY <1>1, <1>2, SaneStart
<1>4. PICK A : Int \subseteq A /\ w \in Worlds(A)
    BY <1>3 DEF Mid, Typed
<1>5. PICK k, l : k = w.task[t] /\ l = [k EXCEPT !.priority = p]
    OBVIOUS
<1>6. k \in TaskOf(A) /\ Sound(t, k, {}) /\ Apart(k, {}) /\ p \in 0 .. 1 /\ Knows(k)
    BY <1>3, <1>4, <1>5, TaskParts DEF Mid, Quiet, Tied
<1>7. /\ l \in TaskOf(A) /\ l.state = k.state /\ l.todo = k.todo /\ l.sent = k.sent
      /\ l.unchecked = k.unchecked /\ l.fed = k.fed /\ l.cdn = k.cdn /\ l.hashes = k.hashes
    BY <1>5, <1>6 DEF TaskOf
<1>8. Sound(t, l, {}) /\ l.sent = w.task[t].sent /\ l.unchecked \subseteq w.task[t].unchecked
    <2>1. PICK X : X = {}
        OBVIOUS
    <2>2. Sound(t, k, X) /\ Apart(k, X)
        BY <1>6, <2>1
    <2>3. Sound(t, l, X)
        BY <1>7, <2>2, SameRequests, Zenon
    <2>4. l.sent = w.task[t].sent /\ l.unchecked \subseteq w.task[t].unchecked
        BY <1>5, <1>7
    <2> QED BY <2>1, <2>3, <2>4
<1>9. PICK v : v = WithTask(w, t, l)
    OBVIOUS
<1>10. Sane(v)
    BY <1>3, <1>4, <1>7, <1>8, <1>9, SaneOwned
<1>11. Quiet(v) /\ Tied(v)
    <2>1. Changed(w, v, t, l, w.dc)
        BY <1>4, <1>7, <1>9, TaskEffect
    <2>2. Knows(l)
        BY <1>6, <1>7, SameRecalls, KnowsFewer
    <2>3. /\ ReadyToRequest(l) => ReadyToRequest(w.task[t])
          /\ UsesCdn(w.task[t]) => UsesCdn(l)
        BY <1>5, <1>7 DEF ReadyToRequest, UsesCdn
    <2>4. Typed(w) /\ Tied(w) /\ ~Stalled(w)
        BY <1>3 DEF Sane, Quiet
    <2>5. Quiet(v)
        BY <2>1, <2>2, <2>3, <2>4, QuietSame
    <2> QED BY <2>5 DEF Quiet
<1>12. v = [w EXCEPT !.task[t].priority = p]
    BY <1>4, <1>5, <1>9, WorldParts DEF WithTask
<1>13. PICK x, y : y = AddToQueue(v, t, p) /\ x = IF HaveSentRequests(k) THEN y ELSE v
    OBVIOUS
<1>14. Quiet(y)
    BY <1>6, <1>10, <1>11, <1>13, TiedAdd
<1>15. Quiet(x)
    BY <1>11, <1>13, <1>14
<1>16. Becomes(x)
    BY <1>2, <1>3, <1>5, <1>12, <1>13 DEF SetPriority
<1> QED BY <1>15, <1>16, QuietArrives

LEMMA QuietOwn ==
    ASSUME Good(World), Fair(World, Zero), Quiet(World), NEW t \in Tasks, Own(t)
    PROVE  Quiet(World')
<1>1. CASE MoreCdnFileHashes(t)
    BY <1>1, QuietMoreHashes
<1>2. CASE StartLoading(t)
    BY <1>2, QuietStartLoading
<1>3. CASE CancelLoading(t)
    BY <1>3, QuietCancelLoading
<1>4. CASE Destroy(t)
    BY <1>4, QuietDestroy
<1>5. ASSUME NEW o \in Offsets, Load(t, o) PROVE Quiet(World')
    BY <1>5, QuietLoad
<1>6. ASSUME NEW o \in Offsets, CancelForOffset(t, o) PROVE Quiet(World')
    BY <1>6, QuietCancelForOffset
<1>7. CASE TryRemoveFromQueue(t)
    BY <1>7, QuietTryRemove
<1>8. ASSUME NEW p \in {0, 1}, SetPriority(t, p) PROVE Quiet(World')
    BY <1>8, QuietSetPriority
<1>9. CASE Stop(t)
    BY <1>9, QuietStop
<1> QED BY <1>1, <1>2, <1>3, <1>4, <1>5, <1>6, <1>7, <1>8, <1>9, Zenon DEF Own

-----------------------------------------------------------------------------
(* A session is removed: what was asked for is asked for still.            *)

\* Loader l has what loader k has; requests for hashes may be given up.
Kept(k, l) ==
    /\ l.state = k.state /\ l.todo = k.todo /\ l.cdn = k.cdn /\ l.hashes = k.hashes
    /\ \A u \in k.unchecked : \E n \in l.unchecked : n.offset = u.offset
    /\ \A r \in l.sent : ForHashes(r) => \E q \in k.sent : ForHashes(q) /\ q.offset = r.offset
    /\ (\E q \in k.sent : ~ForHashes(q)) => \E r \in l.sent : ~ForHashes(r)

LEMMA KeptSame ==
    ASSUME NEW k
    PROVE  Kept(k, k)
BY DEF Kept

LEMMA KeptTwice ==
    ASSUME NEW k, NEW l, NEW m, Kept(k, l), Kept(l, m)
    PROVE  Kept(k, m)
<1>1. /\ m.state = k.state /\ m.todo = k.todo /\ m.cdn = k.cdn /\ m.hashes = k.hashes
      /\ (\E q \in k.sent : ~ForHashes(q)) => \E r \in m.sent : ~ForHashes(r)
    BY DEF Kept
<1>2. \A u \in k.unchecked : \E n \in m.unchecked : n.offset = u.offset
    <2> SUFFICES ASSUME NEW u \in k.unchecked PROVE \E n \in m.unchecked : n.offset = u.offset
        OBVIOUS
    <2>1. PICK n \in l.unchecked : n.offset = u.offset
        BY DEF Kept
    <2> QED BY <2>1 DEF Kept
<1>3. ASSUME NEW r \in m.sent, ForHashes(r)
      PROVE  \E q \in k.sent : ForHashes(q) /\ q.offset = r.offset
    <2>1. PICK p \in l.sent : ForHashes(p) /\ p.offset = r.offset
        BY <1>3 DEF Kept
    <2> QED BY <2>1 DEF Kept
<1> QED BY <1>1, <1>2, <1>3 DEF Kept

LEMMA KeptKnows ==
    ASSUME NEW k, NEW l, Kept(k, l)
    PROVE  /\ Recalls(k, l) /\ (Knows(k) => Knows(l))
           /\ ReadyToRequest(l) => ReadyToRequest(k)
<1>1. Recalls(k, l)
    BY DEF Kept, Recalls
<1>2. Knows(k) => Knows(l)
    BY <1>1, KnowsKept DEF Kept
<1> QED BY <1>1, <1>2 DEF Kept, ReadyToRequest

LEMMA KeptAway ==
    ASSUME NEW A, Int \subseteq A, NEW w \in Worlds(A), NEW t \in Tasks, NEW i
    PROVE  Kept(w.task[t], Away(w, t, i).task[t])
<1>1. PICK N \in SUBSET Part :
             /\ Away(w, t, i) = WithTask(w, t, [w.task[t] EXCEPT !.unchecked = N])
             /\ [w.task[t] EXCEPT !.unchecked = N] \in TaskOf(A)
             /\ Rehomed(w.task[t].unchecked, N, i, ChooseSessionIndex(w))
    BY AwayEffect
<1>2. PICK k, l : k = w.task[t] /\ l = [k EXCEPT !.unchecked = N]
    OBVIOUS
<1>3. k \in TaskOf(A) /\ l \in TaskOf(A)
    BY <1>1, <1>2, TaskParts
<1>4. /\ l.state = k.state /\ l.todo = k.todo /\ l.sent = k.sent /\ l.unchecked = N
      /\ l.cdn = k.cdn /\ l.hashes = k.hashes
    BY <1>2, <1>3 DEF TaskOf
<1>5. Kept(k, l)
    <2>1. \A u \in k.unchecked : \E n \in N : n.offset = u.offset
        BY <1>1, <1>2 DEF Rehomed
    <2> QED BY <1>4, <2>1 DEF Kept
<1>6. PICK v : v = Away(w, t, i)
    OBVIOUS
<1>7. v = WithTask(w, t, l)
    BY <1>1, <1>2, <1>6
<1>8. Changed(w, v, t, l, w.dc)
    BY <1>3, <1>7, TaskEffect
<1> QED BY <1>2, <1>5, <1>6, <1>8 DEF Changed

\* cancelRequest of one request at most.
LEMMA KeptCancel ==
    ASSUME NEW A, NEW v \in Worlds(A), NEW t \in Tasks, NEW S, S \subseteq v.task[t].sent
    PROVE  LET k == v.task[t]
               l == CancelRequests(v, t, S).task[t]
           IN  /\ l.state = k.state /\ l.todo = k.todo /\ l.cdn = k.cdn /\ l.hashes = k.hashes
               /\ l.unchecked = k.unchecked /\ l.sent = k.sent \ S
<1>1. PICK k, c : k = v.task[t] /\ c = CancelRequests(v, t, S)
    OBVIOUS
<1>2. k \in TaskOf(A)
    BY <1>1, TaskParts
<1>3. PICK more \in BOOLEAN :
        Changed(v, c, t, WithRequests(k, k.sent \ S, more, k.unchecked),
                ChangeRequestedAmount(v.dc, S, -1))
    BY <1>1, CancelEffect
<1>4. PICK l : l = WithRequests(k, k.sent \ S, more, k.unchecked)
    OBVIOUS
<1>5. /\ l.state = k.state /\ l.todo = k.todo /\ l.cdn = k.cdn /\ l.hashes = k.hashes
      /\ l.unchecked = k.unchecked /\ l.sent = k.sent \ S
    BY <1>2, <1>4 DEF WithRequests, TaskOf
<1>6. c.task[t] = l
    BY <1>3, <1>4 DEF Changed
<1> QED BY <1>1, <1>5, <1>6

LEMMA KeptStep ==
    ASSUME NEW A, Int \subseteq A, NEW w \in Worlds(A), NEW t \in Tasks, NEW i,
           NEW o \in 1 .. PartsCount, NEW v \in Stage(A, w, t, o - 1)
    PROVE  Kept(v.task[t], Redirect(v, t, Those(w, t, i, o)).task[t])
<1>1. PICK S : S = Those(w, t, i, o)
    OBVIOUS
<1>2. S \subseteq v.task[t].sent /\ \A a, b \in S : a = b
    BY <1>1, RedirectStep
<1>3. v \in Worlds(A) /\ Mid(v, t, {})
    BY DEF Stage
<1>4. PICK k, c : k = v.task[t] /\ c = CancelRequests(v, t, S)
    OBVIOUS
<1>5. k \in TaskOf(A) /\ k.sent \subseteq RequestOf(A) /\ Sound(t, k, {})
    BY <1>3, <1>4, TaskParts DEF Mid
<1>6. PICK l : l = c.task[t]
    OBVIOUS
<1>7. /\ l.state = k.state /\ l.todo = k.todo /\ l.cdn = k.cdn /\ l.hashes = k.hashes
      /\ l.unchecked = k.unchecked /\ l.sent = k.sent \ S
    BY <1>2, <1>3, <1>4, <1>6, KeptCancel
<1>8. \/ S = {} /\ Redirect(v, t, S) = CancelRequests(v, t, S)
      \/ \E r \in S : /\ S = {r} /\ ForHashes(r)
                      /\ Redirect(v, t, S) = CancelRequests(v, t, {r})
      \/ \E r \in S : /\ S = {r} /\ ~ForHashes(r)
                      /\ Redirect(v, t, S) = Resend(CancelRequests(v, t, {r}), t, r)
    BY <1>2, RedirectCases
<1>9. CASE Redirect(v, t, S) = c /\ \A r \in S : ForHashes(r)
    <2>1. Kept(k, l)
        BY <1>7, <1>9 DEF Kept
    <2> QED BY <1>1, <1>4, <1>6, <1>9, <2>1
<1>10. CASE \E r \in S : /\ S = {r} /\ ~ForHashes(r)
                         /\ Redirect(v, t, S) = Resend(CancelRequests(v, t, {r}), t, r)
    <2>1. PICK r \in S : /\ S = {r} /\ ~ForHashes(r)
                         /\ Redirect(v, t, S) = Resend(CancelRequests(v, t, {r}), t, r)
        BY <1>10
    <2>2. Mid(CancelRequests(v, t, {r}), t, {r.offset})
        BY <1>2, <1>3, <2>1, MidCancel
    <2>3. Mid(c, t, {r.offset}) /\ Loads(c.task[t].state) /\ r.offset \in Offsets
        BY <1>2, <1>4, <1>5, <1>6, <1>7, <2>1, <2>2 DEF Sound, RequestOf
    <2>4. c \in Worlds(A)
        BY <1>2, <1>3, <1>4, CancelEffect
    <2>5. PICK x : x = Resend(c, t, r)
        OBVIOUS
    <2>6. PICK q : /\ q = PlacedRequest(c, [offset |-> r.offset, index |-> ChooseSessionIndex(c)], "part")
                   /\ Changed(c, x, t, [c.task[t] EXCEPT !.sent = @ \cup {q}],
                              ChangeRequestedAmount(c.dc, {q}, 1))
        BY <2>3, <2>4, <2>5, ResendEffect
    <2>7. ~ForHashes(q)
        BY <2>6 DEF PlacedRequest, ForHashes
    <2>8. PICK m : m = [l EXCEPT !.sent = l.sent \cup {q}]
        OBVIOUS
    <2>9. l \in TaskOf(A)
        BY <1>6, <2>4, TaskParts
    <2>10. /\ m.state = k.state /\ m.todo = k.todo /\ m.cdn = k.cdn /\ m.hashes = k.hashes
           /\ m.unchecked = k.unchecked /\ m.sent = (k.sent \ S) \cup {q}
        BY <1>7, <2>8, <2>9 DEF TaskOf
    <2>11. Kept(k, m)
        BY <2>7, <2>10 DEF Kept
    <2>12. x.task[t] = m
        BY <1>6, <2>6, <2>8 DEF Changed
    <2> QED BY <1>1, <1>4, <2>1, <2>5, <2>11, <2>12
<1>11. \/ Redirect(v, t, S) = c /\ \A r \in S : ForHashes(r)
       \/ \E r \in S : /\ S = {r} /\ ~ForHashes(r)
                       /\ Redirect(v, t, S) = Resend(CancelRequests(v, t, {r}), t, r)
    BY <1>4, <1>8
<1> QED BY <1>9, <1>10, <1>11

LEMMA KeptRedirectFrom ==
    ASSUME NEW A, Int \subseteq A, NEW w \in Worlds(A), NEW t \in Tasks, NEW i, Mid(w, t, {})
    PROVE  Kept(w.task[t], RedirectFrom(w, t, i).task[t])
<1> DEFINE T(o) == {v \in Stage(A, w, t, o) : Kept(w.task[t], v.task[t])}
<1>1. PICK V : V = [o \in 0 .. PartsCount |-> T(o)]
    OBVIOUS
<1>2. V \in [0 .. PartsCount -> SUBSET Worlds(A)]
    <2>1. \A o \in 0 .. PartsCount : T(o) \subseteq Worlds(A)
        BY DEF Stage
    <2> QED BY <1>1, <2>1
<1>3. Away(w, t, i) \in V[0]
    <2>1. Away(w, t, i) \in T(0)
        BY AwayStage, KeptAway
    <2> HIDE DEF T
    <2> QED BY <1>1, <2>1, Constants
<1>4. ASSUME NEW o \in 1 .. PartsCount, NEW v \in V[o - 1]
      PROVE  Redirect(v, t, Those(w, t, i, o)) \in V[o]
    <2>1. o \in 0 .. PartsCount /\ o - 1 \in 0 .. PartsCount
        BY Constants
    <2>2. v \in T(o - 1)
        <3> HIDE DEF T
        <3> QED BY <1>1, <2>1
    <2>3. v \in Stage(A, w, t, o - 1) /\ Kept(w.task[t], v.task[t])
        BY <2>2
    <2>4. PICK x : x = Redirect(v, t, Those(w, t, i, o))
        OBVIOUS
    <2>5. x \in Stage(A, w, t, o) /\ Kept(v.task[t], x.task[t])
        BY <2>3, <2>4, RedirectStep, KeptStep
    <2>6. Kept(w.task[t], x.task[t])
        BY <2>3, <2>5, KeptTwice
    <2>7. x \in T(o)
        BY <2>5, <2>6
    <2> HIDE DEF T
    <2> QED BY <1>1, <2>1, <2>4, <2>7
<1>5. RedirectFrom(w, t, i) \in V[PartsCount]
    BY <1>2, <1>3, <1>4, RedirectFromIn
<1>6. RedirectFrom(w, t, i) \in T(PartsCount)
    <2> HIDE DEF T
    <2> QED BY <1>1, <1>5, Constants
<1> QED BY <1>6

LEMMA KeptAged ==
    ASSUME NEW A, NEW k \in TaskOf(A)
    PROVE  Kept(k, [k EXCEPT !.sent = {Aged(r) : r \in k.sent}])
<1>1. PICK S, l : S = {Aged(r) : r \in k.sent} /\ l = [k EXCEPT !.sent = S]
    OBVIOUS
<1>2. /\ l.state = k.state /\ l.todo = k.todo /\ l.sent = S /\ l.unchecked = k.unchecked
      /\ l.cdn = k.cdn /\ l.hashes = k.hashes
    BY <1>1 DEF TaskOf
<1>3. \A r \in k.sent : Aged(r).offset = r.offset /\ (ForHashes(Aged(r)) <=> ForHashes(r))
    BY DEF Aged, ForHashes, TaskOf, SentOf, RequestOf
<1>4. \A q \in S : \E r \in k.sent : q = Aged(r)
    BY <1>1
<1>5. \A r \in k.sent : Aged(r) \in S
    BY <1>1
<1>6. \A q \in S : ForHashes(q) => \E r \in k.sent : ForHashes(r) /\ r.offset = q.offset
    BY <1>3, <1>4
<1>7. (\E q \in k.sent : ~ForHashes(q)) => \E r \in S : ~ForHashes(r)
    BY <1>3, <1>5
<1>8. Kept(k, l)
    BY <1>2, <1>6, <1>7 DEF Kept
<1> QED BY <1>1, <1>8

LEMMA KeptRemoveSession ==
    ASSUME NEW w, Good(w), Distinct(w), Len(w.dc.sessions) > 1
    PROVE  /\ RemoveSession(w).queue = w.queue
           /\ \A t \in Tasks : Kept(w.task[t], RemoveSession(w).task[t])
<1>1. PICK A : Int \subseteq A /\ w \in Worlds(A)
    BY DEF Good, Typed
<1>2. PICK n : n = Len(w.queue)
    OBVIOUS
<1>3. w.queue \in Seq(Entry) /\ n \in Nat
    BY <1>1, <1>2, WorldParts, LenProperties
<1> DEFINE U == {v \in Worlds(A) : /\ Good(v) /\ Distinct(v) /\ v.queue = w.queue
                                   /\ Len(v.dc.sessions) = Len(w.dc.sessions)
                                   /\ \A u \in Tasks : Kept(w.task[u], v.task[u])}
<1>4. Full(w) \in U
    <2>1. /\ Full(w) \in Worlds(A) /\ Full(w).queue = w.queue /\ Full(w).task = w.task
          /\ Len(Full(w).dc.sessions) = Len(w.dc.sessions)
        BY <1>1, FullEffect
    <2>2. Good(Full(w)) /\ Distinct(Full(w))
        BY <1>1, <2>1 DEF Good, Distinct, Typed
    <2>3. \A u \in Tasks : Kept(w.task[u], Full(w).task[u])
        BY <2>1, KeptSame
    <2> QED BY <2>1, <2>2, <2>3
<1>5. ASSUME NEW k \in 1 .. n, NEW v \in U
      PROVE  RedirectFrom(v, w.queue[k].task, Len(w.dc.sessions)) \in U
    <2>1. PICK t \in Tasks : t = w.queue[k].task
        <3>1. w.queue[k] \in Entry
            BY <1>2, <1>3, ElementOfSeq
        <3> QED BY <3>1 DEF Entry
    <2>2. PICK x, i : x = RedirectFrom(v, t, i) /\ i = Len(w.dc.sessions)
        OBVIOUS
    <2>3. x \in Stage(A, v, t, PartsCount) /\ Kept(v.task[t], x.task[t])
        BY <1>1, <2>2, GoodIsMid, RedirectFromStage, KeptRedirectFrom
    <2>4. /\ x \in Worlds(A) /\ Mid(x, t, {}) /\ x.queue = w.queue
          /\ Len(x.dc.sessions) = Len(w.dc.sessions)
          /\ \A u \in Tasks \ {t} : x.task[u] = v.task[u]
        BY <2>3 DEF Stage
    <2>5. Good(x) /\ Distinct(x)
        BY <2>4, MidIsGood DEF Mid, Rest, Apart, Distinct
    <2>6. ASSUME NEW u \in Tasks PROVE Kept(w.task[u], x.task[u])
        <3>1. Kept(w.task[u], v.task[u])
            OBVIOUS
        <3>2. CASE u = t
            BY <2>3, <3>1, <3>2, KeptTwice
        <3>3. CASE u # t
            BY <2>4, <3>1, <3>3
        <3> QED BY <3>2, <3>3
    <2> QED BY <2>1, <2>2, <2>4, <2>5, <2>6
<1>6. \E v \in U : RemoveSession(w) = Removed(w, v)
    <2> HIDE DEF U
    <2>1. PICK V : V = [k \in 0 .. n |-> U]
        OBVIOUS
    <2>2. V \in [0 .. n -> SUBSET U] /\ V[0] = U /\ V[n] = U
        BY <1>3, <2>1
    <2>3. \A k \in 1 .. n : V[k] = U /\ V[k - 1] = U
        BY <1>3, <2>1
    <2>4. \E v \in V[n] : RemoveSession(w) = Removed(w, v)
        BY <1>2, <1>3, <1>4, <1>5, <2>2, <2>3, RemoveSessionIn
    <2> QED BY <2>2, <2>4
<1>7. PICK v \in U : RemoveSession(w) = Removed(w, v)
    BY <1>6
<1>8. PICK x : x = Removed(w, v)
    OBVIOUS
<1>9. /\ x.queue = v.queue
      /\ \A t \in Tasks : x.task[t] = [v.task[t] EXCEPT !.sent = {Aged(r) : r \in v.task[t].sent}]
    BY <1>1, <1>8, RemovedEffect
<1>10. ASSUME NEW t \in Tasks PROVE Kept(w.task[t], x.task[t])
    <2>1. PICK k : k = v.task[t]
        OBVIOUS
    <2>2. k \in TaskOf(A) /\ Kept(w.task[t], k)
        BY <2>1, TaskParts
    <2>3. Kept(k, [k EXCEPT !.sent = {Aged(r) : r \in k.sent}])
        BY <2>2, KeptAged
    <2>4. Kept(k, x.task[t])
        BY <1>9, <2>1, <2>3
    <2> QED BY <2>2, <2>4, KeptTwice
<1> QED BY <1>7, <1>8, <1>9, <1>10

LEMMA QuietRemoveSession ==
    ASSUME NEW w, Good(w), Distinct(w), Len(w.dc.sessions) > 1, Sane(w), Quiet(w),
           Sane(RemoveSession(w))
    PROVE  Quiet(RemoveSession(w))
<1>1. PICK x : x = RemoveSession(w)
    OBVIOUS
<1>2. Sane(x) /\ x.queue = w.queue /\ \A t \in Tasks : Kept(w.task[t], x.task[t])
    BY <1>1, KeptRemoveSession
<1>3. Tied(x)
    BY <1>2, KeptKnows DEF Quiet, Tied
<1>4. ASSUME Stalled(x) PROVE FALSE
    <2>1. \A t \in Tasks : x.task[t].sent = {} /\ ~UsesCdn(x.task[t])
        BY <1>2, <1>4, NobodyAsks DEF Stalled
    <2>2. \A t \in Tasks : ~UsesCdn(w.task[t])
        BY <1>2, <2>1, KeptKnows, RecallsUses
    <2>3. ASSUME NEW t \in Tasks PROVE w.task[t].sent = {}
        <3>1. \A q \in w.task[t].sent : ForHashes(q)
            BY <1>2, <2>1 DEF Kept
        <3>2. \A q \in w.task[t].sent : ~ForHashes(q)
            BY <2>2, BoundUses DEF Quiet, Tied, Knows
        <3> QED BY <3>1, <3>2
    <2>4. w.dc.total = 0
        BY <2>3, NobodyAsksIsZero
    <2>5. ASSUME NEW n \in 1 .. Len(w.queue) PROVE ReadyToRequest(w.task[w.queue[n].task])
        <3>1. PICK u \in Tasks : u = w.queue[n].task
            BY InTasks DEF Sane
        <3>2. ReadyToRequest(x.task[u])
            BY <1>2, <1>4, <3>1 DEF Stalled
        <3> QED BY <1>2, <3>1, <3>2, KeptKnows
    <2>6. Stalled(w)
        BY <1>2, <1>4, <2>2, <2>4, <2>5 DEF Stalled
    <2> QED BY <2>6 DEF Quiet
<1> QED BY <1>1, <1>3, <1>4 DEF Quiet

\* The loaders and the queue are the same, and so is the amount of all requests.
LEMMA QuietUnmoved ==
    ASSUME NEW w, Quiet(w), NEW v, v.task = w.task, v.queue = w.queue, v.dc.total = w.dc.total
    PROVE  Quiet(v)
BY DEF Quiet, Tied, Stalled

LEMMA QuietSessionTimedOut ==
    ASSUME Good(World), Fair(World, Zero), Quiet(World), NEW i, SessionTimedOut(i),
           Sane(World')
    PROVE  Quiet(World')
<1>1. PICK w : w = World
    OBVIOUS
<1>2. w.dc = dc /\ w.task = task /\ w.dc \in DcRec
    <2>1. PICK A : w \in Worlds(A)
        BY <1>1 DEF Good, Typed
    <2> QED BY <1>1, <2>1, WorldParts DEF World
<1>3. PICK n \in 0 .. RemoveAfterTimeouts - 1 :
        \/ Becomes([w EXCEPT !.dc = TimedOut(dc, n)])
        \/ Len(dc.sessions) > 1 /\ Becomes(RemoveSession([w EXCEPT !.dc = TimedOut(dc, n)]))
    BY <1>1, TimedOutCases
<1>4. PICK d : d = TimedOut(dc, n)
    OBVIOUS
<1>5. /\ d \in DcRec /\ Len(d.sessions) = Len(dc.sessions)
      /\ \A j \in 1 .. Len(dc.sessions) : d.sessions[j].requested = dc.sessions[j].requested
      /\ d.total = dc.total /\ d.kill = dc.kill
    BY <1>2, <1>4, TimedOutType
<1>6. PICK v : v = [w EXCEPT !.dc = d]
    OBVIOUS
<1>7. Good(v)
    BY <1>1, <1>5, <1>6, GoodDc
<1>8. Distinct(v) /\ v.dc = d /\ v.queue = w.queue /\ v.task = w.task
    <2>1. PICK A : w \in Worlds(A)
        BY <1>1 DEF Good, Typed
    <2>2. v.task = task /\ v.dc = d /\ v.queue = w.queue /\ v.task = w.task
        BY <1>2, <1>5, <1>6, <2>1, DcEffect
    <2>3. Running
        BY TimedOutCases
    <2> QED BY <2>2, <2>3 DEF Distinct, Running
<1>9. Fair(v, Zero)
    <2>1. PICK m : m = Len(dc.sessions)
        OBVIOUS
    <2>2. m \in Nat
        BY <1>2, <2>1, SessionsParts, Constants DEF DcRec
    <2>3. /\ Len(w.dc.sessions) <= Len(v.dc.sessions)
          /\ \A j \in Len(w.dc.sessions) + 1 .. Len(v.dc.sessions) :
                v.dc.sessions[j].requested = 0 /\ Zero[j] = 0
        <3>1. Len(w.dc.sessions) = m /\ Len(v.dc.sessions) = m
            BY <1>2, <1>5, <1>8, <2>1
        <3>2. m <= m /\ ~ \E j \in m + 1 .. m : TRUE
            BY <2>2
        <3> QED BY <3>1, <3>2
    <2>4. /\ \A j \in 1 .. Len(w.dc.sessions) :
                v.dc.sessions[j].requested = w.dc.sessions[j].requested
          /\ v.dc.total = w.dc.total /\ (v.dc.kill => w.dc.kill) /\ v.dc \in DcRec
        BY <1>2, <1>5, <1>8
    <2>5. Fair(w, Zero)
        BY <1>1
    <2> QED BY <1>2, <1>8, <2>3, <2>4, <2>5, FairDc
<1>10. Quiet(v)
    BY <1>1, <1>2, <1>5, <1>8, QuietUnmoved
<1>11. Sane(v)
    BY <1>7, <1>9 DEF Sane, Good, Sound, Unasked
<1>12. ASSUME Len(dc.sessions) > 1, Becomes(RemoveSession(v)) PROVE Quiet(World')
    <2>1. PICK x : x = RemoveSession(v)
        OBVIOUS
    <2>2. Good(x) /\ Len(v.dc.sessions) > 1
        BY <1>5, <1>7, <1>8, <1>12, <2>1, GoodRemoveSession
    <2>3. World' = x
        <3>1. PICK A : x \in Worlds(A)
            BY <2>2 DEF Good, Typed
        <3>2. x = [dc |-> x.dc, queue |-> x.queue, task |-> x.task]
            BY <3>1 DEF Worlds
        <3> QED BY <1>12, <2>1, <3>2 DEF Becomes, World
    <2>4. Quiet(x)
        BY <1>7, <1>8, <1>10, <1>11, <2>1, <2>2, <2>3, QuietRemoveSession
    <2> QED BY <1>12, <2>1, <2>4, QuietArrives
<1> QED BY <1>3, <1>4, <1>6, <1>10, <1>12, QuietArrives

LEMMA QuietKillSessions ==
    ASSUME Good(World), Fair(World, Zero), Quiet(World), KillSessions
    PROVE  Quiet(World')
<1>1. PICK w : w = World
    OBVIOUS
<1>2. PICK A : w \in Worlds(A)
    BY <1>1 DEF Good, Typed
<1>3. w.dc = dc /\ w.dc \in DcRec /\ w.task = task /\ w.queue = queue
    BY <1>1, <1>2, WorldParts DEF World
<1>4. PICK n : n = Len(dc.sessions)
    OBVIOUS
<1>5. n \in 1 .. MaxSessions /\ DOMAIN dc.sessions = 1 .. n
    BY <1>3, <1>4, SessionsParts DEF DcRec
<1>6. PICK d : d = NewDc([i \in 1 .. n |-> NewSession])
    OBVIOUS
<1>7. d \in DcRec /\ d.total = 0
    BY <1>5, <1>6, NewDcType
<1>8. dc' = d
    BY <1>5, <1>6 DEF KillSessions
<1>9. PICK v : v = [w EXCEPT !.dc = d]
    OBVIOUS
<1>10. v.dc = d /\ v.queue = w.queue /\ v.task = w.task
    BY <1>2, <1>7, <1>9, DcEffect
<1>11. Becomes(v)
    BY <1>3, <1>8, <1>10 DEF Becomes, KillSessions
<1>12. w.dc.total = 0
    BY <1>1, <1>3 DEF Fair, Agree, KillSessions
<1>13. Quiet(v)
    BY <1>1, <1>7, <1>10, <1>12, QuietUnmoved
<1> QED BY <1>11, <1>13, QuietArrives

LEMMA QuietResetGeneration ==
    ASSUME Good(World), Quiet(World), ResetGeneration
    PROVE  Quiet(World')
<1>1. PICK w : w = World
    OBVIOUS
<1>2. PICK A : Int \subseteq A /\ w \in Worlds(A)
    BY <1>1 DEF Good, Typed
<1>3. w.dc = dc /\ w.task = task /\ w.queue = queue /\ w.queue \in Seq(Entry)
    BY <1>1, <1>2, WorldParts DEF World
<1>4. PICK q : q = NextGeneration(queue)
    OBVIOUS
<1>5. q \in Seq(Entry) /\ Len(q) = Len(queue) /\ \A i \in 1 .. Len(queue) : q[i].task = queue[i].task
    BY <1>3, <1>4, NextGenerationType
<1>6. PICK v : v = [w EXCEPT !.queue = q]
    OBVIOUS
<1>7. v.dc = w.dc /\ v.queue = q /\ v.task = w.task
    BY <1>2, <1>5, <1>6, QueueEffect
<1>8. Becomes(v)
    BY <1>3, <1>4, <1>7 DEF Becomes, ResetGeneration
<1>9. Quiet(v)
    BY <1>1, <1>3, <1>5, <1>7 DEF Quiet, Tied, Stalled
<1> QED BY <1>8, <1>9, QuietArrives

-----------------------------------------------------------------------------
(* Nothing stalls.                                                         *)

LEMMA InitQuiet ==
    ASSUME Init
    PROVE  Quiet(World)
<1>1. \A t \in Tasks : task[t].sent = {}
    <2>1. \A t \in Tasks : task[t] = NewTask(t)
        BY DEF Init
    <2>2. \A t \in Tasks : NewTask(t).sent = {}
        BY NewTaskType
    <2> QED BY <2>1, <2>2
<1>2. PICK w : w = World
    OBVIOUS
<1>3. w.queue = <<>> /\ w.task = task
    BY <1>2 DEF World, Init
<1>4. Tied(w)
    BY <1>1, <1>3, KnowsNothing DEF Tied
<1>5. ~Stalled(w)
    BY <1>3 DEF Stalled
<1> QED BY <1>2, <1>4, <1>5 DEF Quiet

LEMMA NextQuiet ==
    ASSUME Good(World), Fair(World, Zero), Quiet(World), Running => ~Overbooked(dc),
           [Next]_vars
    PROVE  Quiet(World')
<1>0. Sane(World')
    <2>1. Good(World') /\ Fair(World', Zero)
        BY NextGood, NextFair
    <2> QED BY <2>1 DEF Sane, Good, Sound, Unasked
<1>1. ASSUME NEW t \in Tasks, Own(t) PROVE Quiet(World')
    BY <1>1, QuietOwn
<1>2. ASSUME NEW t \in Tasks, NEW r \in task[t].sent, Answer(t, r) PROVE Quiet(World')
    BY <1>0, <1>2, QuietAnswer
<1>3. ASSUME NEW i \in 1 .. MaxSessions, SessionTimedOut(i) PROVE Quiet(World')
    BY <1>0, <1>3, QuietSessionTimedOut
<1>4. CASE KillSessions
    BY <1>4, QuietKillSessions
<1>5. CASE ResetGeneration
    BY <1>5, QuietResetGeneration
<1>6. CASE UNCHANGED vars
    <2>1. World' = World
        BY <1>6 DEF vars, World
    <2> QED BY <2>1
<1>7. CASE Next
    BY <1>1, <1>2, <1>3, <1>4, <1>5, <1>7, Zenon DEF Next
<1> QED BY <1>6, <1>7

LEMMA QuietIsNothingStalls ==
    ASSUME Good(World), Fair(World, Zero), Quiet(World)
    PROVE  NothingStalls
<1>1. PICK w : w = World
    OBVIOUS
<1>2. Sane(w)
    BY <1>1 DEF Sane, Good, Sound, Unasked
<1>3. PICK A : w \in Worlds(A)
    BY <1>2 DEF Sane, Typed
<1>4. w.dc = dc /\ w.task = task /\ w.queue = queue /\ w.queue \in Seq(Entry)
    BY <1>1, <1>3, WorldParts DEF World
<1>5. DOMAIN queue = 1 .. Len(queue) /\ Len(queue) \in Nat
    BY <1>4, LenProperties
<1>6. SUFFICES ASSUME dc.total = 0, NEW m \in DOMAIN queue, \A t \in Tasks : ~UsesCdn(task[t])
               PROVE  \E i \in DOMAIN queue :
                        ~ReadyToRequest(task[queue[i].task]) /\ task[queue[i].task].sent = {}
    BY Zenon DEF NothingStalls
<1>7. Len(queue) # 0
    BY <1>5
<1>8. PICK i \in 1 .. Len(queue) : ~ReadyToRequest(task[queue[i].task])
    BY <1>1, <1>4, <1>6, <1>7 DEF Quiet, Stalled
<1>9. \A t \in Tasks : task[t].sent = {}
    BY <1>2, <1>4, <1>6, NobodyAsks
<1>10. queue[i].task \in Tasks
    BY <1>2, <1>4, <1>8, InTasks DEF Sane
<1> QED BY <1>5, <1>8, <1>9, <1>10

\* While nothing is asked for, no part is left ready, unless a loader with
\* nothing more to ask for is still in the queue or a CDN is used - as long as
\* some session has room for the requests of a session that is removed.
\* Only requestSucceeded, enqueue and remove of download_manager_mtproto.cpp call
\* checkSendNext: what a loader that is cancelled leaves undone is done when it
\* leaves the queue.
THEOREM NothingStallsUnlessOverbooked == Spec /\ []~Overbooked(dc) => []NothingStalls
<1>1. Init => Good(World) /\ Fair(World, Zero) /\ Quiet(World)
    BY InitGood, InitFair, InitQuiet
<1>2. Good(World) /\ Fair(World, Zero) /\ Quiet(World) /\ ~Overbooked(dc) /\ [Next]_vars
        => Good(World)' /\ Fair(World, Zero)' /\ Quiet(World)'
    BY NextGood, NextFair, NextQuiet DEF Zero
<1>3. Good(World) /\ Fair(World, Zero) /\ Quiet(World) => NothingStalls
    BY QuietIsNothingStalls
<1> QED BY <1>1, <1>2, <1>3, PTL DEF Spec
=============================================================================
