--------------------------- MODULE RegistryProofs ---------------------------
(***************************************************************************)
(* RequestRegistry for any number of requests, data centres and errors.    *)
(***************************************************************************)
EXTENDS RequestRegistry, FiniteSetTheorems, SequenceTheorems, TLAPS

-----------------------------------------------------------------------------
(* Facts about numbers and lists.                                          *)

\* A set of numbers has a smallest one.
LEMMA Smallest ==
    ASSUME NEW S, S \subseteq Nat, S # {}
    PROVE  Min(S) \in S /\ \A y \in S : Min(S) <= y
<1> DEFINE T == {0 .. n : n \in S}
<1>1. T \subseteq FiniteSubsetsOf(Nat)
    <2>1. \A n \in S : 0 .. n \in SUBSET Nat /\ IsFiniteSet(0 .. n)
        BY FS_Interval
    <2> QED BY <2>1 DEF FiniteSubsetsOf
<1>2. \E x \in T : \A y \in T : <<y, x>> \notin StrictSubsetOrdering(Nat)
    <2>1. T # {}
        OBVIOUS
    <2> HIDE DEF T
    <2> QED BY <2>1, <1>1, FS_StrictSubsetOrderingWellFounded, WFMin
<1>3. PICK x \in S : \A y \in S : <<0 .. y, 0 .. x>> \notin StrictSubsetOrdering(Nat)
    BY <1>2
<1>4. ASSUME NEW y \in S, ~(x <= y) PROVE FALSE
    <2>1. 0 .. y \subseteq 0 .. x /\ 0 .. y # 0 .. x
        BY <1>4
    <2>2. <<0 .. y, 0 .. x>> \in (SUBSET Nat) \X (SUBSET Nat)
        BY <2>1
    <2>3. <<0 .. y, 0 .. x>> \in StrictSubsetOrdering(Nat)
        BY <2>1, <2>2, Zenon DEF StrictSubsetOrdering
    <2> QED BY <1>3, <2>3
<1>5. \E z \in S : \A y \in S : z <= y
    BY <1>4
<1> QED BY <1>5 DEF Min

\* A function on 1 .. n is a sequence.
LEMMA FunctionIsSeq ==
    ASSUME NEW S, NEW n \in Nat, NEW f \in [1 .. n -> S]
    PROVE  f \in Seq(S) /\ Len(f) = n /\ DOMAIN f = 1 .. n
<1>1. f \in Seq(S)
    BY SeqDef
<1> QED BY <1>1, LenProperties

\* An insertion: what comes before it stays, what comes after it moves on.
LEMMA InsertAtProperties ==
    ASSUME NEW S, NEW s \in Seq(S), NEW p \in 1 .. Len(s) + 1, NEW e \in S
    PROVE  /\ InsertAt(s, p, e) \in Seq(S)
           /\ Len(InsertAt(s, p, e)) = Len(s) + 1
           /\ \A j \in 1 .. Len(s) + 1 :
                InsertAt(s, p, e)[j] = IF j < p THEN s[j] ELSE IF j = p THEN e ELSE s[j - 1]
<1> DEFINE a == SubSeq(s, 1, p - 1)
           b == SubSeq(s, p, Len(s))
           ae == a \o <<e>>
<1>0. Len(s) \in Nat /\ \A i \in 1 .. Len(s) : s[i] \in S
    BY LenProperties, ElementOfSeq
<1>1. a \in Seq(S) /\ Len(a) = p - 1 /\ \A i \in 1 .. p - 1 : a[i] = s[i]
    <2>1. \A i \in 1 .. p - 1 : s[i] \in S
        BY <1>0
    <2>2. p - 1 \in Int /\ 1 \in Int
        BY <1>0
    <2>3. /\ a \in Seq(S) /\ Len(a) = (IF 1 <= p - 1 THEN p - 1 - 1 + 1 ELSE 0)
          /\ \A i \in 1 .. p - 1 - 1 + 1 : a[i] = s[1 + i - 1]
        BY <2>1, <2>2, SubSeqProperties
    <2> HIDE DEF a
    <2> QED BY <1>0, <2>3
<1>2. b \in Seq(S) /\ Len(b) = Len(s) - p + 1 /\ \A i \in 1 .. Len(s) - p + 1 : b[i] = s[p + i - 1]
    <2>1. \A i \in p .. Len(s) : s[i] \in S
        BY <1>0
    <2>2. p \in Int /\ Len(s) \in Int
        BY <1>0
    <2>3. /\ b \in Seq(S) /\ Len(b) = (IF p <= Len(s) THEN Len(s) - p + 1 ELSE 0)
          /\ \A i \in 1 .. Len(s) - p + 1 : b[i] = s[p + i - 1]
        BY <2>1, <2>2, SubSeqProperties
    <2> HIDE DEF b
    <2> QED BY <1>0, <2>3
<1>3. <<e>> \in Seq(S) /\ Len(<<e>>) = 1 /\ <<e>>[1] = e
    OBVIOUS
<1> HIDE DEF a, b
<1>4. /\ ae \in Seq(S) /\ Len(ae) = p
      /\ \A i \in 1 .. p : ae[i] = IF i <= p - 1 THEN s[i] ELSE e
    <2>1. /\ ae \in Seq(S) /\ Len(ae) = Len(a) + Len(<<e>>)
          /\ \A i \in 1 .. Len(a) + Len(<<e>>) : ae[i] = IF i <= Len(a) THEN a[i] ELSE <<e>>[i - Len(a)]
        BY <1>1, <1>3, ConcatProperties
    <2> HIDE DEF ae
    <2> QED BY <1>0, <1>1, <1>3, <2>1
<1>5. InsertAt(s, p, e) = ae \o b
    BY DEF InsertAt, a, b
<1> HIDE DEF ae
<1>6. /\ ae \o b \in Seq(S) /\ Len(ae \o b) = Len(ae) + Len(b)
      /\ \A i \in 1 .. Len(ae) + Len(b) : (ae \o b)[i] = IF i <= Len(ae) THEN ae[i] ELSE b[i - Len(ae)]
    BY <1>2, <1>4, ConcatProperties
<1>7. Len(ae) + Len(b) = Len(s) + 1
    BY <1>0, <1>2, <1>4
<1>8. ASSUME NEW j \in 1 .. Len(s) + 1
      PROVE  (ae \o b)[j] = IF j < p THEN s[j] ELSE IF j = p THEN e ELSE s[j - 1]
    <2>1. CASE j <= p
        BY <1>0, <1>4, <1>6, <1>7, <2>1
    <2>2. CASE j > p
        <3>1. (ae \o b)[j] = b[j - p] /\ j - p \in 1 .. Len(s) - p + 1
            BY <1>0, <1>4, <1>6, <1>7, <2>2
        <3>2. b[j - p] = s[p + (j - p) - 1] /\ p + (j - p) - 1 = j - 1
            BY <1>0, <1>2, <3>1
        <3> QED BY <1>0, <2>2, <3>1, <3>2
    <2>3. j <= p \/ j > p
        BY <1>0
    <2> QED BY <2>1, <2>2, <2>3, Zenon
<1> QED BY <1>5, <1>6, <1>7, <1>8

\* The end of a list.
LEMMA RestProperties ==
    ASSUME NEW S, NEW s \in Seq(S), NEW n \in 0 .. Len(s)
    PROVE  /\ SubSeq(s, n + 1, Len(s)) \in Seq(S)
           /\ Len(SubSeq(s, n + 1, Len(s))) = Len(s) - n
           /\ \A i \in 1 .. Len(s) - n : SubSeq(s, n + 1, Len(s))[i] = s[n + i]
<1> DEFINE b == SubSeq(s, n + 1, Len(s))
<1>0. Len(s) \in Nat /\ \A i \in 1 .. Len(s) : s[i] \in S
    BY LenProperties, ElementOfSeq
<1>1. \A i \in n + 1 .. Len(s) : s[i] \in S
    BY <1>0
<1>2. n + 1 \in Int /\ Len(s) \in Int
    BY <1>0
<1>3. /\ b \in Seq(S) /\ Len(b) = (IF n + 1 <= Len(s) THEN Len(s) - (n + 1) + 1 ELSE 0)
      /\ \A i \in 1 .. Len(s) - (n + 1) + 1 : b[i] = s[n + 1 + i - 1]
    BY <1>1, <1>2, SubSeqProperties
<1> HIDE DEF b
<1>4. \A i \in 1 .. Len(s) - n : n + 1 + i - 1 = n + i /\ i \in 1 .. Len(s) - (n + 1) + 1
    BY <1>0
<1>5. b \in Seq(S) /\ Len(b) = Len(s) - n /\ \A i \in 1 .. Len(s) - n : b[i] = s[n + i]
    BY <1>0, <1>3, <1>4
<1> QED BY <1>5 DEF b

-----------------------------------------------------------------------------
(* The list of the delayed requests.                                       *)

Entry == [id : Requests, at : Times]

\* The delayed requests are in the order of their times, each of them once.
Ordered(list) == \A i, j \in DOMAIN list : i <= j => list[i].at <= list[j].at
Distinct(list) == \A i, j \in DOMAIN list : list[i].id = list[j].id => i = j
GoodList(list) == list \in Seq(Entry) /\ Ordered(list) /\ Distinct(list)

\* The requests of a list.
Listed(list) == {list[i].id : i \in DOMAIN list}

LEMMA TimesAreNumbers == Times \subseteq Nat
BY RegistryAssumption DEF Times

LEMMA EntryOfList ==
    ASSUME NEW list \in Seq(Entry)
    PROVE  /\ Len(list) \in Nat /\ DOMAIN list = 1 .. Len(list)
           /\ \A i \in 1 .. Len(list) : list[i] \in Entry /\ list[i].at \in Nat /\ list[i].id \in Requests
<1>1. Len(list) \in Nat /\ DOMAIN list = 1 .. Len(list)
    BY LenProperties
<1>2. \A i \in 1 .. Len(list) : list[i] \in Entry
    BY ElementOfSeq
<1> QED BY <1>1, <1>2, TimesAreNumbers DEF Entry

\* Where the first later entry is.
LEMMA FirstLaterProperties ==
    ASSUME NEW list \in Seq(Entry), NEW at \in Nat
    PROVE  /\ FirstLater(list, at) \in 1 .. Len(list) + 1
           /\ \A i \in 1 .. Len(list) : i < FirstLater(list, at) => list[i].at <= at
           /\ FirstLater(list, at) <= Len(list) => list[FirstLater(list, at)].at > at
<1> DEFINE later == {i \in DOMAIN list : list[i].at > at}
<1>1. /\ Len(list) \in Nat /\ DOMAIN list = 1 .. Len(list)
      /\ \A i \in 1 .. Len(list) : list[i].at \in Nat
    BY EntryOfList
<1>2. CASE later = {}
    <2>1. FirstLater(list, at) = Len(list) + 1
        BY <1>2 DEF FirstLater
    <2>2. \A i \in 1 .. Len(list) : list[i].at <= at
        BY <1>1, <1>2
    <2> QED BY <1>1, <2>1, <2>2
<1>3. CASE later # {}
    <2>1. FirstLater(list, at) = Min(later)
        BY <1>3 DEF FirstLater
    <2>2. later \subseteq Nat
        BY <1>1
    <2>3. Min(later) \in later /\ \A y \in later : Min(later) <= y
        <3> HIDE DEF later
        <3> QED BY <1>3, <2>2, Smallest
    <2>4. \A i \in 1 .. Len(list) : i < Min(later) => i \notin later
        <3> HIDE DEF later
        <3>1. Min(later) \in Nat
            BY <2>2, <2>3
        <3> QED BY <1>1, <2>3, <3>1
    <2>5. Min(later) \in 1 .. Len(list) /\ list[Min(later)].at > at
        BY <1>1, <2>3
    <2> QED BY <1>1, <2>1, <2>4, <2>5
<1> QED BY <1>2, <1>3

\* An insertion at a place where it fits keeps the list good.
LEMMA InsertGood ==
    ASSUME GoodList(delayed), NEW p \in 1 .. Len(delayed) + 1, NEW x \in Entry,
           x.id \notin Listed(delayed),
           \A i \in 1 .. Len(delayed) : IF i < p THEN delayed[i].at <= x.at ELSE x.at <= delayed[i].at
    PROVE  /\ GoodList(InsertAt(delayed, p, x))
           /\ Listed(InsertAt(delayed, p, x)) = Listed(delayed) \cup {x.id}
<1> DEFINE n == Len(delayed)
           list == InsertAt(delayed, p, x)
<1>0. delayed \in Seq(Entry) /\ Ordered(delayed) /\ Distinct(delayed)
    BY DEF GoodList
<1>1. n \in Nat /\ DOMAIN delayed = 1 .. n /\ p \in Nat
      /\ \A i \in 1 .. n : delayed[i].at \in Nat /\ delayed[i].id \in Requests
    BY <1>0, EntryOfList
<1>2. /\ list \in Seq(Entry) /\ Len(list) = n + 1
      /\ \A j \in 1 .. n + 1 : list[j] = IF j < p THEN delayed[j] ELSE IF j = p THEN x ELSE delayed[j - 1]
    <2>1. /\ InsertAt(delayed, p, x) \in Seq(Entry)
          /\ Len(InsertAt(delayed, p, x)) = Len(delayed) + 1
          /\ \A j \in 1 .. Len(delayed) + 1 :
                InsertAt(delayed, p, x)[j] =
                    IF j < p THEN delayed[j] ELSE IF j = p THEN x ELSE delayed[j - 1]
        <3> HIDE DEF n, list
        <3> QED BY <1>0, InsertAtProperties
    <2> QED BY <2>1
<1> HIDE DEF list
<1>3. DOMAIN list = 1 .. n + 1
    BY <1>2, EntryOfList
<1>4. x.at \in Nat
    BY TimesAreNumbers DEF Entry
<1>5. Ordered(list)
    <2> SUFFICES ASSUME NEW i \in 1 .. n + 1, NEW j \in 1 .. n + 1, i <= j
                 PROVE  list[i].at <= list[j].at
        BY <1>3 DEF Ordered
    <2>1. \A a, b \in 1 .. n : a <= b => delayed[a].at <= delayed[b].at
        BY <1>0, <1>1 DEF Ordered
    <2>2. CASE i < p /\ j < p
        <3>1. list[i] = delayed[i] /\ list[j] = delayed[j] /\ i \in 1 .. n /\ j \in 1 .. n
            BY <1>1, <1>2, <2>2
        <3> QED BY <2>1, <3>1
    <2>3. CASE i < p /\ j = p
        <3>1. list[i] = delayed[i] /\ list[j] = x /\ i \in 1 .. n
            BY <1>1, <1>2, <2>3
        <3> QED BY <2>3, <3>1
    <2>4. CASE i < p /\ p < j
        <3>1. list[i] = delayed[i] /\ list[j] = delayed[j - 1] /\ i \in 1 .. n /\ j - 1 \in 1 .. n /\ i <= j - 1
            BY <1>1, <1>2, <2>4
        <3> QED BY <2>1, <3>1
    <2>5. CASE i = p /\ j = p
        BY <1>2, <1>4, <2>5
    <2>6. CASE i = p /\ p < j
        <3>1. list[i] = x /\ list[j] = delayed[j - 1] /\ j - 1 \in 1 .. n /\ ~(j - 1 < p)
            BY <1>1, <1>2, <2>6
        <3> QED BY <3>1
    <2>7. CASE p < i /\ p < j
        <3>1. list[i] = delayed[i - 1] /\ list[j] = delayed[j - 1]
              /\ i - 1 \in 1 .. n /\ j - 1 \in 1 .. n /\ i - 1 <= j - 1
            BY <1>1, <1>2, <2>7
        <3> QED BY <2>1, <3>1
    <2>8. (i < p \/ i = p \/ p < i) /\ (j < p \/ j = p \/ p < j)
        BY <1>1
    <2>9. ~(p < i /\ j = p) /\ ~(p < i /\ j < p) /\ ~(i = p /\ j < p)
        BY <1>1
    <2> QED BY <2>2, <2>3, <2>4, <2>5, <2>6, <2>7, <2>8, <2>9
<1>6. \A a \in 1 .. n : delayed[a].id # x.id
    BY <1>1 DEF Listed
<1>7. Distinct(list)
    <2> SUFFICES ASSUME NEW i \in 1 .. n + 1, NEW j \in 1 .. n + 1, list[i].id = list[j].id, i < j
                 PROVE  FALSE
        <3>1. \A i, j \in 1 .. n + 1 : i = j \/ i < j \/ j < i
            BY <1>1
        <3> QED BY <1>3, <3>1 DEF Distinct
    <2>1. \A a, b \in 1 .. n : delayed[a].id = delayed[b].id => a = b
        BY <1>0, <1>1 DEF Distinct
    <2>2. CASE i < p /\ j < p
        <3>1. list[i] = delayed[i] /\ list[j] = delayed[j] /\ i \in 1 .. n /\ j \in 1 .. n
            BY <1>1, <1>2, <2>2
        <3> QED BY <1>1, <2>1, <3>1
    <2>3. CASE i < p /\ j = p
        <3>1. list[i] = delayed[i] /\ list[j] = x /\ i \in 1 .. n
            BY <1>1, <1>2, <2>3
        <3> QED BY <1>6, <3>1
    <2>4. CASE i < p /\ p < j
        <3>1. list[i] = delayed[i] /\ list[j] = delayed[j - 1] /\ i \in 1 .. n /\ j - 1 \in 1 .. n /\ i # j - 1
            BY <1>1, <1>2, <2>4
        <3> QED BY <2>1, <3>1
    <2>5. CASE i = p /\ p < j
        <3>1. list[i] = x /\ list[j] = delayed[j - 1] /\ j - 1 \in 1 .. n
            BY <1>1, <1>2, <2>5
        <3> QED BY <1>6, <3>1
    <2>6. CASE p < i /\ p < j
        <3>1. list[i] = delayed[i - 1] /\ list[j] = delayed[j - 1]
              /\ i - 1 \in 1 .. n /\ j - 1 \in 1 .. n /\ i - 1 # j - 1
            BY <1>1, <1>2, <2>6
        <3> QED BY <2>1, <3>1
    <2>7. (i < p \/ i = p \/ p < i) /\ (j < p \/ j = p \/ p < j)
        BY <1>1
    <2>8. ~(p < i /\ j = p) /\ ~(p < i /\ j < p) /\ ~(i = p /\ j < p) /\ ~(i = p /\ j = p)
        BY <1>1
    <2> QED BY <2>2, <2>3, <2>4, <2>5, <2>6, <2>7, <2>8
<1>8. Listed(list) = Listed(delayed) \cup {x.id}
    <2>1. ASSUME NEW r \in Listed(list) PROVE r \in Listed(delayed) \cup {x.id}
        <3>1. PICK j \in 1 .. n + 1 : r = list[j].id
            BY <1>3 DEF Listed
        <3>2. CASE j < p
            <4>1. list[j] = delayed[j] /\ j \in 1 .. n
                BY <1>1, <1>2, <3>2
            <4> QED BY <1>1, <3>1, <4>1 DEF Listed
        <3>3. CASE j = p
            BY <1>2, <3>1, <3>3
        <3>4. CASE p < j
            <4>1. list[j] = delayed[j - 1] /\ j - 1 \in 1 .. n
                BY <1>1, <1>2, <3>4
            <4> QED BY <1>1, <3>1, <4>1 DEF Listed
        <3>5. j < p \/ j = p \/ p < j
            BY <1>1
        <3> QED BY <3>2, <3>3, <3>4, <3>5
    <2>2. ASSUME NEW i \in 1 .. n PROVE delayed[i].id \in Listed(list)
        <3>1. CASE i < p
            <4>1. list[i] = delayed[i] /\ i \in 1 .. n + 1
                BY <1>1, <1>2, <3>1
            <4> QED BY <1>3, <4>1 DEF Listed
        <3>2. CASE ~(i < p)
            <4>1. list[i + 1] = delayed[i + 1 - 1] /\ i + 1 \in 1 .. n + 1 /\ i + 1 - 1 = i
                BY <1>1, <1>2, <3>2
            <4> QED BY <1>3, <4>1 DEF Listed
        <3> QED BY <3>1, <3>2
    <2>3. x.id \in Listed(list)
        <3>1. list[p] = x /\ p \in 1 .. n + 1
            BY <1>1, <1>2
        <3> QED BY <1>3, <3>1 DEF Listed
    <2> QED BY <1>1, <2>1, <2>2, <2>3 DEF Listed
<1> QED BY <1>2, <1>5, <1>7, <1>8 DEF GoodList, list

\* checkDelayedRequests takes some requests from the list, which stays good,
\* and leaves the timer set for the first of the others.
LEMMA CheckProperties ==
    ASSUME NEW list, GoodList(list), NEW was \in Times \cup {Off}, NEW sessions,
           CheckDelayedRequests(list, was, sessions)
    PROVE  \E G \in SUBSET Listed(list) :
             /\ GoodList(delayed') /\ Listed(delayed') = Listed(list) \ G
             /\ inSession' = [r \in Requests |-> IF r \in G \cap known THEN byDc[r].dc ELSE sessions[r]]
             /\ timer' \in Times \cup {Off}
             /\ delayed' # <<>> => timer' = delayed'[1].at
<1> DEFINE n == Due(list)
           left == SubSeq(list, n + 1, Len(list))
           G == {list[i].id : i \in 1 .. n}
<1>0. list \in Seq(Entry) /\ Ordered(list) /\ Distinct(list)
    BY DEF GoodList
<1>1. /\ Len(list) \in Nat /\ DOMAIN list = 1 .. Len(list)
      /\ \A i \in 1 .. Len(list) : list[i] \in Entry /\ list[i].at \in Nat
    BY <1>0, EntryOfList
<1>2. n \in 0 .. Len(list)
    <2>1. FirstLater(list, 0) \in 1 .. Len(list) + 1
        BY <1>0, FirstLaterProperties
    <2> QED BY <1>1, <2>1 DEF Due
<1> HIDE DEF n
<1>3. left \in Seq(Entry) /\ Len(left) = Len(list) - n /\ \A i \in 1 .. Len(list) - n : left[i] = list[n + i]
    BY <1>0, <1>2, RestProperties
<1>4. delayed' = left /\ timer' = NextTimer(left, was)
      /\ inSession' = [r \in Requests |-> IF r \in G \cap known THEN byDc[r].dc ELSE sessions[r]]
    BY DEF CheckDelayedRequests, n
<1> HIDE DEF left
<1>5. DOMAIN left = 1 .. Len(list) - n /\ \A i \in 1 .. Len(list) - n : n + i \in 1 .. Len(list)
    BY <1>1, <1>2, <1>3, LenProperties
<1>6. Ordered(left)
    <2> SUFFICES ASSUME NEW i \in DOMAIN left, NEW j \in DOMAIN left, i <= j
                 PROVE  left[i].at <= left[j].at
        BY DEF Ordered
    <2>1. left[i] = list[n + i] /\ left[j] = list[n + j]
        BY <1>3, <1>5
    <2>2. n + i \in DOMAIN list /\ n + j \in DOMAIN list /\ n + i <= n + j
        BY <1>1, <1>2, <1>5
    <2> QED BY <1>0, <2>1, <2>2 DEF Ordered
<1>7. Distinct(left)
    <2> SUFFICES ASSUME NEW i \in DOMAIN left, NEW j \in DOMAIN left, left[i].id = left[j].id
                 PROVE  i = j
        BY DEF Distinct
    <2>1. left[i] = list[n + i] /\ left[j] = list[n + j]
        BY <1>3, <1>5
    <2>2. n + i \in DOMAIN list /\ n + j \in DOMAIN list
        BY <1>1, <1>5
    <2>3. n + i = n + j
        BY <1>0, <2>1, <2>2 DEF Distinct
    <2> QED BY <1>1, <1>2, <1>5, <2>3
<1>8. Listed(left) = Listed(list) \ G
    <2>1. ASSUME NEW r \in Listed(left) PROVE r \in Listed(list) /\ r \notin G
        <3>1. PICK i \in DOMAIN left : r = left[i].id
            BY DEF Listed
        <3>2. left[i] = list[n + i] /\ n + i \in DOMAIN list
            BY <1>1, <1>3, <1>5
        <3>3. ASSUME NEW k \in 1 .. n, list[k].id = r PROVE FALSE
            <4>1. k \in DOMAIN list /\ k # n + i
                BY <1>1, <1>2, <1>5
            <4> QED BY <1>0, <3>1, <3>2, <3>3, <4>1 DEF Distinct
        <3> QED BY <3>1, <3>2, <3>3 DEF Listed
    <2>2. ASSUME NEW r \in Listed(list), r \notin G PROVE r \in Listed(left)
        <3>1. PICK k \in DOMAIN list : r = list[k].id
            BY DEF Listed
        <3>2. k \notin 1 .. n
            BY <2>2, <3>1
        <3>3. k - n \in 1 .. Len(list) - n /\ n + (k - n) = k
            BY <1>1, <1>2, <3>1, <3>2
        <3>4. left[k - n] = list[k] /\ k - n \in DOMAIN left
            BY <1>3, <1>5, <3>3
        <3> QED BY <3>1, <3>4 DEF Listed
    <2> QED BY <2>1, <2>2
<1>9. G \in SUBSET Listed(list)
    BY <1>1, <1>2 DEF Listed
<1>10. /\ timer' \in Times \cup {Off}
       /\ delayed' # <<>> => timer' = delayed'[1].at
    <2>1. CASE left = <<>>
        BY <1>4, <2>1 DEF NextTimer
    <2>2. CASE left # <<>>
        <3>1. timer' = left[1].at
            BY <1>4, <2>2 DEF NextTimer
        <3>2. left[1] \in Entry
            BY <1>3, <2>2, EmptySeq, ElementOfSeq
        <3> QED BY <1>4, <3>1, <3>2 DEF Entry
    <2> QED BY <2>1, <2>2
<1> HIDE DEF G
<1> QED BY <1>3, <1>4, <1>6, <1>7, <1>8, <1>9, <1>10 DEF GoodList

-----------------------------------------------------------------------------
\* The inductive invariant.

\* A request that is known has been asked for and is registered at a data
\* centre; only such requests are delayed or wait.
Asked ==
    /\ known \subseteq asked
    /\ Listed(delayed) \subseteq asked
    /\ \A d \in Dcs : waiters[d] \subseteq asked
    /\ \A r \in known : byDc[r].dc \in Dcs

\* No known request is in two places, not even a lost one, and the data centre
\* for which it waits is the one it is registered at.
Apart ==
    \A r \in known :
        /\ inSession[r] # 0 => r \notin Listed(delayed)
        /\ \A d \in Dcs : r \in waiters[d] =>
              inSession[r] = 0 /\ r \notin Listed(delayed) /\ byDc[r].dc = d

\* A known request that is not lost is somewhere.
Somewhere ==
    \A r \in known \ lost :
        \/ inSession[r] # 0
        \/ r \in Listed(delayed)
        \/ \E d \in Dcs : r \in waiters[d] /\ auth[d] # "none"

\* The timer is set for the first delayed request.
Timed == delayed # <<>> => timer # Off /\ timer <= delayed[1].at

Inv == TypeOK /\ GoodList(delayed) /\ Timed /\ Asked /\ Apart /\ Somewhere /\ FoundByDc

LEMMA DelayedIsListed == \A r : IsDelayed(r) <=> r \in Listed(delayed)
BY DEF IsDelayed, Listed

LEMMA InvImplies == Inv => Placed /\ FoundByDc /\ DelayedIsTimed
<1> SUFFICES ASSUME Inv PROVE Placed /\ DelayedIsTimed
    BY DEF Inv
<1>1. Placed
    BY DelayedIsListed DEF Inv, Placed, Apart, Somewhere
<1>2. DelayedIsTimed
    <2> SUFFICES ASSUME delayed # <<>>
                 PROVE  \A i \in DOMAIN delayed : delayed[1].at <= delayed[i].at
        BY DEF DelayedIsTimed, Inv, Timed
    <2>1. delayed \in Seq(Entry) /\ Ordered(delayed)
        BY DEF Inv, GoodList
    <2>2. Len(delayed) \in Nat \ {0} /\ DOMAIN delayed = 1 .. Len(delayed)
        BY <2>1, EmptySeq, LenProperties
    <2> QED BY <2>1, <2>2 DEF Ordered
<1> QED BY <1>1, <1>2

-----------------------------------------------------------------------------
LEMMA InitInv == Init => Inv
<1> SUFFICES ASSUME Init PROVE Inv
    OBVIOUS
<1>1. delayed \in Seq(Entry) /\ DOMAIN delayed = {}
    BY EmptySeq, EntryOfList DEF Init
<1>2. TypeOK
    <2>1. NoDc \in [dc : Dcs \cup {0}, main : BOOLEAN]
        BY DEF NoDc
    <2>2. byDc \in [Requests -> [dc : Dcs \cup {0}, main : BOOLEAN]]
        BY <2>1, Zenon DEF Init
    <2>3. delays \in [Requests -> 0 .. 2 * MaxDelay] /\ after \in [Requests -> Requests \cup {0}]
        BY RegistryAssumption DEF Init
    <2>4. errors \in 0 .. MaxErrors
        BY RegistryAssumption DEF Init
    <2> QED BY <1>1, <2>2, <2>3, <2>4, RegistryAssumption DEF Init, TypeOK, Entry
<1>3. GoodList(delayed) /\ Timed
    BY <1>1 DEF GoodList, Ordered, Distinct, Timed, Init
<1>4. Asked /\ Apart /\ Somewhere /\ FoundByDc
    BY <1>1 DEF Asked, Apart, Somewhere, FoundByDc, Listed, Init
<1> QED BY <1>2, <1>3, <1>4 DEF Inv

\* What the list of delayed requests promises stays when nothing touches it.
LEMMA TimesUnchanged ==
    ASSUME Inv, UNCHANGED <<delayed, timer>>
    PROVE  GoodList(delayed)' /\ Timed' /\ Listed(delayed)' = Listed(delayed)
BY DEF Inv, GoodList, Ordered, Distinct, Timed, Listed

LEMMA ErrorIsCounted == ASSUME Inv, Error PROVE errors' \in 0 .. MaxErrors
BY RegistryAssumption DEF Inv, TypeOK, Error

\* What the types of a registered request are.
LEMMA DcTypes ==
    ASSUME Inv
    PROVE  /\ \A r \in Requests : byDc[r].dc \in Dcs \cup {0} /\ byDc[r].main \in BOOLEAN
           /\ \A d \in Dcs : d # 0
BY RegistryAssumption DEF Inv, TypeOK

LEMMA SendInv ==
    ASSUME Inv, NEW r \in Requests, NEW dc \in Dcs \cup {0}, NEW follow \in Requests \cup {0},
           SendRequest(r, dc, follow)
    PROVE  Inv'
<1> DEFINE to == IF dc = 0 THEN [dc |-> mainDc, main |-> TRUE] ELSE [dc |-> dc, main |-> FALSE]
<1>0. UNCHANGED <<delays, badGuest, delayed, timer, waiters, mainDc, auth, errors, lost>>
    BY DEF SendRequest, times
<1>1. GoodList(delayed)' /\ Timed' /\ Listed(delayed)' = Listed(delayed)
    BY <1>0, TimesUnchanged
<1>2. to \in [dc : Dcs, main : BOOLEAN] /\ to.dc \in Dcs /\ to.dc # 0
    BY RegistryAssumption DEF Inv, TypeOK
<1> HIDE DEF to
<1>3. byDc' = [byDc EXCEPT ![r] = to]
    BY DEF SendRequest, to
<1>4. byDc' \in [Requests -> [dc : Dcs \cup {0}, main : BOOLEAN]]
    BY <1>2, <1>3 DEF Inv, TypeOK
<1>5. byDc'[r] = to /\ \A x \in Requests : x # r => byDc'[x] = byDc[x]
    BY <1>3 DEF Inv, TypeOK
<1>6. inSession' = [inSession EXCEPT ![r] = to.dc]
    BY <1>5 DEF SendRequest
<1>7. known' = known \cup {r} /\ asked' = asked \cup {r} /\ r \notin asked
    BY DEF SendRequest
<1>8. inSession'[r] = to.dc /\ \A x \in Requests : x # r => inSession'[x] = inSession[x]
    BY <1>6 DEF Inv, TypeOK
<1>9. r \notin known /\ r \notin Listed(delayed) /\ \A d \in Dcs : r \notin waiters[d]
    BY <1>7 DEF Inv, Asked
<1>10. TypeOK'
    <2>1. after' \in [Requests -> Requests \cup {0}]
        BY DEF SendRequest, Inv, TypeOK
    <2>2. inSession' \in [Requests -> Dcs \cup {0}]
        BY <1>2, <1>6 DEF Inv, TypeOK
    <2> QED BY <1>0, <1>4, <1>7, <2>1, <2>2 DEF Inv, TypeOK
<1>11. known \subseteq Requests
    BY DEF Inv, TypeOK
<1>12. Asked'
    BY <1>0, <1>1, <1>2, <1>5, <1>7, <1>11 DEF Inv, Asked
<1>13. Apart'
    BY <1>0, <1>1, <1>2, <1>5, <1>7, <1>8, <1>9, <1>11 DEF Inv, Apart
<1>14. Somewhere'
    BY <1>0, <1>1, <1>2, <1>5, <1>7, <1>8, <1>9, <1>11 DEF Inv, Somewhere
<1>15. FoundByDc'
    BY <1>0, <1>1, <1>2, <1>5, <1>7, <1>8, <1>9, <1>11 DEF Inv, FoundByDc
<1> QED BY <1>1, <1>10, <1>12, <1>13, <1>14, <1>15 DEF Inv

\* A request that is unregistered and in no session needs nothing more.
LEMMA UnregisterInv ==
    ASSUME Inv, NEW r \in Requests, UnregisterRequest(r), inSession' = Taken(r),
           UNCHANGED <<delayed, timer, waiters, mainDc, auth, asked, lost>>,
           errors' \in 0 .. MaxErrors
    PROVE  Inv'
<1>1. GoodList(delayed)' /\ Timed' /\ Listed(delayed)' = Listed(delayed)
    BY TimesUnchanged
<1>2. known' = known \ {r} /\ known \subseteq Requests /\ UNCHANGED <<after, badGuest>>
    BY DEF UnregisterRequest, Inv, TypeOK
<1>3. byDc' = [byDc EXCEPT ![r] = NoDc] /\ delays' = [delays EXCEPT ![r] = 0]
    BY DEF UnregisterRequest
<1>4. \A x \in Requests : x # r => byDc'[x] = byDc[x]
    BY <1>3 DEF Inv, TypeOK
<1>5. inSession' \in [Requests -> Dcs \cup {0}] /\ inSession'[r] = 0
      /\ \A x \in Requests : x # r => inSession'[x] = inSession[x]
    BY DEF Taken, Inv, TypeOK
<1>6. TypeOK'
    <2>1. NoDc \in [dc : Dcs \cup {0}, main : BOOLEAN]
        BY DEF NoDc
    <2>2. byDc' \in [Requests -> [dc : Dcs \cup {0}, main : BOOLEAN]]
        BY <1>3, <2>1 DEF Inv, TypeOK
    <2>3. delays' \in [Requests -> 0 .. 2 * MaxDelay]
        <3>1. 0 \in 0 .. 2 * MaxDelay
            BY RegistryAssumption
        <3> QED BY <1>3, <3>1 DEF Inv, TypeOK
    <2> QED BY <1>2, <1>5, <2>2, <2>3 DEF Inv, TypeOK
<1>7. Asked'
    BY <1>1, <1>2, <1>4 DEF Inv, Asked
<1>8. Apart'
    BY <1>1, <1>2, <1>4, <1>5 DEF Inv, Apart
<1>9. Somewhere'
    BY <1>1, <1>2, <1>4, <1>5 DEF Inv, Somewhere
<1>10. FoundByDc'
    BY <1>1, <1>2, <1>4, <1>5 DEF Inv, FoundByDc
<1> QED BY <1>1, <1>6, <1>7, <1>8, <1>9, <1>10 DEF Inv

LEMMA CancelInv == ASSUME Inv, NEW r \in Requests, Cancel(r) PROVE Inv'
<1>1. inSession' = Taken(r)
    <2>1. CASE inSession[r] = byDc[r].dc
        BY <2>1 DEF Cancel, Taken
    <2>2. CASE inSession[r] # byDc[r].dc
        <3>1. inSession[r] = 0
            BY <2>2 DEF Inv, FoundByDc
        <3>2. inSession = [inSession EXCEPT ![r] = 0]
            BY <3>1 DEF Inv, TypeOK
        <3> QED BY <2>2, <3>2 DEF Cancel, Taken
    <2> QED BY <2>1, <2>2
<1>2. UnregisterRequest(r) /\ UNCHANGED <<delayed, timer, waiters, mainDc, auth, asked, lost>>
    BY DEF Cancel, times
<1>3. errors' \in 0 .. MaxErrors
    BY ErrorIsCounted DEF Cancel
<1> QED BY <1>1, <1>2, <1>3, UnregisterInv

LEMMA ExecCallbackInv == ASSUME Inv, NEW r \in Requests, ExecCallback(r) PROVE Inv'
<1>1. /\ UnregisterRequest(r) /\ inSession' = Taken(r)
      /\ UNCHANGED <<delayed, timer, waiters, mainDc, auth, asked, lost>>
    BY DEF ExecCallback, times
<1>2. errors' \in 0 .. MaxErrors
    BY DEF ExecCallback, Inv, TypeOK
<1> QED BY <1>1, <1>2, UnregisterInv

\* A request of a session is known and in no other place.
LEMMA AnsweredIsOnlyThere ==
    ASSUME Inv, NEW r \in Requests, Answered(r)
    PROVE  /\ r \in known /\ inSession[r] # 0 /\ byDc[r].dc = inSession[r]
           /\ byDc[r].dc \in Dcs
           /\ r \notin Listed(delayed)
           /\ \A d \in Dcs : r \notin waiters[d]
BY DEF Inv, Answered, FoundByDc, Apart, Asked

LEMMA NotInitedInv == ASSUME Inv, NEW r \in Requests, NotInited(r) PROVE Inv'
<1>1. UNCHANGED <<known, byDc, after, delays, badGuest, delayed, timer, waiters, mainDc, auth, asked, lost>>
    BY DEF NotInited, maps, times
<1>2. inSession' = inSession
    <2>1. byDc[r].dc = inSession[r]
        BY AnsweredIsOnlyThere DEF NotInited
    <2> QED BY <2>1 DEF NotInited, Inv, TypeOK
<1>3. errors' \in 0 .. MaxErrors
    BY ErrorIsCounted DEF NotInited
<1>4. GoodList(delayed)' /\ Timed' /\ Listed(delayed)' = Listed(delayed)
    BY <1>1, TimesUnchanged
<1> QED BY <1>1, <1>2, <1>3, <1>4 DEF Inv, TypeOK, Asked, Apart, Somewhere, FoundByDc

\* When checkDelayedRequests has run on a good list of requests that were
\* asked for, and each request that is known and not lost was in the list or
\* in one other place, then all is well again.
LEMMA CheckInv ==
    ASSUME Inv, NEW list, GoodList(list), NEW was \in Times \cup {Off},
           NEW sessions \in [Requests -> Dcs \cup {0}],
           CheckDelayedRequests(list, was, sessions),
           Listed(list) \subseteq asked,
           \A r \in known : r \in Listed(list) => sessions[r] = 0 /\ \A d \in Dcs : r \notin waiters[d],
           \A r \in Requests : sessions[r] # 0 => sessions[r] = inSession[r],
           lost \subseteq lost', lost' \subseteq Requests,
           \A r \in known \ lost' : \/ sessions[r] # 0
                                    \/ r \in Listed(list)
                                    \/ \E d \in Dcs : r \in waiters[d] /\ auth[d] # "none",
           delays' \in [Requests -> 0 .. 2 * MaxDelay], errors' \in 0 .. MaxErrors,
           UNCHANGED <<known, byDc, after, badGuest, waiters, mainDc, auth, asked>>
    PROVE  Inv'
<1>1. PICK G \in SUBSET Listed(list) :
         /\ GoodList(delayed') /\ Listed(delayed') = Listed(list) \ G
         /\ inSession' = [r \in Requests |-> IF r \in G \cap known THEN byDc[r].dc ELSE sessions[r]]
         /\ timer' \in Times \cup {Off}
         /\ delayed' # <<>> => timer' = delayed'[1].at
    BY CheckProperties
<1>2. \A r \in known : byDc[r].dc \in Dcs /\ byDc[r].dc # 0
    BY RegistryAssumption DEF Inv, Asked
<1>3. known \subseteq Requests
    BY DEF Inv, TypeOK
<1>4. inSession' \in [Requests -> Dcs \cup {0}]
    BY <1>1, <1>2, <1>3
<1>5. \A r \in Requests : inSession'[r] = IF r \in G \cap known THEN byDc[r].dc ELSE sessions[r]
    BY <1>1
<1>6. TypeOK'
    BY <1>1, <1>4 DEF Inv, TypeOK, GoodList, Entry
<1>7. Timed'
    <2> SUFFICES ASSUME delayed' # <<>> PROVE timer' # Off /\ timer' <= delayed'[1].at
        BY DEF Timed
    <2>1. delayed' \in Seq(Entry)
        BY <1>1 DEF GoodList
    <2>2. 1 \in 1 .. Len(delayed')
        BY <2>1, EmptySeq, LenProperties
    <2>3. delayed'[1].at \in Nat
        BY <2>1, <2>2, EntryOfList
    <2> QED BY <1>1, <2>3 DEF Off
<1>8. GoodList(delayed)' /\ Listed(delayed)' = Listed(list) \ G
    BY <1>1 DEF GoodList, Ordered, Distinct, Listed
<1>9. Asked'
    BY <1>2, <1>8 DEF Inv, Asked
<1>10. Apart'
    BY <1>3, <1>5, <1>8 DEF Inv, Apart
<1>11. Somewhere'
    BY <1>2, <1>3, <1>5, <1>8 DEF Somewhere
<1>12. FoundByDc'
    BY <1>3, <1>5 DEF Inv, FoundByDc
<1> QED BY <1>6, <1>7, <1>8, <1>9, <1>10, <1>11, <1>12 DEF Inv

LEMMA DelayedTimerInv == ASSUME Inv, DelayedTimer PROVE Inv'
<1>1. CheckDelayedRequests(delayed, Off, inSession)
    BY DEF DelayedTimer
<1>2. UNCHANGED <<known, byDc, after, badGuest, waiters, mainDc, auth, asked, delays, errors, lost>>
    BY DEF DelayedTimer, maps
<1>3. GoodList(delayed) /\ Listed(delayed) \subseteq asked
    BY DEF Inv, Asked
<1>4. inSession \in [Requests -> Dcs \cup {0}] /\ known \subseteq Requests /\ lost \subseteq Requests
      /\ delays \in [Requests -> 0 .. 2 * MaxDelay] /\ errors \in 0 .. MaxErrors
    BY DEF Inv, TypeOK
<1>5. \A r \in known : r \in Listed(delayed) => inSession[r] = 0 /\ \A d \in Dcs : r \notin waiters[d]
    BY DEF Inv, Apart
<1>6. \A r \in known \ lost : \/ inSession[r] # 0
                              \/ r \in Listed(delayed)
                              \/ \E d \in Dcs : r \in waiters[d] /\ auth[d] # "none"
    BY DEF Inv, Somewhere
<1>7. lost \subseteq lost' /\ lost' \subseteq Requests /\ lost' = lost
      /\ delays' \in [Requests -> 0 .. 2 * MaxDelay] /\ errors' \in 0 .. MaxErrors
    BY <1>2, <1>4
<1> QED BY <1>1, <1>2, <1>3, <1>4, <1>5, <1>6, <1>7, CheckInv

\* A request is taken from its session and the list is checked with the
\* request in it, or without it when it is lost.
LEMMA PutOffInv ==
    ASSUME Inv, NEW r \in Requests, Answered(r), NEW list, GoodList(list),
           Listed(list) = Listed(delayed) \cup {r} \/ (Listed(list) = Listed(delayed) /\ r \in lost'),
           CheckDelayedRequests(list, timer, Taken(r)),
           lost' = lost \/ lost' = lost \cup {r},
           delays' \in [Requests -> 0 .. 2 * MaxDelay], errors' \in 0 .. MaxErrors,
           UNCHANGED <<known, byDc, after, badGuest, waiters, mainDc, auth, asked>>
    PROVE  Inv'
<1>1. r \in known /\ r \notin Listed(delayed) /\ \A d \in Dcs : r \notin waiters[d]
    BY AnsweredIsOnlyThere
<1>2. /\ Taken(r) \in [Requests -> Dcs \cup {0}]
      /\ \A x \in Requests : Taken(r)[x] = IF x = r THEN 0 ELSE inSession[x]
    BY DEF Taken, Inv, TypeOK
<1>3. known \subseteq Requests /\ timer \in Times \cup {Off} /\ lost \subseteq Requests
    BY DEF Inv, TypeOK
<1>4. Listed(list) \subseteq asked
    BY <1>1 DEF Inv, Asked
<1>5. \A x \in known : x \in Listed(list) => Taken(r)[x] = 0 /\ \A d \in Dcs : x \notin waiters[d]
    BY <1>1, <1>2, <1>3 DEF Inv, Apart
<1>6. \A x \in Requests : Taken(r)[x] # 0 => Taken(r)[x] = inSession[x]
    BY <1>2
<1>7. lost \subseteq lost' /\ lost' \subseteq Requests
    BY <1>3
<1>8. \A x \in known \ lost' : \/ Taken(r)[x] # 0
                               \/ x \in Listed(list)
                               \/ \E d \in Dcs : x \in waiters[d] /\ auth[d] # "none"
    BY <1>2, <1>3 DEF Inv, Somewhere
<1> QED BY <1>2, <1>3, <1>4, <1>5, <1>6, <1>7, <1>8, CheckInv

LEMMA GrownIsBounded ==
    ASSUME Inv, NEW r \in Requests
    PROVE  Grown(r) \in 0 .. 2 * MaxDelay /\ Grown(r) \in Times
<1>1. delays[r] \in 0 .. 2 * MaxDelay
    BY DEF Inv, TypeOK
<1> QED BY <1>1, RegistryAssumption DEF Grown, Times

LEMMA DelayInv == ASSUME Inv, NEW r \in Requests, NEW secs \in {0, 3}, Delay(r, secs) PROVE Inv'
<1> DEFINE at == IF secs = 0 THEN Grown(r) ELSE secs
           x == [id |-> r, at |-> at]
           p == FirstLater(delayed, at)
<1>1. Answered(r) /\ r \notin Listed(delayed) /\ ~IsDelayed(r)
    BY AnsweredIsOnlyThere, DelayedIsListed DEF Delay
<1>2. at \in Times
    <2>1. 3 \in Times
        BY RegistryAssumption DEF Times
    <2> QED BY <2>1, GrownIsBounded
<1>3. x \in Entry /\ x.id = r /\ x.at = at
    BY <1>2 DEF Entry
<1>4. CheckDelayedRequests(InsertAt(delayed, p, x), timer, Taken(r))
    BY <1>1 DEF Delay, Insert
<1>5. delays' \in [Requests -> 0 .. 2 * MaxDelay]
    <2>1. delays \in [Requests -> 0 .. 2 * MaxDelay]
        BY DEF Inv, TypeOK
    <2> QED BY <2>1, GrownIsBounded DEF Delay
<1>6. GoodList(delayed) /\ delayed \in Seq(Entry) /\ Ordered(delayed) /\ at \in Nat
    BY <1>2, TimesAreNumbers DEF Inv, GoodList
<1> HIDE DEF at, x
<1>7. /\ p \in 1 .. Len(delayed) + 1
      /\ \A i \in 1 .. Len(delayed) : i < p => delayed[i].at <= at
      /\ p <= Len(delayed) => delayed[p].at > at
    BY <1>6, FirstLaterProperties
<1> HIDE DEF p
<1>8. ASSUME NEW i \in 1 .. Len(delayed)
      PROVE  IF i < p THEN delayed[i].at <= x.at ELSE x.at <= delayed[i].at
    <2>1. /\ Len(delayed) \in Nat /\ DOMAIN delayed = 1 .. Len(delayed)
          /\ \A j \in 1 .. Len(delayed) : delayed[j].at \in Nat
        BY <1>6, EntryOfList
    <2>2. CASE i < p
        BY <1>3, <1>7, <2>2
    <2>3. CASE ~(i < p)
        <3>1. p \in 1 .. Len(delayed) /\ p <= i
            BY <1>7, <2>1, <2>3
        <3>2. delayed[p].at <= delayed[i].at
            BY <1>6, <2>1, <3>1 DEF Ordered
        <3>3. delayed[p].at > at /\ delayed[p].at \in Nat /\ delayed[i].at \in Nat
            BY <1>7, <2>1, <3>1
        <3> QED BY <1>3, <1>6, <2>3, <3>2, <3>3
    <2> QED BY <2>2, <2>3
<1>9. /\ GoodList(InsertAt(delayed, p, x))
      /\ Listed(InsertAt(delayed, p, x)) = Listed(delayed) \cup {r}
    BY <1>1, <1>3, <1>6, <1>7, <1>8, InsertGood
<1>10. /\ UNCHANGED <<known, byDc, after, badGuest, waiters, mainDc, auth, asked>>
       /\ lost' = lost
    BY DEF Delay
<1>11. errors' \in 0 .. MaxErrors
    BY ErrorIsCounted DEF Delay
<1> QED BY <1>1, <1>4, <1>5, <1>9, <1>10, <1>11, PutOffInv

-----------------------------------------------------------------------------
\* A request of a session joins those that wait for their data centre.
LEMMA JoinInv ==
    ASSUME Inv, NEW r \in Requests, Answered(r), NEW d, d = byDc[r].dc,
           waiters' = [waiters EXCEPT ![d] = @ \cup {r}],
           inSession' = Taken(r),
           auth' \in [Dcs -> {"none", "export", "import"}],
           \A x \in Dcs : auth[x] # "none" => auth'[x] # "none",
           r \in lost' \/ auth'[d] # "none",
           lost' = lost \/ lost' = lost \cup {r},
           badGuest' \subseteq Requests, errors' \in 0 .. MaxErrors,
           UNCHANGED <<known, byDc, after, delays, delayed, timer, mainDc, asked>>
    PROVE  Inv'
<1>1. /\ r \in known /\ inSession[r] # 0 /\ d \in Dcs
      /\ r \notin Listed(delayed) /\ \A y \in Dcs : r \notin waiters[y]
    BY AnsweredIsOnlyThere
<1>2. GoodList(delayed)' /\ Timed' /\ Listed(delayed)' = Listed(delayed)
    BY TimesUnchanged
<1>3. /\ inSession' \in [Requests -> Dcs \cup {0}]
      /\ \A x \in Requests : inSession'[x] = IF x = r THEN 0 ELSE inSession[x]
    BY DEF Taken, Inv, TypeOK
<1>4. /\ waiters' \in [Dcs -> SUBSET Requests]
      /\ \A y \in Dcs : waiters'[y] = IF y = d THEN waiters[y] \cup {r} ELSE waiters[y]
    BY <1>1 DEF Inv, TypeOK
<1>5. known \subseteq Requests
    BY DEF Inv, TypeOK
<1>6. TypeOK'
    BY <1>3, <1>4 DEF Inv, TypeOK
<1>7. Asked'
    BY <1>1, <1>2, <1>4 DEF Inv, Asked
<1>8. Apart'
    BY <1>1, <1>2, <1>3, <1>4, <1>5 DEF Inv, Apart
<1>9. Somewhere'
    <2> SUFFICES ASSUME NEW x \in known \ lost'
                 PROVE  \/ inSession'[x] # 0
                        \/ x \in Listed(delayed)
                        \/ \E y \in Dcs : x \in waiters'[y] /\ auth'[y] # "none"
        BY <1>2 DEF Somewhere
    <2>1. CASE x = r
        BY <1>1, <1>4, <2>1
    <2>2. CASE x # r
        BY <1>3, <1>4, <1>5, <2>2 DEF Inv, Somewhere
    <2> QED BY <2>1, <2>2
<1>10. FoundByDc'
    BY <1>3 DEF Inv, FoundByDc
<1> QED BY <1>2, <1>6, <1>7, <1>8, <1>9, <1>10 DEF Inv

LEMMA UnauthorisedInv ==
    ASSUME Inv, NEW r \in Requests, NEW bad \in BOOLEAN, Unauthorised(r, bad)
    PROVE  Inv'
<1> DEFINE d == byDc[r].dc
<1>1. Answered(r) /\ d \in Dcs
    BY AnsweredIsOnlyThere DEF Unauthorised
<1>2. /\ waiters' = [waiters EXCEPT ![d] = @ \cup {r}] /\ inSession' = Taken(r)
      /\ auth' = StartExport(d)
      /\ lost' = (IF waiters[d] # {} /\ auth[d] = "none" THEN lost \cup {r} ELSE lost)
      /\ badGuest' = (IF bad THEN badGuest \cup {r} ELSE badGuest)
      /\ UNCHANGED <<known, byDc, after, delays, delayed, timer, mainDc, asked>>
    BY DEF Unauthorised, times
<1>3. errors' \in 0 .. MaxErrors
    BY ErrorIsCounted DEF Unauthorised
<1>4. badGuest' \subseteq Requests
    BY <1>2 DEF Inv, TypeOK
<1>5. auth \in [Dcs -> {"none", "export", "import"}]
    BY DEF Inv, TypeOK
<1>6. /\ auth' \in [Dcs -> {"none", "export", "import"}]
      /\ \A x \in Dcs : auth[x] # "none" => auth'[x] # "none"
      /\ r \in lost' \/ auth'[d] # "none"
    <2>1. CASE waiters[d] = {}
        <3>1. auth' = [auth EXCEPT ![d] = "export"]
            BY <1>2, <2>1 DEF StartExport
        <3> HIDE DEF d
        <3> QED BY <1>1, <1>5, <3>1
    <2>2. CASE waiters[d] # {}
        <3>1. auth' = auth
            BY <1>2, <2>2 DEF StartExport
        <3> QED BY <1>2, <1>5, <2>2, <3>1
    <2> QED BY <2>1, <2>2
<1>7. lost' = lost \/ lost' = lost \cup {r}
    BY <1>2
<1> QED BY <1>1, <1>2, <1>3, <1>4, <1>6, <1>7, JoinInv

LEMMA WaitFailedInv == ASSUME Inv, NEW r \in Requests, WaitFailed(r) PROVE Inv'
<1> DEFINE a == after[r]
           d == byDc[r].dc
<1>1. Answered(r) /\ d \in Dcs /\ r \in known /\ inSession[r] = d /\ r \notin Listed(delayed) /\ ~IsDelayed(r)
    BY AnsweredIsOnlyThere, DelayedIsListed DEF WaitFailed
<1>2. errors' \in 0 .. MaxErrors
    BY ErrorIsCounted DEF WaitFailed
<1>3. UNCHANGED <<mainDc, auth, asked>>
    BY DEF WaitFailed
<1>4. CASE a \notin known
    <2>1. UnregisterRequest(r) /\ inSession' = Taken(r) /\ UNCHANGED <<delayed, timer, waiters, lost>>
        BY <1>4 DEF WaitFailed
    <2> QED BY <1>2, <1>3, <2>1, UnregisterInv
<1>5. CASE a \in known /\ byDc[r] # byDc[a]
    <2>1. /\ after' = [after EXCEPT ![r] = 0] /\ inSession' = [inSession EXCEPT ![r] = d]
          /\ UNCHANGED <<known, byDc, delays, badGuest, delayed, timer, waiters, lost>>
        BY <1>5 DEF WaitFailed
    <2>2. inSession' = inSession /\ after' \in [Requests -> Requests \cup {0}]
        BY <1>1, <2>1 DEF Inv, TypeOK
    <2>3. GoodList(delayed)' /\ Timed' /\ Listed(delayed)' = Listed(delayed)
        BY <2>1, TimesUnchanged
    <2>4. TypeOK'
        BY <1>2, <1>3, <2>1, <2>2 DEF Inv, TypeOK
    <2>5. Asked' /\ Apart' /\ Somewhere' /\ FoundByDc'
        BY <1>3, <2>1, <2>2, <2>3 DEF Inv, Asked, Apart, Somewhere, FoundByDc
    <2> QED BY <2>3, <2>4, <2>5 DEF Inv
<1>6. CASE a \in known /\ byDc[r] = byDc[a] /\ a \in waiters[d]
    <2>1. /\ waiters' = [waiters EXCEPT ![d] = @ \cup {r}] /\ inSession' = Taken(r)
          /\ badGuest' = (IF a \in badGuest THEN badGuest \cup {r} ELSE badGuest)
          /\ lost' = lost \cup ({r} \cap IF auth[d] = "none" THEN {r} ELSE {})
          /\ UNCHANGED <<known, byDc, after, delays, delayed, timer>>
        BY <1>6 DEF WaitFailed
    <2>2. badGuest' \subseteq Requests /\ auth \in [Dcs -> {"none", "export", "import"}]
        BY <2>1 DEF Inv, TypeOK
    <2>3. (r \in lost' \/ auth'[d] # "none") /\ (lost' = lost \/ lost' = lost \cup {r})
        BY <1>3, <2>1
    <2> QED BY <1>1, <1>2, <1>3, <2>1, <2>2, <2>3, JoinInv
<1>7. CASE a \in known /\ byDc[r] = byDc[a] /\ a \notin waiters[d]
    <2>1. UNCHANGED <<known, byDc, after, delays, badGuest, waiters>>
        BY <1>7 DEF WaitFailed, maps
    <2>2. delays' \in [Requests -> 0 .. 2 * MaxDelay] /\ GoodList(delayed)
        BY <2>1 DEF Inv, TypeOK
    <2>3. CASE IsDelayed(a)
        <3> DEFINE S == {j \in DOMAIN delayed : delayed[j].id = a}
                   i == Min(S)
                   x == [id |-> r, at |-> delayed[i].at]
        <3>1. CheckDelayedRequests(InsertAt(delayed, i, x), timer, Taken(r)) /\ lost' = lost
            BY <1>1, <1>7, <2>3 DEF WaitFailed
        <3>2. delayed \in Seq(Entry) /\ Ordered(delayed)
            BY <2>2 DEF GoodList
        <3>3. /\ Len(delayed) \in Nat /\ DOMAIN delayed = 1 .. Len(delayed)
              /\ \A j \in 1 .. Len(delayed) : delayed[j] \in Entry /\ delayed[j].at \in Nat
            BY <3>2, EntryOfList
        <3>4. i \in 1 .. Len(delayed)
            <4>1. S \subseteq Nat /\ S # {}
                BY <2>3, <3>3 DEF IsDelayed
            <4>2. Min(S) \in S
                <5> HIDE DEF S
                <5> QED BY <4>1, Smallest
            <4> QED BY <3>3, <4>2
        <3> HIDE DEF i
        <3>5. x \in Entry /\ x.id = r /\ x.at = delayed[i].at
            BY <3>3, <3>4 DEF Entry
        <3> HIDE DEF x
        <3>6. ASSUME NEW j \in 1 .. Len(delayed)
              PROVE  IF j < i THEN delayed[j].at <= x.at ELSE x.at <= delayed[j].at
            <4>1. j <= i \/ i <= j
                BY <3>3, <3>4
            <4>2. (j <= i => delayed[j].at <= delayed[i].at) /\ (i <= j => delayed[i].at <= delayed[j].at)
                BY <3>2, <3>3, <3>4 DEF Ordered
            <4> QED BY <3>3, <3>4, <3>5, <4>1, <4>2
        <3>7. i \in 1 .. Len(delayed) + 1
            BY <3>3, <3>4
        <3>8. /\ GoodList(InsertAt(delayed, i, x))
              /\ Listed(InsertAt(delayed, i, x)) = Listed(delayed) \cup {r}
            BY <1>1, <2>2, <3>5, <3>6, <3>7, InsertGood
        <3> QED BY <1>1, <1>2, <1>3, <2>1, <2>2, <3>1, <3>8, PutOffInv
    <2>4. CASE ~IsDelayed(a)
        <3>1. CheckDelayedRequests(delayed, timer, Taken(r)) /\ lost' = lost \cup {r}
            BY <1>1, <1>7, <2>4 DEF WaitFailed
        <3> QED BY <1>1, <1>2, <1>3, <2>1, <2>2, <3>1, PutOffInv
    <2> QED BY <2>3, <2>4
<1> QED BY <1>4, <1>5, <1>6, <1>7

-----------------------------------------------------------------------------
\* What is common to the steps that change the data centres: nothing is put
\* into the list, and every request that leaves its place without another
\* one is lost.
LEMMA MoveInv ==
    ASSUME Inv,
           UNCHANGED <<known, after, delays, badGuest, delayed, timer, asked>>,
           errors' \in 0 .. MaxErrors,
           lost' \subseteq Requests, lost \subseteq lost', mainDc' \in Dcs,
           auth' \in [Dcs -> {"none", "export", "import"}],
           waiters' \in [Dcs -> SUBSET Requests],
           inSession' \in [Requests -> Dcs \cup {0}],
           byDc' \in [Requests -> [dc : Dcs \cup {0}, main : BOOLEAN]],
           \A d \in Dcs : waiters'[d] \subseteq waiters[d],
           \A r \in known :
             /\ byDc'[r].dc \in Dcs
             /\ inSession'[r] # 0 => /\ byDc'[r].dc = inSession'[r]
                                     /\ r \notin Listed(delayed)
                                     /\ \A d \in Dcs : r \notin waiters'[d]
             /\ byDc'[r].dc # byDc[r].dc => \A d \in Dcs : r \notin waiters[d]
             /\ \/ r \in lost' \/ inSession'[r] # 0 \/ r \in Listed(delayed)
                \/ \E d \in Dcs : r \in waiters'[d] /\ auth'[d] # "none",
           \A r \in Requests \ known : inSession'[r] = inSession[r]
    PROVE  Inv'
<1>1. GoodList(delayed)' /\ Timed' /\ Listed(delayed)' = Listed(delayed)
    BY TimesUnchanged
<1>2. known \subseteq Requests
    BY DEF Inv, TypeOK
<1>3. TypeOK'
    BY DEF Inv, TypeOK
<1>4. Asked'
    <2>1. \A d \in Dcs : waiters'[d] \subseteq asked
        BY DEF Inv, Asked
    <2> QED BY <1>1, <2>1 DEF Inv, Asked
<1>5. Apart'
    <2> SUFFICES ASSUME NEW r \in known
                 PROVE  /\ inSession'[r] # 0 => r \notin Listed(delayed)
                        /\ \A d \in Dcs : r \in waiters'[d] =>
                              inSession'[r] = 0 /\ r \notin Listed(delayed) /\ byDc'[r].dc = d
        BY <1>1 DEF Apart
    <2>1. \A d \in Dcs : r \in waiters'[d] => r \in waiters[d]
        OBVIOUS
    <2>2. \A d \in Dcs : r \in waiters[d] => r \notin Listed(delayed) /\ byDc[r].dc = d
        BY DEF Inv, Apart
    <2> QED BY <2>1, <2>2
<1>6. Somewhere'
    BY <1>1 DEF Somewhere
<1>7. FoundByDc'
    BY <1>2 DEF Inv, FoundByDc
<1> QED BY <1>1, <1>3, <1>4, <1>5, <1>6, <1>7 DEF Inv

\* What is known before such a step.
LEMMA PlacesBefore ==
    ASSUME Inv
    PROVE  /\ known \subseteq Requests /\ lost \subseteq Requests /\ mainDc \in Dcs
           /\ auth \in [Dcs -> {"none", "export", "import"}]
           /\ waiters \in [Dcs -> SUBSET Requests]
           /\ inSession \in [Requests -> Dcs \cup {0}]
           /\ byDc \in [Requests -> [dc : Dcs \cup {0}, main : BOOLEAN]]
           /\ \A r \in known :
                /\ byDc[r].dc \in Dcs
                /\ inSession[r] # 0 => /\ byDc[r].dc = inSession[r]
                                       /\ r \notin Listed(delayed)
                                       /\ \A d \in Dcs : r \notin waiters[d]
                /\ \A d \in Dcs : r \in waiters[d] =>
                      inSession[r] = 0 /\ r \notin Listed(delayed) /\ byDc[r].dc = d
                /\ \/ r \in lost \/ inSession[r] # 0 \/ r \in Listed(delayed)
                   \/ \E d \in Dcs : r \in waiters[d] /\ auth[d] # "none"
           /\ \A r \in Requests \ known : inSession[r] = 0
<1>1. /\ known \subseteq Requests /\ lost \subseteq Requests /\ mainDc \in Dcs
      /\ auth \in [Dcs -> {"none", "export", "import"}]
      /\ waiters \in [Dcs -> SUBSET Requests]
      /\ inSession \in [Requests -> Dcs \cup {0}]
      /\ byDc \in [Requests -> [dc : Dcs \cup {0}, main : BOOLEAN]]
    BY DEF Inv, TypeOK
<1>2. ASSUME NEW r \in known
      PROVE  /\ byDc[r].dc \in Dcs
             /\ inSession[r] # 0 => /\ byDc[r].dc = inSession[r]
                                    /\ r \notin Listed(delayed)
                                    /\ \A d \in Dcs : r \notin waiters[d]
    BY <1>1 DEF Inv, Asked, Apart, FoundByDc
<1>3. ASSUME NEW r \in known
      PROVE  \A d \in Dcs : r \in waiters[d] =>
                inSession[r] = 0 /\ r \notin Listed(delayed) /\ byDc[r].dc = d
    BY DEF Inv, Apart
<1>4. ASSUME NEW r \in known
      PROVE  \/ r \in lost \/ inSession[r] # 0 \/ r \in Listed(delayed)
             \/ \E d \in Dcs : r \in waiters[d] /\ auth[d] # "none"
    BY DEF Inv, Somewhere
<1>5. \A r \in Requests \ known : inSession[r] = 0
    BY DEF Inv, FoundByDc
<1> QED BY <1>1, <1>2, <1>3, <1>4, <1>5

LEMMA ExportDoneInv == ASSUME Inv, NEW d \in Dcs, ExportDone(d) PROVE Inv'
<1>1. /\ auth[d] = "export" /\ auth' = [auth EXCEPT ![d] = "import"]
      /\ UNCHANGED <<known, byDc, after, delays, badGuest, delayed, timer, asked>>
      /\ UNCHANGED <<waiters, mainDc, inSession, lost>>
    BY DEF ExportDone, maps, times
<1>2. errors' \in 0 .. MaxErrors
    BY DEF ExportDone, Inv, TypeOK
<1>3. \A x \in Dcs : auth[x] # "none" => auth'[x] # "none"
    BY <1>1, PlacesBefore
<1>4. auth' \in [Dcs -> {"none", "export", "import"}]
    BY <1>1, PlacesBefore
<1> QED BY <1>1, <1>2, <1>3, <1>4, PlacesBefore, MoveInv

LEMMA ExportFailInv == ASSUME Inv, NEW d \in Dcs, ExportFail(d) PROVE Inv'
<1>1. /\ auth' = [auth EXCEPT ![d] = "none"] /\ lost' = lost \cup waiters[d]
      /\ waiters' = [waiters EXCEPT ![d] = {}]
      /\ UNCHANGED <<known, byDc, after, delays, badGuest, delayed, timer, asked>>
      /\ UNCHANGED <<mainDc, inSession>>
    BY DEF ExportFail, maps, times
<1>2. errors' \in 0 .. MaxErrors
    BY ErrorIsCounted DEF ExportFail
<1>3. /\ auth' \in [Dcs -> {"none", "export", "import"}]
      /\ \A x \in Dcs : x # d => auth'[x] = auth[x]
    BY <1>1, PlacesBefore
<1>4. /\ waiters' \in [Dcs -> SUBSET Requests]
      /\ \A x \in Dcs : waiters'[x] = IF x = d THEN {} ELSE waiters[x]
    BY <1>1, PlacesBefore
<1>5. lost' \subseteq Requests /\ lost \subseteq lost'
    BY <1>1, PlacesBefore
<1>6. ASSUME NEW r \in known
      PROVE  \/ r \in lost' \/ inSession[r] # 0 \/ r \in Listed(delayed)
             \/ \E x \in Dcs : r \in waiters'[x] /\ auth'[x] # "none"
    BY <1>1, <1>3, <1>4, PlacesBefore
<1>7. \A x \in Dcs : waiters'[x] \subseteq waiters[x]
    BY <1>4
<1> QED BY <1>1, <1>2, <1>3, <1>4, <1>5, <1>6, <1>7, PlacesBefore, MoveInv

LEMMA ImportFailInv == ASSUME Inv, NEW d \in Dcs, ImportFail(d) PROVE Inv'
<1>1. /\ auth' = [auth EXCEPT ![d] = "none"] /\ lost' = lost \cup waiters[d]
      /\ UNCHANGED <<known, byDc, after, delays, badGuest, delayed, timer, asked>>
      /\ UNCHANGED <<mainDc, inSession, waiters>>
    BY DEF ImportFail, maps, times
<1>2. errors' \in 0 .. MaxErrors
    BY ErrorIsCounted DEF ImportFail
<1>3. /\ auth' \in [Dcs -> {"none", "export", "import"}]
      /\ \A x \in Dcs : x # d => auth'[x] = auth[x]
    BY <1>1, PlacesBefore
<1>4. lost' \subseteq Requests /\ lost \subseteq lost'
    BY <1>1, PlacesBefore
<1>5. ASSUME NEW r \in known
      PROVE  \/ r \in lost' \/ inSession[r] # 0 \/ r \in Listed(delayed)
             \/ \E x \in Dcs : r \in waiters[x] /\ auth'[x] # "none"
    BY <1>1, <1>3, PlacesBefore
<1> QED BY <1>1, <1>2, <1>3, <1>4, <1>5, PlacesBefore, MoveInv

LEMMA MigrateInv == ASSUME Inv, NEW r \in Requests, NEW dc \in Dcs, Migrate(r, dc) PROVE Inv'
<1>1. Answered(r) /\ r \in known /\ r \notin Listed(delayed) /\ (\A d \in Dcs : r \notin waiters[d]) /\ dc # 0
    BY AnsweredIsOnlyThere, RegistryAssumption DEF Migrate
<1>2. UNCHANGED <<known, after, delays, badGuest, delayed, timer, asked, waiters>>
    BY DEF Migrate, times
<1>3. errors' \in 0 .. MaxErrors
    BY ErrorIsCounted DEF Migrate
<1>4. /\ byDc' \in [Requests -> [dc : Dcs \cup {0}, main : BOOLEAN]]
      /\ byDc'[r].dc = dc /\ \A x \in Requests : x # r => byDc'[x] = byDc[x]
    <2>1. byDc' = [byDc EXCEPT ![r] = [@ EXCEPT !.dc = dc]]
        BY DEF Migrate, Registered
    <2>2. byDc[r] \in [dc : Dcs \cup {0}, main : BOOLEAN]
        BY PlacesBefore
    <2>3. /\ [byDc[r] EXCEPT !.dc = dc] \in [dc : Dcs \cup {0}, main : BOOLEAN]
          /\ [byDc[r] EXCEPT !.dc = dc].dc = dc
        BY <2>2
    <2>4. PICK b : b = [byDc[r] EXCEPT !.dc = dc]
        OBVIOUS
    <2>5. byDc' = [byDc EXCEPT ![r] = b] /\ b \in [dc : Dcs \cup {0}, main : BOOLEAN] /\ b.dc = dc
        BY <2>1, <2>3, <2>4
    <2> QED BY <2>5, PlacesBefore
<1>5. /\ lost' \subseteq Requests /\ lost \subseteq lost' /\ mainDc' \in Dcs
      /\ auth' \in [Dcs -> {"none", "export", "import"}]
      /\ inSession' \in [Requests -> Dcs \cup {0}]
      /\ inSession'[r] = dc
      /\ \A x \in Requests : x # r => inSession'[x] = inSession[x] \/ (inSession'[x] = 0 /\ x \in lost' /\ inSession[x] # 0)
      /\ \A d \in Dcs : auth'[d] = auth[d] \/ waiters[d] \subseteq lost'
    <2>1. CASE byDc[r].main
        <3>1. /\ mainDc' = dc
              /\ lost' = lost \cup (Killed(dc) \ {r}) \cup UNION {waiters[d] : d \in Unauthorized(dc)}
              /\ inSession' = [x \in Requests |-> IF x = r THEN dc
                                                  ELSE IF x \in Killed(dc) THEN 0 ELSE inSession[x]]
              /\ auth' = [d \in Dcs |-> IF d \in Unauthorized(dc) THEN "none" ELSE auth[d]]
            BY <2>1 DEF Migrate, SetMainDcId
        <3>2. Killed(dc) \subseteq Requests /\ Unauthorized(dc) \subseteq Dcs
              /\ \A x \in Killed(dc) : inSession[x] # 0
            BY RegistryAssumption, PlacesBefore DEF Killed, Unauthorized
        <3>3. lost' \subseteq Requests
            BY <3>1, <3>2, PlacesBefore
        <3> QED BY <3>1, <3>2, <3>3, PlacesBefore
    <2>2. CASE ~byDc[r].main
        <3>1. inSession' = [inSession EXCEPT ![r] = dc] /\ UNCHANGED <<mainDc, auth, lost>>
            BY <2>2 DEF Migrate
        <3> QED BY <3>1, PlacesBefore
    <2> QED BY <2>1, <2>2
<1>6. ASSUME NEW x \in known
      PROVE  /\ byDc'[x].dc \in Dcs
             /\ inSession'[x] # 0 => /\ byDc'[x].dc = inSession'[x]
                                     /\ x \notin Listed(delayed)
                                     /\ \A d \in Dcs : x \notin waiters'[d]
             /\ byDc'[x].dc # byDc[x].dc => \A d \in Dcs : x \notin waiters[d]
             /\ \/ x \in lost' \/ inSession'[x] # 0 \/ x \in Listed(delayed)
                \/ \E d \in Dcs : x \in waiters'[d] /\ auth'[d] # "none"
    <2>1. CASE x = r
        BY <1>1, <1>2, <1>4, <1>5, <2>1
    <2>2. CASE x # r
        <3>1. byDc'[x] = byDc[x] /\ x \in Requests
            BY <1>4, <2>2, PlacesBefore
        <3>2. inSession'[x] = inSession[x] \/ (inSession'[x] = 0 /\ x \in lost')
            BY <1>5, <2>2, <3>1
        <3> QED BY <1>2, <1>5, <3>1, <3>2, PlacesBefore
    <2> QED BY <2>1, <2>2
<1>7. \A x \in Requests \ known : inSession'[x] = inSession[x]
    BY <1>1, <1>5, PlacesBefore
<1>8. waiters' \in [Dcs -> SUBSET Requests] /\ \A d \in Dcs : waiters'[d] \subseteq waiters[d]
    BY <1>2, PlacesBefore
<1> QED BY <1>2, <1>3, <1>4, <1>5, <1>6, <1>7, <1>8, MoveInv

LEMMA ImportDoneInv == ASSUME Inv, NEW d \in Dcs, ImportDone(d) PROVE Inv'
<1> DEFINE ids == waiters[d] \cap known
           main == {r \in ids : byDc[r].main}
<1>1. UNCHANGED <<known, byDc, after, delays, badGuest, delayed, timer, errors, asked>>
      /\ waiters' = [waiters EXCEPT ![d] = {}]
    BY DEF ImportDone, maps, times
<1>2. errors' \in 0 .. MaxErrors
    BY <1>1 DEF Inv, TypeOK
<1>3. /\ waiters' \in [Dcs -> SUBSET Requests]
      /\ \A x \in Dcs : waiters'[x] = IF x = d THEN {} ELSE waiters[x]
    BY <1>1, PlacesBefore
<1>4. d # 0 /\ ids \subseteq Requests /\ main \subseteq ids
    BY RegistryAssumption, PlacesBefore
<1>5. /\ lost' \subseteq Requests /\ lost \subseteq lost' /\ mainDc' \in Dcs
      /\ auth' \in [Dcs -> {"none", "export", "import"}]
      /\ inSession' \in [Requests -> Dcs \cup {0}]
      /\ \A x \in ids : inSession'[x] = d \/ (x \in lost' /\ (inSession'[x] = 0 \/ inSession'[x] = inSession[x]))
      /\ \A x \in Requests \ ids : inSession'[x] = inSession[x] \/ (inSession'[x] = 0 /\ x \in lost' /\ inSession[x] # 0)
      /\ \A x \in Dcs \ {d} : auth'[x] = auth[x] \/ waiters[x] \subseteq lost'
    <2>1. CASE main = {}
        <3>1. /\ inSession' = [r \in Requests |-> IF r \in ids THEN d ELSE inSession[r]]
              /\ auth' = [auth EXCEPT ![d] = "none"]
              /\ UNCHANGED <<mainDc, lost>>
            BY <2>1 DEF ImportDone
        <3> HIDE DEF main, ids
        <3> QED BY <1>4, <3>1, PlacesBefore
    <2>2. CASE main # {}
        <3>1. PICK early \in SUBSET {r \in ids \ main : d # mainDc} :
              /\ mainDc' = d
              /\ lost' = lost \cup main \cup early \cup Killed(d)
                              \cup UNION {waiters[x] : x \in Unauthorized(d) \ {d}}
              /\ inSession' = [r \in Requests |-> IF r \in ids \ (main \cup early) THEN d
                                                  ELSE IF r \in Killed(d) THEN 0 ELSE inSession[r]]
              /\ auth' = [x \in Dcs |-> IF x \in Unauthorized(d) \cup {d} THEN "none" ELSE auth[x]]
            BY <2>2 DEF ImportDone
        <3>2. Killed(d) \subseteq Requests /\ Unauthorized(d) \subseteq Dcs
              /\ \A x \in Killed(d) : inSession[x] # 0
            BY RegistryAssumption, PlacesBefore DEF Killed, Unauthorized
        <3> HIDE DEF main, ids
        <3>3. lost' \subseteq Requests
            BY <1>4, <3>1, <3>2, PlacesBefore
        <3> QED BY <1>4, <3>1, <3>2, <3>3, PlacesBefore
    <2> QED BY <2>1, <2>2
<1>6. ASSUME NEW x \in known
      PROVE  /\ byDc'[x].dc \in Dcs
             /\ inSession'[x] # 0 => /\ byDc'[x].dc = inSession'[x]
                                     /\ x \notin Listed(delayed)
                                     /\ \A y \in Dcs : x \notin waiters'[y]
             /\ byDc'[x].dc # byDc[x].dc => \A y \in Dcs : x \notin waiters[y]
             /\ \/ x \in lost' \/ inSession'[x] # 0 \/ x \in Listed(delayed)
                \/ \E y \in Dcs : x \in waiters'[y] /\ auth'[y] # "none"
    <2>1. CASE x \in ids
        <3>1. inSession[x] = 0 /\ x \notin Listed(delayed) /\ byDc[x].dc = d /\ x \in Requests
            BY <2>1, PlacesBefore
        <3>2. \A y \in Dcs : x \notin waiters'[y]
            BY <1>3, <3>1, PlacesBefore
        <3>3. inSession'[x] = d \/ (x \in lost' /\ inSession'[x] = 0)
            BY <1>5, <2>1, <3>1
        <3> QED BY <1>1, <1>4, <3>1, <3>2, <3>3
    <2>2. CASE x \notin ids
        <3>1. x \notin waiters[d] /\ x \in Requests
            BY <2>2, PlacesBefore
        <3>2. inSession'[x] = inSession[x] \/ (inSession'[x] = 0 /\ x \in lost')
            BY <1>5, <2>2, <3>1
        <3>3. \A y \in Dcs : x \in waiters'[y] <=> x \in waiters[y]
            BY <1>3, <3>1
        <3>4. \A y \in Dcs : x \in waiters[y] => auth'[y] = auth[y] \/ x \in lost'
            BY <1>5, <3>1
        <3>5. byDc'[x] = byDc[x] /\ byDc[x].dc \in Dcs
            BY <1>1, PlacesBefore
        <3>6. inSession'[x] # 0 => /\ byDc[x].dc = inSession'[x]
                                   /\ x \notin Listed(delayed)
                                   /\ \A y \in Dcs : x \notin waiters[y]
            BY <3>2, PlacesBefore
        <3>7. \/ x \in lost' \/ inSession'[x] # 0 \/ x \in Listed(delayed)
              \/ \E y \in Dcs : x \in waiters[y] /\ auth'[y] # "none"
            <4>1. \/ x \in lost \/ inSession[x] # 0 \/ x \in Listed(delayed)
                  \/ \E y \in Dcs : x \in waiters[y] /\ auth[y] # "none"
                BY PlacesBefore
            <4> QED BY <1>5, <3>2, <3>4, <4>1
        <3> QED BY <3>3, <3>5, <3>6, <3>7
    <2> QED BY <2>1, <2>2
<1>7. \A x \in Requests \ known : inSession'[x] = inSession[x]
    BY <1>5, PlacesBefore
<1>8. (\A x \in Dcs : waiters'[x] \subseteq waiters[x])
      /\ byDc' \in [Requests -> [dc : Dcs \cup {0}, main : BOOLEAN]]
    BY <1>1, <1>3, PlacesBefore
<1> QED BY <1>1, <1>2, <1>3, <1>5, <1>6, <1>7, <1>8, MoveInv

-----------------------------------------------------------------------------
LEMMA LessProperties ==
    /\ \A t \in Times : Less(t) \in Times /\ Less(t) \in Nat
    /\ Less(Off) = Off
    /\ \A s, t \in Times : s <= t => Less(s) <= Less(t)
BY RegistryAssumption DEF Less, Times, Off

\* Time passes for the list and for the timer alike.
LEMMA TickInv == ASSUME Inv, Tick PROVE Inv'
<1>1. /\ timer' = Less(timer)
      /\ delayed' = [i \in DOMAIN delayed |-> [delayed[i] EXCEPT !.at = Less(delayed[i].at)]]
    BY DEF Tick
<1>2. UNCHANGED <<known, byDc, after, delays, badGuest, waiters, mainDc, inSession, auth, errors, asked, lost>>
    BY DEF Tick, maps
<1>3. delayed \in Seq(Entry) /\ Ordered(delayed) /\ Distinct(delayed)
    BY DEF Inv, GoodList
<1>4. /\ Len(delayed) \in Nat /\ DOMAIN delayed = 1 .. Len(delayed)
      /\ \A i \in 1 .. Len(delayed) : delayed[i] \in Entry
    BY <1>3, EntryOfList
<1>5. \A i \in 1 .. Len(delayed) : /\ delayed[i].at \in Times /\ delayed'[i] \in Entry
                                   /\ delayed'[i].id = delayed[i].id
                                   /\ delayed'[i].at = Less(delayed[i].at)
    BY <1>1, <1>4, LessProperties DEF Entry
<1>6. delayed' \in [1 .. Len(delayed) -> Entry]
    <2>1. delayed' = [i \in 1 .. Len(delayed) |-> delayed'[i]]
        BY <1>1, <1>4
    <2> QED BY <1>5, <2>1
<1>7. delayed' \in Seq(Entry) /\ DOMAIN delayed' = 1 .. Len(delayed)
    BY <1>4, <1>6, FunctionIsSeq
<1>8. GoodList(delayed)'
    <2>1. Ordered(delayed')
        <3> SUFFICES ASSUME NEW i \in 1 .. Len(delayed), NEW j \in 1 .. Len(delayed), i <= j
                     PROVE  delayed'[i].at <= delayed'[j].at
            BY <1>7 DEF Ordered
        <3>1. delayed[i].at <= delayed[j].at
            BY <1>3, <1>4 DEF Ordered
        <3> QED BY <1>5, <3>1, LessProperties
    <2>2. Distinct(delayed')
        BY <1>3, <1>4, <1>5, <1>7 DEF Distinct
    <2> QED BY <1>7, <2>1, <2>2 DEF GoodList
<1>9. Listed(delayed)' = Listed(delayed)
    BY <1>4, <1>5, <1>7 DEF Listed
<1>10. timer \in Times \cup {Off} /\ timer' \in Times \cup {Off}
    BY <1>1, LessProperties DEF Inv, TypeOK
<1>11. Timed'
    <2> SUFFICES ASSUME delayed' # <<>> PROVE timer' # Off /\ timer' <= delayed'[1].at
        BY DEF Timed
    <2>1. 1 \in 1 .. Len(delayed)
        BY <1>4, <1>7, EmptySeq
    <2>2. timer # Off /\ timer <= delayed[1].at
        <3>1. delayed # <<>>
            BY <2>1, <1>3, EmptySeq
        <3> QED BY <3>1 DEF Inv, Timed
    <2>3. timer \in Times /\ delayed[1].at \in Times
        BY <1>5, <1>10, <2>1, <2>2
    <2>4. Less(timer) \in Nat /\ Less(timer) <= Less(delayed[1].at)
        BY <2>2, <2>3, LessProperties
    <2> QED BY <1>1, <1>5, <2>1, <2>4 DEF Off
<1>12. TypeOK'
    BY <1>2, <1>7, <1>10 DEF Inv, TypeOK, Entry
<1>13. Asked' /\ Apart' /\ Somewhere' /\ FoundByDc'
    BY <1>2, <1>9 DEF Inv, Asked, Apart, Somewhere, FoundByDc
<1> QED BY <1>8, <1>11, <1>12, <1>13 DEF Inv

-----------------------------------------------------------------------------
LEMMA StepInv == Inv /\ [Next]_vars => Inv'
<1> SUFFICES ASSUME Inv, [Next]_vars PROVE Inv'
    OBVIOUS
<1>1. ASSUME NEW r \in Requests, NEW dc \in Dcs \cup {0}, NEW follow \in Requests \cup {0},
             SendRequest(r, dc, follow)
      PROVE  Inv'
    BY <1>1, SendInv
<1>2. ASSUME NEW r \in Requests, Cancel(r) \/ ExecCallback(r) \/ NotInited(r) \/ WaitFailed(r)
      PROVE  Inv'
    BY <1>2, CancelInv, ExecCallbackInv, NotInitedInv, WaitFailedInv
<1>3. ASSUME NEW r \in Requests, NEW secs \in {0, 3}, Delay(r, secs) PROVE Inv'
    BY <1>3, DelayInv
<1>4. ASSUME NEW r \in Requests, NEW dc \in Dcs, Migrate(r, dc) PROVE Inv'
    BY <1>4, MigrateInv
<1>5. ASSUME NEW r \in Requests, NEW bad \in BOOLEAN, Unauthorised(r, bad) PROVE Inv'
    BY <1>5, UnauthorisedInv
<1>6. ASSUME NEW d \in Dcs, ExportDone(d) \/ ExportFail(d) \/ ImportDone(d) \/ ImportFail(d)
      PROVE  Inv'
    BY <1>6, ExportDoneInv, ExportFailInv, ImportDoneInv, ImportFailInv
<1>7. CASE DelayedTimer
    BY <1>7, DelayedTimerInv
<1>8. CASE Tick
    BY <1>8, TickInv
<1>9. CASE UNCHANGED vars
    <2>1. UNCHANGED <<known, byDc, after, delays, badGuest, delayed, timer, waiters, mainDc, inSession, auth, errors, asked, lost>>
        BY <1>9 DEF vars, maps, times
    <2>2. GoodList(delayed)' /\ Timed' /\ Listed(delayed)' = Listed(delayed)
        BY <2>1, TimesUnchanged
    <2> QED BY <2>1, <2>2 DEF Inv, TypeOK, Asked, Apart, Somewhere, FoundByDc
<1> QED BY <1>1, <1>2, <1>3, <1>4, <1>5, <1>6, <1>7, <1>8, <1>9 DEF Next

\* Every step of the registry keeps the inductive invariant.
THEOREM Invariant == Spec => []Inv
BY InitInv, StepInv, PTL DEF Spec

\* The registry keeps its types: delays never outgrow twice the limit up to
\* which onErrorDefault doubles them, however many errors come.
THEOREM TypeCorrect == Spec => []TypeOK
<1>1. Inv => TypeOK
    BY DEF Inv
<1> QED BY <1>1, Invariant, PTL

\* For any number of requests and data centres, a request whose callbacks are
\* kept is in exactly one of a session, the list of delayed requests and the
\* waiters of its data centre, unless it is lost.
THEOREM RequestsArePlaced == Spec => []Placed
BY InvImplies, Invariant, PTL

\* The registered data centre of a request leads to the session that holds it
\* (cancel, and the errors that send it again, find it).
THEOREM SessionsAreFound == Spec => []FoundByDc
BY InvImplies, Invariant, PTL

\* checkDelayedRequests is always going to be called in time for the first of
\* the delayed requests, and no other one is due before it.
THEOREM DelaysAreTimed == Spec => []DelayedIsTimed
BY InvImplies, Invariant, PTL
=============================================================================
