-------------------------- MODULE HistoriesProofs --------------------------
(***************************************************************************)
(* Histories for any number of chats, messages and inputs.                 *)
(***************************************************************************)
EXTENDS Histories, FiniteSetTheorems, TLAPS

\* What an operator on the state of a chat leaves alone.
SameSent(v, w) == v.postponed = w.postponed /\ v.sent = w.sent /\ v.wire = w.wire
SameEntry(v, w) ==
    v.pending = w.pending /\ v.asked = w.asked
    /\ v.postponedRequestEntry = w.postponedRequestEntry
SameMarks(v, w) ==
    /\ v.willReadTill = w.willReadTill /\ v.timed = w.timed
    /\ v.sentReadTill = w.sentReadTill /\ v.sentReadDone = w.sentReadDone
    /\ v.readBefore = w.readBefore /\ v.known = w.known

LEMMA GenerateFields ==
    ASSUME NEW w \in HistState, NEW S \in SUBSET Requests, NEW v, v = Generate(w, S)
    PROVE  /\ v \in HistState /\ SameEntry(v, w) /\ SameMarks(v, w) /\ v.kept = w.kept
           /\ v.postponed = w.postponed
           /\ v.sent = w.sent \cup S /\ v.wire = w.wire \cup S
BY DEF Generate, HistState, SameEntry, SameMarks

LEMMA CancelFields ==
    ASSUME NEW w \in HistState, NEW S, NEW v, v = Cancel(w, S)
    PROVE  /\ v \in HistState /\ SameEntry(v, w) /\ SameMarks(v, w) /\ v.kept = w.kept
           /\ v.postponed = w.postponed
           /\ v.sent = w.sent \ S /\ v.wire = w.wire \ S
BY DEF Cancel, HistState, SameEntry, SameMarks

LEMMA PutOffEntryFields ==
    ASSUME NEW w \in HistState, NEW v, v = PutOffEntry(w)
    PROVE  /\ v \in HistState /\ SameSent(v, w) /\ SameMarks(v, w) /\ v.kept = w.kept
           /\ v.pending = w.pending /\ v.asked = w.asked
           /\ v.postponedRequestEntry <=> w.postponedRequestEntry \/ (PostponeEntryRequest(w) /\ w.asked # {})
BY DEF PutOffEntry, HistState, SameSent, SameMarks

LEMMA EmptyStateFields ==
    ASSUME NEW w \in HistState, NEW v, v = CheckEmptyState(w)
    PROVE  /\ v \in HistState /\ SameSent(v, w) /\ SameEntry(v, w)
           /\ v.willReadTill = w.willReadTill /\ v.sentReadTill = w.sentReadTill
           /\ v.readBefore = w.readBefore /\ v.known = w.known
           /\ v.willReadTill > 0 => v.timed = w.timed
           /\ IF Empty(w) THEN v.kept = FALSE ELSE v = w
<1>1. CASE Empty(w)
    <2>1. v = [w EXCEPT !.kept = FALSE, !.timed = FALSE, !.sentReadDone = FALSE]
        BY <1>1 DEF CheckEmptyState
    <2>2. /\ v \in HistState /\ SameSent(v, w) /\ SameEntry(v, w)
          /\ v.willReadTill = w.willReadTill /\ v.sentReadTill = w.sentReadTill
          /\ v.readBefore = w.readBefore /\ v.known = w.known /\ v.kept = FALSE
        BY <2>1 DEF HistState, SameSent, SameEntry
    <2>3. w.willReadTill = 0
        BY <1>1 DEF Empty
    <2> QED BY <1>1, <2>2, <2>3
<1>2. CASE ~Empty(w)
    <2>1. v = w
        BY <1>2 DEF CheckEmptyState
    <2> QED BY <1>2, <2>1 DEF SameSent, SameEntry
<1> QED BY <1>1, <1>2

LEMMA DeliveredFields ==
    ASSUME NEW w \in HistState, NEW r, NEW v, v = Delivered(w, r)
    PROVE  /\ v \in HistState /\ SameEntry(v, w) /\ SameMarks(v, w) /\ v.kept = w.kept
           /\ v.postponed = w.postponed /\ v.sent = w.sent /\ v.wire = w.wire \ {r}
BY DEF Delivered, HistState, SameEntry, SameMarks

LEMMA RequestEntryFields ==
    ASSUME NEW w \in HistState, NEW calls \in SUBSET Calls, NEW v, v = RequestDialogEntry(w, calls)
    PROVE  /\ v \in HistState /\ SameSent(v, w) /\ SameMarks(v, w) /\ v.kept = w.kept
           /\ v.postponedRequestEntry = w.postponedRequestEntry
           /\ IF w.asked # {} THEN v.asked = w.asked \cup calls /\ v.pending = w.pending
              ELSE v.asked = {} /\ v.pending = w.pending \cup calls \cup {"entry"}
<1>1. "entry" \in Calls
    BY DEF Calls
<1>2. CASE w.asked # {}
    BY <1>2 DEF RequestDialogEntry, HistState, SameSent, SameMarks
<1>3. CASE w.asked = {}
    BY <1>1, <1>3 DEF RequestDialogEntry, HistState, SameSent, SameMarks
<1> QED BY <1>2, <1>3

LEMMA ResendEntryFields ==
    ASSUME NEW w \in HistState, NEW v, v = ResendEntry(w)
    PROVE  /\ v \in HistState /\ SameSent(v, w) /\ SameMarks(v, w) /\ v.kept = w.kept
           /\ IF w.postponedRequestEntry /\ ~PostponeEntryRequest(w)
              THEN /\ v.asked = {} /\ v.postponedRequestEntry = FALSE
                   /\ v.pending = IF w.pending = {} THEN w.asked ELSE w.pending
              ELSE SameEntry(v, w)
<1>1. CASE w.postponedRequestEntry /\ ~PostponeEntryRequest(w)
    BY <1>1 DEF ResendEntry, HistState, SameSent, SameMarks
<1>2. CASE ~(w.postponedRequestEntry /\ ~PostponeEntryRequest(w))
    BY <1>2 DEF ResendEntry, HistState, SameSent, SameEntry, SameMarks
<1> QED BY <1>1, <1>2

LEMMA ResendSlicesFields ==
    ASSUME NEW w \in HistState, NEW v, v = ResendSlices(w)
    PROVE  /\ v \in HistState /\ SameEntry(v, w) /\ SameMarks(v, w) /\ v.kept = w.kept
           /\ IF PostponeHistoryRequest(w) THEN SameSent(v, w)
              ELSE /\ v.sent = w.sent \cup w.postponed /\ v.wire = w.wire \cup w.postponed
                   /\ v.postponed = {}
<1>1. CASE PostponeHistoryRequest(w)
    BY <1>1 DEF ResendSlices, SameSent, SameEntry, SameMarks
<1>2. CASE ~PostponeHistoryRequest(w)
    <2>1. PICK g : g = Generate(w, w.postponed)
        OBVIOUS
    <2>2. w.postponed \in SUBSET Requests
        BY DEF HistState
    <2>3. /\ g \in HistState /\ SameEntry(g, w) /\ SameMarks(g, w) /\ g.kept = w.kept
          /\ g.sent = w.sent \cup w.postponed /\ g.wire = w.wire \cup w.postponed
        BY <2>1, <2>2, GenerateFields
    <2>4. v = [g EXCEPT !.postponed = {}]
        BY <1>2, <2>1 DEF ResendSlices
    <2>5. /\ v \in HistState /\ SameEntry(v, g) /\ SameMarks(v, g) /\ v.kept = g.kept
          /\ v.sent = g.sent /\ v.wire = g.wire /\ v.postponed = {}
        BY <2>3, <2>4 DEF HistState, SameEntry, SameMarks
    <2> QED BY <1>2, <2>3, <2>5 DEF SameEntry, SameMarks
<1> QED BY <1>1, <1>2

LEMMA PutOffSlicesFields ==
    ASSUME NEW w \in HistState, NEW v, v = PutOffSlices(w)
    PROVE  LET S == {r \in w.sent : r.type \in SliceTypes}
           IN  /\ v \in HistState /\ SameEntry(v, w) /\ SameMarks(v, w) /\ v.kept = w.kept
               /\ IF PostponeHistoryRequest(w)
                  THEN /\ v.sent = w.sent \ S /\ v.wire = w.wire \ S
                       /\ v.postponed = w.postponed \cup S
                  ELSE SameSent(v, w)
<1> DEFINE S == {r \in w.sent : r.type \in SliceTypes}
<1>1. CASE PostponeHistoryRequest(w)
    <2>1. PICK g : g = Cancel(w, S)
        OBVIOUS
    <2>2. S \subseteq Requests
        BY DEF HistState
    <2>3. v = [g EXCEPT !.postponed = @ \cup S]
        BY <1>1, <2>1 DEF PutOffSlices
    <2> HIDE DEF S
    <2>4. /\ g \in HistState /\ SameEntry(g, w) /\ SameMarks(g, w) /\ g.kept = w.kept
          /\ g.sent = w.sent \ S /\ g.wire = w.wire \ S /\ g.postponed = w.postponed
        BY <2>1, CancelFields
    <2>5. /\ v \in HistState /\ SameEntry(v, g) /\ SameMarks(v, g) /\ v.kept = g.kept
          /\ v.sent = g.sent /\ v.wire = g.wire /\ v.postponed = g.postponed \cup S
        BY <2>2, <2>3, <2>4 DEF HistState, SameEntry, SameMarks
    <2>6. /\ v \in HistState /\ SameEntry(v, w) /\ SameMarks(v, w) /\ v.kept = w.kept
          /\ v.sent = w.sent \ S /\ v.wire = w.wire \ S /\ v.postponed = w.postponed \cup S
        BY <2>4, <2>5 DEF SameEntry, SameMarks
    <2> QED BY <1>1, <2>6 DEF S
<1>2. CASE ~PostponeHistoryRequest(w)
    BY <1>2 DEF PutOffSlices, SameSent, SameEntry, SameMarks
<1> QED BY <1>1, <1>2

LEMMA SetReadFields ==
    ASSUME NEW w \in HistState, NEW till \in 0 .. MaxMsgId, NEW v, v = SetInboxReadTill(w, till)
    PROVE  /\ v \in HistState /\ SameSent(v, w) /\ SameEntry(v, w) /\ v.kept = w.kept
           /\ v.willReadTill = w.willReadTill /\ v.timed = w.timed
           /\ v.sentReadTill = w.sentReadTill /\ v.sentReadDone = w.sentReadDone
           /\ v.known = w.known
           /\ v.readBefore >= w.readBefore /\ v.readBefore > till
<1> DEFINE b == IF till + 1 > w.readBefore THEN till + 1 ELSE w.readBefore
<1>1. w.readBefore \in 0 .. MaxMsgId + 1
    BY DEF HistState
<1>2. b \in 0 .. MaxMsgId + 1 /\ b >= w.readBefore /\ b > till
    BY <1>1, HistoriesAssumption
<1>3. v = [w EXCEPT !.readBefore = b]
    BY DEF SetInboxReadTill
<1> HIDE DEF b
<1>4. /\ v \in HistState /\ SameSent(v, w) /\ SameEntry(v, w) /\ v.kept = w.kept
      /\ v.willReadTill = w.willReadTill /\ v.timed = w.timed
      /\ v.sentReadTill = w.sentReadTill /\ v.sentReadDone = w.sentReadDone
      /\ v.known = w.known /\ v.readBefore = b
    BY <1>2, <1>3 DEF HistState, SameSent, SameEntry
<1> QED BY <1>2, <1>4

LEMMA SetUnreadFields ==
    ASSUME NEW w \in HistState, NEW till \in 0 .. MaxMsgId, NEW border \in 0 .. MaxMsgId,
           NEW v, v = SetUnreadCount(w, till, border)
    PROVE  /\ v \in HistState /\ SameSent(v, w) /\ SameEntry(v, w) /\ v.kept = w.kept
           /\ v.willReadTill = w.willReadTill /\ v.timed = w.timed
           /\ v.sentReadTill = w.sentReadTill /\ v.sentReadDone = w.sentReadDone
           /\ v.readBefore >= w.readBefore
<1>1. PICK b : b = IF border > till THEN border ELSE till
    OBVIOUS
<1>2. b \in 0 .. MaxMsgId
    BY <1>1
<1>3. PICK s : s = SetInboxReadTill(w, b)
    OBVIOUS
<1>4. /\ s \in HistState /\ SameSent(s, w) /\ SameEntry(s, w) /\ s.kept = w.kept
      /\ s.willReadTill = w.willReadTill /\ s.timed = w.timed
      /\ s.sentReadTill = w.sentReadTill /\ s.sentReadDone = w.sentReadDone
      /\ s.readBefore >= w.readBefore
    BY <1>2, <1>3, SetReadFields
<1>5. v = [s EXCEPT !.known = "count"]
    BY <1>1, <1>3 DEF SetUnreadCount
<1>6. /\ v \in HistState /\ SameSent(v, s) /\ SameEntry(v, s) /\ v.kept = s.kept
      /\ v.willReadTill = s.willReadTill /\ v.timed = s.timed
      /\ v.sentReadTill = s.sentReadTill /\ v.sentReadDone = s.sentReadDone
      /\ v.readBefore = s.readBefore
    BY <1>4, <1>5 DEF HistState, SameSent, SameEntry, Knowledge
<1>7. v.readBefore >= w.readBefore
    BY <1>4, <1>6
<1> QED BY <1>4, <1>6, <1>7 DEF SameSent, SameEntry

-----------------------------------------------------------------------------
\* The inductive invariant, chat by chat.

Kept(w) == w.kept <=> ~Empty(w)

\* The requests put off are slices, and no slice is on its way with a deletion.
SlicesApart(w) ==
    /\ \A r \in w.postponed : r.type \in SliceTypes
    /\ PostponeHistoryRequest(w) => \A r \in w.sent : r.type \notin SliceTypes

\* Every request sent is on the wire, but for those in X, whose handlers run.
Requested(w, X) ==
    /\ IsFiniteSet(w.sent) /\ IsFiniteSet(w.postponed)
    /\ X \in SUBSET w.sent /\ w.wire = w.sent \ X
    /\ SlicesApart(w)
    /\ w.postponed # {} => PostponeHistoryRequest(w)

\* A mark whose answer has not come is covered: by the mark sent last or, when
\* that one is settled, by the border of what is read, which a new mark has to
\* pass.
Covered(w, r) ==
    \/ w.sentReadTill >= r.till
    \/ /\ w.sentReadTill = 0 /\ w.readBefore > r.till
       /\ w.willReadTill > 0 => w.willReadTill > r.till

Marked(w) ==
    /\ w.willReadTill > 0 => w.willReadTill > w.sentReadTill
    /\ \A r \in w.sent : r.type = "ReadInbox" => Covered(w, r)

\* An entry asked for is to be asked for again exactly while a change is on
\* its way.
Entered(w) ==
    /\ w.postponedRequestEntry => w.asked # {} /\ PostponeEntryRequest(w)
    /\ w.asked # {} /\ PostponeEntryRequest(w) => w.postponedRequestEntry
    /\ w.asked = {} \/ w.pending = {}

GoodBut(w, X) == w \in HistState /\ Kept(w) /\ Requested(w, X) /\ Marked(w) /\ Entered(w)

Good(w) == GoodBut(w, {})

Coming(h) ==
    /\ hist[h].pending # {} => posted
    /\ hist[h].asked # {} /\ ~hist[h].postponedRequestEntry => \E d \in dialogs : h \in d.chats

Inv == TypeOK /\ (\A h \in Chats : Good(hist[h]) /\ Coming(h)) /\ MarkIsTimed

-----------------------------------------------------------------------------
\* Requests of one chat.

\* A request gets an id that no other one has.
LEMMA NewIdIsNew ==
    ASSUME NEW w \in HistState,
           IsFiniteSet(w.sent), IsFiniteSet(w.postponed), IsFiniteSet(w.wire)
    PROVE  /\ NewId(w) \in Nat \ {0}
           /\ \A r \in w.sent \cup w.postponed \cup w.wire : r.id # NewId(w)
<1> DEFINE all == w.sent \cup w.postponed \cup w.wire
           used == {r.id : r \in all}
           n == Cardinality(used)
<1>1. IsFiniteSet(all)
    BY FS_Union
<1>2. IsFiniteSet(used)
    <2> DEFINE f == [r \in all |-> r.id]
    <2> HIDE DEF all
    <2>1. f \in Surjection(all, used)
        BY DEF Surjection
    <2> QED BY <1>1, <2>1, FS_Surjection
<1>3. n \in Nat
    <2> HIDE DEF used
    <2> QED BY <1>2, FS_CardinalityType
<1>4. \E i \in 1 .. n + 1 : i \notin used
    <2> HIDE DEF used, n
    <2> SUFFICES ASSUME 1 .. n + 1 \subseteq used PROVE FALSE
        OBVIOUS
    <2>1. Cardinality(1 .. n + 1) = n + 1
        BY <1>3, FS_Interval
    <2>2. Cardinality(1 .. n + 1) <= Cardinality(used)
        BY <1>2, FS_Subset
    <2> QED BY <1>3, <2>1, <2>2 DEF n
<1>5. NewId(w) = CHOOSE i \in 1 .. n + 1 : i \notin used
    BY DEF NewId
<1>6. NewId(w) \in 1 .. n + 1 /\ NewId(w) \notin used
    <2> HIDE DEF used, n
    <2> QED BY <1>4, <1>5
<1> QED BY <1>3, <1>6

\* What sendRequest makes of the state w of a chat.
SentAs(v, w, type, till) ==
    /\ v \in HistState /\ SameMarks(v, w) /\ v.kept = TRUE
    /\ v.pending = w.pending /\ v.asked = w.asked
    /\ IsFiniteSet(v.sent) /\ IsFiniteSet(v.postponed)
    /\ SlicesApart(v)
    /\ (w.postponed # {} => PostponeHistoryRequest(w)) => (v.postponed # {} => PostponeHistoryRequest(v))
    /\ \A X \in SUBSET w.sent : w.wire = w.sent \ X => v.wire = v.sent \ X
    /\ \A q \in v.sent : q \in w.sent \/ (q.type = type /\ q.till = till)
    /\ \A q \in w.sent : q.type \notin SliceTypes => q \in v.sent
    /\ v.sent # {} \/ v.postponed # {}
    /\ PostponeEntryRequest(w) => PostponeEntryRequest(v)
    /\ w.postponedRequestEntry => v.postponedRequestEntry
    /\ v.postponedRequestEntry => w.postponedRequestEntry \/ (PostponeEntryRequest(v) /\ w.asked # {})
    /\ PostponeEntryRequest(v) /\ w.asked # {} => v.postponedRequestEntry \/ PostponeEntryRequest(w)

\* What sendRequest does with the state of a chat.
LEMMA SendProperties ==
    ASSUME NEW w \in HistState, NEW type \in RequestTypes, NEW till \in 0 .. MaxMsgId,
           IsFiniteSet(w.sent), IsFiniteSet(w.postponed), IsFiniteSet(w.wire),
           SlicesApart(w), NEW v, v = SendRequest(w, type, till)
    PROVE  SentAs(v, w, type, till)
<1>1. PICK r : r = [id |-> NewId(w), type |-> type, till |-> till]
    OBVIOUS
<1>2. r \in Requests /\ r.type = type /\ r.till = till /\ r \notin w.sent \cup w.wire
    BY <1>1, NewIdIsNew DEF Requests
<1>3. PICK k : k = [w EXCEPT !.kept = TRUE]
    OBVIOUS
<1>4. k \in HistState /\ SameSent(k, w) /\ SameEntry(k, w) /\ SameMarks(k, w) /\ k.kept = TRUE
    BY <1>3 DEF HistState, SameSent, SameEntry, SameMarks
<1>5. IsFiniteSet(w.postponed \cup {r}) /\ IsFiniteSet(w.sent \cup {r})
    BY FS_AddElement
<1>6. CASE type \in SliceTypes /\ PostponeHistoryRequest(w)
    <2>1. v = [k EXCEPT !.postponed = @ \cup {r}]
        BY <1>1, <1>3, <1>6 DEF SendRequest
    <2>2. /\ v \in HistState /\ SameEntry(v, w) /\ SameMarks(v, w) /\ v.kept = TRUE
          /\ v.sent = w.sent /\ v.wire = w.wire /\ v.postponed = w.postponed \cup {r}
        <3>1. /\ v \in HistState /\ SameEntry(v, k) /\ SameMarks(v, k) /\ v.kept = k.kept
              /\ v.sent = k.sent /\ v.wire = k.wire /\ v.postponed = k.postponed \cup {r}
            BY <1>2, <1>4, <2>1 DEF HistState, SameEntry, SameMarks
        <3> QED BY <1>4, <3>1 DEF SameSent, SameEntry, SameMarks
    <2>3. PostponeHistoryRequest(v) /\ (PostponeEntryRequest(v) <=> PostponeEntryRequest(w))
        BY <1>6, <2>2 DEF PostponeHistoryRequest, PostponeEntryRequest
    <2>4. SlicesApart(v)
        BY <1>2, <1>6, <2>2, <2>3 DEF SlicesApart
    <2> QED BY <1>5, <2>2, <2>3, <2>4 DEF SentAs, SameEntry
<1>7. CASE ~(type \in SliceTypes /\ PostponeHistoryRequest(w))
    <2>1. PICK g : g = Generate(k, {r})
        OBVIOUS
    <2>2. PICK p : p = PutOffEntry(g)
        OBVIOUS
    <2>3. v = PutOffSlices(p)
        BY <1>1, <1>3, <1>7, <2>1, <2>2 DEF SendRequest
    <2>4. /\ g \in HistState /\ SameEntry(g, k) /\ SameMarks(g, k) /\ g.kept = k.kept
          /\ g.postponed = k.postponed
          /\ g.sent = k.sent \cup {r} /\ g.wire = k.wire \cup {r}
        <3>1. {r} \in SUBSET Requests
            BY <1>2
        <3> QED BY <1>4, <2>1, <3>1, GenerateFields
    <2>5. /\ p \in HistState /\ SameSent(p, g) /\ SameMarks(p, g) /\ p.kept = g.kept
          /\ p.pending = g.pending /\ p.asked = g.asked
          /\ p.postponedRequestEntry <=> g.postponedRequestEntry \/ (PostponeEntryRequest(g) /\ g.asked # {})
        BY <2>2, <2>4, PutOffEntryFields
    <2>6. PICK S : S = {q \in p.sent : q.type \in SliceTypes}
        OBVIOUS
    <2>7. /\ v \in HistState /\ SameEntry(v, p) /\ SameMarks(v, p) /\ v.kept = p.kept
          /\ IF PostponeHistoryRequest(p)
             THEN v.sent = p.sent \ S /\ v.wire = p.wire \ S /\ v.postponed = p.postponed \cup S
             ELSE SameSent(v, p)
        BY <2>3, <2>5, <2>6, PutOffSlicesFields
    <2>8. /\ p.sent = w.sent \cup {r} /\ p.wire = w.wire \cup {r} /\ p.postponed = w.postponed
        BY <1>4, <2>4, <2>5 DEF SameSent
    <2>9. /\ SameMarks(v, w) /\ v.kept = TRUE /\ v.pending = w.pending /\ v.asked = w.asked
        BY <1>4, <2>4, <2>5, <2>7 DEF SameMarks, SameEntry
    <2>10. PostponeEntryRequest(p) <=> PostponeEntryRequest(g)
        BY <2>5 DEF SameSent, PostponeEntryRequest
    <2>11. v.postponedRequestEntry <=> w.postponedRequestEntry \/ (PostponeEntryRequest(p) /\ w.asked # {})
        BY <1>4, <2>4, <2>5, <2>7, <2>10 DEF SameEntry
    <2>12. v.sent \subseteq p.sent /\ \A q \in p.sent : q.type \notin SliceTypes => q \in v.sent
        BY <2>6, <2>7 DEF SameSent
    <2>13. PostponeEntryRequest(v) <=> PostponeEntryRequest(p)
        BY <2>12 DEF PostponeEntryRequest
    <2>14. PostponeHistoryRequest(v) <=> PostponeHistoryRequest(p)
        BY <2>12 DEF PostponeHistoryRequest, SliceTypes
    <2>15. PostponeEntryRequest(w) => PostponeEntryRequest(p)
        BY <2>8 DEF PostponeEntryRequest
    <2>16. PostponeHistoryRequest(w) => PostponeHistoryRequest(p)
        BY <2>8 DEF PostponeHistoryRequest
    <2>17. IsFiniteSet(v.sent) /\ IsFiniteSet(v.postponed)
        <3>1. IsFiniteSet(p.sent) /\ IsFiniteSet(p.postponed)
            BY <1>5, <2>8
        <3>2. S \in SUBSET p.sent /\ v.sent \in SUBSET p.sent
            BY <2>6, <2>12
        <3>3. IsFiniteSet(S) /\ IsFiniteSet(v.sent)
            BY <3>1, <3>2, FS_Subset
        <3>4. IsFiniteSet(p.postponed \cup S)
            BY <3>1, <3>3, FS_Union
        <3> QED BY <2>7, <3>1, <3>3, <3>4 DEF SameSent
    <2>18. SlicesApart(v)
        BY <2>6, <2>7, <2>8, <2>14 DEF SlicesApart, SameSent
    <2>19. (w.postponed # {} => PostponeHistoryRequest(w)) => (v.postponed # {} => PostponeHistoryRequest(v))
        BY <2>7, <2>8, <2>14, <2>16 DEF SameSent
    <2>20. \A X \in SUBSET w.sent : w.wire = w.sent \ X => v.wire = v.sent \ X
        <3>1. \A X \in SUBSET w.sent : w.wire = w.sent \ X => p.wire = p.sent \ X
            BY <1>2, <2>8
        <3> QED BY <2>7, <3>1 DEF SameSent
    <2>21. \A q \in v.sent : q \in w.sent \/ (q.type = type /\ q.till = till)
        BY <1>2, <2>8, <2>12
    <2>22. v.sent # {} \/ v.postponed # {}
        <3>1. r \in p.sent
            BY <2>8
        <3> QED BY <2>6, <2>7, <3>1 DEF SameSent
    <2>23. \A q \in w.sent : q.type \notin SliceTypes => q \in v.sent
        BY <2>8, <2>12
    <2> QED BY <2>7, <2>9, <2>11, <2>13, <2>15, <2>17, <2>18, <2>19, <2>20, <2>21, <2>22, <2>23 DEF SentAs
<1> QED BY <1>6, <1>7

\* Part of Entered that also holds before a request is finished.
Enterable(w) ==
    /\ w.postponedRequestEntry => w.asked # {}
    /\ w.asked # {} /\ PostponeEntryRequest(w) => w.postponedRequestEntry
    /\ w.asked = {} \/ w.pending = {}

\* What stays of a state w in the state v after a request is finished.
FinishedAs(v, w) ==
    /\ v.willReadTill = w.willReadTill /\ v.sentReadTill = w.sentReadTill
    /\ v.readBefore = w.readBefore /\ v.known = w.known
    /\ v.willReadTill > 0 => v.timed = w.timed
    /\ \A q \in v.sent : q \in w.sent \/ q.type \in SliceTypes
    /\ v.asked # {} => v.asked = w.asked /\ v.postponedRequestEntry = w.postponedRequestEntry
    /\ w.asked # {} => v.asked # {} \/ v.pending # {}

\* What finishSentRequest does, also when the answer of the request has
\* already been taken from the wire.
LEMMA FinishProperties ==
    ASSUME NEW w \in HistState, w.kept = TRUE, IsFiniteSet(w.sent), IsFiniteSet(w.postponed),
           NEW r, w.wire \ {r} = w.sent \ {r}, SlicesApart(w),
           Enterable(w),
           NEW v, v = FinishSentRequest(w, r)
    PROVE  v \in HistState /\ Kept(v) /\ Requested(v, {}) /\ Entered(v) /\ FinishedAs(v, w)
<1>1. PICK c : c = Cancel(w, {r})
    OBVIOUS
<1>2. PICK s : s = ResendSlices(c)
    OBVIOUS
<1>3. PICK e : e = ResendEntry(s)
    OBVIOUS
<1>4. v = CheckEmptyState(e)
    BY <1>1, <1>2, <1>3 DEF FinishSentRequest
<1>5. /\ c \in HistState /\ SameEntry(c, w) /\ SameMarks(c, w) /\ c.kept = w.kept
      /\ c.postponed = w.postponed /\ c.sent = w.sent \ {r} /\ c.wire = w.wire \ {r}
    BY <1>1, CancelFields
<1>6. /\ s \in HistState /\ SameEntry(s, c) /\ SameMarks(s, c) /\ s.kept = c.kept
      /\ IF PostponeHistoryRequest(c) THEN SameSent(s, c)
         ELSE /\ s.sent = c.sent \cup c.postponed /\ s.wire = c.wire \cup c.postponed
              /\ s.postponed = {}
    BY <1>2, <1>5, ResendSlicesFields
<1>7. /\ e \in HistState /\ SameSent(e, s) /\ SameMarks(e, s) /\ e.kept = s.kept
      /\ IF s.postponedRequestEntry /\ ~PostponeEntryRequest(s)
         THEN /\ e.asked = {} /\ e.postponedRequestEntry = FALSE
              /\ e.pending = IF s.pending = {} THEN s.asked ELSE s.pending
         ELSE SameEntry(e, s)
    BY <1>3, <1>6, ResendEntryFields
<1>8. /\ v \in HistState /\ SameSent(v, e) /\ SameEntry(v, e)
      /\ v.willReadTill = e.willReadTill /\ v.sentReadTill = e.sentReadTill
      /\ v.readBefore = e.readBefore /\ v.known = e.known
      /\ v.willReadTill > 0 => v.timed = e.timed
      /\ IF Empty(e) THEN v.kept = FALSE ELSE v = e
    BY <1>4, <1>7, EmptyStateFields
<1>9. Kept(v)
    <2>1. e.kept = TRUE
        BY <1>5, <1>6, <1>7
    <2>2. Empty(v) <=> Empty(e)
        BY <1>8 DEF Empty, SameSent, SameEntry
    <2> QED BY <1>8, <2>1, <2>2 DEF Kept
<1>10. /\ v.willReadTill = w.willReadTill /\ v.sentReadTill = w.sentReadTill
       /\ v.readBefore = w.readBefore /\ v.known = w.known
       /\ v.willReadTill > 0 => v.timed = w.timed
    BY <1>5, <1>6, <1>7, <1>8 DEF SameMarks
<1>11. SlicesApart(c)
    BY <1>5 DEF SlicesApart, PostponeHistoryRequest
<1>12. c.wire = c.sent /\ IsFiniteSet(c.sent) /\ IsFiniteSet(c.postponed)
    <2>1. IsFiniteSet(w.sent \ {r})
        BY FS_Subset
    <2> QED BY <1>5, <2>1
<1>13. Requested(s, {})
    <2>1. CASE PostponeHistoryRequest(c)
        <3>1. SameSent(s, c)
            BY <1>6, <2>1
        <3>2. s.wire = s.sent \ {} /\ {} \in SUBSET s.sent
            BY <1>12, <3>1 DEF SameSent
        <3>3. SlicesApart(s) /\ PostponeHistoryRequest(s)
            BY <1>11, <2>1, <3>1 DEF SameSent, SlicesApart, PostponeHistoryRequest
        <3> QED BY <1>12, <3>1, <3>2, <3>3 DEF SameSent, Requested
    <2>2. CASE ~PostponeHistoryRequest(c)
        <3>1. s.wire = s.sent /\ s.postponed = {} /\ s.sent = c.sent \cup c.postponed
            BY <1>6, <1>12, <2>2
        <3>2. IsFiniteSet(s.sent)
            <4>1. IsFiniteSet(c.sent \cup c.postponed)
                BY <1>12, FS_Union
            <4> QED BY <3>1, <4>1
        <3>3. IsFiniteSet({})
            BY FS_EmptySet
        <3>4. ~PostponeHistoryRequest(s)
            BY <1>11, <2>2, <3>1 DEF PostponeHistoryRequest, SlicesApart, SliceTypes
        <3> QED BY <3>1, <3>2, <3>3, <3>4 DEF Requested, SlicesApart
    <2> QED BY <2>1, <2>2
<1>14. Requested(v, {})
    BY <1>7, <1>8, <1>13 DEF SameSent, Requested, SlicesApart, PostponeHistoryRequest
<1>15. \A q \in v.sent : q \in w.sent \/ q.type \in SliceTypes
    BY <1>5, <1>6, <1>7, <1>8, <1>11 DEF SameSent, SlicesApart
<1>16. PostponeEntryRequest(s) <=> PostponeEntryRequest(c)
    BY <1>6, <1>11 DEF SameSent, PostponeEntryRequest, SlicesApart
<1>17. PostponeEntryRequest(v) <=> PostponeEntryRequest(s)
    BY <1>7, <1>8 DEF SameSent, PostponeEntryRequest
<1>18. PostponeEntryRequest(c) => PostponeEntryRequest(w)
    BY <1>5 DEF PostponeEntryRequest
<1>19. SameEntry(s, w)
    BY <1>5, <1>6 DEF SameEntry
<1>20. CASE w.postponedRequestEntry /\ ~PostponeEntryRequest(s)
    <2>1. /\ v.asked = {} /\ v.postponedRequestEntry = FALSE
          /\ v.pending = IF w.pending = {} THEN w.asked ELSE w.pending
        BY <1>7, <1>8, <1>19, <1>20 DEF SameEntry
    <2>2. Entered(v)
        BY <2>1 DEF Entered
    <2>3. w.asked # {} => v.pending # {}
        BY <2>1
    <2> QED BY <1>8, <1>9, <1>10, <1>14, <1>15, <2>1, <2>2, <2>3 DEF FinishedAs
<1>21. CASE ~(w.postponedRequestEntry /\ ~PostponeEntryRequest(s))
    <2>1. SameEntry(v, w)
        BY <1>7, <1>8, <1>19, <1>21 DEF SameEntry
    <2>2. Entered(v)
        BY <1>16, <1>17, <1>18, <1>21, <2>1 DEF Entered, Enterable, SameEntry
    <2>3. w.asked # {} => v.asked # {}
        BY <2>1 DEF SameEntry
    <2>4. v.asked = w.asked /\ v.postponedRequestEntry = w.postponedRequestEntry
        BY <2>1 DEF SameEntry
    <2> QED BY <1>8, <1>9, <1>10, <1>14, <1>15, <2>2, <2>3, <2>4 DEF FinishedAs
<1> QED BY <1>20, <1>21

\* The parts of a good state.
LEMMA GoodParts ==
    ASSUME NEW w, NEW X, GoodBut(w, X)
    PROVE  /\ w \in HistState
           /\ w.willReadTill \in 0 .. MaxMsgId /\ w.sentReadTill \in 0 .. MaxMsgId
           /\ w.readBefore \in 0 .. MaxMsgId + 1
           /\ w.postponed \subseteq Requests /\ w.sent \subseteq Requests
           /\ X \in SUBSET w.sent /\ w.wire = w.sent \ X
           /\ IsFiniteSet(w.sent) /\ IsFiniteSet(w.postponed) /\ IsFiniteSet(w.wire)
           /\ SlicesApart(w) /\ Marked(w) /\ Entered(w) /\ Requested(w, X) /\ Kept(w)
<1>1. /\ w \in HistState /\ Kept(w) /\ Requested(w, X) /\ Marked(w) /\ Entered(w)
    BY DEF GoodBut
<1>2. /\ X \in SUBSET w.sent /\ w.wire = w.sent \ X
      /\ IsFiniteSet(w.sent) /\ IsFiniteSet(w.postponed) /\ SlicesApart(w)
    BY <1>1 DEF Requested
<1>3. IsFiniteSet(w.wire)
    BY <1>2, FS_Subset
<1>4. /\ w.willReadTill \in 0 .. MaxMsgId /\ w.sentReadTill \in 0 .. MaxMsgId
      /\ w.readBefore \in 0 .. MaxMsgId + 1
      /\ w.postponed \subseteq Requests /\ w.sent \subseteq Requests
    BY <1>1 DEF HistState
<1> QED BY <1>1, <1>2, <1>3, <1>4

\* A covered mark stays covered when the marks do not change.
LEMMA CoveredSame ==
    ASSUME NEW w, NEW v, NEW q, Covered(w, q), v.sentReadTill = w.sentReadTill,
           v.willReadTill = w.willReadTill, v.readBefore = w.readBefore
    PROVE  Covered(v, q)
BY DEF Covered

\* A request that is finished leaves a good state.
LEMMA FinishGood ==
    ASSUME NEW w, NEW r, GoodBut(w, {r}), w.kept = TRUE, NEW v, v = FinishSentRequest(w, r)
    PROVE  Good(v) /\ FinishedAs(v, w)
<1>1. w \in HistState /\ IsFiniteSet(w.sent) /\ IsFiniteSet(w.postponed) /\ SlicesApart(w)
    BY GoodParts
<1>2. w.wire \ {r} = w.sent \ {r}
    BY GoodParts
<1>3. Enterable(w)
    BY GoodParts DEF Entered, Enterable
<1>4. v \in HistState /\ Kept(v) /\ Requested(v, {}) /\ Entered(v) /\ FinishedAs(v, w)
    BY <1>1, <1>2, <1>3, FinishProperties
<1>5. Marked(v)
    <2>1. \A q \in v.sent : q.type = "ReadInbox" => q \in w.sent
        BY <1>4 DEF SliceTypes, FinishedAs
    <2>2. v.willReadTill = w.willReadTill /\ v.sentReadTill = w.sentReadTill /\ v.readBefore = w.readBefore
        BY <1>4 DEF FinishedAs
    <2> QED BY <2>1, <2>2, GoodParts, CoveredSame DEF Marked
<1> QED BY <1>4, <1>5 DEF Good, GoodBut

\* The handlers of a request begin to run.
LEMMA DeliveredGood ==
    ASSUME NEW w, Good(w), NEW r \in w.wire, NEW v, v = Delivered(w, r)
    PROVE  GoodBut(v, {r}) /\ v.kept = TRUE /\ SameEntry(v, w) /\ SameMarks(v, w) /\ v.sent = w.sent
<1>1. w \in HistState /\ GoodBut(w, {})
    BY DEF Good, GoodBut
<1>2. /\ v \in HistState /\ SameEntry(v, w) /\ SameMarks(v, w) /\ v.kept = w.kept
      /\ v.postponed = w.postponed /\ v.sent = w.sent /\ v.wire = w.wire \ {r}
    BY <1>1, DeliveredFields
<1>3. w.wire = w.sent /\ IsFiniteSet(w.sent) /\ IsFiniteSet(w.postponed)
    <2>1. w.wire = w.sent \ {} /\ IsFiniteSet(w.sent) /\ IsFiniteSet(w.postponed)
        BY <1>1 DEF GoodBut, Requested
    <2> QED BY <2>1
<1>4. ~Empty(w) /\ ~Empty(v)
    BY <1>2, <1>3 DEF Empty
<1>5. w.kept = TRUE
    <2>1. w.kept \in BOOLEAN
        BY <1>1 DEF HistState
    <2>2. w.kept <=> ~Empty(w)
        BY <1>1, GoodParts DEF Kept
    <2> QED BY <1>4, <2>1, <2>2
<1>6. Kept(v)
    BY <1>2, <1>4, <1>5 DEF Kept
<1>7. Requested(v, {r})
    BY <1>1, <1>2, <1>3, GoodParts DEF Requested, SlicesApart, PostponeHistoryRequest
<1>8. Marked(v)
    BY <1>1, <1>2, GoodParts, CoveredSame DEF Marked, SameMarks
<1>9. Entered(v)
    BY <1>1, <1>2, GoodParts DEF Entered, SameEntry, PostponeEntryRequest
<1> QED BY <1>2, <1>5, <1>6, <1>7, <1>8, <1>9 DEF GoodBut

\* What sendRequest leaves alone.
KeepsRest(v, w) ==
    /\ SameMarks(v, w) /\ v.pending = w.pending /\ v.asked = w.asked
    /\ w.postponedRequestEntry => v.postponedRequestEntry

SamePutOff(v, w) == v.postponedRequestEntry <=> w.postponedRequestEntry

\* A good state after sendRequest, for a request that is no mark.
LEMMA SendGood ==
    ASSUME NEW w, NEW X, GoodBut(w, X), \A q \in X : q.type \notin SliceTypes,
           NEW type \in RequestTypes, type # "ReadInbox",
           NEW v, v = SendRequest(w, type, 0)
    PROVE  /\ GoodBut(v, X) /\ v.kept = TRUE /\ KeepsRest(v, w)
           /\ type \in SliceTypes => SamePutOff(v, w)
<1>1. w \in HistState /\ IsFiniteSet(w.sent) /\ IsFiniteSet(w.postponed) /\ IsFiniteSet(w.wire) /\ SlicesApart(w)
    BY GoodParts
<1>2. 0 \in 0 .. MaxMsgId
    BY HistoriesAssumption
<1>3. SentAs(v, w, type, 0)
    BY <1>1, <1>2, SendProperties
<1>4. Kept(v)
    BY <1>3 DEF SentAs, Kept, Empty
<1>5. Requested(v, X)
    BY <1>3, GoodParts DEF SentAs, Requested
<1>6. Marked(v)
    BY <1>3, GoodParts, CoveredSame DEF SentAs, Marked, SameMarks
<1>7. Entered(v)
    BY <1>3, GoodParts DEF SentAs, Entered
<1>8. type \in SliceTypes => SamePutOff(v, w)
    <2> SUFFICES ASSUME type \in SliceTypes PROVE SamePutOff(v, w)
        OBVIOUS
    <2>1. PostponeEntryRequest(v) => PostponeEntryRequest(w)
        BY <1>3 DEF SentAs, PostponeEntryRequest
    <2>2. PostponeEntryRequest(w) /\ w.asked # {} => w.postponedRequestEntry
        BY GoodParts DEF Entered
    <2> QED BY <1>3, <2>1, <2>2 DEF SentAs, SamePutOff
<1> QED BY <1>3, <1>4, <1>5, <1>6, <1>7, <1>8 DEF SentAs, KeepsRest, GoodBut

LEMMA FakeGood ==
    ASSUME NEW w, Good(w), NEW v, v = RequestFakeChatListMessage(w)
    PROVE  Good(v) /\ KeepsRest(v, w) /\ SamePutOff(v, w)
<1>1. CASE \E r \in w.sent \cup w.postponed : r.type = "Fake"
    <2>1. v = w
        BY <1>1 DEF RequestFakeChatListMessage
    <2> QED BY <2>1 DEF KeepsRest, SamePutOff, SameMarks
<1>2. CASE ~\E r \in w.sent \cup w.postponed : r.type = "Fake"
    <2>1. v = SendRequest(w, "Fake", 0)
        BY <1>2 DEF RequestFakeChatListMessage
    <2>2. "Fake" \in RequestTypes /\ "Fake" # "ReadInbox" /\ "Fake" \in SliceTypes
        BY DEF RequestTypes, SliceTypes
    <2>3. PICK X : X = {}
        OBVIOUS
    <2>4. GoodBut(w, X) /\ \A q \in X : q.type \notin SliceTypes
        BY <2>3 DEF Good
    <2>5. GoodBut(v, X) /\ KeepsRest(v, w) /\ SamePutOff(v, w)
        BY <2>1, <2>2, <2>4, SendGood
    <2> QED BY <2>3, <2>5 DEF Good
<1> QED BY <1>1, <1>2

\* The entry of a chat is asked for.
LEMMA EntryGood ==
    ASSUME NEW w, NEW X, GoodBut(w, X), NEW calls \in SUBSET Calls, NEW v, v = RequestDialogEntry(w, calls)
    PROVE  /\ GoodBut(v, X) /\ SameSent(v, w) /\ SameMarks(v, w) /\ v.kept = w.kept
           /\ v.postponedRequestEntry = w.postponedRequestEntry
           /\ v.asked # {} <=> w.asked # {}
<1>1. w \in HistState
    BY DEF GoodBut
<1>2. /\ v \in HistState /\ SameSent(v, w) /\ SameMarks(v, w) /\ v.kept = w.kept
      /\ v.postponedRequestEntry = w.postponedRequestEntry
      /\ IF w.asked # {} THEN v.asked = w.asked \cup calls /\ v.pending = w.pending
         ELSE v.asked = {} /\ v.pending = w.pending \cup calls \cup {"entry"}
    BY <1>1, RequestEntryFields
<1>3. v.asked # {} <=> w.asked # {}
    BY <1>2
<1>4. Kept(v)
    <2>1. Empty(v) <=> Empty(w)
        BY <1>2 DEF Empty, SameSent, SameMarks
    <2> QED BY <1>2, <2>1, GoodParts DEF Kept
<1>5. Requested(v, X)
    BY <1>2, GoodParts DEF Requested, SlicesApart, PostponeHistoryRequest, SameSent
<1>6. Marked(v)
    BY <1>2, GoodParts, CoveredSame DEF Marked, SameMarks, SameSent
<1>7. Entered(v)
    <2>1. PostponeEntryRequest(v) <=> PostponeEntryRequest(w)
        BY <1>2 DEF PostponeEntryRequest, SameSent
    <2>2. v.asked = {} \/ v.pending = {}
        BY <1>2, GoodParts DEF Entered
    <2> QED BY <1>2, <1>3, <2>1, <2>2, GoodParts DEF Entered
<1> QED BY <1>2, <1>3, <1>4, <1>5, <1>6, <1>7 DEF GoodBut

-----------------------------------------------------------------------------
\* Reading.

\* What readInboxTill leaves alone.
ReadAs(v, w) ==
    /\ SameSent(v, w) /\ SameEntry(v, w)
    /\ v.sentReadTill = w.sentReadTill
    /\ w.willReadTill > 0 => v.willReadTill > 0

\* The marks of w stay in order when the border goes up and the new mark, if
\* there is one, goes beyond all of them.
LEMMA ReadGood ==
    ASSUME NEW w, Good(w), NEW v \in HistState,
           SameSent(v, w), SameEntry(v, w), v.sentReadTill = w.sentReadTill,
           v.readBefore >= w.readBefore,
           \/ v.willReadTill = w.willReadTill /\ v.kept = w.kept
           \/ /\ v.willReadTill > w.willReadTill /\ v.willReadTill > w.sentReadTill /\ v.kept = TRUE
              /\ w.willReadTill = 0 => v.willReadTill >= w.readBefore
    PROVE  Good(v) /\ ReadAs(v, w)
<1>0. GoodBut(w, {})
    BY DEF Good
<1>1. /\ w.willReadTill \in Nat /\ w.sentReadTill \in Nat /\ w.readBefore \in Nat /\ w.sent \subseteq Requests
      /\ v.willReadTill \in Nat /\ v.readBefore \in Nat
    <2>1. /\ w.willReadTill \in 0 .. MaxMsgId /\ w.sentReadTill \in 0 .. MaxMsgId
          /\ w.readBefore \in 0 .. MaxMsgId + 1 /\ w.sent \subseteq Requests
        BY <1>0, GoodParts
    <2>2. v.willReadTill \in 0 .. MaxMsgId /\ v.readBefore \in 0 .. MaxMsgId + 1
        BY DEF HistState
    <2> QED BY <2>1, <2>2
<1>2. w.willReadTill > 0 => v.willReadTill > 0
    BY <1>1
<1>3. Kept(v)
    <2>1. CASE v.willReadTill = w.willReadTill /\ v.kept = w.kept
        <3>1. Empty(v) <=> Empty(w)
            BY <2>1 DEF Empty, SameSent, SameEntry
        <3> QED BY <1>0, <2>1, <3>1, GoodParts DEF Kept
    <2>2. CASE v.willReadTill > w.willReadTill /\ v.kept = TRUE
        BY <1>1, <2>2 DEF Kept, Empty
    <2> QED BY <2>1, <2>2
<1>4. Requested(v, {})
    <2>1. Requested(w, {})
        BY <1>0 DEF GoodBut
    <2>2. SlicesApart(v) /\ (PostponeHistoryRequest(v) <=> PostponeHistoryRequest(w))
        BY <2>1 DEF Requested, SlicesApart, PostponeHistoryRequest, SameSent
    <2> QED BY <2>1, <2>2 DEF Requested, SameSent
<1>5. Entered(v)
    BY <1>0, GoodParts DEF Entered, SameEntry, SameSent, PostponeEntryRequest
<1>6. Marked(v)
    <2>1. v.willReadTill > 0 => v.willReadTill > v.sentReadTill
        BY <1>0, <1>1, GoodParts DEF Marked
    <2>2. ASSUME NEW q \in v.sent, q.type = "ReadInbox" PROVE Covered(v, q)
        <3>1. q \in w.sent /\ q.till \in Nat
            BY <1>1 DEF SameSent, Requests
        <3>2. Covered(w, q)
            BY <1>0, <2>2, <3>1, GoodParts DEF Marked
        <3> QED BY <1>1, <3>1, <3>2 DEF Covered
    <2> QED BY <2>1, <2>2 DEF Marked
<1> QED BY <1>2, <1>3, <1>4, <1>5, <1>6 DEF Good, GoodBut, ReadAs

LEMMA MarkGood ==
    ASSUME NEW w, Good(w), NEW till \in 0 .. MaxMsgId, NEW force \in BOOLEAN, NEW still,
           NEW border \in 0 .. MaxMsgId, NEW v, v = MarkToRead(w, till, force, still, border)
    PROVE  Good(v) /\ ReadAs(v, w)
<1> DEFINE needs == ReadInboxTillNeedsRequest(w, till)
           out == \/ ~needs /\ ~force
                  \/ w.sentReadTill >= till
                  \/ w.willReadTill >= till /\ ~force
                  \/ w.willReadTill = 0 /\ ~needs
<1>0. w \in HistState
    BY DEF Good, GoodBut
<1>1. /\ w.willReadTill \in 0 .. MaxMsgId /\ w.sentReadTill \in 0 .. MaxMsgId
      /\ w.readBefore \in 0 .. MaxMsgId + 1
    BY <1>0 DEF HistState
<1>2. CASE out
    <2>1. v = w
        BY <1>2 DEF MarkToRead
    <2> QED BY <2>1 DEF ReadAs, SameSent, SameEntry
<1>3. CASE ~out /\ w.willReadTill >= till
    <2>1. v = [w EXCEPT !.timed = FALSE]
        BY <1>3 DEF MarkToRead, SendPendingReadInbox
    <2>2. /\ v \in HistState /\ SameSent(v, w) /\ SameEntry(v, w) /\ v.sentReadTill = w.sentReadTill
          /\ v.known = w.known /\ v.readBefore = w.readBefore
          /\ v.willReadTill = w.willReadTill /\ v.kept = w.kept
        BY <1>0, <2>1 DEF HistState, SameSent, SameEntry
    <2>3. v.readBefore >= w.readBefore
        BY <1>1, <2>2
    <2> QED BY <2>2, <2>3, ReadGood
<1>4. CASE ~out /\ ~(w.willReadTill >= till) /\ ~force /\ still = "same"
    <2>1. v = SetInboxReadTill(w, till)
        BY <1>4 DEF MarkToRead
    <2>2. /\ v \in HistState /\ SameSent(v, w) /\ SameEntry(v, w) /\ v.kept = w.kept
          /\ v.willReadTill = w.willReadTill /\ v.sentReadTill = w.sentReadTill
          /\ v.known = w.known /\ v.readBefore >= w.readBefore
        BY <1>0, <2>1, SetReadFields
    <2> QED BY <2>2, ReadGood
<1>5. CASE ~out /\ ~(w.willReadTill >= till) /\ ~(~force /\ still = "same")
    <2>1. PICK m : m = [w EXCEPT !.kept = TRUE, !.willReadTill = till]
        OBVIOUS
    <2>2. /\ m \in HistState /\ SameSent(m, w) /\ SameEntry(m, w) /\ m.sentReadTill = w.sentReadTill
          /\ m.known = w.known /\ m.readBefore = w.readBefore
          /\ m.willReadTill = till /\ m.kept = TRUE
        BY <1>0, <2>1 DEF HistState, SameSent, SameEntry
    <2>3. till > w.willReadTill /\ till > w.sentReadTill /\ (w.willReadTill = 0 => till >= w.readBefore)
        BY <1>1, <1>5 DEF ReadInboxTillNeedsRequest
    <2>4. CASE still = "unknown"
        <3>1. v = [m EXCEPT !.timed = FALSE]
            BY <1>5, <2>1, <2>4 DEF MarkToRead
        <3>2. /\ v \in HistState /\ SameSent(v, m) /\ SameEntry(v, m) /\ v.sentReadTill = m.sentReadTill
              /\ v.known = m.known /\ v.readBefore = m.readBefore
              /\ v.willReadTill = m.willReadTill /\ v.kept = m.kept
            BY <2>2, <3>1 DEF HistState, SameSent, SameEntry
        <3>3. SameSent(v, w) /\ SameEntry(v, w) /\ v.readBefore >= w.readBefore
            BY <1>1, <2>2, <3>2 DEF SameSent, SameEntry
        <3> QED BY <2>2, <2>3, <3>2, <3>3, ReadGood
    <2>5. CASE still # "unknown"
        <3>1. PICK s : s = SetUnreadCount(m, till, border)
            OBVIOUS
        <3>2. /\ s \in HistState /\ SameSent(s, m) /\ SameEntry(s, m) /\ s.kept = m.kept
              /\ s.willReadTill = m.willReadTill /\ s.sentReadTill = m.sentReadTill
              /\ s.readBefore >= m.readBefore
            BY <2>2, <3>1, SetUnreadFields
        <3>3. v = [s EXCEPT !.timed = ~force /\ still # "zero"]
            BY <1>5, <2>1, <2>5, <3>1 DEF MarkToRead
        <3>4. (~force /\ still # "zero") \in BOOLEAN
            OBVIOUS
        <3>5. /\ v \in HistState /\ SameSent(v, s) /\ SameEntry(v, s) /\ v.sentReadTill = s.sentReadTill
              /\ v.known = s.known /\ v.readBefore = s.readBefore
              /\ v.willReadTill = s.willReadTill /\ v.kept = s.kept
            BY <3>2, <3>3, <3>4 DEF HistState, SameSent, SameEntry
        <3>6. SameSent(v, w) /\ SameEntry(v, w)
            BY <2>2, <3>2, <3>5 DEF SameSent, SameEntry
        <3>7. v.sentReadTill = w.sentReadTill /\ v.willReadTill = till /\ v.kept = TRUE
            BY <2>2, <3>2, <3>5
        <3>8. v.readBefore >= w.readBefore
            BY <2>2, <3>2, <3>5
        <3> QED BY <2>3, <3>5, <3>6, <3>7, <3>8, ReadGood
    <2> QED BY <2>4, <2>5
<1> QED BY <1>2, <1>3, <1>4, <1>5

LEMMA ReadInboxTillGood ==
    ASSUME NEW w, Good(w), NEW till \in 0 .. MaxMsgId, NEW force \in BOOLEAN, NEW still,
           NEW border \in 0 .. MaxMsgId, NEW v, v = ReadInboxTill(w, till, force, still, border)
    PROVE  Good(v) /\ ReadAs(v, w)
<1>1. PICK m : m = MarkToRead(w, till, force, still, border)
    OBVIOUS
<1>2. Good(m) /\ ReadAs(m, w)
    BY <1>1, MarkGood
<1>3. CASE border >= till /\ till > 0 /\ m.known = "count"
    <2>1. v = SetInboxReadTill(m, border)
        BY <1>1, <1>3 DEF ReadInboxTill
    <2>2. m \in HistState
        BY <1>2 DEF Good, GoodBut
    <2>3. /\ v \in HistState /\ SameSent(v, m) /\ SameEntry(v, m) /\ v.kept = m.kept
          /\ v.willReadTill = m.willReadTill /\ v.sentReadTill = m.sentReadTill
          /\ v.known = m.known /\ v.readBefore >= m.readBefore
        BY <2>1, <2>2, SetReadFields
    <2>4. Good(v) /\ ReadAs(v, m)
        BY <1>2, <2>3, ReadGood
    <2> QED BY <1>2, <2>4 DEF ReadAs, SameSent, SameEntry
<1>4. CASE ~(border >= till /\ till > 0 /\ m.known = "count")
    <2>1. v = m
        BY <1>1, <1>4 DEF ReadInboxTill
    <2> QED BY <1>2, <2>1
<1> QED BY <1>3, <1>4

\* What sending a mark leaves alone.
EntryStays(v, w) ==
    /\ v.pending = w.pending /\ v.asked = w.asked
    /\ w.postponedRequestEntry => v.postponedRequestEntry

LEMMA SendReadGood ==
    ASSUME NEW w, NEW X, GoodBut(w, X), \A q \in X : q.type \notin SliceTypes,
           w.willReadTill > 0, NEW v, v = SendReadRequest(w)
    PROVE  GoodBut(v, X) /\ v.kept = TRUE /\ v.willReadTill = 0 /\ EntryStays(v, w)
<1>0. /\ w.willReadTill \in 0 .. MaxMsgId /\ w.sentReadTill \in 0 .. MaxMsgId /\ w \in HistState
      /\ w.sent \subseteq Requests
    BY GoodParts
<1>1. PICK till : till = w.willReadTill
    OBVIOUS
<1>2. PICK u : u = [w EXCEPT !.sentReadTill = till, !.willReadTill = 0, !.timed = FALSE, !.sentReadDone = FALSE]
    OBVIOUS
<1>3. v = SendRequest(u, "ReadInbox", till)
    BY <1>1, <1>2 DEF SendReadRequest
<1>4. /\ u \in HistState /\ SameSent(u, w) /\ SameEntry(u, w)
      /\ u.sentReadTill = till /\ u.willReadTill = 0
    <2>1. 0 \in 0 .. MaxMsgId
        BY HistoriesAssumption
    <2> QED BY <1>0, <1>1, <1>2, <2>1 DEF HistState, SameSent, SameEntry
<1>5. IsFiniteSet(u.sent) /\ IsFiniteSet(u.postponed) /\ IsFiniteSet(u.wire) /\ SlicesApart(u)
    BY <1>4, GoodParts DEF SameSent, SlicesApart, PostponeHistoryRequest
<1>6. SentAs(v, u, "ReadInbox", till)
    <2>1. "ReadInbox" \in RequestTypes /\ till \in 0 .. MaxMsgId
        BY <1>0, <1>1 DEF RequestTypes
    <2> QED BY <1>3, <1>4, <1>5, <2>1, SendProperties
<1>7. v \in HistState /\ v.kept = TRUE /\ v.willReadTill = 0 /\ v.sentReadTill = till
    BY <1>4, <1>6 DEF SentAs, SameMarks
<1>8. Kept(v)
    BY <1>6 DEF SentAs, Kept, Empty
<1>9. PostponeEntryRequest(u) <=> PostponeEntryRequest(w)
    BY <1>4 DEF SameSent, PostponeEntryRequest
<1>10. PostponeHistoryRequest(u) <=> PostponeHistoryRequest(w)
    BY <1>4 DEF SameSent, PostponeHistoryRequest
<1>11. Requested(v, X)
    BY <1>4, <1>6, <1>10, GoodParts DEF SentAs, Requested, SameSent
<1>12. Marked(v)
    <2>1. ASSUME NEW q \in v.sent, q.type = "ReadInbox" PROVE Covered(v, q)
        <3>1. CASE q \in w.sent
            <4>1. Covered(w, q) /\ w.willReadTill > w.sentReadTill /\ q.till \in Nat
                BY <1>0, <2>1, <3>1, GoodParts DEF Marked, Requests
            <4> QED BY <1>0, <1>1, <1>7, <4>1 DEF Covered
        <3>2. CASE q.till = till
            BY <1>0, <1>1, <1>7, <3>2 DEF Covered
        <3> QED BY <1>4, <1>6, <3>1, <3>2 DEF SentAs, SameSent
    <2> QED BY <1>7, <2>1 DEF Marked
<1>13. EntryStays(v, w)
    BY <1>4, <1>6 DEF SentAs, EntryStays, SameEntry
<1>14. Entered(v)
    <2>1. Entered(w)
        BY GoodParts
    <2> QED BY <1>4, <1>6, <1>9, <2>1 DEF SentAs, SameEntry, Entered
<1> QED BY <1>7, <1>8, <1>11, <1>12, <1>13, <1>14 DEF GoodBut

\* What the answer to a mark leaves alone.
ReadFinishedAs(v, w) ==
    /\ v.kept = TRUE /\ v.willReadTill = w.willReadTill /\ v.timed = w.timed
    /\ v.asked # {} <=> w.asked # {}
    /\ v.postponedRequestEntry = w.postponedRequestEntry
    /\ PostponeEntryRequest(v) <=> PostponeEntryRequest(w)

\* The answer to a mark is handled.
LEMMA ReadFinishedGood ==
    ASSUME NEW w, NEW r, GoodBut(w, {r}), w.kept = TRUE, NEW till \in 0 .. MaxMsgId,
           NEW v, v = ReadFinished(w, till)
    PROVE  GoodBut(v, {r}) /\ ReadFinishedAs(v, w)
<1>0. /\ w.willReadTill \in 0 .. MaxMsgId /\ w.sentReadTill \in 0 .. MaxMsgId /\ w \in HistState
      /\ w.readBefore \in 0 .. MaxMsgId + 1 /\ w.sent \subseteq Requests /\ {r} \in SUBSET w.sent
    BY GoodParts
<1>1. CASE w.sentReadTill # till
    <2>1. v = w
        BY <1>1 DEF ReadFinished
    <2> QED BY <2>1 DEF ReadFinishedAs
<1>2. CASE w.sentReadTill = till
    <2>1. PICK d : d = [w EXCEPT !.sentReadDone = TRUE]
        OBVIOUS
    <2>2. /\ d \in HistState /\ SameSent(d, w) /\ SameEntry(d, w) /\ d.kept = w.kept
          /\ d.willReadTill = w.willReadTill /\ d.sentReadTill = w.sentReadTill
          /\ d.timed = w.timed /\ d.readBefore = w.readBefore
        BY <1>0, <2>1 DEF HistState, SameSent, SameEntry
    <2>3. Requested(d, {r}) /\ Entered(d)
        BY <2>2, GoodParts DEF Requested, Entered, SlicesApart, PostponeHistoryRequest,
                               PostponeEntryRequest, SameSent, SameEntry
    <2>4. CASE UnreadCountRefreshNeeded(w, till)
        <3>1. v = RequestDialogEntry(d, {})
            BY <1>2, <2>1, <2>4 DEF ReadFinished
        <3>2. Kept(d)
            <4>1. Empty(d) <=> Empty(w)
                BY <2>2 DEF Empty, SameSent, SameEntry
            <4> QED BY <2>2, <4>1, GoodParts DEF Kept
        <3>3. Marked(d)
            BY <2>2, GoodParts, CoveredSame DEF Marked, SameSent
        <3>4. GoodBut(d, {r})
            BY <2>2, <2>3, <3>2, <3>3 DEF GoodBut
        <3>5. /\ GoodBut(v, {r}) /\ SameSent(v, d) /\ SameMarks(v, d) /\ v.kept = d.kept
              /\ v.postponedRequestEntry = d.postponedRequestEntry
              /\ v.asked # {} <=> d.asked # {}
            <4>1. {} \in SUBSET Calls
                OBVIOUS
            <4> QED BY <3>1, <3>4, <4>1, EntryGood
        <3>6. PostponeEntryRequest(v) <=> PostponeEntryRequest(w)
            BY <2>2, <3>5 DEF SameSent, PostponeEntryRequest
        <3> QED BY <2>2, <3>5, <3>6 DEF ReadFinishedAs, SameEntry, SameMarks
    <2>5. CASE ~UnreadCountRefreshNeeded(w, till)
        <3>1. v = [d EXCEPT !.sentReadTill = 0]
            BY <1>2, <2>1, <2>5 DEF ReadFinished
        <3>2. /\ v \in HistState /\ SameSent(v, d) /\ SameEntry(v, d) /\ v.kept = d.kept
              /\ v.willReadTill = d.willReadTill /\ v.sentReadTill = 0
              /\ v.timed = d.timed /\ v.readBefore = d.readBefore
            <4>1. 0 \in 0 .. MaxMsgId
                BY HistoriesAssumption
            <4> QED BY <2>2, <3>1, <4>1 DEF HistState, SameSent, SameEntry
        <3>3. Requested(v, {r}) /\ Entered(v)
            BY <2>3, <3>2 DEF Requested, Entered, SlicesApart, PostponeHistoryRequest,
                              PostponeEntryRequest, SameSent, SameEntry
        <3>4. Kept(v)
            <4>1. v.sent # {}
                BY <1>0, <2>2, <3>2 DEF SameSent
            <4> QED BY <2>2, <3>2, <4>1 DEF Kept, Empty
        <3>5. Marked(v)
            <4>1. w.readBefore > till
                BY <1>0, <2>5 DEF UnreadCountRefreshNeeded
            <4>2. w.willReadTill > 0 => w.willReadTill > w.sentReadTill
                BY GoodParts DEF Marked
            <4>3. ASSUME NEW q \in v.sent, q.type = "ReadInbox" PROVE Covered(v, q)
                <5>1. q \in w.sent /\ q.till \in Nat
                    BY <1>0, <2>2, <3>2 DEF SameSent, Requests
                <5>2. Covered(w, q)
                    BY <4>3, <5>1, GoodParts DEF Marked
                <5> QED BY <1>0, <1>2, <2>2, <3>2, <4>1, <4>2, <5>1, <5>2 DEF Covered
            <4>4. v.willReadTill > 0 => v.willReadTill > v.sentReadTill
                BY <2>2, <3>2
            <4> QED BY <4>3, <4>4 DEF Marked
        <3>6. PostponeEntryRequest(v) <=> PostponeEntryRequest(w)
            BY <2>2, <3>2 DEF SameSent, PostponeEntryRequest
        <3>7. GoodBut(v, {r})
            BY <3>2, <3>3, <3>4, <3>5 DEF GoodBut
        <3> QED BY <2>2, <3>2, <3>6, <3>7 DEF ReadFinishedAs, SameEntry
    <2> QED BY <2>4, <2>5
<1> QED BY <1>1, <1>2

-----------------------------------------------------------------------------
\* Entries of the dialogs list.

LEMMA ChoicesForChoices ==
    ASSUME NEW S, NEW read \in 0 .. MaxMsgId, NEW c \in ChoicesFor(S, read)
    PROVE  c \in Choices
<1>1. PICK lasts, stills, empties :
        /\ c \in [border : {0} \cup read + 1 .. MaxMsgId, last : lasts, still : stills,
                  empty : empties, fake : BOOLEAN]
        /\ lasts \in {0 .. MaxMsgId, {0}}
        /\ stills \in {{"unknown", "same", "zero", "some"}, {"unknown"}}
        /\ empties \in {BOOLEAN, {TRUE}}
    BY DEF ChoicesFor
<1>2. MaxMsgId \in Nat
    BY HistoriesAssumption
<1>3. /\ {0} \cup read + 1 .. MaxMsgId \subseteq 0 .. MaxMsgId
      /\ lasts \subseteq 0 .. MaxMsgId
    BY <1>1, <1>2
<1>7. stills \subseteq {"unknown", "same", "zero", "some"} /\ empties \subseteq BOOLEAN
    BY <1>1, Zenon
<1>4. PICK borders : borders = {0} \cup read + 1 .. MaxMsgId
    OBVIOUS
<1>5. c \in [border : borders, last : lasts, still : stills, empty : empties, fake : BOOLEAN]
    BY <1>1, <1>4
<1>6. /\ c = [border |-> c.border, last |-> c.last, still |-> c.still, empty |-> c.empty, fake |-> c.fake]
      /\ c.border \in borders /\ c.last \in lasts /\ c.still \in stills
      /\ c.empty \in empties /\ c.fake \in BOOLEAN
    BY <1>5
<1> QED BY <1>3, <1>4, <1>6, <1>7 DEF Choices

LEMMA ChoiceTypes ==
    ASSUME NEW c \in Choices
    PROVE  c.border \in 0 .. MaxMsgId /\ c.last \in 0 .. MaxMsgId /\ c.empty \in BOOLEAN /\ c.fake \in BOOLEAN
BY DEF Choices

LEMMA TakeSentReadGood ==
    ASSUME NEW w, Good(w), NEW v, v = TakeSentRead(w)
    PROVE  Good(v) /\ v.asked = w.asked /\ v.pending = w.pending /\ v.willReadTill = w.willReadTill
<1>0. w \in HistState /\ GoodBut(w, {})
    BY DEF Good, GoodBut
<1>1. /\ w.willReadTill \in 0 .. MaxMsgId /\ w.sentReadTill \in 0 .. MaxMsgId
      /\ w.readBefore \in 0 .. MaxMsgId + 1 /\ w.sent \subseteq Requests
    BY <1>0, GoodParts
<1>2. CASE w.sentReadTill > 0 /\ w.sentReadDone
    <2>1. PICK s : s = SetInboxReadTill(w, w.sentReadTill)
        OBVIOUS
    <2>2. /\ s \in HistState /\ SameSent(s, w) /\ SameEntry(s, w) /\ s.kept = w.kept
          /\ s.willReadTill = w.willReadTill /\ s.readBefore > w.sentReadTill
          /\ s.readBefore >= w.readBefore
        BY <1>0, <1>1, <2>1, SetReadFields
    <2>3. PICK z : z = [s EXCEPT !.sentReadTill = 0]
        OBVIOUS
    <2>4. /\ z \in HistState /\ SameSent(z, s) /\ SameEntry(z, s) /\ z.kept = s.kept
          /\ z.willReadTill = s.willReadTill /\ z.readBefore = s.readBefore /\ z.sentReadTill = 0
        <3>1. 0 \in 0 .. MaxMsgId
            BY HistoriesAssumption
        <3> QED BY <2>2, <2>3, <3>1 DEF HistState, SameSent, SameEntry
    <2>5. v = CheckEmptyState(z)
        BY <1>2, <2>1, <2>3 DEF TakeSentRead
    <2>6. /\ v \in HistState /\ SameSent(v, z) /\ SameEntry(v, z)
          /\ v.willReadTill = z.willReadTill /\ v.sentReadTill = z.sentReadTill
          /\ v.readBefore = z.readBefore
          /\ IF Empty(z) THEN v.kept = FALSE ELSE v = z
        BY <2>4, <2>5, EmptyStateFields
    <2>7. w.kept = TRUE
        <3>1. ~Empty(w)
            BY <1>1, <1>2 DEF Empty
        <3>2. w.kept \in BOOLEAN
            BY <1>0 DEF HistState
        <3>3. w.kept <=> ~Empty(w)
            BY <1>0, GoodParts DEF Kept
        <3> QED BY <3>1, <3>2, <3>3
    <2>8. Kept(v)
        <3>1. Empty(v) <=> Empty(z)
            BY <2>6 DEF Empty, SameSent, SameEntry
        <3>2. z.kept = TRUE
            BY <2>2, <2>4, <2>7
        <3> QED BY <2>6, <3>1, <3>2 DEF Kept
    <2>9. SameSent(v, w) /\ SameEntry(v, w)
        BY <2>2, <2>4, <2>6 DEF SameSent, SameEntry
    <2>10. Requested(v, {}) /\ Entered(v)
        <3>1. Requested(w, {}) /\ Entered(w)
            BY <1>0 DEF GoodBut
        <3>2. SlicesApart(v) /\ (PostponeHistoryRequest(v) <=> PostponeHistoryRequest(w))
              /\ (PostponeEntryRequest(v) <=> PostponeEntryRequest(w))
            BY <2>9, <3>1 DEF Requested, SlicesApart, PostponeHistoryRequest, PostponeEntryRequest, SameSent
        <3>3. Requested(v, {})
            BY <2>9, <3>1, <3>2 DEF Requested, SameSent
        <3>4. Entered(v)
            BY <2>9, <3>1, <3>2 DEF Entered, SameEntry
        <3> QED BY <3>3, <3>4
    <2>11. Marked(v)
        <3>1. w.willReadTill > 0 => w.willReadTill > w.sentReadTill
            BY <1>0, GoodParts DEF Marked
        <3>2. /\ v.willReadTill = w.willReadTill /\ v.sentReadTill = 0
              /\ v.readBefore > w.sentReadTill /\ v.readBefore >= w.readBefore
              /\ v.readBefore \in 0 .. MaxMsgId + 1
            BY <2>2, <2>4, <2>6 DEF HistState
        <3>3. ASSUME NEW q \in v.sent, q.type = "ReadInbox" PROVE Covered(v, q)
            <4>1. q \in w.sent /\ q.till \in Nat
                BY <1>1, <2>9 DEF SameSent, Requests
            <4>2. Covered(w, q)
                BY <1>0, <3>3, <4>1, GoodParts DEF Marked
            <4> QED BY <1>1, <1>2, <3>1, <3>2, <4>1, <4>2 DEF Covered
        <3> QED BY <3>2, <3>3 DEF Marked
    <2> QED BY <2>2, <2>4, <2>6, <2>8, <2>9, <2>10, <2>11 DEF Good, GoodBut, SameEntry
<1>3. CASE ~(w.sentReadTill > 0 /\ w.sentReadDone)
    <2>1. v = w
        BY <1>3 DEF TakeSentRead
    <2> QED BY <2>1
<1> QED BY <1>2, <1>3

LEMMA RunCallsGood ==
    ASSUME NEW w, Good(w), NEW calls, NEW c \in Choices, NEW v, v = RunCalls(w, calls, c)
    PROVE  Good(v) /\ v.asked = w.asked /\ v.pending = w.pending
<1>1. PICK still : still = IF c.still \in StillUnread(w) THEN c.still ELSE "unknown"
    OBVIOUS
<1>2. PICK read : read = IF "read" \in calls
                         THEN SendIfDue(ReadInboxTill(w, c.last, FALSE, still, c.border)) ELSE w
    OBVIOUS
<1>3. Good(read) /\ read.asked = w.asked /\ read.pending = w.pending
    <2>1. CASE "read" \in calls
        <3>1. PICK m : m = ReadInboxTill(w, c.last, FALSE, still, c.border)
            OBVIOUS
        <3>2. c.last \in 0 .. MaxMsgId /\ c.border \in 0 .. MaxMsgId /\ FALSE \in BOOLEAN
            BY ChoiceTypes
        <3>3. Good(m) /\ ReadAs(m, w)
            BY <3>1, <3>2, ReadInboxTillGood
        <3>4. read = SendIfDue(m)
            BY <1>2, <2>1, <3>1
        <3>5. CASE m.willReadTill > 0 /\ ~m.timed
            <4>1. read = SendReadRequest(m)
                BY <3>4, <3>5 DEF SendIfDue
            <4>2. PICK X : X = {}
                OBVIOUS
            <4>3. GoodBut(m, X) /\ \A q \in X : q.type \notin SliceTypes
                BY <3>3, <4>2 DEF Good
            <4>4. GoodBut(read, X) /\ EntryStays(read, m)
                BY <3>5, <4>1, <4>3, SendReadGood
            <4> QED BY <3>3, <4>2, <4>4 DEF Good, ReadAs, SameEntry, EntryStays
        <3>6. CASE ~(m.willReadTill > 0 /\ ~m.timed)
            <4>1. read = m
                BY <3>4, <3>6 DEF SendIfDue
            <4> QED BY <3>3, <4>1 DEF ReadAs, SameEntry
        <3> QED BY <3>5, <3>6
    <2>2. CASE "read" \notin calls
        <3>1. read = w
            BY <1>2, <2>2
        <3> QED BY <3>1
    <2> QED BY <2>1, <2>2
<1>4. CASE "delete" \in calls /\ ~c.empty
    <2>1. v = SendRequest(read, "Delete", 0)
        BY <1>1, <1>2, <1>4 DEF RunCalls
    <2>2. "Delete" \in RequestTypes /\ "Delete" # "ReadInbox"
        BY DEF RequestTypes
    <2>3. PICK X : X = {}
        OBVIOUS
    <2>4. GoodBut(read, X) /\ \A q \in X : q.type \notin SliceTypes
        BY <1>3, <2>3 DEF Good
    <2>5. GoodBut(v, X) /\ KeepsRest(v, read)
        BY <2>1, <2>2, <2>4, SendGood
    <2> QED BY <1>3, <2>3, <2>5 DEF Good, KeepsRest
<1>5. CASE ~("delete" \in calls /\ ~c.empty)
    <2>1. v = read
        BY <1>1, <1>2, <1>5 DEF RunCalls
    <2> QED BY <1>3, <2>1
<1> QED BY <1>4, <1>5

\* What an entry that arrives does: it is taken for good and settles what was
\* asked for, or it is put off.
AppliedAs(v, w) ==
    IF w.postponedRequestEntry
    THEN v.postponedRequestEntry /\ v.asked = w.asked /\ v.pending = w.pending
    ELSE v.asked = {} /\ v.pending = {}

LEMMA EntryAppliedGood ==
    ASSUME NEW w, Good(w), NEW c \in Choices, NEW v, v = DialogEntryApplied(w, c)
    PROVE  Good(v) /\ AppliedAs(v, w)
<1>1. CASE w.postponedRequestEntry
    <2>1. v = w
        BY <1>1 DEF DialogEntryApplied
    <2> QED BY <1>1, <2>1 DEF AppliedAs
<1>2. CASE ~w.postponedRequestEntry
    <2>1. PICK f : f = IF c.fake THEN RequestFakeChatListMessage(w) ELSE w
        OBVIOUS
    <2>2. Good(f) /\ KeepsRest(f, w) /\ SamePutOff(f, w)
        <3>1. CASE c.fake
            BY <2>1, <3>1, FakeGood
        <3>2. CASE ~c.fake
            BY <2>1, <3>2 DEF KeepsRest, SamePutOff, SameMarks
        <3> QED BY <3>1, <3>2
    <2>3. PICK e : e = [f EXCEPT !.pending = {}, !.asked = {}]
        OBVIOUS
    <2>4. f \in HistState /\ GoodBut(f, {})
        BY <2>2 DEF Good, GoodBut
    <2>5. /\ e \in HistState /\ SameSent(e, f) /\ SameMarks(e, f) /\ e.kept = f.kept
          /\ e.postponedRequestEntry = f.postponedRequestEntry
          /\ e.pending = {} /\ e.asked = {}
        BY <2>3, <2>4 DEF HistState, SameSent, SameMarks
    <2>6. ~e.postponedRequestEntry
        BY <1>2, <2>2, <2>5 DEF SamePutOff
    <2>7. Kept(e)
        <3>1. Empty(e) <=> Empty(f)
            BY <2>5 DEF Empty, SameSent, SameMarks
        <3> QED BY <2>4, <2>5, <3>1, GoodParts DEF Kept
    <2>8. Requested(e, {})
        <3>1. Requested(f, {})
            BY <2>4 DEF GoodBut
        <3>2. SlicesApart(e) /\ (PostponeHistoryRequest(e) <=> PostponeHistoryRequest(f))
            BY <2>5, <3>1 DEF Requested, SlicesApart, PostponeHistoryRequest, SameSent
        <3> QED BY <2>5, <3>1, <3>2 DEF Requested, SameSent
    <2>9. Marked(e)
        BY <2>4, <2>5, GoodParts, CoveredSame DEF Marked, SameMarks, SameSent
    <2>10. Entered(e)
        BY <2>5, <2>6 DEF Entered
    <2>11. Good(e)
        BY <2>5, <2>7, <2>8, <2>9, <2>10 DEF Good, GoodBut
    <2>12. PICK r : r = RunCalls(e, w.pending \cup w.asked, c)
        OBVIOUS
    <2>13. Good(r) /\ r.asked = e.asked /\ r.pending = e.pending
        BY <2>11, <2>12, RunCallsGood
    <2>14. v = TakeSentRead(r)
        BY <1>2, <2>1, <2>3, <2>12 DEF DialogEntryApplied
    <2>15. Good(v) /\ v.asked = r.asked /\ v.pending = r.pending
        BY <2>13, <2>14, TakeSentReadGood
    <2> QED BY <1>2, <2>5, <2>13, <2>15 DEF AppliedAs
<1> QED BY <1>1, <1>2

LEMMA ApplyDialogGood ==
    ASSUME NEW w, Good(w), NEW read \in 0 .. MaxMsgId, NEW c \in Choices, NEW v, v = ApplyDialog(w, read, c)
    PROVE  Good(v) /\ AppliedAs(v, w)
<1>0. w \in HistState
    BY DEF Good, GoodBut
<1>1. c.border \in 0 .. MaxMsgId
    BY ChoiceTypes
<1>2. w.readBefore \in 0 .. MaxMsgId + 1 /\ w.known \in Knowledge
    BY <1>0 DEF HistState
<1>3. PICK b : b = ApplyDialogFields(w, read, c.border)
    OBVIOUS
<1>5. /\ b \in HistState /\ SameSent(b, w) /\ SameEntry(b, w) /\ b.kept = w.kept
      /\ b.willReadTill = w.willReadTill /\ b.sentReadTill = w.sentReadTill
      /\ b.readBefore >= w.readBefore
    <2>1. CASE read + 1 >= w.readBefore
        <3>1. b = SetUnreadCount(w, read, c.border)
            BY <1>3, <2>1 DEF ApplyDialogFields
        <3> QED BY <1>0, <1>1, <3>1, SetUnreadFields
    <2>2. CASE ~(read + 1 >= w.readBefore)
        <3>1. PICK k : k = IF w.known = "count" THEN w.known ELSE "folder"
            OBVIOUS
        <3>2. k \in Knowledge
            BY <1>2, <3>1 DEF Knowledge
        <3>3. b = [w EXCEPT !.known = k]
            BY <1>3, <2>2, <3>1 DEF ApplyDialogFields
        <3>4. /\ b \in HistState /\ SameSent(b, w) /\ SameEntry(b, w) /\ b.kept = w.kept
              /\ b.willReadTill = w.willReadTill /\ b.sentReadTill = w.sentReadTill
              /\ b.readBefore = w.readBefore
            BY <1>0, <3>2, <3>3 DEF HistState, SameSent, SameEntry
        <3> QED BY <1>2, <3>4
    <2> QED BY <2>1, <2>2
<1>6. Good(b)
    BY <1>5, ReadGood
<1>7. v = DialogEntryApplied(b, c)
    BY <1>3 DEF ApplyDialog
<1>8. Good(v) /\ AppliedAs(v, b)
    BY <1>6, <1>7, EntryAppliedGood
<1> QED BY <1>5, <1>8 DEF AppliedAs, SameEntry

-----------------------------------------------------------------------------
\* Steps.

\* What a step may do to the entry of a chat: one that is asked for in w and
\* not in v is settled or pending again.
EntryStep(v, w) ==
    /\ v.asked # {} /\ ~v.postponedRequestEntry => w.asked # {} /\ ~w.postponedRequestEntry
    /\ w.asked # {} /\ v.asked = {} /\ v.pending = {} => ~PostponeEntryRequest(w)

\* A mark that is not sent was there before, with its time.
MarkStep(v, w) == v.willReadTill > 0 => w.willReadTill > 0 /\ (w.timed => v.timed)

Settled ==
    \A h \in Chats :
        /\ hist[h].asked # {} /\ hist'[h].asked = {} /\ hist'[h].pending = {}
        => ~PostponeEntryRequest(hist[h])

\* The invariant and the action property, put together from what holds for
\* each chat.
LEMMA Assemble ==
    ASSUME Inv, hist' \in [Chats -> HistState],
           \A h \in Chats : Good(hist'[h]) /\ EntryStep(hist'[h], hist[h]),
           \A h \in Chats : hist'[h].pending # {} => posted',
           \A h \in Chats : hist'[h].asked # {} /\ ~hist'[h].postponedRequestEntry =>
               \E d \in dialogs' : h \in d.chats,
           \A h \in Chats : hist'[h].willReadTill > 0 => hist'[h].timed /\ timer',
           posted' \in BOOLEAN, timer' \in BOOLEAN,
           dialogs' \subseteq [n : 1 .. MaxDialogs, chats : SUBSET Chats],
           inputs' \in 0 .. MaxInputs
    PROVE  Inv' /\ Settled
<1>1. TypeOK'
    BY DEF TypeOK
<1>2. MarkIsTimed'
    BY DEF MarkIsTimed
<1>3. \A h \in Chats : Coming(h)'
    BY DEF Coming
<1>4. \A h \in Chats : Good(hist[h])'
    BY DEF Good, GoodBut, Kept, Empty, Requested, SlicesApart, Marked, Covered, Entered,
           PostponeHistoryRequest, PostponeEntryRequest
<1>5. Settled
    BY DEF Settled, EntryStep
<1> QED BY <1>1, <1>2, <1>3, <1>4, <1>5 DEF Inv

\* What the invariant says of one chat.
LEMMA InvOfChat ==
    ASSUME Inv, NEW h \in Chats
    PROVE  /\ Good(hist[h]) /\ Coming(h)
           /\ hist \in [Chats -> HistState] /\ hist[h] \in HistState
           /\ posted \in BOOLEAN /\ timer \in BOOLEAN
           /\ dialogs \subseteq [n : 1 .. MaxDialogs, chats : SUBSET Chats]
           /\ inputs \in 0 .. MaxInputs
           /\ hist[h].willReadTill > 0 => hist[h].timed /\ timer
BY DEF Inv, TypeOK, MarkIsTimed

\* A chat that does not change.
LEMMA NoStep == ASSUME NEW w PROVE EntryStep(w, w) /\ MarkStep(w, w)
BY DEF EntryStep, MarkStep

\* A step of one chat that does nothing to the marks, the timer and what is
\* on its way for the entries.
LEMMA OneChat ==
    ASSUME Inv, NEW h \in Chats, NEW v, Good(v), EntryStep(v, hist[h]), MarkStep(v, hist[h]),
           hist' = [hist EXCEPT ![h] = v], PostOnce(h, v), UNCHANGED <<timer, dialogs>>,
           inputs' \in 0 .. MaxInputs
    PROVE  Inv' /\ Settled
<1>1. v \in HistState
    BY DEF Good, GoodBut
<1>2. hist' \in [Chats -> HistState] /\ hist'[h] = v /\ \A g \in Chats : g # h => hist'[g] = hist[g]
    BY <1>1, InvOfChat
<1>3. \A g \in Chats : Good(hist'[g]) /\ EntryStep(hist'[g], hist[g]) /\ MarkStep(hist'[g], hist[g])
    BY <1>2, InvOfChat, NoStep
<1>4. posted' \in BOOLEAN /\ (posted => posted')
    BY DEF PostOnce
<1>5. \A g \in Chats : hist[g].pending # {} => posted
    BY InvOfChat DEF Coming
<1>6. v.pending # {} => posted'
    BY <1>5 DEF PostOnce
<1>7. \A g \in Chats : hist'[g].pending # {} => posted'
    BY <1>2, <1>4, <1>5, <1>6
<1>8. ASSUME NEW g \in Chats, hist'[g].asked # {} /\ ~hist'[g].postponedRequestEntry
      PROVE  \E d \in dialogs' : g \in d.chats
    <2>1. hist[g].asked # {} /\ ~hist[g].postponedRequestEntry
        BY <1>3, <1>8 DEF EntryStep
    <2> QED BY <2>1, InvOfChat DEF Coming
<1>9. ASSUME NEW g \in Chats, hist'[g].willReadTill > 0 PROVE hist'[g].timed /\ timer'
    <2>1. hist[g].willReadTill > 0 /\ (hist[g].timed => hist'[g].timed)
        BY <1>3, <1>9 DEF MarkStep
    <2> QED BY <2>1, InvOfChat
<1>10. timer' \in BOOLEAN /\ dialogs' \subseteq [n : 1 .. MaxDialogs, chats : SUBSET Chats]
    BY InvOfChat
<1> QED BY <1>2, <1>3, <1>4, <1>7, <1>8, <1>9, <1>10, Assemble

\* The same without a call of postponeRequestDialogEntries.
LEMMA PostOnceUnchanged ==
    ASSUME Inv, NEW h \in Chats, NEW v, v.pending = hist[h].pending, posted' = posted
    PROVE  PostOnce(h, v)
<1>1. (v.pending # {} /\ hist[h].pending = {}) = FALSE
    OBVIOUS
<1>2. posted \in BOOLEAN
    BY InvOfChat
<1> QED BY <1>1, <1>2 DEF PostOnce

LEMMA InputCounts == ASSUME Inv, NEW kind, Input(kind) PROVE inputs' \in 0 .. MaxInputs
<1>1. inputs \in 0 .. MaxInputs
    BY DEF Inv, TypeOK
<1> QED BY <1>1, HistoriesAssumption DEF Input

\* A request that is finished, or sent, changes the entry and the marks as a
\* step may.
LEMMA FinishedStep ==
    ASSUME NEW v, NEW w, FinishedAs(v, w), Entered(w)
    PROVE  EntryStep(v, w) /\ MarkStep(v, w)
<1>1. EntryStep(v, w)
    BY DEF FinishedAs, EntryStep
<1>2. MarkStep(v, w)
    BY DEF FinishedAs, MarkStep
<1> QED BY <1>1, <1>2

LEMMA SentStep ==
    ASSUME NEW v, NEW w, KeepsRest(v, w)
    PROVE  EntryStep(v, w) /\ MarkStep(v, w)
BY DEF KeepsRest, SameMarks, EntryStep, MarkStep

LEMMA AskInv ==
    ASSUME Inv, NEW h \in Chats, NEW type \in {"History", "Send", "Delete"}, Ask(h, type)
    PROVE  Inv' /\ Settled
<1>1. PICK v : v = SendRequest(hist[h], type, 0)
    OBVIOUS
<1>2. hist' = [hist EXCEPT ![h] = v] /\ UNCHANGED <<posted, timer, dialogs>>
    BY <1>1 DEF Ask
<1>3. PICK X : X = {}
    OBVIOUS
<1>4. GoodBut(hist[h], X) /\ \A q \in X : q.type \notin SliceTypes
    BY <1>3, InvOfChat DEF Good
<1>5. type \in RequestTypes /\ type # "ReadInbox"
    BY DEF RequestTypes
<1>6. GoodBut(v, X) /\ KeepsRest(v, hist[h])
    BY <1>1, <1>4, <1>5, SendGood
<1>7. Good(v)
    BY <1>3, <1>6 DEF Good
<1>8. EntryStep(v, hist[h]) /\ MarkStep(v, hist[h])
    BY <1>6, SentStep
<1>9. PostOnce(h, v)
    BY <1>2, <1>6, PostOnceUnchanged DEF KeepsRest
<1>10. inputs' \in 0 .. MaxInputs
    BY InputCounts DEF Ask
<1> QED BY <1>2, <1>7, <1>8, <1>9, <1>10, OneChat

LEMMA KeptIsTrue ==
    ASSUME NEW w, Good(w), w.sent # {} \/ w.postponed # {}
    PROVE  w.kept = TRUE
<1>1. w.kept \in BOOLEAN /\ Kept(w)
    BY DEF Good, GoodBut, HistState
<1>2. ~Empty(w)
    BY DEF Empty
<1> QED BY <1>1, <1>2 DEF Kept

LEMMA CancelRequestInv ==
    ASSUME Inv, NEW h \in Chats, NEW r, CancelRequest(h, r)
    PROVE  Inv' /\ Settled
<1>1. PICK w : w = hist[h]
    OBVIOUS
<1>2. PICK p : p = [w EXCEPT !.postponed = @ \ {r}]
    OBVIOUS
<1>3. PICK v : v = FinishSentRequest(p, r)
    OBVIOUS
<1>4. Good(w) /\ w \in HistState /\ GoodBut(w, {})
    BY <1>1, InvOfChat DEF Good
<1>5. /\ p \in HistState /\ SameEntry(p, w) /\ SameMarks(p, w) /\ p.kept = w.kept
      /\ p.sent = w.sent /\ p.wire = w.wire /\ p.postponed = w.postponed \ {r}
    BY <1>2, <1>4 DEF HistState, SameEntry, SameMarks
<1>6. w.kept = TRUE
    <2>1. w.sent # {} \/ w.postponed # {}
        BY <1>1 DEF CancelRequest
    <2> QED BY <1>4, <2>1, KeptIsTrue
<1>7. IsFiniteSet(p.sent) /\ IsFiniteSet(p.postponed)
    <2>1. IsFiniteSet(w.sent) /\ IsFiniteSet(w.postponed)
        BY <1>4, GoodParts
    <2>2. IsFiniteSet(w.postponed \ {r})
        BY <2>1, FS_Subset
    <2> QED BY <1>5, <2>1, <2>2
<1>8. p.wire \ {r} = p.sent \ {r}
    <2>1. w.wire = w.sent \ {}
        BY <1>4 DEF GoodBut, Requested
    <2> QED BY <1>5, <2>1
<1>9. SlicesApart(p)
    BY <1>4, <1>5, GoodParts DEF SlicesApart, PostponeHistoryRequest
<1>10. Enterable(p)
    <2>1. Entered(w)
        BY <1>4, GoodParts
    <2>2. PostponeEntryRequest(p) <=> PostponeEntryRequest(w)
        BY <1>5 DEF PostponeEntryRequest
    <2> QED BY <1>5, <2>1, <2>2 DEF Entered, Enterable, SameEntry
<1>11. p.kept = TRUE
    BY <1>5, <1>6
<1>12. p \in HistState
    BY <1>5
<1>13. v \in HistState /\ Kept(v) /\ Requested(v, {}) /\ Entered(v) /\ FinishedAs(v, p)
    BY <1>3, <1>7, <1>8, <1>9, <1>10, <1>11, <1>12, FinishProperties
<1>14. FinishedAs(v, w)
    BY <1>5, <1>13 DEF FinishedAs, SameEntry, SameMarks
<1>15. Marked(v)
    <2>1. \A q \in v.sent : q.type = "ReadInbox" => q \in w.sent
        BY <1>14 DEF SliceTypes, FinishedAs
    <2>2. v.willReadTill = w.willReadTill /\ v.sentReadTill = w.sentReadTill /\ v.readBefore = w.readBefore
        BY <1>14 DEF FinishedAs
    <2> QED BY <1>4, <2>1, <2>2, GoodParts, CoveredSame DEF Marked
<1>16. Good(v)
    BY <1>13, <1>15 DEF Good, GoodBut
<1>17. EntryStep(v, w) /\ MarkStep(v, w)
    BY <1>4, <1>14, GoodParts, FinishedStep
<1>18. hist' = [hist EXCEPT ![h] = v] /\ PostOnce(h, v) /\ UNCHANGED <<timer, dialogs, inputs>>
    BY <1>1, <1>2, <1>3 DEF CancelRequest
<1> QED BY <1>1, <1>16, <1>17, <1>18, InvOfChat, OneChat

\* What asking for the entry changes.
LEMMA EntryAskedStep ==
    ASSUME NEW w, Good(w), NEW calls \in SUBSET Calls, NEW v, v = RequestDialogEntry(w, calls)
    PROVE  Good(v) /\ EntryStep(v, w) /\ MarkStep(v, w) /\ v.readBefore = w.readBefore
<1>1. PICK X : X = {}
    OBVIOUS
<1>2. GoodBut(w, X)
    BY <1>1 DEF Good
<1>3. /\ GoodBut(v, X) /\ SameSent(v, w) /\ SameMarks(v, w)
      /\ v.postponedRequestEntry = w.postponedRequestEntry
      /\ v.asked # {} <=> w.asked # {}
    BY <1>2, EntryGood
<1> QED BY <1>1, <1>3 DEF Good, EntryStep, MarkStep, SameMarks

LEMMA AskEntryInv ==
    ASSUME Inv, NEW h \in Chats, NEW calls \in {{}, {"read"}, {"delete"}}, AskEntry(h, calls)
    PROVE  Inv' /\ Settled
<1>1. PICK v : v = RequestDialogEntry(hist[h], calls)
    OBVIOUS
<1>2. calls \in SUBSET Calls
    BY DEF Calls
<1>3. Good(v) /\ EntryStep(v, hist[h]) /\ MarkStep(v, hist[h])
    BY <1>1, <1>2, InvOfChat, EntryAskedStep
<1>4. hist' = [hist EXCEPT ![h] = v] /\ PostOnce(h, v) /\ UNCHANGED <<timer, dialogs>>
    BY <1>1 DEF AskEntry
<1>5. inputs' \in 0 .. MaxInputs
    BY InputCounts DEF AskEntry
<1> QED BY <1>3, <1>4, <1>5, OneChat

LEMMA InboxReadInv ==
    ASSUME Inv, NEW h \in Chats, NEW upTo \in 1 .. MaxMsgId, NEW border \in 0 .. MaxMsgId,
           InboxRead(h, upTo, border)
    PROVE  Inv' /\ Settled
<1>0. upTo \in 0 .. MaxMsgId
    BY HistoriesAssumption
<1>1. PICK ask \in BOOLEAN, counted \in BOOLEAN :
         LET a == IF ask THEN RequestDialogEntry(hist[h], {}) ELSE hist[h]
             w == IF counted THEN SetUnreadCount(a, upTo, border) ELSE SetInboxReadTill(a, upTo)
         IN  hist' = [hist EXCEPT ![h] = w] /\ PostOnce(h, a)
    BY DEF InboxRead
<1>2. PICK a : a = IF ask THEN RequestDialogEntry(hist[h], {}) ELSE hist[h]
    OBVIOUS
<1>3. PICK v : v = IF counted THEN SetUnreadCount(a, upTo, border) ELSE SetInboxReadTill(a, upTo)
    OBVIOUS
<1>4. hist' = [hist EXCEPT ![h] = v] /\ PostOnce(h, a)
    BY <1>1, <1>2, <1>3
<1>5. Good(a) /\ EntryStep(a, hist[h]) /\ MarkStep(a, hist[h])
    <2>1. CASE ask
        <3>1. a = RequestDialogEntry(hist[h], {}) /\ {} \in SUBSET Calls
            BY <1>2, <2>1
        <3> QED BY <3>1, InvOfChat, EntryAskedStep
    <2>2. CASE ~ask
        <3>1. a = hist[h]
            BY <1>2, <2>2
        <3> QED BY <3>1, InvOfChat, NoStep
    <2> QED BY <2>1, <2>2
<1>6. a \in HistState
    BY <1>5 DEF Good, GoodBut
<1>7. /\ v \in HistState /\ SameSent(v, a) /\ SameEntry(v, a) /\ v.kept = a.kept
      /\ v.willReadTill = a.willReadTill /\ v.sentReadTill = a.sentReadTill
      /\ v.readBefore >= a.readBefore /\ v.timed = a.timed
    <2>1. CASE counted
        <3>1. v = SetUnreadCount(a, upTo, border)
            BY <1>3, <2>1
        <3> QED BY <1>0, <1>6, <3>1, SetUnreadFields
    <2>2. CASE ~counted
        <3>1. v = SetInboxReadTill(a, upTo)
            BY <1>3, <2>2
        <3> QED BY <1>0, <1>6, <3>1, SetReadFields
    <2> QED BY <2>1, <2>2
<1>8. Good(v)
    BY <1>5, <1>7, ReadGood
<1>9. EntryStep(v, hist[h])
    BY <1>5, <1>7 DEF EntryStep, SameEntry
<1>10. MarkStep(v, hist[h])
    BY <1>5, <1>7 DEF MarkStep
<1>11. PostOnce(h, v)
    BY <1>4, <1>7 DEF PostOnce, SameEntry
<1>12. inputs' \in 0 .. MaxInputs /\ UNCHANGED <<timer, dialogs>>
    BY InputCounts DEF InboxRead
<1> QED BY <1>4, <1>8, <1>9, <1>10, <1>11, <1>12, OneChat

\* The request r is answered and its handlers finish it.
LEMMA AnsweredStep ==
    ASSUME NEW w, Good(w), NEW r \in w.wire, NEW v, v = CheckPostponed(Delivered(w, r), r)
    PROVE  Good(v) /\ EntryStep(v, w) /\ MarkStep(v, w) /\ FinishedAs(v, w)
<1>1. PICK d : d = Delivered(w, r)
    OBVIOUS
<1>2. GoodBut(d, {r}) /\ d.kept = TRUE /\ SameEntry(d, w) /\ SameMarks(d, w) /\ d.sent = w.sent
    BY <1>1, DeliveredGood
<1>3. v = FinishSentRequest(d, r)
    BY <1>1, <1>2 DEF CheckPostponed
<1>4. Good(v) /\ FinishedAs(v, d)
    BY <1>2, <1>3, FinishGood
<1>5. FinishedAs(v, w)
    BY <1>2, <1>4 DEF FinishedAs, SameEntry, SameMarks
<1>6. Entered(w)
    BY DEF Good, GoodBut
<1> QED BY <1>4, <1>5, <1>6, FinishedStep

LEMMA AnsweredInv ==
    ASSUME Inv, NEW h \in Chats, NEW r, Answered(h, r)
    PROVE  Inv' /\ Settled
<1>1. PICK v : v = CheckPostponed(Delivered(hist[h], r), r)
    OBVIOUS
<1>2. hist' = [hist EXCEPT ![h] = v] /\ PostOnce(h, v) /\ UNCHANGED <<timer, dialogs, inputs>> /\ r \in hist[h].wire
    BY <1>1 DEF Answered
<1>3. Good(v) /\ EntryStep(v, hist[h]) /\ MarkStep(v, hist[h])
    BY <1>1, <1>2, InvOfChat, AnsweredStep
<1> QED BY <1>2, <1>3, InvOfChat, OneChat

LEMMA DeleteAnsweredInv ==
    ASSUME Inv, NEW h \in Chats, NEW r, DeleteAnswered(h, r)
    PROVE  Inv' /\ Settled
<1>0. PICK w : w = hist[h]
    OBVIOUS
<1>1. PICK got : got = Delivered(w, r)
    OBVIOUS
<1>2. PICK done : done = CheckPostponed(got, r)
    OBVIOUS
<1>3. Good(w) /\ r \in w.wire /\ r.type = "Delete" /\ UNCHANGED <<timer, dialogs>>
    BY <1>0, InvOfChat DEF DeleteAnswered
<1>4. Good(done) /\ EntryStep(done, w) /\ MarkStep(done, w)
    BY <1>1, <1>2, <1>3, AnsweredStep
<1>5. ASSUME NEW v \in {done, RequestDialogEntry(done, {}), RequestFakeChatListMessage(done)},
             hist' = [hist EXCEPT ![h] = v], PostOnce(h, v), inputs' = inputs
      PROVE  Inv' /\ Settled
    <2>1. Good(v) /\ EntryStep(v, w) /\ MarkStep(v, w)
        <3>1. CASE v = done
            BY <1>4, <3>1
        <3>2. CASE v = RequestDialogEntry(done, {})
            <4>1. {} \in SUBSET Calls
                OBVIOUS
            <4>2. /\ Good(v) /\ EntryStep(v, done) /\ MarkStep(v, done)
                BY <1>4, <3>2, <4>1, EntryAskedStep
            <4>3. done \in HistState
                BY <1>4 DEF Good, GoodBut
            <4>4. (done.pending # {} => v.pending # {}) /\ (done.asked # {} => v.asked # {})
                BY <3>2, <4>1, <4>3, RequestEntryFields
            <4>5. EntryStep(v, w)
                BY <1>4, <4>2, <4>4 DEF EntryStep
            <4>6. MarkStep(v, w)
                BY <1>4, <4>2 DEF MarkStep
            <4> QED BY <4>2, <4>5, <4>6
        <3>3. CASE v = RequestFakeChatListMessage(done)
            <4>1. Good(v) /\ KeepsRest(v, done)
                BY <1>4, <3>3, FakeGood
            <4>2. EntryStep(v, w)
                BY <1>4, <4>1 DEF EntryStep, KeepsRest
            <4>3. MarkStep(v, w)
                BY <1>4, <4>1 DEF MarkStep, KeepsRest, SameMarks
            <4> QED BY <4>1, <4>2, <4>3
        <3> QED BY <1>5, <3>1, <3>2, <3>3
    <2> QED BY <1>0, <1>3, <1>5, <2>1, InvOfChat, OneChat
<1>6. ASSUME NEW v, v = CheckPostponed(SendRequest(got, "Delete", 0), r),
             hist' = [hist EXCEPT ![h] = v], PostOnce(h, v), Input("again")
      PROVE  Inv' /\ Settled
    <2>1. GoodBut(got, {r}) /\ SameEntry(got, w) /\ SameMarks(got, w)
        BY <1>1, <1>3, DeliveredGood
    <2>2. PICK X : X = {r}
        OBVIOUS
    <2>3. PICK s : s = SendRequest(got, "Delete", 0)
        OBVIOUS
    <2>4. GoodBut(got, X) /\ \A q \in X : q.type \notin SliceTypes
        BY <1>3, <2>1, <2>2 DEF SliceTypes
    <2>5. "Delete" \in RequestTypes /\ "Delete" # "ReadInbox"
        BY DEF RequestTypes
    <2>6. GoodBut(s, X) /\ s.kept = TRUE /\ KeepsRest(s, got)
        BY <2>3, <2>4, <2>5, SendGood
    <2>7. v = FinishSentRequest(s, r)
        BY <1>6, <2>3, <2>6 DEF CheckPostponed
    <2>8. GoodBut(s, {r})
        BY <2>2, <2>6
    <2>9. Good(v) /\ FinishedAs(v, s)
        BY <2>6, <2>7, <2>8, FinishGood
    <2>10. Entered(s)
        BY <2>8 DEF GoodBut
    <2>11. EntryStep(v, s) /\ MarkStep(v, s)
        BY <2>9, <2>10, FinishedStep
    <2>12. MarkStep(v, w)
        BY <2>1, <2>6, <2>11 DEF MarkStep, KeepsRest, SameMarks
    <2>13. EntryStep(v, w)
        <3>1. s.asked = w.asked /\ (w.postponedRequestEntry => s.postponedRequestEntry)
            BY <2>1, <2>6 DEF KeepsRest, SameEntry
        <3>2. s.asked # {} => v.asked # {} \/ v.pending # {}
            BY <2>9 DEF FinishedAs
        <3> QED BY <2>11, <3>1, <3>2 DEF EntryStep
    <2>14. inputs' \in 0 .. MaxInputs
        BY <1>6, InputCounts
    <2> QED BY <1>0, <1>3, <1>6, <2>9, <2>12, <2>13, <2>14, OneChat
<1>7. \/ \E v \in {done, RequestDialogEntry(done, {}), RequestFakeChatListMessage(done)} :
            hist' = [hist EXCEPT ![h] = v] /\ PostOnce(h, v) /\ inputs' = inputs
      \/ \E v : /\ v = CheckPostponed(SendRequest(got, "Delete", 0), r)
                /\ hist' = [hist EXCEPT ![h] = v] /\ PostOnce(h, v) /\ Input("again")
    BY <1>0, <1>1, <1>2 DEF DeleteAnswered
<1> QED BY <1>5, <1>6, <1>7

-----------------------------------------------------------------------------
\* Steps that send marks.

\* sendReadRequests leaves no mark that is due.
LEMMA SendReadsOne ==
    ASSUME NEW hs \in [Chats -> HistState], NEW due, NEW h \in Chats, Good(hs[h]),
           h \in due => hs[h].willReadTill > 0
    PROVE  LET v == SendReadRequests(hs, due)[h]
           IN  /\ Good(v) /\ EntryStays(v, hs[h])
               /\ v.willReadTill > 0 => v.timed /\ h \in Timed(hs) \ due
<1> DEFINE v == SendReadRequests(hs, due)[h]
<1>1. CASE h \in Untimed(hs) \cup due
    <2>1. v = SendReadRequest(hs[h])
        BY <1>1 DEF SendReadRequests
    <2>2. hs[h].willReadTill > 0
        BY <1>1 DEF Untimed
    <2>3. PICK X : X = {}
        OBVIOUS
    <2>4. GoodBut(hs[h], X) /\ \A q \in X : q.type \notin SliceTypes
        BY <2>3 DEF Good
    <2> HIDE DEF v
    <2>5. GoodBut(v, X) /\ v.willReadTill = 0 /\ EntryStays(v, hs[h])
        BY <2>1, <2>2, <2>4, SendReadGood
    <2> QED BY <2>3, <2>5 DEF Good, v
<1>2. CASE h \notin Untimed(hs) \cup due
    <2>1. v = hs[h]
        BY <1>2 DEF SendReadRequests
    <2>2. v.willReadTill > 0 => v.timed /\ h \in Timed(hs) \ due
        BY <1>2, <2>1 DEF Untimed, Timed
    <2> QED BY <2>1, <2>2 DEF EntryStays
<1> QED BY <1>1, <1>2

LEMMA EntryStaysStep ==
    ASSUME NEW v, NEW u, NEW w, EntryStays(v, u), EntryStep(u, w)
    PROVE  EntryStep(v, w)
BY DEF EntryStays, EntryStep

LEMMA SendReadsInv ==
    ASSUME Inv, NEW hs \in [Chats -> HistState],
           \A h \in Chats : Good(hs[h]) /\ EntryStep(hs[h], hist[h]),
           NEW due, \A h \in Chats : h \in due => hs[h].willReadTill > 0,
           hist' = SendReadRequests(hs, due), timer' = TimerLeft(hs, due),
           \A h \in Chats : hs[h].pending # {} => posted', posted' \in BOOLEAN,
           \A h \in Chats : hs[h].asked # {} /\ ~hs[h].postponedRequestEntry =>
               \E d \in dialogs' : h \in d.chats,
           dialogs' \subseteq [n : 1 .. MaxDialogs, chats : SUBSET Chats],
           inputs' \in 0 .. MaxInputs
    PROVE  Inv' /\ Settled
<1>1. \A h \in Chats : /\ Good(hist'[h]) /\ EntryStays(hist'[h], hs[h])
                       /\ hist'[h].willReadTill > 0 => hist'[h].timed /\ h \in Timed(hs) \ due
    BY SendReadsOne
<1>2. hist' \in [Chats -> HistState]
    <2>1. \A h \in Chats : hist'[h] \in HistState
        BY <1>1 DEF Good, GoodBut
    <2>2. hist' = [h \in Chats |-> hist'[h]]
        BY DEF SendReadRequests
    <2> QED BY <2>1, <2>2
<1>3. \A h \in Chats : EntryStep(hist'[h], hist[h])
    BY <1>1, EntryStaysStep
<1>4. \A h \in Chats : hist'[h].pending # {} => posted'
    BY <1>1 DEF EntryStays
<1>5. \A h \in Chats : hist'[h].asked # {} /\ ~hist'[h].postponedRequestEntry =>
         \E d \in dialogs' : h \in d.chats
    BY <1>1 DEF EntryStays
<1>6. timer' \in BOOLEAN /\ (Timed(hs) \ due # {} => timer')
    BY DEF TimerLeft
<1>7. \A h \in Chats : hist'[h].willReadTill > 0 => hist'[h].timed /\ timer'
    BY <1>1, <1>6
<1> QED BY <1>1, <1>2, <1>3, <1>4, <1>5, <1>6, <1>7, Assemble

LEMMA MaybeSendInv ==
    ASSUME Inv, NEW hs \in [Chats -> HistState],
           \A h \in Chats : Good(hs[h]) /\ EntryStep(hs[h], hist[h]),
           NEW due, \A h \in Chats : h \in due => hs[h].willReadTill > 0,
           MaybeSendReads(hs, due),
           \A h \in Chats : hs[h].pending # {} => posted', posted' \in BOOLEAN,
           \A h \in Chats : hs[h].asked # {} /\ ~hs[h].postponedRequestEntry =>
               \E d \in dialogs' : h \in d.chats,
           dialogs' \subseteq [n : 1 .. MaxDialogs, chats : SUBSET Chats],
           inputs' \in 0 .. MaxInputs
    PROVE  Inv' /\ Settled
<1>1. CASE Untimed(hs) \cup NewReads(hs) # {}
    <2>1. hist' = SendReadRequests(hs, due) /\ timer' = TimerLeft(hs, due)
        BY <1>1 DEF MaybeSendReads
    <2> QED BY <2>1, SendReadsInv
<1>2. CASE Untimed(hs) \cup NewReads(hs) = {}
    <2>1. hist' = hs /\ timer' = (timer \/ Timed(hs) \ Timed(hist) # {})
        BY <1>2 DEF MaybeSendReads
    <2>2. timer' \in BOOLEAN
        BY <2>1
    <2>3. ASSUME NEW h \in Chats, hist'[h].willReadTill > 0 PROVE hist'[h].timed /\ timer'
        <3>1. h \in Timed(hs)
            BY <1>2, <2>1, <2>3 DEF Timed, Untimed
        <3>2. h \in Timed(hist) => timer
            BY InvOfChat DEF Timed
        <3>3. hist'[h].timed
            BY <2>1, <3>1 DEF Timed
        <3> QED BY <2>1, <3>1, <3>2, <3>3
    <2> QED BY <2>1, <2>2, <2>3, Assemble
<1> QED BY <1>1, <1>2

\* The entries of the chats that stay as they are still come.
LEMMA ComingStays ==
    ASSUME Inv, NEW hs, NEW h \in Chats, EntryStep(hs[h], hist[h]), dialogs' = dialogs,
           hs[h].asked # {} /\ ~hs[h].postponedRequestEntry
    PROVE  \E d \in dialogs' : h \in d.chats
BY InvOfChat DEF EntryStep, Coming

\* One chat takes a mark or an entry from a list, then marks are sent.
LEMMA OneChatReads ==
    ASSUME Inv, NEW h \in Chats, NEW v, Good(v), EntryStep(v, hist[h]),
           v.pending # {} => hist[h].pending # {},
           NEW due \in SUBSET Timed(hist), h \notin due,
           MaybeSendReads([hist EXCEPT ![h] = v], due),
           UNCHANGED <<posted, dialogs>>, inputs' \in 0 .. MaxInputs
    PROVE  Inv' /\ Settled
<1>1. PICK hs : hs = [hist EXCEPT ![h] = v]
    OBVIOUS
<1>2. v \in HistState
    BY DEF Good, GoodBut
<1>3. hs \in [Chats -> HistState] /\ hs[h] = v /\ \A g \in Chats : g # h => hs[g] = hist[g]
    BY <1>1, <1>2, InvOfChat
<1>4. \A g \in Chats : Good(hs[g]) /\ EntryStep(hs[g], hist[g])
    BY <1>3, InvOfChat, NoStep
<1>5. \A g \in Chats : g \in due => hs[g].willReadTill > 0
    BY <1>3 DEF Timed
<1>6. \A g \in Chats : hs[g].pending # {} => posted'
    BY <1>3, InvOfChat DEF Coming
<1>7. \A g \in Chats : hs[g].asked # {} /\ ~hs[g].postponedRequestEntry =>
         \E d \in dialogs' : g \in d.chats
    BY <1>4, ComingStays
<1>8. posted' \in BOOLEAN /\ dialogs' \subseteq [n : 1 .. MaxDialogs, chats : SUBSET Chats]
    BY InvOfChat
<1>9. MaybeSendReads(hs, due)
    BY <1>1
<1> QED BY <1>3, <1>4, <1>5, <1>6, <1>7, <1>8, <1>9, MaybeSendInv

LEMMA ReadInv ==
    ASSUME Inv, NEW h \in Chats, NEW till \in 1 .. MaxMsgId, NEW force \in BOOLEAN, NEW border \in 0 .. MaxMsgId,
           Read(h, till, force, border)
    PROVE  Inv' /\ Settled
<1>1. PICK still \in StillUnread(hist[h]), due \in SUBSET Timed(hist) :
         MaybeSendReads([hist EXCEPT ![h] = ReadInboxTill(@, till, force, still, border)], due \ {h})
    BY DEF Read
<1>2. PICK v : v = ReadInboxTill(hist[h], till, force, still, border)
    OBVIOUS
<1>3. till \in 0 .. MaxMsgId
    BY HistoriesAssumption
<1>4. Good(v) /\ ReadAs(v, hist[h])
    BY <1>2, <1>3, InvOfChat, ReadInboxTillGood
<1>5. EntryStep(v, hist[h]) /\ (v.pending # {} => hist[h].pending # {})
    BY <1>4 DEF ReadAs, SameEntry, EntryStep
<1>6. MaybeSendReads([hist EXCEPT ![h] = v], due \ {h})
    BY <1>1, <1>2
<1>7. inputs' \in 0 .. MaxInputs /\ UNCHANGED <<posted, dialogs>>
    BY InputCounts DEF Read
<1>8. due \ {h} \in SUBSET Timed(hist) /\ h \notin due \ {h}
    OBVIOUS
<1> QED BY <1>4, <1>5, <1>6, <1>7, <1>8, OneChatReads

LEMMA LeaveChatInv == ASSUME Inv, NEW h \in Chats, LeaveChat(h) PROVE Inv' /\ Settled
<1>1. PICK due \in SUBSET (Timed(hist) \ {h}) :
         MaybeSendReads([hist EXCEPT ![h] = SendPendingReadInbox(@)], due)
    BY DEF LeaveChat
<1>2. PICK v : v = SendPendingReadInbox(hist[h])
    OBVIOUS
<1>3. /\ v \in HistState /\ SameSent(v, hist[h]) /\ SameEntry(v, hist[h]) /\ v.kept = hist[h].kept
      /\ v.willReadTill = hist[h].willReadTill /\ v.sentReadTill = hist[h].sentReadTill
      /\ v.readBefore = hist[h].readBefore
    <2>1. v = [hist[h] EXCEPT !.timed = FALSE] /\ hist[h] \in HistState
        BY <1>2, InvOfChat DEF SendPendingReadInbox
    <2> QED BY <2>1 DEF HistState, SameSent, SameEntry
<1>4. v.readBefore >= hist[h].readBefore
    <2>1. v.readBefore \in 0 .. MaxMsgId + 1
        BY <1>3 DEF HistState
    <2> QED BY <1>3, <2>1
<1>5. Good(v)
    BY <1>3, <1>4, InvOfChat, ReadGood
<1>6. EntryStep(v, hist[h]) /\ (v.pending # {} => hist[h].pending # {})
    BY <1>3 DEF SameEntry, EntryStep
<1>7. MaybeSendReads([hist EXCEPT ![h] = v], due)
    BY <1>1, <1>2
<1>8. due \in SUBSET Timed(hist) /\ h \notin due
    OBVIOUS
<1>9. inputs' \in 0 .. MaxInputs /\ UNCHANGED <<posted, dialogs>>
    BY InvOfChat DEF LeaveChat
<1> QED BY <1>5, <1>6, <1>7, <1>8, <1>9, OneChatReads

\* An entry that was taken settles what was asked for.
LEMMA AppliedStep ==
    ASSUME NEW w, Good(w), NEW v, Good(v), AppliedAs(v, w)
    PROVE  EntryStep(v, w) /\ v.pending \subseteq w.pending /\ (v.asked # {} => v.postponedRequestEntry)
<1>1. Entered(w)
    BY DEF Good, GoodBut
<1> QED BY <1>1 DEF AppliedAs, EntryStep, Entered

LEMMA DialogReceivedInv ==
    ASSUME Inv, NEW h \in Chats, NEW read \in 0 .. MaxMsgId, NEW c \in Choices, DialogReceived(h, read, c)
    PROVE  Inv' /\ Settled
<1>1. PICK v : v = ApplyDialog(hist[h], read, c)
    OBVIOUS
<1>2. Good(v) /\ AppliedAs(v, hist[h])
    BY <1>1, InvOfChat, ApplyDialogGood
<1>3. EntryStep(v, hist[h]) /\ v.pending \subseteq hist[h].pending
    BY <1>2, InvOfChat, AppliedStep
<1>4. PICK due \in SUBSET (Timed(hist) \ {h}) : MaybeSendReads([hist EXCEPT ![h] = v], due)
    BY <1>1 DEF DialogReceived
<1>5. inputs' \in 0 .. MaxInputs /\ UNCHANGED <<posted, dialogs>>
    BY InputCounts DEF DialogReceived
<1>6. due \in SUBSET Timed(hist) /\ h \notin due /\ (v.pending # {} => hist[h].pending # {})
    BY <1>3
<1> QED BY <1>2, <1>3, <1>4, <1>5, <1>6, OneChatReads

LEMMA TimerInv == ASSUME Inv, ReadRequestsTimer PROVE Inv' /\ Settled
<1>1. PICK due \in SUBSET Timed(hist) :
         hist' = SendReadRequests(hist, due) /\ timer' = TimerLeft(hist, due)
    BY DEF ReadRequestsTimer
<1>2. UNCHANGED <<posted, dialogs, inputs>>
    BY DEF ReadRequestsTimer
<1>3. /\ hist \in [Chats -> HistState] /\ posted' \in BOOLEAN
      /\ dialogs' \subseteq [n : 1 .. MaxDialogs, chats : SUBSET Chats] /\ inputs' \in 0 .. MaxInputs
    BY <1>2 DEF Inv, TypeOK
<1>4. \A h \in Chats : Good(hist[h]) /\ EntryStep(hist[h], hist[h])
    BY InvOfChat, NoStep
<1>5. \A h \in Chats : h \in due => hist[h].willReadTill > 0
    BY DEF Timed
<1>6. \A h \in Chats : hist[h].pending # {} => posted'
    BY <1>2, InvOfChat DEF Coming
<1>7. \A h \in Chats : hist[h].asked # {} /\ ~hist[h].postponedRequestEntry =>
         \E d \in dialogs' : h \in d.chats
    BY <1>2, InvOfChat DEF Coming
<1> QED BY <1>1, <1>3, <1>4, <1>5, <1>6, <1>7, SendReadsInv

\* The answer to messages.getPeerDialogs settles its chats or leaves them to
\* be asked for again; the other chats are in other requests.
LEMMA DialogsAnsweredInv == ASSUME Inv, NEW d \in dialogs, DialogsAnswered(d) PROVE Inv' /\ Settled
<1>0. dialogs' = dialogs \ {d} /\ UNCHANGED <<posted, inputs>>
    BY DEF DialogsAnswered
<1>1. PICK present \in SUBSET d.chats, read \in 0 .. MaxMsgId :
         \E c \in ChoicesFor(d.chats, read) : \E hs \in {AfterDialogs(d, present, read, c)} :
         \E due \in SUBSET (Timed(hist) \cap Timed(hs)) : MaybeSendReads(hs, due)
    <2>1. \A present \in SUBSET d.chats : (IF present = {} THEN {0} ELSE 0 .. MaxMsgId) \subseteq 0 .. MaxMsgId
        BY HistoriesAssumption
    <2> QED BY <2>1 DEF DialogsAnswered
<1>2. PICK c \in ChoicesFor(d.chats, read) :
         \E hs \in {AfterDialogs(d, present, read, c)} :
         \E due \in SUBSET (Timed(hist) \cap Timed(hs)) : MaybeSendReads(hs, due)
    BY <1>1
<1>3. PICK hs \in {AfterDialogs(d, present, read, c)} :
         \E due \in SUBSET (Timed(hist) \cap Timed(hs)) : MaybeSendReads(hs, due)
    BY <1>2
<1>11. PICK due \in SUBSET (Timed(hist) \cap Timed(hs)) : MaybeSendReads(hs, due)
    BY <1>3
<1>12. hs = [h \in Chats |->
              IF h \in d.chats
              THEN DialogEntryApplied(IF h \in present THEN ApplyDialog(hist[h], read, c) ELSE hist[h], c)
              ELSE hist[h]]
    BY <1>3 DEF AfterDialogs
<1>4. c \in Choices
    BY ChoicesForChoices
<1>5. ASSUME NEW h \in Chats
      PROVE  /\ Good(hs[h]) /\ EntryStep(hs[h], hist[h]) /\ hs[h].pending \subseteq hist[h].pending
             /\ h \in d.chats => (hs[h].asked # {} => hs[h].postponedRequestEntry)
             /\ h \notin d.chats => hs[h] = hist[h]
    <2>1. CASE h \in d.chats
        <3>1. PICK a : a = IF h \in present THEN ApplyDialog(hist[h], read, c) ELSE hist[h]
            OBVIOUS
        <3>2. hs[h] = DialogEntryApplied(a, c)
            BY <1>12, <2>1, <3>1
        <3>3. CASE h \in present
            <4>1. a = ApplyDialog(hist[h], read, c)
                BY <3>1, <3>3
            <4>2. Good(a) /\ AppliedAs(a, hist[h])
                BY <1>4, <4>1, InvOfChat, ApplyDialogGood
            <4>3. Good(hs[h]) /\ AppliedAs(hs[h], a)
                BY <1>4, <3>2, <4>2, EntryAppliedGood
            <4>4. /\ EntryStep(a, hist[h]) /\ a.pending \subseteq hist[h].pending
                  /\ EntryStep(hs[h], a) /\ hs[h].pending \subseteq a.pending
                  /\ hs[h].asked # {} => hs[h].postponedRequestEntry
                BY <4>2, <4>3, InvOfChat, AppliedStep
            <4>5. EntryStep(hs[h], hist[h])
                <5>1. CASE hist[h].postponedRequestEntry
                    BY <4>2, <4>3, <5>1 DEF AppliedAs, EntryStep
                <5>2. CASE ~hist[h].postponedRequestEntry
                    <6>1. ~(hist[h].asked # {} /\ PostponeEntryRequest(hist[h]))
                        BY <5>2, InvOfChat DEF Good, GoodBut, Entered
                    <6> QED BY <4>4, <6>1 DEF EntryStep
                <5> QED BY <5>1, <5>2
            <4> QED BY <2>1, <4>2, <4>3, <4>4, <4>5 DEF AppliedAs
        <3>4. CASE h \notin present
            <4>1. a = hist[h]
                BY <3>1, <3>4
            <4>2. Good(hs[h]) /\ AppliedAs(hs[h], hist[h])
                BY <1>4, <3>2, <4>1, InvOfChat, EntryAppliedGood
            <4>3. /\ EntryStep(hs[h], hist[h]) /\ hs[h].pending \subseteq hist[h].pending
                  /\ hs[h].asked # {} => hs[h].postponedRequestEntry
                BY <4>2, InvOfChat, AppliedStep
            <4> QED BY <2>1, <4>2, <4>3 DEF AppliedAs
        <3> QED BY <3>3, <3>4
    <2>2. CASE h \notin d.chats
        <3>1. hs[h] = hist[h]
            BY <1>12, <2>2
        <3> QED BY <2>2, <3>1, InvOfChat, NoStep
    <2> QED BY <2>1, <2>2
<1>6. hs \in [Chats -> HistState]
    <2>1. \A h \in Chats : hs[h] \in HistState
        BY <1>5 DEF Good, GoodBut
    <2>2. hs = [h \in Chats |-> hs[h]]
        BY <1>12
    <2> QED BY <2>1, <2>2
<1>7. \A h \in Chats : h \in due => hs[h].willReadTill > 0
    BY DEF Timed
<1>8. \A h \in Chats : hs[h].pending # {} => posted'
    BY <1>0, <1>5, InvOfChat DEF Coming
<1>9. ASSUME NEW h \in Chats, hs[h].asked # {} /\ ~hs[h].postponedRequestEntry
      PROVE  \E e \in dialogs' : h \in e.chats
    <2>1. h \notin d.chats /\ hs[h] = hist[h]
        BY <1>5, <1>9
    <2>2. PICK e \in dialogs : h \in e.chats
        BY <1>9, <2>1, InvOfChat DEF Coming
    <2> QED BY <1>0, <2>1, <2>2
<1>10. /\ posted' \in BOOLEAN /\ dialogs' \subseteq [n : 1 .. MaxDialogs, chats : SUBSET Chats]
       /\ inputs' \in 0 .. MaxInputs
    BY <1>0 DEF Inv, TypeOK
<1> QED BY <1>5, <1>6, <1>7, <1>8, <1>9, <1>10, <1>11, MaybeSendInv

\* sendDialogRequests: what was pending is asked for, or is to be asked for
\* again.
LEMMA SendDialogsInv == ASSUME Inv, SendDialogRequests PROVE Inv' /\ Settled
<1> DEFINE ready == {h \in Chats : hist[h].pending # {} /\ ~PostponeEntryRequest(hist[h])}
<1>1. /\ posted' = FALSE /\ UNCHANGED <<timer, inputs>>
      /\ hist' = [h \in Chats |->
              IF hist[h].pending = {} THEN hist[h]
              ELSE [hist[h] EXCEPT
                      !.postponedRequestEntry = @ \/ h \notin ready,
                      !.asked = IF @ = {} THEN hist[h].pending ELSE @,
                      !.pending = {}]]
    BY DEF SendDialogRequests
<1>2. /\ dialogs \subseteq dialogs'
      /\ dialogs' \subseteq [n : 1 .. MaxDialogs, chats : SUBSET Chats]
      /\ (\E h \in Chats : hist[h].pending # {}) => \E d \in dialogs' : d.chats = ready
    <2>0. dialogs \subseteq [n : 1 .. MaxDialogs, chats : SUBSET Chats]
        BY DEF Inv, TypeOK
    <2>1. CASE \A h \in Chats : hist[h].pending = {}
        BY <2>0, <2>1 DEF SendDialogRequests
    <2>2. CASE ~\A h \in Chats : hist[h].pending = {}
        <3>1. PICK n \in 1 .. MaxDialogs : dialogs' = dialogs \cup {[n |-> n, chats |-> ready]}
            BY <2>2 DEF SendDialogRequests
        <3>2. ready \in SUBSET Chats
            OBVIOUS
        <3> HIDE DEF ready
        <3>3. PICK e : e = [n |-> n, chats |-> ready]
            OBVIOUS
        <3>4. e \in [n : 1 .. MaxDialogs, chats : SUBSET Chats] /\ e.chats = ready
            BY <3>2, <3>3
        <3>5. dialogs' = dialogs \cup {e}
            BY <3>1, <3>3
        <3> QED BY <2>0, <3>4, <3>5
    <2> QED BY <2>1, <2>2
<1>3. ASSUME NEW h \in Chats, hist[h].pending # {}
      PROVE  /\ EntryStep(hist'[h], hist[h]) \/ h \in ready
             /\ Good(hist'[h])
             /\ hist[h].asked = {} /\ hist'[h].asked # {}
             /\ hist'[h].pending = {} /\ MarkStep(hist'[h], hist[h])
             /\ ~hist'[h].postponedRequestEntry => h \in ready
    <2>1. PICK w : w = hist[h]
        OBVIOUS
    <2>2. Good(w) /\ w \in HistState /\ Entered(w) /\ w.pending # {}
        BY <1>3, <2>1, InvOfChat DEF Good, GoodBut
    <2>3. w.asked = {} /\ ~w.postponedRequestEntry
        BY <2>2 DEF Entered
    <2>4. PICK b \in BOOLEAN : b <=> PostponeEntryRequest(w)
        <3>1. CASE PostponeEntryRequest(w)
            BY <3>1
        <3>2. CASE ~PostponeEntryRequest(w)
            BY <3>2
        <3> QED BY <3>1, <3>2
    <2>5. (w.postponedRequestEntry \/ h \notin ready) <=> b
        BY <1>3, <2>1, <2>3, <2>4
    <2>6. PICK v : v = hist'[h]
        OBVIOUS
    <2>7. v = [w EXCEPT !.postponedRequestEntry = @ \/ h \notin ready,
                        !.asked = IF @ = {} THEN w.pending ELSE @, !.pending = {}]
        BY <1>1, <1>3, <2>1, <2>6
    <2>8. v = [w EXCEPT !.postponedRequestEntry = b, !.asked = w.pending, !.pending = {}]
        <3>1. (w.postponedRequestEntry \/ h \notin ready) = b
            BY <2>4, <2>5
        <3> HIDE DEF ready
        <3> QED BY <2>3, <2>7, <3>1
    <2>9. /\ v \in HistState /\ SameSent(v, w) /\ SameMarks(v, w) /\ v.kept = w.kept
          /\ v.postponedRequestEntry = b /\ v.asked = w.pending /\ v.pending = {}
        BY <2>2, <2>4, <2>8 DEF HistState, SameSent, SameMarks
    <2>10. PostponeEntryRequest(v) <=> PostponeEntryRequest(w)
        BY <2>9 DEF PostponeEntryRequest, SameSent
    <2>11. Entered(v)
        BY <2>2, <2>4, <2>9, <2>10 DEF Entered
    <2>12. Kept(v)
        <3>1. Empty(v) <=> Empty(w)
            <4>1. b => w.sent # {}
                BY <2>4 DEF PostponeEntryRequest
            <4> QED BY <2>3, <2>9, <4>1 DEF Empty, SameSent, SameMarks
        <3> QED BY <2>2, <2>9, <3>1 DEF Kept, Good, GoodBut
    <2>13. Requested(v, {})
        <3>1. Requested(w, {})
            BY <2>2 DEF Good, GoodBut
        <3>2. SlicesApart(v) /\ (PostponeHistoryRequest(v) <=> PostponeHistoryRequest(w))
            BY <2>9, <3>1 DEF Requested, SlicesApart, PostponeHistoryRequest, SameSent
        <3> QED BY <2>9, <3>1, <3>2 DEF Requested, SameSent
    <2>14. Marked(v)
        <3>1. Marked(w)
            BY <2>2 DEF Good, GoodBut
        <3> QED BY <2>9, <3>1, CoveredSame DEF Marked, SameMarks, SameSent
    <2>15. Good(v)
        BY <2>9, <2>11, <2>12, <2>13, <2>14 DEF Good, GoodBut
    <2>16. MarkStep(v, w)
        BY <2>9 DEF MarkStep, SameMarks
    <2>17. ~v.postponedRequestEntry => h \in ready
        BY <1>3, <2>1, <2>4, <2>9
    <2>18. EntryStep(v, w) \/ h \in ready
        BY <2>2, <2>9, <2>17 DEF EntryStep
    <2> HIDE DEF ready
    <2> QED BY <2>1, <2>2, <2>3, <2>6, <2>9, <2>15, <2>16, <2>17, <2>18
<1>4. \A h \in Chats : hist[h].pending = {} => hist'[h] = hist[h]
    BY <1>1
<1>5. hist' \in [Chats -> HistState]
    <2>1. \A h \in Chats : hist'[h] \in HistState
        BY <1>3, <1>4, InvOfChat DEF Good, GoodBut
    <2>2. hist' = [h \in Chats |-> hist'[h]]
        BY <1>1
    <2> QED BY <2>1, <2>2
<1>6. Inv'
    <2>1. TypeOK'
        BY <1>1, <1>2, <1>5 DEF Inv, TypeOK
    <2>2. MarkIsTimed'
        <3> SUFFICES ASSUME NEW h \in Chats, hist'[h].willReadTill > 0 PROVE hist'[h].timed /\ timer'
            BY DEF MarkIsTimed
        <3>1. MarkStep(hist'[h], hist[h])
            BY <1>3, <1>4, NoStep
        <3> QED BY <1>1, <3>1, InvOfChat DEF MarkStep
    <2>3. ASSUME NEW h \in Chats PROVE Coming(h)'
        <3>1. hist'[h].pending = {}
            BY <1>3, <1>4
        <3>2. ASSUME hist'[h].asked # {} /\ ~hist'[h].postponedRequestEntry
              PROVE  \E d \in dialogs' : h \in d.chats
            <4>1. CASE hist[h].pending # {}
                <5>1. h \in ready
                    BY <1>3, <3>2, <4>1
                <5> HIDE DEF ready
                <5> QED BY <1>2, <4>1, <5>1
            <4>2. CASE hist[h].pending = {}
                <5>1. \E d \in dialogs : h \in d.chats
                    BY <1>4, <3>2, <4>2, InvOfChat DEF Coming
                <5> QED BY <1>2, <5>1
            <4> QED BY <4>1, <4>2
        <3> QED BY <3>1, <3>2 DEF Coming
    <2>4. \A h \in Chats : Good(hist'[h])
        BY <1>3, <1>4, InvOfChat
    <2>5. \A h \in Chats : Good(hist[h])'
        BY <2>4 DEF Good, GoodBut, Kept, Empty, Requested, SlicesApart, Marked, Covered, Entered,
                    PostponeHistoryRequest, PostponeEntryRequest
    <2> QED BY <2>1, <2>2, <2>3, <2>5 DEF Inv
<1>7. Settled
    BY <1>3, <1>4 DEF Settled
<1> QED BY <1>6, <1>7

\* An answer to a mark: its chat goes through the handlers, further marks are
\* sent, the request is finished.
LEMMA ReadAnsweredInv ==
    ASSUME Inv, NEW h \in Chats, NEW r, ReadAnswered(h, r)
    PROVE  Inv' /\ Settled
<1>0. r \in hist[h].wire /\ r.type = "ReadInbox" /\ UNCHANGED <<dialogs, inputs>>
    BY DEF ReadAnswered
<1>1. PICK u : u = ReadFinished(Delivered(hist[h], r), r.till)
    OBVIOUS
<1>2. PICK hs : hs = [hist EXCEPT ![h] = u]
    OBVIOUS
<1>3. PICK due \in SUBSET Timed(hist) :
         LET w == CheckPostponed(SendReadRequests(hs, due)[h], r)
         IN  /\ hist' = [SendReadRequests(hs, due) EXCEPT ![h] = w]
             /\ timer' = TimerLeft(hs, due)
             /\ PostOnce(h, w)
    BY <1>1, <1>2 DEF ReadAnswered
<1>4. PICK s : s = SendReadRequests(hs, due)[h]
    OBVIOUS
<1>5. PICK v : v = CheckPostponed(s, r)
    OBVIOUS
<1>6. hist' = [SendReadRequests(hs, due) EXCEPT ![h] = v] /\ timer' = TimerLeft(hs, due) /\ PostOnce(h, v)
    BY <1>3, <1>4, <1>5
<1>7. PICK g0 : g0 = Delivered(hist[h], r)
    OBVIOUS
<1>8. GoodBut(g0, {r}) /\ g0.kept = TRUE /\ SameEntry(g0, hist[h]) /\ SameMarks(g0, hist[h]) /\ g0.sent = hist[h].sent
    BY <1>0, <1>7, InvOfChat, DeliveredGood
<1>9. r.till \in 0 .. MaxMsgId
    <2>1. hist[h].wire \subseteq Requests
        BY InvOfChat DEF HistState
    <2> QED BY <1>0, <2>1 DEF Requests
<1>10. u = ReadFinished(g0, r.till)
    BY <1>1, <1>7
<1>11. /\ GoodBut(u, {r}) /\ u.kept = TRUE /\ u.willReadTill = g0.willReadTill /\ u.timed = g0.timed
       /\ u.asked # {} <=> g0.asked # {}
       /\ u.postponedRequestEntry = g0.postponedRequestEntry
       /\ PostponeEntryRequest(u) <=> PostponeEntryRequest(g0)
    <2>1. GoodBut(g0, {r})
        BY <1>8
    <2>2. g0.kept = TRUE
        BY <1>8
    <2>3. GoodBut(u, {r}) /\ ReadFinishedAs(u, g0)
        BY <1>9, <1>10, <2>1, <2>2, ReadFinishedGood
    <2> QED BY <2>3 DEF ReadFinishedAs
<1>12. u \in HistState /\ hs \in [Chats -> HistState] /\ hs[h] = u /\ \A g \in Chats : g # h => hs[g] = hist[g]
    <2>1. u \in HistState
        BY <1>11 DEF GoodBut
    <2> QED BY <1>2, <2>1, InvOfChat
<1>13. /\ GoodBut(s, {r}) /\ s.kept = TRUE /\ EntryStays(s, u)
       /\ s.willReadTill > 0 => s.timed /\ h \in Timed(hs) \ due
    <2>1. CASE h \in Untimed(hs) \cup due
        <3>1. s = SendReadRequest(u)
            BY <1>4, <1>12, <2>1 DEF SendReadRequests
        <3>2. u.willReadTill > 0
            BY <1>8, <1>11, <1>12, <2>1 DEF Untimed, Timed, SameMarks
        <3>3. \A q \in {r} : q.type \notin SliceTypes
            BY <1>0 DEF SliceTypes
        <3>4. PICK X : X = {r}
            OBVIOUS
        <3>5. GoodBut(u, X) /\ \A q \in X : q.type \notin SliceTypes
            BY <1>11, <3>3, <3>4
        <3>6. GoodBut(s, X) /\ s.kept = TRUE /\ s.willReadTill = 0 /\ EntryStays(s, u)
            BY <3>1, <3>2, <3>5, SendReadGood
        <3> QED BY <3>4, <3>6
    <2>2. CASE h \notin Untimed(hs) \cup due
        <3>1. s = u
            BY <1>4, <1>12, <2>2 DEF SendReadRequests
        <3>2. u.willReadTill > 0 => u.timed /\ h \in Timed(hs) \ due
            BY <1>12, <2>2 DEF Untimed, Timed
        <3> QED BY <1>11, <3>1, <3>2 DEF EntryStays
    <2> QED BY <2>1, <2>2
<1>14. v = FinishSentRequest(s, r)
    BY <1>5, <1>13 DEF CheckPostponed
<1>15. Good(v) /\ FinishedAs(v, s)
    BY <1>13, <1>14, FinishGood
<1>16. Entered(s)
    BY <1>13 DEF GoodBut
<1>17. EntryStep(v, hist[h])
    <2>1. EntryStep(v, s)
        BY <1>15, <1>16, FinishedStep
    <2>2. s.asked # {} <=> hist[h].asked # {}
        BY <1>8, <1>11, <1>13 DEF EntryStays, SameEntry
    <2>3. hist[h].postponedRequestEntry => s.postponedRequestEntry
        BY <1>8, <1>11, <1>13 DEF EntryStays, SameEntry
    <2>4. s.asked # {} => v.asked # {} \/ v.pending # {}
        BY <1>15 DEF FinishedAs
    <2> QED BY <2>1, <2>2, <2>3, <2>4 DEF EntryStep
<1>18. hist'[h] = v /\ \A g \in Chats : g # h => hist'[g] = SendReadRequests(hs, due)[g]
    BY <1>6 DEF SendReadRequests
<1>19. ASSUME NEW g \in Chats, g # h
       PROVE  /\ Good(hist'[g]) /\ EntryStays(hist'[g], hist[g])
              /\ hist'[g].willReadTill > 0 => hist'[g].timed /\ g \in Timed(hs) \ due
    <2>1. hs[g] = hist[g] /\ Good(hs[g]) /\ (g \in due => hs[g].willReadTill > 0)
        BY <1>12, <1>19, InvOfChat DEF Timed
    <2>2. hist'[g] = SendReadRequests(hs, due)[g]
        BY <1>18, <1>19
    <2> QED BY <1>12, <2>1, <2>2, SendReadsOne
<1>20. hist' \in [Chats -> HistState]
    <2>1. \A g \in Chats : hist'[g] \in HistState
        BY <1>15, <1>18, <1>19 DEF Good, GoodBut
    <2>2. hist' = [g \in Chats |-> hist'[g]]
        BY <1>6 DEF SendReadRequests
    <2> QED BY <2>1, <2>2
<1>21. \A g \in Chats : Good(hist'[g]) /\ EntryStep(hist'[g], hist[g])
    BY <1>15, <1>17, <1>18, <1>19, NoStep, EntryStaysStep
<1>22. posted' \in BOOLEAN /\ \A g \in Chats : hist'[g].pending # {} => posted'
    <2>1. \A g \in Chats : hist[g].pending # {} => posted
        BY InvOfChat DEF Coming
    <2>2. posted' \in BOOLEAN /\ (posted => posted')
        BY <1>6 DEF PostOnce
    <2>3. v.pending # {} => posted'
        BY <1>6, <2>1 DEF PostOnce
    <2>4. \A g \in Chats : g # h => hist'[g].pending = hist[g].pending
        BY <1>19 DEF EntryStays
    <2> QED BY <1>18, <2>1, <2>2, <2>3, <2>4
<1>23. \A g \in Chats : hist'[g].asked # {} /\ ~hist'[g].postponedRequestEntry =>
         \E d \in dialogs' : g \in d.chats
    BY <1>0, <1>21, ComingStays
<1>24. timer' \in BOOLEAN /\ (Timed(hs) \ due # {} => timer')
    BY <1>6 DEF TimerLeft
<1>25. \A g \in Chats : hist'[g].willReadTill > 0 => hist'[g].timed /\ timer'
    <2>1. v.willReadTill > 0 => s.willReadTill > 0 /\ (s.timed => v.timed)
        BY <1>15 DEF FinishedAs
    <2> QED BY <1>13, <1>18, <1>19, <1>24, <2>1
<1>26. dialogs' \subseteq [n : 1 .. MaxDialogs, chats : SUBSET Chats] /\ inputs' \in 0 .. MaxInputs
    BY <1>0 DEF Inv, TypeOK
<1> QED BY <1>20, <1>21, <1>22, <1>23, <1>24, <1>25, <1>26, Assemble

-----------------------------------------------------------------------------
\* The specification.

LEMMA NoStateGood == Good(NoState)
<1>1. 0 \in 0 .. MaxMsgId /\ 0 \in 0 .. MaxMsgId + 1
    BY HistoriesAssumption
<1>2. NoState \in HistState
    BY <1>1 DEF NoState, HistState, Knowledge
<1>3. Kept(NoState)
    BY DEF Kept, Empty, NoState
<1>4. Requested(NoState, {})
    BY FS_EmptySet DEF Requested, SlicesApart, NoState
<1>5. Marked(NoState) /\ Entered(NoState)
    BY DEF Marked, Entered, NoState
<1> QED BY <1>2, <1>3, <1>4, <1>5 DEF Good, GoodBut

LEMMA InitInv == Init => Inv
<1> SUFFICES ASSUME Init PROVE Inv
    OBVIOUS
<1>1. NoState \in HistState
    BY NoStateGood DEF Good, GoodBut
<1>2. \A h \in Chats : hist[h] = NoState
    BY DEF Init
<1>3. TypeOK
    <2>1. hist \in [Chats -> HistState]
        BY <1>1 DEF Init
    <2>2. inputs \in 0 .. MaxInputs
        BY HistoriesAssumption DEF Init
    <2> QED BY <2>1, <2>2 DEF Init, TypeOK
<1>4. \A h \in Chats : hist[h].pending = {} /\ hist[h].asked = {} /\ hist[h].willReadTill = 0
    BY <1>2 DEF NoState
<1>5. \A h \in Chats : Good(hist[h]) /\ Coming(h)
    BY <1>2, <1>4, NoStateGood DEF Coming
<1>6. MarkIsTimed
    BY <1>4 DEF MarkIsTimed
<1> QED BY <1>3, <1>5, <1>6 DEF Inv

\* Every step keeps the invariant and settles the entries it takes.
LEMMA StepInv == Inv /\ [Next]_vars => Inv' /\ (Settled \/ UNCHANGED vars)
<1> SUFFICES ASSUME Inv, [Next]_vars PROVE Inv' /\ (Settled \/ UNCHANGED vars)
    OBVIOUS
<1>1. ASSUME NEW h \in Chats, UserStep(h) PROVE Inv' /\ Settled
    <2>1. ASSUME NEW type \in {"History", "Send", "Delete"}, Ask(h, type) PROVE Inv' /\ Settled
        BY <2>1, AskInv
    <2>2. ASSUME NEW r \in hist[h].sent \cup hist[h].postponed, CancelRequest(h, r)
          PROVE  Inv' /\ Settled
        BY <2>2, CancelRequestInv
    <2>3. ASSUME NEW till \in 1 .. MaxMsgId, NEW force \in BOOLEAN, NEW border \in 0 .. MaxMsgId,
                 Read(h, till, force, border)
          PROVE  Inv' /\ Settled
        BY <2>3, ReadInv
    <2>4. CASE LeaveChat(h)
        BY <2>4, LeaveChatInv
    <2>5. ASSUME NEW calls \in {{}, {"read"}, {"delete"}}, AskEntry(h, calls) PROVE Inv' /\ Settled
        BY <2>5, AskEntryInv
    <2>6. \A till \in 1 .. MaxMsgId : {0} \cup till .. MaxMsgId \subseteq 0 .. MaxMsgId
        BY HistoriesAssumption
    <2> QED BY <1>1, <2>1, <2>2, <2>3, <2>4, <2>5, <2>6 DEF UserStep
<1>2. ASSUME NEW h \in Chats, ServerStep(h) PROVE Inv' /\ Settled
    <2>1. ASSUME NEW upTo \in 1 .. MaxMsgId, NEW border \in upTo .. MaxMsgId, InboxRead(h, upTo, border)
          PROVE  Inv' /\ Settled
        <3>1. border \in 0 .. MaxMsgId
            BY HistoriesAssumption
        <3> QED BY <2>1, <3>1, InboxReadInv
    <2>2. ASSUME NEW read \in 0 .. MaxMsgId, NEW c \in ChoicesFor({h}, read), DialogReceived(h, read, c)
          PROVE  Inv' /\ Settled
        <3>1. c \in Choices
            BY ChoicesForChoices
        <3> QED BY <2>2, <3>1, DialogReceivedInv
    <2> QED BY <1>2, <2>1, <2>2 DEF ServerStep
<1>3. ASSUME NEW h \in Chats, AnswerStep(h) PROVE Inv' /\ Settled
    BY <1>3, AnsweredInv, DeleteAnsweredInv, ReadAnsweredInv DEF AnswerStep
<1>4. CASE SendDialogRequests
    BY <1>4, SendDialogsInv
<1>5. CASE ReadRequestsTimer
    BY <1>5, TimerInv
<1>6. ASSUME NEW d \in dialogs, DialogsAnswered(d) PROVE Inv' /\ Settled
    BY <1>6, DialogsAnsweredInv
<1>7. CASE UNCHANGED vars
    BY <1>7 DEF vars, Inv, TypeOK, Good, GoodBut, Kept, Empty, Requested, SlicesApart, Marked,
                Covered, Entered, Coming, MarkIsTimed, PostponeHistoryRequest, PostponeEntryRequest
<1> QED BY <1>1, <1>2, <1>3, <1>4, <1>5, <1>6, <1>7 DEF Next

\* The invariant says what the model checker looks for.
LEMMA InvImplies ==
    Inv => /\ TypeOK /\ MarkIsTimed
           /\ MarksGrow /\ StateMatchesWire /\ SlicesAvoidDeletion
           /\ EntryIsInOneMap /\ EntryIsComing
<1> SUFFICES ASSUME Inv
             PROVE  /\ TypeOK /\ MarkIsTimed
                    /\ MarksGrow /\ StateMatchesWire /\ SlicesAvoidDeletion
                    /\ EntryIsInOneMap /\ EntryIsComing
    OBVIOUS
<1>1. TypeOK /\ MarkIsTimed
    BY DEF Inv
<1>2. ASSUME NEW h \in Chats
      PROVE  /\ Kept(hist[h]) /\ Requested(hist[h], {}) /\ Marked(hist[h]) /\ Entered(hist[h])
             /\ Coming(h) /\ hist[h] \in HistState
    BY InvOfChat DEF Good, GoodBut
<1>3. \A h \in Chats : hist[h].wire = hist[h].sent
    BY <1>2 DEF Requested
<1>4. MarksGrow
    <2>1. ASSUME NEW h \in Chats
          PROVE  hist[h].willReadTill > 0 => hist[h].willReadTill > hist[h].sentReadTill
        BY <1>2 DEF Marked
    <2>2. ASSUME NEW h \in Chats, NEW r \in hist[h].wire, r.type = "ReadInbox"
          PROVE  hist[h].sentReadTill = 0 \/ hist[h].sentReadTill >= r.till
        <3>1. r \in hist[h].sent
            BY <1>3
        <3> QED BY <1>2, <2>2, <3>1 DEF Marked, Covered
    <2> QED BY <2>1, <2>2 DEF MarksGrow
<1>5. StateMatchesWire
    BY <1>2, <1>3 DEF StateMatchesWire, Kept
<1>6. SlicesAvoidDeletion
    BY <1>2, <1>3 DEF SlicesAvoidDeletion, Requested, SlicesApart
<1>7. EntryIsInOneMap
    BY <1>2 DEF EntryIsInOneMap, Entered
<1>8. EntryIsComing
    <2>1. ASSUME NEW h \in Chats, hist[h].asked # {}
          PROVE  IF hist[h].postponedRequestEntry THEN PostponeEntryRequest(hist[h])
                 ELSE \E d \in dialogs : h \in d.chats
        BY <1>2, <2>1 DEF Entered, Coming
    <2>2. \A h \in Chats : hist[h].pending # {} => posted
        BY <1>2 DEF Coming
    <2> QED BY <2>1, <2>2 DEF EntryIsComing
<1> QED BY <1>1, <1>4, <1>5, <1>6, <1>7, <1>8

\* The strengthening holds in every state the program reaches.
THEOREM Invariant == Spec => []Inv
<1>1. Inv /\ [Next]_vars => Inv'
    BY StepInv
<1> QED BY <1>1, InitInv, PTL DEF Spec

\* The state of every chat keeps its shape, whatever comes in whatever order.
THEOREM TypeCorrect == Spec => []TypeOK
BY Invariant, InvImplies, PTL

\* Expects and Assert of sendReadRequest never fail: a mark goes beyond the one
\* sent before, and every answer to a mark finds none or a later one.
THEOREM MarksOnlyGrow == Spec => []MarksGrow
BY Invariant, InvImplies, PTL

\* An answer finds the state of its chat and its request there, and the state
\* of a chat with nothing under way is dropped.
THEOREM AnswersFindTheState == Spec => []StateMatchesWire
BY Invariant, InvImplies, PTL

\* A slice of a history and a deletion in it are never on their way together,
\* and no slice is put off without a deletion to wait for.
THEOREM SlicesWaitForDeletion == Spec => []SlicesAvoidDeletion
BY Invariant, InvImplies, PTL

\* Both asserts of finishSentRequest hold.
THEOREM EntriesHaveOneMap == Spec => []EntryIsInOneMap
BY Invariant, InvImplies, PTL

\* An entry that somebody waits for is always about to be asked for, asked for,
\* or waiting for a change that will make it be asked for again.
THEOREM EntriesAreOnTheirWay == Spec => []EntryIsComing
BY Invariant, InvImplies, PTL

\* A mark that was not sent has a time, and the timer that sends it runs.
THEOREM MarksHaveATimer == Spec => []MarkIsTimed
BY Invariant, InvImplies, PTL

\* No step takes an entry asked for as the state of a chat while a request
\* that changes the chat is on its way.
THEOREM EntriesAreSettled == Spec => EntryIsSettled
<1>1. Inv /\ [Next]_vars => [Settled]_vars
    BY StepInv
<1>2. Spec => [][Settled]_vars
    BY <1>1, Invariant, PTL DEF Spec
<1> QED BY <1>2 DEF EntryIsSettled, Settled
=============================================================================
