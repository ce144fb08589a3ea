----------------------------- MODULE Histories -----------------------------
(***************************************************************************)
(* Data::Histories: the order in which the requests about one chat go out. *)
(*                                                                         *)
(*   - A slice of a history is not loaded while messages of the chat are   *)
(*     being deleted: such requests are put off, those already sent are    *)
(*     cancelled and sent again afterwards.                                *)
(*   - The entry of a chat in the list of dialogs (its last message, its   *)
(*     unread count) is asked for in batches, from a call postponed to the *)
(*     end of the event, and is asked for again if something that changes  *)
(*     the chat was sent meanwhile.                                        *)
(*   - Marks "read till" are collected for a while before they are sent.   *)
(*                                                                         *)
(* hist[h] puts together what Histories and History keep for one chat:     *)
(*   kept                   there is an entry in _states, with             *)
(*   postponed, sent        its requests put off and on their way          *)
(*   willReadTill, timed    the mark to send, willReadWhen is not zero     *)
(*   sentReadTill, sentReadDone                                            *)
(*   postponedRequestEntry                                                 *)
(*   pending, asked         its callbacks in _dialogRequestsPending and in *)
(*                          _dialogRequests; "entry" stands for the key    *)
(*   readBefore             History::_inboxReadBefore, 0 when not set      *)
(*   known                  "folder" with folderKnown(), "count" also with *)
(*                          unreadCountKnown()                             *)
(*   wire                   the requests whose handlers can still be       *)
(*                          called: sent, not answered, not cancelled      *)
(* A request is its id, its type and, for ReadInbox, the mark.  "Fake" is  *)
(* the History request of requestFakeChatListMessage.  The id of a request *)
(* that is over is used again, nobody holds it any more.                   *)
(***************************************************************************)
EXTENDS Integers, FiniteSets

CONSTANTS
    Chats,          \* the histories
    MaxMsgId,       \* bound: the largest message id
    MaxInputs,      \* bound: how often the user and the server start something
    MaxDialogs,     \* bound: unanswered messages.getPeerDialogs requests
    Inputs          \* the kinds of inputs, see the actions below

ASSUME HistoriesAssumption ==
    /\ IsFiniteSet(Chats)
    /\ MaxMsgId \in Nat /\ MaxInputs \in Nat /\ MaxDialogs \in Nat \ {0}

VARIABLES
    hist,       \* chat -> see above
    posted,     \* a call of sendDialogRequests waits in the event queue
    timer,      \* _readRequestsTimer is active
    dialogs,    \* messages.getPeerDialogs on the way: sets of chats, numbered
    inputs      \* inputs left

vars == <<hist, posted, timer, dialogs, inputs>>

RequestTypes == {"History", "Fake", "ReadInbox", "Delete", "Send"}
SliceTypes == {"History", "Fake"}
Calls == {"entry", "read", "delete"}
Knowledge == {"nothing", "folder", "count"}
Requests == [id : Nat \ {0}, type : RequestTypes, till : 0 .. MaxMsgId]

NoState ==
    [kept |-> FALSE, postponed |-> {}, sent |-> {}, willReadTill |-> 0,
     timed |-> FALSE, sentReadTill |-> 0, sentReadDone |-> FALSE,
     postponedRequestEntry |-> FALSE, pending |-> {}, asked |-> {},
     readBefore |-> 0, known |-> "nothing", wire |-> {}]

Init ==
    /\ hist = [h \in Chats |-> NoState]
    /\ posted = FALSE
    /\ timer = FALSE
    /\ dialogs = {}
    /\ inputs = MaxInputs

----------------------------------------------------------------------------
\* Requests of one chat.

Empty(w) ==
    /\ w.postponed = {} /\ ~w.postponedRequestEntry /\ w.sent = {}
    /\ w.willReadTill = 0 /\ w.sentReadTill = 0

CheckEmptyState(w) ==
    IF Empty(w)
    THEN [w EXCEPT !.kept = FALSE, !.timed = FALSE, !.sentReadDone = FALSE]
    ELSE w

PostponeHistoryRequest(w) == \E r \in w.sent : r.type = "Delete"

PostponeEntryRequest(w) == \E r \in w.sent : r.type \notin SliceTypes

NewId(w) ==
    LET used == {r.id : r \in w.sent \cup w.postponed \cup w.wire}
    IN  CHOOSE i \in 1 .. Cardinality(used) + 1 : i \notin used

Generate(w, S) == [w EXCEPT !.sent = @ \cup S, !.wire = @ \cup S]

\* A mutant: the request is forgotten, its handlers are not.
LeavesHandlers(w, S) == [w EXCEPT !.sent = @ \ S]

Cancel(w, S) == [w EXCEPT !.sent = @ \ S, !.wire = @ \ S]

\* A mutant: the slices already on their way are not called back.
LeavesSlices(w) == w

\* The end of sendRequest: slices on their way would miss the deletion.
PutOffSlices(w) ==
    LET slices == {r \in w.sent : r.type \in SliceTypes}
    IN  IF PostponeHistoryRequest(w)
        THEN [Cancel(w, slices) EXCEPT !.postponed = @ \cup slices]
        ELSE w

\* A mutant: an entry asked for before the request is taken as it comes.
TrustsEntry(w) == w

\* The middle of sendRequest: an entry asked for would miss the request.
PutOffEntry(w) ==
    IF PostponeEntryRequest(w) /\ w.asked # {}
    THEN [w EXCEPT !.postponedRequestEntry = TRUE] ELSE w

SendRequest(w, type, till) ==
    LET r == [id |-> NewId(w), type |-> type, till |-> till]
        k == [w EXCEPT !.kept = TRUE]
    IN  IF type \in SliceTypes /\ PostponeHistoryRequest(w)
        THEN [k EXCEPT !.postponed = @ \cup {r}]
        ELSE PutOffSlices(PutOffEntry(Generate(k, {r})))

\* requestFakeChatListMessage, while none is under way.
RequestFakeChatListMessage(w) ==
    IF \E r \in w.sent \cup w.postponed : r.type = "Fake"
    THEN w ELSE SendRequest(w, "Fake", 0)

\* A mutant: an entry already asked for is put into the other map too.
AlwaysPends(w, calls) == [w EXCEPT !.pending = @ \cup calls \cup {"entry"}]

RequestDialogEntry(w, calls) ==
    IF w.asked # {} THEN [w EXCEPT !.asked = @ \cup calls]
    ELSE [w EXCEPT !.pending = @ \cup calls \cup {"entry"}]

\* A mutant: the slices put off are forgotten.
ForgetsPostponed(w) == w

\* finishSentRequest, second part: the slices put off go out.
ResendSlices(w) ==
    IF PostponeHistoryRequest(w) THEN w
    ELSE [Generate(w, w.postponed) EXCEPT !.postponed = {}]

\* A mutant: the entry is not asked for again.
ForgetsEntry(w) == w

\* finishSentRequest, third part: the entry is asked for again.
ResendEntry(w) ==
    IF w.postponedRequestEntry /\ ~PostponeEntryRequest(w)
    THEN [w EXCEPT !.pending = IF @ = {} THEN w.asked ELSE @, !.asked = {},
                   !.postponedRequestEntry = FALSE]
    ELSE w

FinishSentRequest(w, r) ==
    CheckEmptyState(ResendEntry(ResendSlices(Cancel(w, {r}))))

\* checkPostponed: what `finish' does for a request.
CheckPostponed(w, r) == IF w.kept THEN FinishSentRequest(w, r) ELSE w

\* The answer is there: the handlers are not called a second time.
Delivered(w, r) == [w EXCEPT !.wire = @ \ {r}]

----------------------------------------------------------------------------
\* Reading.

\* A mutant: the border is one too far.
SetsBorderBeyond(w, till) ==
    [w EXCEPT !.readBefore = IF till + 2 > @ THEN till + 2 ELSE @]

SetInboxReadTill(w, till) ==
    [w EXCEPT !.readBefore = IF till + 1 > @ THEN till + 1 ELSE @]

\* setUnreadCount beside setInboxReadTill: with nothing or one message left
\* unread the border moves on to the last message.
SetUnreadCount(w, till, border) ==
    [SetInboxReadTill(w, IF border > till THEN border ELSE till) EXCEPT !.known = "count"]

ReadInboxTillNeedsRequest(w, till) ==
    till > 0 /\ till >= (IF w.readBefore = 0 THEN 1 ELSE w.readBefore)

\* sendPendingReadInbox: the mark is due now.
SendPendingReadInbox(w) == [w EXCEPT !.timed = FALSE]

\* What countStillUnreadLocal tells: nothing, that the count stays as it
\* is, that it becomes zero, that something is left.
StillUnread(w) ==
    {"unknown"} \cup (IF w.known # "nothing" THEN {"zero", "some"} ELSE {})
                \cup (IF w.known = "count" THEN {"same"} ELSE {})

\* readInboxTill but for sendReadRequests and its syncGuard.
MarkToRead(w, till, force, still, border) ==
    LET needs  == ReadInboxTillNeedsRequest(w, till)
        marked == [w EXCEPT !.kept = TRUE, !.willReadTill = till]
        read   == SetUnreadCount(marked, till, border)
    IN  IF \/ ~needs /\ ~force
           \/ w.sentReadTill >= till
           \/ w.willReadTill >= till /\ ~force
           \/ w.willReadTill = 0 /\ ~needs
        THEN w
        ELSE IF w.willReadTill >= till THEN SendPendingReadInbox(w)
        ELSE IF ~force /\ still = "same" THEN SetInboxReadTill(w, till)
        ELSE IF still = "unknown" THEN [marked EXCEPT !.timed = FALSE]
        ELSE [read EXCEPT !.timed = ~force /\ still # "zero"]

\* readInboxTill of the last message also resets an unread count and with it
\* the border, whatever else it does: then the border is not before till.
ReadInboxTill(w, till, force, still, border) ==
    LET m == MarkToRead(w, till, force, still, border)
    IN  IF border >= till /\ till > 0 /\ m.known = "count"
        THEN SetInboxReadTill(m, border) ELSE m

\* A mutant: the mark is kept until the answer.
KeepsMark(w) ==
    SendRequest([w EXCEPT !.sentReadTill = w.willReadTill, !.timed = FALSE,
                          !.sentReadDone = FALSE], "ReadInbox", w.willReadTill)

SendReadRequest(w) ==
    SendRequest([w EXCEPT !.sentReadTill = w.willReadTill, !.willReadTill = 0,
                          !.timed = FALSE, !.sentReadDone = FALSE],
                "ReadInbox", w.willReadTill)

Timed(hs) == {h \in Chats : hs[h].willReadTill > 0 /\ hs[h].timed}
Untimed(hs) == {h \in Chats : hs[h].willReadTill > 0 /\ ~hs[h].timed}

\* sendReadRequests, when the time of the marks in due has come.
SendReadRequests(hs, due) ==
    [h \in Chats |-> IF h \in Untimed(hs) \cup due THEN SendReadRequest(hs[h]) ELSE hs[h]]

\* A mutant: nothing waits for the marks of other chats.
ForgetsTimer(hs, due) == FALSE

\* The end of sendReadRequests: the timer waits for the other marks.
TimerLeft(hs, due) == Timed(hs) \ due # {}

\* The chats whose marks a callback has just sent.
NewReads(hs) ==
    {h \in Chats : \E r \in hs[h].sent \ hist[h].sent : r.type = "ReadInbox"}

\* A handler that calls sendReadRequests if it made a mark due.  A mark that
\* got a time starts the timer.
MaybeSendReads(hs, due) ==
    IF Untimed(hs) \cup NewReads(hs) # {}
    THEN hist' = SendReadRequests(hs, due) /\ timer' = TimerLeft(hs, due)
    ELSE /\ due = {}
         /\ hist' = hs
         /\ timer' = (timer \/ Timed(hs) \ Timed(hist) # {})

\* unreadCountRefreshNeeded.
UnreadCountRefreshNeeded(w, till) == w.known # "count" \/ till + 1 > w.readBefore

\* A mutant: the server is not asked what is unread after the mark it took.
ForgetsRefresh(w, till) ==
    IF w.sentReadTill # till THEN w ELSE [w EXCEPT !.sentReadDone = TRUE]

\* The handler `finished' of sendReadRequest, before sendReadRequests.
ReadFinished(w, till) ==
    LET done == [w EXCEPT !.sentReadDone = TRUE]
    IN  IF w.sentReadTill # till THEN w
        ELSE IF UnreadCountRefreshNeeded(w, till) THEN RequestDialogEntry(done, {})
        ELSE [done EXCEPT !.sentReadTill = 0]

----------------------------------------------------------------------------
\* Entries of the dialogs list.

\* What an entry and the callbacks find: the border that the unread count
\* tells, the last message, what is still unread, whether there is something
\* to delete, whether the chat list has no message.
Choices == [border : 0 .. MaxMsgId, last : 0 .. MaxMsgId,
            still : {"unknown", "same", "zero", "some"}, empty : BOOLEAN, fake : BOOLEAN]

\* Only what some callback looks at makes a difference, and a border only
\* beyond the one that the server tells.
ChoicesFor(S, read) ==
    LET calls == UNION {hist[h].pending \cup hist[h].asked : h \in S}
        If(call, choice, none) == IF call \in calls THEN choice ELSE {none}
    IN  {c \in [border : {0} \cup read + 1 .. MaxMsgId,
                last   : If("read", 0 .. MaxMsgId, 0),
                still  : If("read", {"unknown", "same", "zero", "some"}, "unknown"),
                empty  : If("delete", BOOLEAN, TRUE),
                fake   : BOOLEAN] : c.last = 0 => c.still = "unknown"}

\* A mark that is due now is sent by the callback.
SendIfDue(w) == IF w.willReadTill > 0 /\ ~w.timed THEN SendReadRequest(w) ELSE w

\* The callbacks of readInbox and deleteHistory.
RunCalls(w, calls, c) ==
    LET still == IF c.still \in StillUnread(w) THEN c.still ELSE "unknown"
        read == IF "read" \in calls
                THEN SendIfDue(ReadInboxTill(w, c.last, FALSE, still, c.border)) ELSE w
    IN  IF "delete" \in calls /\ ~c.empty THEN SendRequest(read, "Delete", 0) ELSE read

\* The end of dialogEntryApplied: the mark the server knows is ours too.
TakeSentRead(w) ==
    IF w.sentReadTill > 0 /\ w.sentReadDone
    THEN CheckEmptyState([SetInboxReadTill(w, w.sentReadTill) EXCEPT !.sentReadTill = 0])
    ELSE w

\* Histories::dialogEntryApplied and History::dialogEntryApplied.
DialogEntryApplied(w, c) ==
    IF w.postponedRequestEntry THEN w
    ELSE LET f == IF c.fake THEN RequestFakeChatListMessage(w) ELSE w
         IN  TakeSentRead(RunCalls([f EXCEPT !.pending = {}, !.asked = {}],
                                   w.pending \cup w.asked, c))

\* applyDialogFields: an entry older than the border tells the folder only.
ApplyDialogFields(w, read, border) ==
    IF read + 1 >= w.readBefore THEN SetUnreadCount(w, read, border)
    ELSE [w EXCEPT !.known = IF @ = "count" THEN @ ELSE "folder"]

\* History::applyDialog, with the border the server tells.
ApplyDialog(w, read, c) == DialogEntryApplied(ApplyDialogFields(w, read, c.border), c)

\* A mutant: the call is posted for the second entry, not for the first.
PostsForSecond(h, w) ==
    posted' = (\/ posted
               \/ /\ w.pending # {} /\ hist[h].pending = {}
                  /\ \E g \in Chats \ {h} : hist[g].pending # {})

\* postponeRequestDialogEntries: the first pending entry posts the call.
PostOnce(h, w) ==
    posted' = (\/ posted
               \/ /\ w.pending # {} /\ hist[h].pending = {}
                  /\ \A g \in Chats \ {h} : hist[g].pending = {})

----------------------------------------------------------------------------
\* What the user and the server start.

Input(kind) == kind \in Inputs /\ inputs > 0 /\ inputs' = inputs - 1

\* The requests of HistoryWidget, of searches and of the messages sent.
Ask(h, type) ==
    /\ Input(type)
    /\ hist' = [hist EXCEPT ![h] = SendRequest(@, type, 0)]
    /\ UNCHANGED <<posted, timer, dialogs>>

\* cancelRequest: the widget closed the chat or asks for something else.
CancelRequest(h, r) ==
    /\ r \in hist[h].sent \cup hist[h].postponed
    /\ r.type = "History"
    /\ LET w == FinishSentRequest([hist[h] EXCEPT !.postponed = @ \ {r}], r)
       IN  hist' = [hist EXCEPT ![h] = w] /\ PostOnce(h, w)
    /\ UNCHANGED <<timer, dialogs, inputs>>

\* readInboxTill and readInboxOnNewMessage (force).
Read(h, till, force, border) ==
    /\ Input("read")
    /\ \E still \in StillUnread(hist[h]), due \in SUBSET Timed(hist) :
         MaybeSendReads([hist EXCEPT ![h] = ReadInboxTill(@, till, force, still, border)],
                        due \ {h})
    /\ UNCHANGED <<posted, dialogs>>

\* sendPendingReadInbox: the chat is left.
LeaveChat(h) ==
    /\ hist[h].willReadTill > 0 /\ hist[h].timed
    /\ \E due \in SUBSET (Timed(hist) \ {h}) :
         MaybeSendReads([hist EXCEPT ![h] = SendPendingReadInbox(@)], due)
    /\ UNCHANGED <<posted, dialogs, inputs>>

\* requestDialogEntry, without a callback or for readInbox or deleteHistory.
AskEntry(h, calls) ==
    /\ Input("entry")
    /\ LET w == RequestDialogEntry(hist[h], calls)
       IN  hist' = [hist EXCEPT ![h] = w] /\ PostOnce(h, w)
    /\ UNCHANGED <<timer, dialogs>>

\* History::applyInboxReadUpdate: another device read the chat.  The history
\* asks for the entry when nothing tells what is left unread (`counted') and
\* when the chat is in another folder.
InboxRead(h, upTo, border) ==
    /\ Input("update")
    /\ ReadInboxTillNeedsRequest(hist[h], upTo)
    /\ \E ask, counted \in BOOLEAN :
         LET a == IF ask THEN RequestDialogEntry(hist[h], {}) ELSE hist[h]
             w == IF counted THEN SetUnreadCount(a, upTo, border) ELSE SetInboxReadTill(a, upTo)
         IN  /\ IF counted THEN a.known # "nothing" ELSE ask
             /\ hist' = [hist EXCEPT ![h] = w]
             /\ PostOnce(h, a)
    /\ UNCHANGED <<timer, dialogs>>

\* A list of dialogs is loaded that has the chat in it.
DialogReceived(h, read, c) ==
    /\ Input("dialog")
    /\ \E due \in SUBSET (Timed(hist) \ {h}) :
         MaybeSendReads([hist EXCEPT ![h] = ApplyDialog(@, read, c)], due)
    /\ UNCHANGED <<posted, dialogs>>

----------------------------------------------------------------------------
\* The event loop.

\* sendDialogRequests: chats with a change on its way are put off.
SendDialogRequests ==
    LET ready == {h \in Chats : hist[h].pending # {} /\ ~PostponeEntryRequest(hist[h])}
    IN  /\ posted
        /\ posted' = FALSE
        /\ hist' = [h \in Chats |->
              IF hist[h].pending = {} THEN hist[h]
              ELSE [hist[h] EXCEPT
                      !.postponedRequestEntry = @ \/ h \notin ready,
                      !.asked = IF @ = {} THEN hist[h].pending ELSE @,
                      !.pending = {}]]
        /\ IF \A h \in Chats : hist[h].pending = {} THEN dialogs' = dialogs
           ELSE \E n \in 1 .. MaxDialogs :
                  /\ \A d \in dialogs : d.n # n
                  /\ \A k \in 1 .. n - 1 : \E d \in dialogs : d.n = k
                  /\ dialogs' = dialogs \cup {[n |-> n, chats |-> ready]}
        /\ UNCHANGED <<timer, inputs>>

ReadRequestsTimer ==
    /\ timer
    /\ \E due \in SUBSET Timed(hist) :
         /\ due # {} \/ Timed(hist) = {}
         /\ hist' = SendReadRequests(hist, due)
         /\ timer' = TimerLeft(hist, due)
    /\ UNCHANGED <<posted, dialogs, inputs>>

\* The answer, or the error, of a request for a slice or to send a message.
Answered(h, r) ==
    /\ r \in hist[h].wire
    /\ r.type \in SliceTypes \cup {"Send"}
    /\ LET w == CheckPostponed(Delivered(hist[h], r), r)
       IN  hist' = [hist EXCEPT ![h] = w] /\ PostOnce(h, w)
    /\ UNCHANGED <<timer, dialogs, inputs>>

\* deleteMessages asks for the chat list message afterwards, deleteAllMessages
\* goes on while the server has more.
DeleteAnswered(h, r) ==
    /\ r \in hist[h].wire
    /\ r.type = "Delete"
    /\ LET got == Delivered(hist[h], r)
           done == CheckPostponed(got, r)
       IN  \/ /\ \E w \in {done, RequestDialogEntry(done, {}), RequestFakeChatListMessage(done)} :
                   hist' = [hist EXCEPT ![h] = w] /\ PostOnce(h, w)
              /\ inputs' = inputs
           \/ /\ Input("again")
              /\ LET w == CheckPostponed(SendRequest(got, "Delete", 0), r)
                 IN  hist' = [hist EXCEPT ![h] = w] /\ PostOnce(h, w)
    /\ UNCHANGED <<timer, dialogs>>

ReadAnswered(h, r) ==
    /\ r \in hist[h].wire
    /\ r.type = "ReadInbox"
    /\ \E due \in SUBSET Timed(hist) :
         LET hs == [hist EXCEPT ![h] = ReadFinished(Delivered(@, r), r.till)]
             w == CheckPostponed(SendReadRequests(hs, due)[h], r)
         IN  /\ hist' = [SendReadRequests(hs, due) EXCEPT ![h] = w]
             /\ timer' = TimerLeft(hs, due)
             /\ PostOnce(h, w)
    /\ UNCHANGED <<dialogs, inputs>>

\* applyPeerDialogs for the entries that are there, then finalize.
AfterDialogs(d, present, read, c) ==
    LET applied(h) == IF h \in present THEN ApplyDialog(hist[h], read, c) ELSE hist[h]
    IN  [h \in Chats |-> IF h \in d.chats THEN DialogEntryApplied(applied(h), c) ELSE hist[h]]

\* The answer to messages.getPeerDialogs with the entries of some chats, or
\* its error (none).
DialogsAnswered(d) ==
    /\ d \in dialogs
    /\ dialogs' = dialogs \ {d}
    /\ \E present \in SUBSET d.chats : \E read \in IF present = {} THEN {0} ELSE 0 .. MaxMsgId :
       \E c \in ChoicesFor(d.chats, read) : \E hs \in {AfterDialogs(d, present, read, c)} :
       \E due \in SUBSET (Timed(hist) \cap Timed(hs)) : MaybeSendReads(hs, due)
    /\ UNCHANGED <<posted, inputs>>

----------------------------------------------------------------------------
UserStep(h) ==
    \/ \E type \in {"History", "Send", "Delete"} : Ask(h, type)
    \/ \E r \in hist[h].sent \cup hist[h].postponed : CancelRequest(h, r)
    \/ \E till \in 1 .. MaxMsgId, force \in BOOLEAN :
         \E border \in {0} \cup till .. MaxMsgId : Read(h, till, force, border)
    \/ LeaveChat(h)
    \/ \E calls \in {{}, {"read"}, {"delete"}} : AskEntry(h, calls)

ServerStep(h) ==
    \/ \E upTo \in 1 .. MaxMsgId : \E border \in upTo .. MaxMsgId : InboxRead(h, upTo, border)
    \/ \E read \in 0 .. MaxMsgId : \E c \in ChoicesFor({h}, read) : DialogReceived(h, read, c)

AnswerStep(h) ==
    \E r \in hist[h].wire : Answered(h, r) \/ DeleteAnswered(h, r) \/ ReadAnswered(h, r)

Next ==
    \/ \E h \in Chats : UserStep(h) \/ ServerStep(h) \/ AnswerStep(h)
    \/ SendDialogRequests
    \/ ReadRequestsTimer
    \/ \E d \in dialogs : DialogsAnswered(d)

Spec == Init /\ [][Next]_vars

(***************************************************************************)
(* The event loop runs what was posted and the timers, and MTProto repeats *)
(* a request until it is answered or fails.                                *)
(***************************************************************************)
Fairness ==
    /\ \A h \in Chats : WF_vars(AnswerStep(h))
    /\ WF_vars(SendDialogRequests)
    /\ WF_vars(ReadRequestsTimer)
    /\ WF_vars(\E d \in dialogs : DialogsAnswered(d))

FairSpec == Spec /\ Fairness

----------------------------------------------------------------------------
\* The variables have the shapes described above.
HistState ==
    [kept : BOOLEAN, postponed : SUBSET Requests, sent : SUBSET Requests,
     willReadTill : 0 .. MaxMsgId, timed : BOOLEAN, sentReadTill : 0 .. MaxMsgId,
     sentReadDone : BOOLEAN, postponedRequestEntry : BOOLEAN,
     pending : SUBSET Calls, asked : SUBSET Calls,
     readBefore : 0 .. MaxMsgId + 1, known : Knowledge, wire : SUBSET Requests]

TypeOK ==
    /\ hist \in [Chats -> HistState]
    /\ posted \in BOOLEAN
    /\ timer \in BOOLEAN
    /\ dialogs \subseteq [n : 1 .. MaxDialogs, chats : SUBSET Chats]
    /\ inputs \in 0 .. MaxInputs

\* Expects and Assert of sendReadRequest: a mark goes beyond the one sent
\* before, and the answer to a mark finds none or a later one, though the
\* answers come in any order.
MarksGrow ==
    \A h \in Chats :
        /\ hist[h].willReadTill > 0 => hist[h].willReadTill > hist[h].sentReadTill
        /\ \A r \in hist[h].wire :
             r.type = "ReadInbox" => hist[h].sentReadTill = 0 \/ hist[h].sentReadTill >= r.till

\* An answer finds the state of its chat (Assert in sendReadRequest) and its
\* request among the sent ones; a chat with nothing under way has no state.
StateMatchesWire ==
    \A h \in Chats :
        /\ hist[h].wire = hist[h].sent
        /\ hist[h].kept <=> ~Empty(hist[h])

\* No slice of a history is on its way while its messages are deleted, and
\* slices are put off only as long as that is so.
SlicesAvoidDeletion ==
    \A h \in Chats :
        /\ PostponeHistoryRequest(hist[h]) =>
             \A r \in hist[h].wire : r.type \notin SliceTypes
        /\ hist[h].postponed # {} => PostponeHistoryRequest(hist[h])

\* Both asserts of finishSentRequest: an entry to be asked for again was
\* asked for, and is not pending at the same time.
EntryIsInOneMap ==
    \A h \in Chats :
        /\ hist[h].postponedRequestEntry => hist[h].asked # {}
        /\ hist[h].asked = {} \/ hist[h].pending = {}

\* Nobody waits in vain for an entry: the call that asks for it is posted,
\* or it is in an unanswered request, or a request that makes it ask again
\* is on its way.
EntryIsComing ==
    \A h \in Chats :
        /\ hist[h].pending # {} => posted
        /\ hist[h].asked # {} =>
             IF hist[h].postponedRequestEntry THEN PostponeEntryRequest(hist[h])
             ELSE \E d \in dialogs : h \in d.chats

\* An entry asked for is not taken as the state of the chat while a request
\* that changes the chat is on its way.
EntryIsSettled ==
    [][\A h \in Chats :
         /\ hist[h].asked # {} /\ hist'[h].asked = {} /\ hist'[h].pending = {}
         => ~PostponeEntryRequest(hist[h])]_vars

\* A mark that was not sent has a time, and the timer runs.
MarkIsTimed ==
    \A h \in Chats : hist[h].willReadTill > 0 => hist[h].timed /\ timer

\* The callbacks of an entry are called in the end.
EntryArrives ==
    \A h \in Chats :
        hist[h].pending \cup hist[h].asked # {} ~> hist[h].pending \cup hist[h].asked = {}

\* A mark the user set is known to the server and to the history in the end,
\* unless a later one took its place.
MarkArrives ==
    \A h \in Chats, t \in 1 .. MaxMsgId :
        hist[h].willReadTill = t \/ hist[h].sentReadTill = t
            ~> hist[h].readBefore > t /\ hist[h].sentReadTill = 0

\* The slices put off are loaded in the end, or nobody wants them any more.
SliceArrives ==
    \A h \in Chats : hist[h].postponed # {} ~> hist[h].postponed = {}
=============================================================================
