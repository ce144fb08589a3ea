------------------------------ MODULE Updates ------------------------------
(***************************************************************************)
(* How MainWidget keeps the local data in step with the server: the common *)
(* box and one box per channel, each with a PtsWaiter, the differences     *)
(* they request, and the two timer maps that start such requests.          *)
(*                                                                         *)
(* The server (external) numbers the changes of every box, pushes each one *)
(* as an update, or returns it from the request that caused it, and        *)
(* answers difference requests from its log.  An update may be lost or     *)
(* overtaken by others, it is handed over at most once (the transport      *)
(* drops repeated messages).  Timers are abstracted to "armed": an armed   *)
(* timer may fire at any moment.                                           *)
(***************************************************************************)
EXTENDS PtsWaiter

CONSTANTS
    Common,            \* the box of private chats and groups
    Channels,          \* the boxes of channels and supergroups
    None,              \* no open chat
    MaxPts,            \* bound: no box has a pts beyond this one
    Limit,             \* bound: box -> the pts its server stops at
    Counts,            \* the sizes of updates the server makes
    Start,             \* the pts the client knows for a channel, 0 for none
    ChannelFails,      \* can updates.getChannelDifference fail?
    Snapshots,         \* do answers carrying a channel's pts arrive?
    TooLong            \* can the server answer updates.differenceTooLong?

ASSUME ConstantsAssumption ==
    /\ Common \notin Channels
    /\ None \notin Channels
    /\ MaxPts \in Nat \ {0}
    /\ Limit \in [Channels \cup {Common} -> 1 .. MaxPts]
    /\ Counts \subseteq Nat
    /\ Start \in {0, 1}
    /\ {ChannelFails, Snapshots, TooLong} \subseteq BOOLEAN

Boxes == Channels \cup {Common}

VARIABLES
    box,        \* box -> its PtsWaiter with afterFail and inFlight
    active,     \* the channel shown in the window, if any
    minChannel, \* _byMinChannelTimer is active
    ends,       \* server: box -> the pts values its updates end at
    top,        \* server: box -> its current pts
    net,        \* box -> updates on their way to the client
    reply       \* box -> the answer to its request, on its way

vars == <<box, active, minChannel, ends, top, net, reply>>
server == <<ends, top>>

Update == [pts : 1 .. MaxPts, count : Nat]
NoReply == [kind |-> "none", from |-> 0, pts |-> 0, final |-> TRUE]
Replies == [kind : {"none", "fail", "state", "empty", "slice", "difference", "tooLong"},
            from : 0 .. MaxPts, pts : 0 .. MaxPts, final : BOOLEAN]

\* afterFail: the box has an entry in the AfterFail timer.
\* inFlight: its request was sent and not answered yet.
Waiter(pts, asking) ==
    [good |-> pts, last |-> pts, count |-> pts, requesting |-> asking,
     waitingForSkipped |-> FALSE, waitingForShortPoll |-> FALSE,
     queue |-> {}, byPts |-> FALSE, afterFail |-> FALSE, inFlight |-> asking,
     applied |-> {}, own |-> {}, seen |-> {}, base |-> pts]

\* The constructor marks the common box as requesting, start() sends
\* updates.getState.  Channels come from the saved or just loaded dialogs.
Init ==
    /\ box = [b \in Boxes |-> IF b = Common THEN Waiter(0, TRUE) ELSE Waiter(Start, FALSE)]
    /\ active = None
    /\ minChannel = FALSE
    /\ ends = [b \in Boxes |-> {1}]
    /\ top = [b \in Boxes |-> 1]
    /\ net = [b \in Boxes |-> {}]
    /\ reply = [b \in Boxes |-> NoReply]

----------------------------------------------------------------------------
\* Requests.

RequestingDifference == box[Common].requesting

Send(w) == [SetRequesting(w, TRUE) EXCEPT !.inFlight = TRUE, !.afterFail = FALSE]

\* MainWidget::getDifference, for the common box.
GetDifference(w) ==
    LET c == [w EXCEPT !.byPts = FALSE]
    IN  IF c.requesting THEN c ELSE Send(c)

\* MainWidget::getChannelDifference.  The timers' callers erase their entry
\* themselves after the call, so every path drops it.
GetChannelDifference(w, from) ==
    LET c == IF from # "PtsGapOrShortPoll" THEN [w EXCEPT !.byPts = FALSE] ELSE w
    IN  IF ~Inited(c) \/ c.requesting THEN c
        ELSE [Send(c) EXCEPT !.afterFail = (from = "AfterFail") /\ c.afterFail]

----------------------------------------------------------------------------
\* Server steps (external).

\* A change of count n (zero for a change that takes no number).
Change(b, n) ==
    /\ top[b] + n <= Limit[b]
    /\ top' = [top EXCEPT ![b] = @ + n]
    /\ ends' = [ends EXCEPT ![b] = @ \cup {top[b] + n}]
    /\ net' = [net EXCEPT ![b] = @ \cup {[pts |-> top[b] + n, count |-> n]}]
    /\ UNCHANGED <<box, active, minChannel, reply>>

Lose(b, e) ==
    /\ e \in net[b]
    /\ net' = [net EXCEPT ![b] = @ \ {e}]
    /\ UNCHANGED <<box, active, minChannel, server, reply>>

\* What the server may answer to a request made at pts from: it compares
\* from with the current pts, and a slice ends where some update ends.
Answer(kind, from, pts, final) == [kind |-> kind, from |-> from, pts |-> pts, final |-> final]

StateReplies(b) == {Answer("state", 0, top[b], TRUE)}

EmptyReplies(b, from) == IF top[b] = from THEN {Answer("empty", from, from, TRUE)} ELSE {}

CommonReplies(b, from) ==
    EmptyReplies(b, from)
    \cup {Answer("slice", from, p, FALSE) : p \in {q \in ends[b] : q > from /\ q < top[b]}}
    \cup {Answer("difference", from, p, TRUE) : p \in {q \in {top[b]} : q > from}}
    \cup {Answer("tooLong", from, p, TRUE) : p \in {q \in {top[b]} : TooLong /\ q > from}}

ChannelReplies(b, from) ==
    EmptyReplies(b, from)
    \cup {Answer("difference", from, p, p = top[b]) : p \in {q \in ends[b] : q > from}}
    \cup {Answer("tooLong", from, p, TRUE) : p \in {q \in {top[b]} : q > from}}

PossibleReplies(b) ==
    IF b # Common THEN ChannelReplies(b, box[b].good)
    ELSE IF ~Inited(box[b]) THEN StateReplies(b)
    ELSE CommonReplies(b, box[b].good)

ServerReply(b) ==
    /\ box[b].inFlight /\ reply[b] = NoReply
    /\ \E r \in PossibleReplies(b) : reply' = [reply EXCEPT ![b] = r]
    /\ UNCHANGED <<box, active, minChannel, server, net>>

\* An error the default handlers do not take.
ServerFail(b) ==
    /\ box[b].inFlight /\ reply[b] = NoReply
    /\ b # Common => ChannelFails
    /\ reply' = [reply EXCEPT ![b] = [NoReply EXCEPT !.kind = "fail"]]
    /\ UNCHANGED <<box, active, minChannel, server, net>>

----------------------------------------------------------------------------
\* Updates reaching the client.

\* feedUpdate for an update with a pts: the common box always asks its
\* waiter, a channel's is skipped while its difference is on the way.
Receive(b, e) ==
    IF b # Common /\ box[b].requesting THEN box[b] ELSE UpdateAndApply(box[b], e)

\* An update on its way arrives and turns the waiter of its box into w.
Take(b, e, w) ==
    /\ e \in net[b]
    /\ net' = [net EXCEPT ![b] = @ \ {e}]
    /\ box' = [box EXCEPT ![b] = w]

\* mtpUpdateReceived: pushed updates of every box are dropped while the
\* difference of the common box is on the way.
PushUpdate(b, e) ==
    /\ Take(b, e, IF RequestingDifference THEN box[b] ELSE Receive(b, e))
    /\ UNCHANGED <<active, minChannel, server, reply>>

\* sentUpdatesReceived and applyUpdates: the update is the result of a
\* request of this client.
SentUpdates(b, e) ==
    /\ Take(b, e, Receive(b, e))
    /\ UNCHANGED <<active, minChannel, server, reply>>

\* The update refers to a user or a chat that is not loaded: it is dropped
\* for a difference of the common box, for a channel's one after a timeout.
UpdateNotLoaded(b, e) ==
    /\ ~RequestingDifference
    /\ Take(b, e, IF b = Common THEN GetDifference(box[b]) ELSE box[b])
    /\ minChannel' = (minChannel \/ b # Common)
    /\ UNCHANGED <<active, server, reply>>

\* applyAffectedHistory, applyAffectedMessages: this client's own change,
\* carried out where the answer is handled.
Affected(b, e) ==
    /\ Take(b, e, UpdateAndApplyCounts([box[b] EXCEPT !.own = @ \cup Points(e)], e))
    /\ UNCHANGED <<active, minChannel, server, reply>>

\* ptsReceived: an answer (a dialog, a slice of history, search results)
\* carries the pts the channel had when it was written.
PtsReceived(c, p) ==
    /\ Snapshots
    /\ p \in ends[c]
    /\ box' = [box EXCEPT ![c] = UpdateAndApplyCounts(@, [pts |-> p, count |-> 0])]
    /\ UNCHANGED <<active, minChannel, server, net, reply>>

\* updateChannelTooLong.  It may come without a pts, then nothing is compared.
ChannelTooLong(c) ==
    /\ ~RequestingDifference
    /\ box' = [box EXCEPT ![c] = GetChannelDifference(@, "Unknown")]
    /\ UNCHANGED <<active, minChannel, server, net, reply>>

\* updatesTooLong, new_session_created, a reset of the MTProto session.
Resync ==
    /\ box' = [box EXCEPT ![Common] = GetDifference(@)]
    /\ UNCHANGED <<active, minChannel, server, net, reply>>

----------------------------------------------------------------------------
\* Timers.

ByPtsTimer(b) ==
    /\ box[b].byPts
    /\ box' = [box EXCEPT ![b] =
                 IF b = Common THEN GetDifference(@)
                 ELSE [GetChannelDifference(@, "PtsGapOrShortPoll") EXCEPT !.byPts = FALSE]]
    /\ UNCHANGED <<active, minChannel, server, net, reply>>

\* A mutant: the flag of the failed request is left set.
RetryWithoutReset(w) == GetDifference([w EXCEPT !.afterFail = FALSE])

\* getDifferenceAfterFail, the common box.
Retry(w) == GetDifference(SetRequesting(w, FALSE))

AfterFailTimer(b) ==
    /\ box[b].afterFail
    /\ box' = [box EXCEPT ![b] =
                 IF b = Common THEN Retry(@)
                 ELSE [GetChannelDifference(@, "AfterFail") EXCEPT !.afterFail = FALSE]]
    /\ UNCHANGED <<active, minChannel, server, net, reply>>

MinChannelTimer ==
    /\ minChannel
    /\ minChannel' = FALSE
    /\ box' = [box EXCEPT ![Common] = GetDifference(@)]
    /\ UNCHANGED <<active, server, net, reply>>

----------------------------------------------------------------------------
\* Answers.

\* feedDifference and feedChannelDifference apply every change up to pts.
Feed(w, pts) == [w EXCEPT !.applied = @ \cup (w.good + 1 .. pts)]

Done(w) == SetRequesting(w, FALSE)

Landed(w) == [w EXCEPT !.inFlight = FALSE]

\* gotState and gotDifference.
AfterDifference(w, r) ==
    CASE r.kind = "state"      -> Done(Rebase(w, r.pts))
      [] r.kind = "empty"      -> Done(InitPts(w, w.good))
      [] r.kind = "slice"      -> GetDifference(Done(InitPts(Feed(w, r.pts), r.pts)))
      [] r.kind = "difference" -> Done(InitPts(Feed(w, r.pts), r.pts))
      [] r.kind = "tooLong"    -> w

\* The updates of the difference may name channels that went too far.
GotDifference(late) ==
    /\ reply[Common].kind \notin {"none", "fail"}
    /\ reply' = [reply EXCEPT ![Common] = NoReply]
    /\ late # {} => reply[Common].kind \in {"slice", "difference"}
    /\ box' = [b \in Boxes |->
                 IF b = Common THEN AfterDifference(Landed(box[b]), reply[b])
                 ELSE IF b \in late THEN GetChannelDifference(box[b], "Unknown")
                 ELSE box[b]]
    /\ UNCHANGED <<active, minChannel, server, net>>

\* The answer to getChannelDifference up to ptsSetRequesting(false).  With
\* tooLong the dialog's pts comes in twice, through ptsInit and through
\* applyDialogs, and the messages before it are dropped from the history.
AfterChannelDifference(w, r) ==
    CASE r.kind = "empty"      -> Done(InitPts(w, r.pts))
      [] r.kind = "difference" -> Done(InitPts(Feed(w, r.pts), r.pts))
      [] r.kind = "tooLong"    -> Done(ApplySkippedUpdates(Rebase(w, r.pts)))

\* A mutant: the open chat is not polled again.
ForgetsShortPoll(c, w, final) == IF ~final THEN GetChannelDifference(w, "Unknown") ELSE w

\* The end of gotChannelDifference: ask for the rest, or poll the open chat.
Continue(c, w, final) ==
    IF ~final THEN GetChannelDifference(w, "Unknown")
    ELSE IF active = c THEN SetWaitingForShortPoll(w, TRUE)
    ELSE w

GotChannelDifference(c) ==
    /\ reply[c].kind \notin {"none", "fail"}
    /\ reply' = [reply EXCEPT ![c] = NoReply]
    /\ box' = [box EXCEPT ![c] =
                 Continue(c, AfterChannelDifference(Landed(@), reply[c]), reply[c].final)]
    /\ UNCHANGED <<active, minChannel, server, net>>

\* failDifference and failChannelDifference.  updates.getState, which the
\* common box asks for while it has no pts, has no failure handler.
FailDifference(b) ==
    /\ reply[b].kind = "fail"
    /\ reply' = [reply EXCEPT ![b] = NoReply]
    /\ box' = [box EXCEPT ![b] = [Landed(@) EXCEPT !.afterFail = b # Common \/ Inited(box[b])]]
    /\ UNCHANGED <<active, minChannel, server, net>>

----------------------------------------------------------------------------
\* The user.

OpenChat(c) ==
    /\ active # c
    /\ active' = c
    /\ box' = [box EXCEPT ![c] = SetWaitingForShortPoll(@, TRUE)]
    /\ UNCHANGED <<minChannel, server, net, reply>>

CloseChat ==
    /\ active # None
    /\ active' = None
    /\ UNCHANGED <<box, minChannel, server, net, reply>>

\* deleteHistory of a channel; the open chat was closed before.
LeaveChannel(c) ==
    /\ active' = IF active = c THEN None ELSE active
    /\ box' = [box EXCEPT ![c] = SetWaitingForShortPoll(@, FALSE)]
    /\ UNCHANGED <<minChannel, server, net, reply>>

----------------------------------------------------------------------------
UpdateStep(b) ==
    \/ \E n \in Counts : Change(b, n)
    \/ \E e \in net[b] : \/ Lose(b, e)
                         \/ PushUpdate(b, e)
                         \/ SentUpdates(b, e)
                         \/ UpdateNotLoaded(b, e)
                         \/ Affected(b, e)

RequestStep(b) ==
    \/ ServerReply(b)
    \/ ServerFail(b)
    \/ FailDifference(b)
    \/ ByPtsTimer(b)
    \/ AfterFailTimer(b)

ChannelStep(c) ==
    \/ \E p \in ends[c] : PtsReceived(c, p)
    \/ ChannelTooLong(c)
    \/ GotChannelDifference(c)
    \/ OpenChat(c)
    \/ LeaveChannel(c)

Next ==
    \/ \E b \in Boxes : UpdateStep(b) \/ RequestStep(b)
    \/ \E c \in Channels : ChannelStep(c)
    \/ \E late \in SUBSET Channels : GotDifference(late)
    \/ Resync
    \/ MinChannelTimer
    \/ CloseChat

Spec == Init /\ [][Next]_vars

(***************************************************************************)
(* The event loop runs armed timers and handles received answers.  The     *)
(* server answers a request that is repeated for ever: an answer stays     *)
(* possible again and again, though single requests may fail.              *)
(***************************************************************************)
Fairness ==
    /\ \A b \in Boxes :
         /\ WF_vars(ByPtsTimer(b))
         /\ WF_vars(AfterFailTimer(b))
         /\ WF_vars(FailDifference(b))
         /\ SF_vars(ServerReply(b))
    /\ \A c \in Channels : WF_vars(GotChannelDifference(c))
    /\ WF_vars(\E late \in SUBSET Channels : GotDifference(late))

FairSpec == Spec /\ Fairness

----------------------------------------------------------------------------
\* The variables range over the states of a waiter, the server's numbers
\* and the messages between them.
WaiterState ==
    [good : 0 .. MaxPts, last : 0 .. MaxPts, count : Nat, requesting : BOOLEAN,
     waitingForSkipped : BOOLEAN, waitingForShortPoll : BOOLEAN,
     queue : SUBSET Update, byPts : BOOLEAN, afterFail : BOOLEAN,
     inFlight : BOOLEAN, applied : SUBSET Int, own : SUBSET Int,
     seen : SUBSET Int, base : 0 .. MaxPts]

TypeOK ==
    /\ box \in [Boxes -> WaiterState]
    /\ active \in Channels \cup {None}
    /\ minChannel \in BOOLEAN
    /\ ends \in [Boxes -> SUBSET (1 .. MaxPts)]
    /\ top \in [Boxes -> 1 .. MaxPts]
    /\ net \in [Boxes -> SUBSET Update]
    /\ reply \in [Boxes -> Replies]

\* When a waiter says it is at _good, every change of the box up to there
\* has reached the local data, by an update, by a difference or because
\* this client made it: what is never asked for again was never missed.
GoodMeansApplied ==
    \A b \in Boxes :
        (box[b].base + 1) .. box[b].good \subseteq box[b].applied \cup box[b].own

\* Whenever a waiter knows of a change it has not got, something is about to
\* fetch it: the timer of the box is armed or its difference is requested.
GapIsWatched ==
    \A b \in Boxes :
        box[b].last # box[b].count => box[b].byPts \/ box[b].requesting

\* The count never runs ahead of the numbers: the branch of check that finds
\* _last < _count is for a server that repeats itself.
NeverOvercounted == \A b \in Boxes : box[b].count <= box[b].last

\* A request or an answer is on the way, or a retry is planned.
Alive(w) == w.requesting => w.inFlight \/ w.afterFail

\* A box that has a pts and is marked as requesting, whose updates are let
\* through unchecked or dropped, has a request out, an answer to handle or a
\* retry planned.
RequestIsAlive ==
    \A b \in Boxes : Inited(box[b]) => Alive(box[b])

\* The steps after which nothing asks for a box any more: the answer
\* updates.differenceTooLong, an error of updates.getState, and the retry
\* after an error of updates.getChannelDifference.
DeadEnd(b) ==
    \/ b = Common /\ reply[b].kind = "tooLong" /\ GotDifference({})
    \/ b = Common /\ ~Inited(box[b]) /\ FailDifference(b)
    \/ b # Common /\ AfterFailTimer(b)

\* There are no others: as long as a box meets none of those steps, it is
\* marked as requesting only while a request or an answer is on the way or a
\* retry is planned (setRequesting against the calls of getDifference).
StaysAlive == [][\A b \in Boxes : Alive(box[b]) => Alive(box'[b]) \/ DeadEnd(b)]_vars

\* An answer on the way belongs to the pts the waiter still has: taking it
\* over neither skips a change nor goes back.
AnswerIsFresh ==
    \A b \in Boxes :
        reply[b].kind \notin {"none", "fail"} =>
            /\ box[b].requesting
            /\ reply[b].from = box[b].good
            /\ reply[b].pts >= box[b].good

\* Outside a difference a change is applied only with or after every change
\* before it, and _good never goes back.
AppliedInOrder ==
    [][\A b \in Boxes :
         /\ box'[b].good >= box[b].good
         /\ ~box[b].requesting /\ ~box'[b].requesting =>
              box'[b].applied \ box[b].applied \subseteq 1 .. box'[b].good]_vars

\* Again and again every box has caught up with all it has heard of, whatever
\* was lost or failed meanwhile (the changes on the server are finitely many).
CatchesUp == \A b \in Boxes : []<>(box[b].good >= box[b].last)

\* Once the chat on the screen has a pts and its timer runs, it is asked about
\* again and again until it is closed: the timer sends a request, and the
\* answer starts the timer.  (Without a pts the timer runs out for nothing,
\* and nothing starts it when the pts comes.)
OpenChatAsksAgain ==
    \A c \in Channels :
        /\ active = c /\ Inited(box[c]) /\ box[c].byPts ~> active # c \/ box[c].inFlight
        /\ active = c /\ box[c].inFlight ~> active # c \/ (box[c].byPts /\ ~box[c].inFlight)
=============================================================================
