------------------------------ MODULE Downloads ------------------------------
(***************************************************************************)
(* The download manager (storage/download_manager_mtproto.cpp) of one data *)
(* centre and the loaders it serves: the loader of a whole file            *)
(* (storage/file_download_mtproto.cpp) and the loader behind a streamed    *)
(* one (media/streaming/media_streaming_loader_mtproto.cpp).               *)
(*                                                                         *)
(* Everything runs in the main thread, so an action is a handler as a      *)
(* whole.  Handlers call one another: an answer makes the manager send the *)
(* next part of any loader before the bytes of the answered part are used. *)
(* Operators that do a part of a handler map a state w of the manager and  *)
(* the loaders to the next one.                                            *)
(*                                                                         *)
(* Amounts are counted in parts (kDownloadPartSize), sessions from 1.      *)
(* Files have a known size.  Bytes, keys and file references are left out; *)
(* how long a request took is a free choice.                               *)
(***************************************************************************)
EXTENDS Integers, Sequences, FiniteSets, SequencesExt, FiniteSetsExt

CONSTANTS
    Files,                \* loaders of whole files
    Streams,              \* loaders of streamed files
    PartsCount,           \* the parts of every file
    StartWaited,          \* kStartWaitedInSession
    MaxWaited,            \* kMaxWaitedInSession
    MaxSessions,          \* kMaxSessionsCount; there is one at the start
    RetrySuccesses,       \* kRetryAddSessionSuccesses
    RemoveAfterTimeouts,  \* kRemoveSessionAfterTimeouts
    MaxRemoves,           \* kMaxTrackedSessionRemoves
    OnCdn,                \* the loaders whose file the server keeps at a CDN
    MaxInputs,            \* calls by the owners of the loaders
    MaxFaults             \* refusals and failures that are met

ASSUME DownloadsAssumption ==
    /\ Files \cap Streams = {}
    /\ {PartsCount, RetrySuccesses, RemoveAfterTimeouts, MaxRemoves} \subseteq Nat \ {0}
    /\ {MaxWaited, MaxSessions} \subseteq Nat \ {0}
    /\ StartWaited \in 1 .. MaxWaited
    /\ OnCdn \subseteq Files \cup Streams
    /\ {MaxInputs, MaxFaults} \subseteq Nat

VARIABLES
    dc,     \* DcBalanceData of the data centre
    queue,  \* its loaders and their priorities, the highest first
    task,   \* what the loaders know
    inputs, \* calls made by the owners of the loaders
    faults  \* refusals and failures that are met

vars == <<dc, queue, task, inputs, faults>>

Tasks == Files \cup Streams
Offsets == 1 .. PartsCount

NewSession == [requested |-> 0, successes |-> 0, maxWaited |-> StartWaited]

\* lastSessionRemove is not zero exactly when removeTimes is not.
NewDc(sessions) ==
    [sessions |-> sessions, removeIndex |-> 0, removeTimes |-> 0, timeouts |-> 0,
     total |-> 0, kill |-> FALSE]

\* todo: parts to ask for; sent: the requests on the way; unchecked: CDN parts
\* whose hash is not known; fed: parts given to the file; more: a call of
\* requestMoreCdnFileHashes is posted.  A file is "cut" when it is _lastComplete
\* (a part came short) and not finished; it is "short" when it is finished so.
NewTask(t) ==
    [state |-> IF t \in Files THEN "new" ELSE "on",
     todo |-> IF t \in Files THEN Offsets ELSE {},
     sent |-> {}, unchecked |-> {}, hashes |-> {}, fed |-> {},
     cdn |-> FALSE, more |-> FALSE, priority |-> 0]

Init ==
    /\ dc = NewDc(<<NewSession>>)
    /\ queue = <<>>
    /\ task = [t \in Tasks |-> NewTask(t)]
    /\ inputs = 0
    /\ faults = 0

\* The postcondition of placeSentRequest, Ensures(ok1 && ok2), held: the program
\* ends if it does not.
Running == \A t \in Tasks : \A a, b \in task[t].sent : a.offset = b.offset => a = b

\* The steps of the running program.
Input == inputs < MaxInputs /\ Running /\ inputs' = inputs + 1 /\ UNCHANGED faults
Fault == faults < MaxFaults /\ Running /\ faults' = faults + 1 /\ UNCHANGED inputs
Usual == Running /\ UNCHANGED <<inputs, faults>>

World == [dc |-> dc, queue |-> queue, task |-> task]

Becomes(w) ==
    /\ dc' = w.dc
    /\ queue' = w.queue
    /\ task' = w.task

-----------------------------------------------------------------------------
(* The queue.                                                              *)

\* A mutant: parts that wait for a hash are not counted.
CountsOnlySent(k) == k.sent # {}

HaveSentRequests(k) == k.sent # {} \/ k.unchecked # {}

\* The request _cdnHashesRequestId names; one that failed is not forgotten.
ForHashes(r) == r.kind \in {"hashes", "failed hashes"}

HaveSentRequestForOffset(k, o) == o \in {r.offset : r \in k.sent \cup k.unchecked}

\* A file that is cut asks for nothing more.
ReadyToRequest(k) == k.state = "on" /\ k.todo # {}

\* Queue::remove: a loader is in the queue once.
Without(q, t) ==
    IF \E i \in DOMAIN q : q[i].task = t
    THEN RemoveAt(q, CHOOSE i \in DOMAIN q : q[i].task = t)
    ELSE q

\* Queue::enqueue: before the first entry that is not more important.
InQueue(q, t, p) ==
    LET rest == Without(q, t)
        after == {i \in DOMAIN rest : rest[i].priority <= p}
    IN  InsertAt(rest, Min(after \cup {Len(rest) + 1}), [task |-> t, priority |-> p])

\* Queue::resetGeneration: the first run of zeros.
NextGeneration(q) ==
    [i \in DOMAIN q |->
        IF \E from \in 1 .. i : /\ \A j \in 1 .. from - 1 : q[j].priority # 0
                                /\ \A j \in from .. i : q[j].priority = 0
        THEN [q[i] EXCEPT !.priority = -1]
        ELSE q[i]]

\* Queue::nextTask: the places in the queue it may choose from.
NextTasks(w, onlyHighestPriority) ==
    LET q == w.queue
    IN  {i \in DOMAIN q :
            /\ ReadyToRequest(w.task[q[i].task])
            /\ onlyHighestPriority /\ q[1].priority > 0 =>
                    \A j \in 1 .. i : q[j].priority = q[1].priority}

-----------------------------------------------------------------------------
(* The amounts.                                                            *)

\* How many of the requests are with session i.
Requested(requests, i) == Cardinality({r \in requests : r.index = i})

\* changeRequestedAmount, by `sign' for each of the requests, with
\* killSessionsCancel and killSessionsSchedule.
ChangeRequestedAmount(d, requests, sign) ==
    LET sessions == [i \in DOMAIN d.sessions |->
                        [d.sessions[i] EXCEPT !.requested = @ + sign * Requested(requests, i)]]
        idle == \A i \in DOMAIN sessions : sessions[i].requested <= 0
    IN  IF requests = {} THEN d
        ELSE [d EXCEPT !.sessions = sessions, !.total = @ + sign * Cardinality(requests),
                       !.kill = sign < 0 /\ (@ \/ idle)]

PlaceSentRequest(w, t, data, kind) ==
    LET request == [offset |-> data.offset, index |-> data.index, kind |-> kind,
                    amount |-> w.dc.sessions[data.index].requested + 1, old |-> FALSE]
    IN  [w EXCEPT !.dc = ChangeRequestedAmount(@, {request}, 1),
                  !.task[t].sent = @ \cup {request}]

MakeRequest(w, t, data) == PlaceSentRequest(w, t, data, "part")

\* finishSentRequest of each of the requests, for the reasons Redirect and Cancel.
FinishSentRequests(w, t, requests) ==
    [w EXCEPT !.dc = ChangeRequestedAmount(@, requests, -1), !.task[t].sent = @ \ requests]

LoadPart(w, t, i) ==
    LET o == Min(w.task[t].todo)
    IN  MakeRequest([w EXCEPT !.task[t].todo = @ \ {o}], t, [offset |-> o, index |-> i])

\* min_element: the first of the least.
LeastLoaded(weight) ==
    Min({i \in DOMAIN weight : \A j \in DOMAIN weight : weight[i] <= weight[j]})

ChooseSessionIndex(w) ==
    LeastLoaded([i \in DOMAIN w.dc.sessions |-> w.dc.sessions[i].requested])

\* trySendNextPart; nothing changes when it answers false.
TrySendNextPart(w) ==
    LET sessions == w.dc.sessions
        best == LeastLoaded([i \in DOMAIN sessions |->
                    IF sessions[i].requested < sessions[i].maxWaited
                    THEN sessions[i].requested ELSE MaxWaited])
        next == NextTasks(w, w.dc.total > 0)
    IN  IF sessions[best].requested + 1 <= sessions[best].maxWaited /\ next # {}
        THEN LoadPart(w, w.queue[Min(next)].task, best)
        ELSE w

\* Each turn of the loop takes a part of some session's share; there is none
\* when no loader is ready.
CheckSendNext(w) ==
    LET after[turn \in 0 .. MaxSessions * MaxWaited] ==
            IF turn = 0 THEN w ELSE TrySendNextPart(after[turn - 1])
    IN  IF NextTasks(w, FALSE) = {} THEN w ELSE after[MaxSessions * MaxWaited]

\* DownloadManagerMtproto::enqueue and remove.
AddToQueue(w, t, p) == CheckSendNext([w EXCEPT !.queue = InQueue(@, t, p)])

\* A mutant: nobody looks for the next part.
RemovesSilently(w, t) == [w EXCEPT !.queue = Without(@, t)]

RemoveFromQueue(w, t) == CheckSendNext([w EXCEPT !.queue = Without(@, t)])

-----------------------------------------------------------------------------
(* Sessions are added while the answers are quick and removed after timeouts.*)

NoSuccesses(sessions) == [i \in DOMAIN sessions |-> [sessions[i] EXCEPT !.successes = 0]]

\* What requestSucceeded learns from a quick answer to a request that was not
\* sent beyond the session's share: a greater share, perhaps a session more.
\* `soon': the delay after the last removal of a session, if any, is not over.
Learn(d, r, soon) ==
    LET grown == [d.sessions EXCEPT
                    ![r.index].maxWaited = IF r.amount = @ /\ @ < MaxWaited THEN @ + 1 ELSE @,
                    ![r.index].successes = Min({@ + 1, RetrySuccesses * MaxRemoves})]
        enough == \A i \in DOMAIN grown :
                    grown[i].successes >= (d.removeTimes + 1) * RetrySuccesses
        reset == NoSuccesses(grown)
    IN  CASE ~enough -> [d EXCEPT !.sessions = grown]
          [] enough /\ d.timeouts > 0 -> [d EXCEPT !.sessions = reset, !.timeouts = @ - 1]
          [] enough /\ d.timeouts = 0 /\ (Len(grown) = MaxSessions \/ (soon /\ d.removeTimes > 0)) ->
                [d EXCEPT !.sessions = reset]
          [] OTHER -> [d EXCEPT !.sessions = Append(reset, NewSession)]

\* finishSentRequest for the reason Success, with requestSucceeded.  After a
\* slow answer sessionTimedOut is posted: SessionTimedOut, which may follow at
\* any time.  `pace': "slow", or "quick", or that and "soon" after a removal.
SucceedSentRequest(w, t, r, pace) ==
    LET v == FinishSentRequests(w, t, {r})
        overloaded == r.old \/ r.amount > v.dc.sessions[r.index].maxWaited
    IN  CheckSendNext(IF overloaded \/ pace = "slow" THEN v
                      ELSE [v EXCEPT !.dc = Learn(@, r, pace = "soon")])

\* cancelRequest of each of the requests; one for hashes is made again later.
CancelRequests(w, t, requests) ==
    LET v == FinishSentRequests(w, t, requests)
    IN  [v EXCEPT !.task[t].more =
            @ \/ (v.task[t].unchecked # {} /\ \E r \in requests : ForHashes(r))]

CancelAllRequests(w, t) ==
    [CancelRequests(w, t, w.task[t].sent) EXCEPT !.task[t].unchecked = {}]

\* A request of an offset, if there is one, is sent again to another session;
\* a request for hashes is only cancelled.
Redirect(w, t, requests) ==
    LET v == CancelRequests(w, t, requests)
        again == {r \in requests : ~ForHashes(r)}
        r == CHOOSE a \in again : TRUE
    IN  IF again = {} THEN v
        ELSE MakeRequest(v, t, [offset |-> r.offset, index |-> ChooseSessionIndex(v)])

\* A mutant: parts that wait for a hash stay with the session.
LeavesUnchecked(w, t, i) ==
    LET after[o \in 0 .. PartsCount] ==
            IF o = 0 THEN w
            ELSE Redirect(after[o - 1], t, {r \in w.task[t].sent : r.index = i /\ r.offset = o})
    IN  after[PartsCount]

\* DownloadMtprotoTask::removeSession.  Parts that wait for a hash do not change
\* an amount, so all of them get the same session.
RedirectFrom(w, t, i) ==
    LET away == [w EXCEPT !.task[t].unchecked =
                    {IF u.index = i THEN [u EXCEPT !.index = ChooseSessionIndex(w)] ELSE u :
                        u \in @}]
        after[o \in 0 .. PartsCount] ==
            IF o = 0 THEN away
            ELSE Redirect(after[o - 1], t, {r \in w.task[t].sent : r.index = i /\ r.offset = o})
    IN  after[PartsCount]

\* removeSession: what is sent until lastSessionRemove is set counts as old.
RemoveSession(w) ==
    LET i == Len(w.dc.sessions)
        full == [w EXCEPT !.dc.sessions[i].requested = @ + MaxWaited * MaxSessions]
        after[n \in 0 .. Len(w.queue)] ==
            IF n = 0 THEN full ELSE RedirectFrom(after[n - 1], w.queue[n].task, i)
        moved == after[Len(w.queue)]
        Old(r) == [r EXCEPT !.old = TRUE]
    IN  [moved EXCEPT
            !.dc.sessions = SubSeq(@, 1, i - 1),
            !.dc.removeTimes = IF w.dc.removeIndex = i THEN Min({@ + 1, MaxRemoves}) ELSE 1,
            !.dc.removeIndex = i,
            !.task = [t \in Tasks |-> [moved.task[t] EXCEPT !.sent = {Old(r) : r \in @}]]]

\* A mutant: the last session may be removed, and at the first timeout.
RemovesAny(i) ==
    /\ i \in DOMAIN dc.sessions
    /\ Usual
    /\ Becomes(RemoveSession(World))

\* The connection of a session timed out, or a request took too long.  The
\* session may be gone by now.
SessionTimedOut(i) ==
    /\ i \in DOMAIN dc.sessions
    /\ Usual
    /\ LET w == [World EXCEPT !.dc.sessions = NoSuccesses(@)]
           late == [w EXCEPT !.dc.timeouts = @ + 1]
       IN  Becomes(IF Len(dc.sessions) = 1 THEN w
                   ELSE IF dc.timeouts + 1 < RemoveAfterTimeouts THEN late
                   ELSE RemoveSession([late EXCEPT !.dc.timeouts = 0]))

\* The timer of killSessions: idle for kKillSessionTimeout.
KillSessions ==
    /\ dc.kill
    /\ dc' = NewDc([i \in DOMAIN dc.sessions |-> NewSession])
    /\ UNCHANGED <<queue, task>> /\ Usual

\* The timer of resetGeneration.
ResetGeneration ==
    /\ queue' = NextGeneration(queue)
    /\ UNCHANGED <<dc, task>> /\ Usual

-----------------------------------------------------------------------------
(* What the loaders do with a part.                                        *)

\* FileLoader::cancel: the loader stays in the queue until it is destroyed.
CancelFile(w, t) == [CancelAllRequests(w, t) EXCEPT !.task[t].state = "cancelled"]

\* cancelOnFail: a streamed file only reports the failure.
CancelOnFail(w, t) == IF t \in Files THEN CancelFile(w, t) ELSE w

\* feedPart for all of `offsets'; a streamed file passes the bytes on.  `short':
\* the bytes of one are no multiple of 1024, or none, which ends the file even
\* when parts are left (the last part is often short: none are).  `saved':
\* finalizeResult, if it comes to that, succeeds.
FeedParts(w, t, offsets, short, saved) ==
    LET state == IF short THEN "cut" ELSE w.task[t].state
        v == [w EXCEPT !.task[t].fed = @ \cup offsets, !.task[t].state = state]
        finished == ~HaveSentRequests(w.task[t]) /\ (state = "cut" \/ w.task[t].todo = {})
        end == IF ~saved THEN "cancelled" ELSE IF state = "cut" THEN "short" ELSE "done"
    IN  IF t \in Streams THEN w
        ELSE IF finished THEN [RemoveFromQueue(v, t) EXCEPT !.task[t].state = end]
        ELSE v

\* requestMoreCdnFileHashes, for the first part that waits.
RequestMoreCdnFileHashes(w, t) ==
    LET k == w.task[t]
    IN  IF k.unchecked = {} \/ \E r \in k.sent : ForHashes(r)
        THEN w
        ELSE LET first == CHOOSE u \in k.unchecked :
                            \A v \in k.unchecked : u.offset <= v.offset
             IN  PlaceSentRequest(w, t, first, "hashes")

AddCdnHashes(w, t, hashes) == [w EXCEPT !.task[t].hashes = @ \cup hashes]

\* All requests of the loader finished and made again, in the order of their
\* offsets, each with the session it was with: the amounts are what they were.
Renewed(w, t) ==
    LET sent == w.task[t].sent
        Amount(r) == w.dc.sessions[r.index].requested
                     - Cardinality({q \in sent : q.index = r.index /\ q.offset > r.offset})
    IN  {[r EXCEPT !.kind = "part", !.old = FALSE, !.amount = Amount(r)] : r \in sent}

\* changeCDNParams: when they are new, all requests are made again.
ChangeCDNParams(w, t, data, cdn, hashes) ==
    LET set == AddCdnHashes([w EXCEPT !.task[t].cdn = cdn], t, hashes)
        sent == IF w.task[t].cdn # cdn THEN Renewed(w, t) ELSE w.task[t].sent
    IN  MakeRequest([set EXCEPT !.task[t].sent = sent], t, data)

-----------------------------------------------------------------------------
(* Answers.  A request of kind "stale" waits for a new file reference; one *)
(* that failed got its last answer already.                                *)

\* A streamed file keeps a request that failed.
Fail(w, t, r) ==
    LET kind == IF ForHashes(r) THEN "failed hashes" ELSE "failed"
    IN  IF t \in Files THEN CancelFile(w, t)
        ELSE [w EXCEPT !.task[t].sent = (@ \ {r}) \cup {[r EXCEPT !.kind = kind]}]

\* normalPartLoaded, with bytes.  They may be impossible to write.
PartLoaded(t, r, pace, written, short, saved) ==
    /\ ~written \/ t \in Streams => ~short /\ saved
    /\ r.kind = "part" /\ ~task[t].cdn
    /\ IF written /\ ~short /\ saved THEN Usual ELSE Fault
    /\ LET w == SucceedSentRequest(World, t, r, pace)
       IN  Becomes(IF written THEN FeedParts(w, t, {r.offset}, short, saved)
                   ELSE CancelOnFail(w, t))

\* normalPartLoaded, with a redirection: switchToCDN.  The key or the iv may
\* have the wrong size.
Redirected(t, r, pace, hashes, usable) ==
    /\ t \in OnCdn
    /\ r.kind = "part" /\ ~task[t].cdn
    /\ IF usable THEN Usual ELSE Fault
    /\ LET w == SucceedSentRequest(World, t, r, pace)
       IN  Becomes(IF usable THEN ChangeCDNParams(w, t, r, TRUE, hashes)
                   ELSE CancelOnFail(w, t))

\* cdnPartLoaded, with bytes: their hash is unknown, wrong or good.
CdnPartLoaded(t, r, pace, valid, short, saved) ==
    /\ ~valid \/ t \in Streams => ~short /\ saved
    /\ r.kind = "part" /\ task[t].cdn
    /\ IF valid /\ ~short /\ saved THEN Usual ELSE Fault
    /\ LET w == SucceedSentRequest(World, t, r, pace)
           known == r.offset \in {u.offset : u \in w.task[t].unchecked}
           part == [offset |-> r.offset, index |-> r.index]
           waits == [w EXCEPT !.task[t].unchecked = IF known THEN @ ELSE @ \cup {part}]
       IN  Becomes(IF r.offset \notin w.task[t].hashes THEN RequestMoreCdnFileHashes(waits, t)
                   ELSE IF valid THEN FeedParts(w, t, {r.offset}, short, saved)
                   ELSE CancelOnFail(w, t))

\* cdnPartLoaded: the CDN does not have the part yet.
ReuploadNeeded(t, r) ==
    /\ r.kind = "part" /\ task[t].cdn
    /\ Fault
    /\ Becomes(PlaceSentRequest(FinishSentRequests(World, t, {r}), t, r, "reupload"))

ReuploadDone(t, r, hashes) ==
    /\ r.kind = "reupload"
    /\ Usual
    /\ Becomes(MakeRequest(AddCdnHashes(FinishSentRequests(World, t, {r}), t, hashes), t, r))

\* getCdnFileHashesDone: `wrong' is the first part whose hash is wrong.
GetCdnFileHashesDone(t, r, hashes, wrong, short, saved) ==
    /\ t \in Streams => ~short /\ saved
    /\ r.kind = "hashes"
    /\ IF ~short /\ saved THEN Usual ELSE Fault
    /\ LET w == AddCdnHashes(FinishSentRequests(World, t, {r}), t, hashes)
           k == w.task[t]
           checked == {u \in k.unchecked : u.offset \in k.hashes}
           good == {u \in checked : u.offset < wrong}
           fed == FeedParts([w EXCEPT !.task[t].unchecked = @ \ good], t,
                            {u.offset : u \in good}, short, saved)
       IN  Becomes(IF good = {} THEN CancelOnFail(w, t)
                   ELSE IF good # checked THEN CancelOnFail(fed, t)
                   ELSE RequestMoreCdnFileHashes(fed, t))

\* cdnPartFailed: the token is not valid any more.
TokenInvalid(t, r) ==
    /\ r.kind \in {"reupload", "hashes"} \/ (r.kind = "part" /\ task[t].cdn)
    /\ Fault
    /\ Becomes(ChangeCDNParams(FinishSentRequests(World, t, {r}), t, r, FALSE, {}))

\* partFailed: the request stays where it was.
PartFailed(t, r) ==
    /\ r.kind \in {"part", "reupload", "hashes"}
    /\ Fault
    /\ Becomes(Fail(World, t, r))

\* normalPartFailed: the file reference has to be refreshed.
ReferenceExpired(t, r) ==
    /\ r.kind = "part" /\ ~task[t].cdn
    /\ Fault
    /\ Becomes([World EXCEPT !.task[t].sent = (@ \ {r}) \cup {[r EXCEPT !.kind = "stale"]}])

\* refreshFileReferenceFrom, when the request is still there.
ReferenceRefreshed(t, r, fresh) ==
    /\ r.kind = "stale"
    /\ Usual
    /\ Becomes(IF fresh THEN MakeRequest(FinishSentRequests(World, t, {r}), t, r)
               ELSE Fail(World, t, r))

\* The call posted by cancelRequest.
MoreCdnFileHashes(t) ==
    /\ task[t].more
    /\ Usual
    /\ Becomes(RequestMoreCdnFileHashes([World EXCEPT !.task[t].more = FALSE], t))

-----------------------------------------------------------------------------
(* The owners of the loaders.                                              *)

\* FileLoader::start of a file that is not in the cache.
StartLoading(t) ==
    /\ task[t].state = "new"
    /\ Usual
    /\ Becomes(AddToQueue([World EXCEPT !.task[t].state = "on"], t, 0))

CancelLoading(t) ==
    /\ t \in Files /\ task[t].state \in {"on", "cut"}
    /\ Input
    /\ Becomes(CancelFile(World, t))

\* ~DownloadMtprotoTask.
Destroy(t) ==
    /\ task[t].state # "gone"
    /\ IF task[t].state \in {"done", "short", "cancelled"} THEN Usual ELSE Input
    /\ Becomes([RemoveFromQueue(CancelAllRequests(World, t), t)
                    EXCEPT !.task[t] = [NewTask(t) EXCEPT !.state = "gone"]])

\* LoaderMtproto::load, when _requested.add(o) answers true: the offset does not
\* wait yet, or waits with a lower priority because resetPriorities was called
\* since.  When it answers false nothing happens.
Load(t, o) ==
    /\ t \in Streams /\ task[t].state = "on"
    /\ ~HaveSentRequestForOffset(task[t], o)
    /\ Input
    /\ Becomes(AddToQueue([World EXCEPT !.task[t].todo = @ \cup {o}], t, task[t].priority))

\* LoaderMtproto::stop.
Stop(t) ==
    /\ t \in Streams /\ task[t].state = "on"
    /\ Input
    /\ Becomes(RemoveFromQueue([CancelAllRequests(World, t) EXCEPT !.task[t].todo = {}], t))

\* LoaderMtproto::cancel.
CancelForOffset(t, o) ==
    /\ t \in Streams /\ task[t].state = "on"
    /\ Input
    /\ IF HaveSentRequestForOffset(task[t], o)
       THEN LET requests == {r \in task[t].sent : r.offset = o}
                w == [CancelRequests(World, t, requests) EXCEPT
                        !.task[t].unchecked = {u \in @ : u.offset # o}]
            IN  Becomes(IF task[t].todo # {} THEN AddToQueue(w, t, task[t].priority) ELSE w)
       ELSE Becomes([World EXCEPT !.task[t].todo = @ \ {o}])

\* LoaderMtproto::tryRemoveFromQueue.
TryRemoveFromQueue(t) ==
    /\ t \in Streams /\ task[t].state = "on"
    /\ task[t].todo = {} /\ ~HaveSentRequests(task[t])
    /\ Usual
    /\ Becomes(RemoveFromQueue(World, t))

\* LoaderMtproto::setPriority.
SetPriority(t, p) ==
    /\ t \in Streams /\ task[t].state = "on" /\ task[t].priority # p
    /\ Input
    /\ LET w == [World EXCEPT !.task[t].priority = p]
       IN  Becomes(IF HaveSentRequests(task[t]) THEN AddToQueue(w, t, p) ELSE w)

\* How an answer may come; "soon" is quick when no session was removed.
Paces == {"quick", "slow"} \cup {p \in {"soon"} : dc.removeTimes > 0}

Answer(t, r) ==
    \/ \E pace \in Paces :
         \/ \E written, short, saved \in BOOLEAN : PartLoaded(t, r, pace, written, short, saved)
         \/ \E hashes \in {{}, {r.offset}}, usable \in BOOLEAN :
                Redirected(t, r, pace, hashes, usable)
         \/ \E valid, short, saved \in BOOLEAN : CdnPartLoaded(t, r, pace, valid, short, saved)
    \/ ReuploadNeeded(t, r)
    \/ \E hashes \in {{}, {r.offset}} :
         \/ ReuploadDone(t, r, hashes)
         \/ \E wrong \in 1 .. PartsCount + 1, short, saved \in BOOLEAN :
                GetCdnFileHashesDone(t, r, hashes, wrong, short, saved)
    \/ TokenInvalid(t, r)
    \/ PartFailed(t, r)
    \/ ReferenceExpired(t, r)
    \/ \E fresh \in BOOLEAN : ReferenceRefreshed(t, r, fresh)

Own(t) ==
    \/ MoreCdnFileHashes(t)
    \/ StartLoading(t)
    \/ CancelLoading(t)
    \/ Destroy(t)
    \/ \E o \in Offsets : Load(t, o) \/ CancelForOffset(t, o)
    \/ Stop(t)
    \/ TryRemoveFromQueue(t)
    \/ \E p \in {0, 1} : SetPriority(t, p)

Next ==
    \/ \E t \in Tasks : Own(t) \/ \E r \in task[t].sent : Answer(t, r)
    \/ \E i \in 1 .. MaxSessions : SessionTimedOut(i)
    \/ KillSessions
    \/ ResetGeneration

Spec == Init /\ [][Next]_vars

-----------------------------------------------------------------------------
Request ==
    [offset : Offsets, index : 1 .. MaxSessions, amount : Nat, old : BOOLEAN,
     kind : {"part", "reupload", "hashes", "stale", "failed", "failed hashes"}]

\* The variables have the shapes described above, and no session is given
\* more than its greatest share by trySendNextPart.
TypeOK ==
    /\ dc.sessions \in Seq([requested : Nat, successes : 0 .. RetrySuccesses * MaxRemoves,
                            maxWaited : StartWaited .. MaxWaited])
    /\ Len(dc.sessions) \in 1 .. MaxSessions
    /\ dc.timeouts \in 0 .. RemoveAfterTimeouts - 1
    /\ dc.removeTimes \in 0 .. MaxRemoves
    /\ dc.removeIndex \in 0 .. MaxSessions
    /\ dc.total \in Nat
    /\ dc.kill \in BOOLEAN
    /\ queue \in Seq([task : Tasks, priority : -1 .. 1])
    /\ \A t \in Tasks :
         /\ task[t].state \in {"new", "on", "cut", "done", "short", "cancelled", "gone"}
         /\ task[t].sent \subseteq Request
         /\ task[t].unchecked \subseteq [offset : Offsets, index : 1 .. MaxSessions]
         /\ task[t].todo \cup task[t].hashes \cup task[t].fed \subseteq Offsets

\* The requests on the way, each with its loader.
OnTheWay(w) == UNION {{t} \X w.task[t].sent : t \in Tasks}

\* The amounts the manager keeps are those of the requests on the way, in
\* every session and in all, and nobody remembers a session that was removed.
\* The assertions of changeRequestedAmount, requestSucceeded and removeSession
\* rest on it.  Killing the sessions is planned only while nothing is asked for.
AmountsMatch ==
    /\ \A i \in DOMAIN dc.sessions :
         dc.sessions[i].requested = Cardinality({p \in OnTheWay(World) : p[2].index = i})
    /\ dc.total = Cardinality(OnTheWay(World))
    /\ \A t \in Tasks : \A r \in task[t].sent \cup task[t].unchecked :
         r.index \in DOMAIN dc.sessions
    /\ dc.kill => dc.total = 0

\* A file is called finished only when every part of it was written or, after a
\* part that came short, when every part that was asked for was: parts on the way
\* or without a hash at that time are waited for.
FinishedIsWhole ==
    \A t \in Files : LET k == task[t]
                     IN  /\ k.state = "done" => k.fed = Offsets
                         /\ k.state = "short" => Offsets \ k.todo \subseteq k.fed

\* An answer about hashes makes room without a look for the next part; it may
\* come after the loader left the CDN.
UsesCdn(k) == k.cdn \/ k.unchecked # {} \/ k.hashes # {}

\* While nothing is asked for, no part is left ready, unless a loader with
\* nothing more to ask for is still in the queue: its owner removes or destroys
\* it, and that makes the manager look for the next part.  (Not so when CDNs are
\* used.)
NothingStalls ==
    dc.total = 0 /\ (\E i \in DOMAIN queue : ReadyToRequest(task[queue[i].task])) =>
        \/ \E i \in DOMAIN queue : LET k == task[queue[i].task]
                                   IN ~ReadyToRequest(k) /\ k.sent = {}
        \/ \E t \in Tasks : UsesCdn(task[t])
=============================================================================
