# Kotatogram Desktop: a TLA+ model of the client's core

Kotatogram is a Telegram desktop client in C++. Its core keeps a local copy of
the user's chats in step with a server over an unreliable connection, and loads
files over the same connection. This project models that core, checks it with
TLC on small instances and proves the most important results with TLAPS for
instances of any size. Paths below are relative to `Telegram/SourceFiles`.

## 1. Inventory

### 1.1 Components and the state they keep

| Component | State | Operations | Status |
|---|---|---|---|
| Updates (`data/data_pts_waiter`, `mainwidget.cpp`) | `_good`, `_last`, `_count`, flags and queue of every box; two timer maps; the open chat | updates, results of requests, differences, their failures, timers | modelled, except `seq` and `qts` |
| Requests per chat (`data/data_histories`) | requests put off and sent, read marks, callbacks waiting for a dialogs list entry | slices, deletions, messages, read marks, entries, cancelling | modelled, except three requests that share no state with the rest |
| MTProto session (`mtproto/session`, `session_private`, `details/received_ids_manager`) | requests to send, sent, to resend; containers; acknowledged ids; received ids | send, acknowledge, resend, state requests, new session, reconnect | modelled, except keys, salts, pings and clocks |
| MTProto instance (`mtproto/mtp_instance`) | callbacks per request, requests by data centre, delayed requests | send, cancel, FLOOD_WAIT, migration, import of authorisation, invokeAfter | modelled, except the life of sessions and keys |
| Downloads (`storage/download_manager_mtproto`, `file_download*`) | queues with priorities, requested bytes per session | enqueue, part done, timeout, add and remove a session, CDN | modelled for one data centre and files of known size |
| Streaming (`media/streaming`, `storage/streamed_file_downloader`) | slices of a file, what the cache has, who waits and who sleeps, parts loaded, the downloader's offsets | fill, wait, wake, sleep, stop, start again, download the whole file | reader and thread modelled; player not |
| Auth keys (`mtproto/details/*key*`, `dcenter`, `dc_options`) | persistent and temporary keys, who creates one | create, bind, destroy | planned |
| Uploads (`storage/file_upload`) | queue, bytes in flight per session | part sent, pause, cancel | planned |
| Sparse id lists (`storage/storage_sparse_ids_list`, `shared_media`) | slices of known ids, count | add, remove, query | planned |
| Scheduled messages (`data/data_scheduled_messages`) | local copies, requests | send, receive, remove | planned |
| Chat list (`dialogs`, `data/data_folder`) | order, unread counters | move, count | planned, late |
| Calls (`calls/calls_call`) | state of a call, timers | request, accept, confirm, discard | planned, late |
| Local storage, updater, crash reports, single instance (`storage/localstorage`, `core`) | files | read, write, lock | not modelled: files of three platforms |
| Data objects (`data`, `history/history*`) | in-memory objects | filled from answers | only the read border of `History` |
| Export, notifications, languages, players | | | not modelled: pipelines, timing of pop-ups, resources, FFmpeg and OpenAL |
| User interface, platform code | widgets | | not modelled; user actions are inputs |

### 1.2 How they interact

A session thread (`Session`) puts answers and updates into shared maps; the main
thread takes them out in `Session::tryToReceive` and calls the handlers registered
in `mtp_instance` (`RequestRegistry`), which moves a request to another data
centre, delays it or lets it wait for an authorisation before it reaches its
callback. Pushed updates go to `Updates` (`mtpUpdateReceived`), as do the results
of other components' requests (`sentUpdatesReceived`, `applyAffected*`,
`ptsReceived`). `Histories` decides when requests about a chat may go out; the read
mark and the deletions it sends come back to `Updates` through
`applyAffectedMessages` (its action `Affected`). `Downloads` shares sessions between
loaders; one kind of loader belongs to a reader of a streamed file
(`StreamReader`), which serves a decoding thread and a downloader at the same time.

Two of the modules have threads: `Session` (the session thread and the main
thread, each map under a lock of its own) and `StreamReader` (the streaming thread,
the main thread, a thread of the pool that brings results of the cache). In the
others every step is a handler of the main thread, and what
interleaves is the *order of events*: answers, pushed updates, timers, user
actions, calls postponed to the end of an event.

### 1.3 What is hard

- updates lost, overtaken, or arriving while a difference that covers them is
  on the way, of two numbering schemes at once (the common box, each channel);
- answers that are stale when they arrive, requests that fail and are retried,
  requests that are being taken from one map to another when the other thread
  looks for them;
- one timer serving several waits, one flag set by several callers;
- numbers of sessions remembered by requests while sessions are removed;
- a thread that says it waits just after what it waits for has come;
- assertions in the code that depend on all of the above.

`PROJECT.json` lists every such hazard at its line, with the properties that
watch it, or a note why none does.

### 1.4 Properties that make each part correct

- Updates: nothing up to `_good` was missed; a known gap is always being
  fetched; an answer still fits when it is used; application is in order; the
  box catches up; the open chat is polled.
- Requests per chat: all assertions of `data_histories.cpp`; no slice during a
  deletion; nobody waits in vain for an entry, a slice or a read mark.
- MTProto session: a request is answered at most once, with its own answer, and in
  the end; none is forgotten by acknowledging, resending or reconnecting; a message
  of the server is handled at most once.
- MTProto instance: a request is in exactly one place, can be found there to be
  cancelled, and is answered in the end.
- Downloads: what the manager believes to be requested is what is on the way; a
  finished file is whole; room in a session is used.
- Streaming: the assertions of the reader; only one thread at a time owns the
  slices; every read of the decoder ends; a downloader gets the whole file.
- Sparse lists (plan): a slice never claims to know a message it has not.

## 2. Modules

| Module | Contents |
|---|---|
| `PtsWaiter` | the methods of `PtsWaiter` as operators from one waiter state to the next |
| `Updates` | the boxes, their requests, timers and answers; server and network (external) |
| `UpdatesProofs` | the inductive invariant and the theorems about `Updates` |
| `MCUpdates` | instances of `Updates` |
| `Histories` | `Data::Histories` and the parts of `History` it calls |
| `HistoriesProofs` | the inductive invariant and the theorems about `Histories` |
| `MCHistories` | instances of `Histories` |
| `Session` | one MTProto session, both threads; connection and server (external) |
| `Rpc` | what a session promises to those who send requests; `Session` implements it |
| `SessionProofs` | ids keep their owner, answers and requests theirs, and `Session` implements `Rpc!Safety` |
| `ReceivedIds` | the ids of received messages, and which are forgotten |
| `ReceivedIdsProofs` | no message is handled twice |
| `RequestRegistry` | the requests of `MTP::Instance` and the default handling of errors |
| `RegistryProofs` | the inductive invariant and the theorems about `RequestRegistry` |
| `Downloads` | the download manager and two kinds of loaders |
| `DownloadsProofs` | what the operators of `Downloads` do, and that no part of a file is forgotten |
| `AmountsProofs` | the manager does not lose count and does not stall |
| `StreamReader` | the reader of a streamed file, its threads and its downloader |
| `ReaderProofs` | the slices have one owner, and the main thread never wakes a thread that is over through `_waiting` or `_sleeping` (the pointer in the cache helper is another matter, see 5) |

Definitions that start with the comment "A mutant" or "Mutant of" are deliberately
wrong variants of the definition that follows them; they are used to confirm that
each property can fail, and by nothing else.

### 2.1 PtsWaiter and Updates

A waiter is a record with the fields of the class. Three components are history
that no guard reads: `applied` (changes whose update was applied), `seen`
(changes counted since `_good` moved), `base` (changes that came with a snapshot,
not as updates). `own` holds the changes this client made itself, carried out
where the answer is handled.

| Code | Model |
|---|---|
| `PtsWaiter::init`, `setRequesting`, `setWaitingForSkipped`, ... | `InitPts`, `SetRequesting`, `SetWaitingForSkipped`, ... |
| `check`, `updated`, `updateAndApply` | `Check`/`CheckOk`, `AfterCheck`/`Updated`, `UpdateAndApply`, `UpdateAndApplyCounts` |
| `getDifference`, `getChannelDifference` | `GetDifference`, `GetChannelDifference` |
| `_whenGetDiffByPts`, `_whenGetDiffAfterFail` and their timers | `byPts`, `afterFail`, `ByPtsTimer`, `AfterFailTimer` |
| `gotState`, `gotDifference`, `gotChannelDifference` | `GotDifference` (with `AfterDifference`), `GotChannelDifference` (with `Continue`) |
| `failDifference`, `failChannelDifference` | `FailDifference` |
| `mtpUpdateReceived`, `sentUpdatesReceived`, `feedUpdate` | `PushUpdate`, `SentUpdates`, `Receive`, `UpdateNotLoaded` |
| `applyAffectedHistory`, `applyAffectedMessages`, `ptsReceived` | `Affected`, `PtsReceived` |
| `_byMinChannelTimer`, `mtpNewSessionCreated`, `updateChannelTooLong` | `MinChannelTimer`, `Resync`, `ChannelTooLong` |
| `ui_showPeerHistory`, `deleteHistory` | `OpenChat`, `CloseChat`, `LeaveChannel` |

Abstractions: an update is its `pts` and `count`, its contents are the set of
changes it stands for; a timer is armed or not and may fire at any moment; a
failed request is retried after an arbitrary time. Every request may fail, also
`updates.getState`, which is sent without a handler for errors. The server compares the pts
of a request with its own, its slices end where some update ended. An update is
handed over at most once: MTProto drops repeated messages (`NeverTwice` of
`ReceivedIds`), and `NeverOvercounted` depends on it.

### 2.2 Histories

`hist[h]` puts together what `Histories::_states`, the two callback maps and the
`History` object keep for a chat, and the requests whose handlers can still be
called (`wire`). Callbacks are the two that act on Histories themselves,
`"read"` (of `readInbox`) and `"delete"` (of `deleteHistory`); `"entry"` marks a
key without callbacks. `known` is what the chat knows of itself: `folderKnown()`,
and then `unreadCountKnown()`. An entry that is older than the read border tells the
folder and not the count (`ApplyDialogFields`). Setting an unread count of zero or one may move the read border
on to the last message; how far is an input (`border` of `SetUnreadCount`). `willReadWhen` is "has a time" or not; which marks are
due when `sendReadRequests` runs is an arbitrary set of the timed ones. A mark made
by a callback is sent inside that callback if it is due (`SendIfDue`), before
`dialogEntryApplied` looks at `sentReadTill`; marks of other chats that are due go out at
the end of the same step. An error of a read mark is handled like its answer, as the
code does (`data_histories.cpp:461`, `471`). What
`countStillUnreadLocal` finds in the loaded messages is an input. In one answer
with several chats the callbacks of all chats find the same last message.
`posted` is one flag for any number of queued calls: a second call finds an
empty map or one for which a call was posted. A chat the user is not a member
of (`trackUnreadMessages`) ignores read marks and is not modelled.

### 2.3 Session, Rpc and ReceivedIds

| Code | Model |
|---|---|
| `SessionData`: `_toSend`, `_haveSent`, `_receivedResponses` | `toSend`, `haveSent`, `responses`, each read and changed in a step of its own, as each has a lock of its own |
| `Session::sendPrepared`, `cancel`, `tryToReceive` | `SendPrepared`, `CancelBegin` and `CancelEnd` (two locks), `TryToReceive` (a response of a request that is delayed is delivered too: its callbacks are there) |
| `SessionPrivate::tryToSend`, `sendSecureRequest` | `TryToSend`; a request sent alone is in neither map between two locks (`session_private.cpp:669`, `696`), where only `cancel` can look: `CancelEnd` may then miss it (`SentAlone`) |
| `resend`, `resendMany` | `TakeOut` and `PutBack` (two locks), with the rest of the handler in `rest` |
| `handleOneReceived` | `RpcResult`, `MsgsAck`, `BadMsg`, `FatalBadMsg`, `ResetSession`, `MsgsStateInfo`, `NewSessionCreated` |
| `checkSentRequests`, reconnecting, stop and start | `CheckSentRequests`, `Connect`, `Disconnect`, `StopAndStart` |
| `requestsAcked` | `RequestsAcked`; the id it reads through an erased iterator is a free choice among what may be in its place (`"misread"` is noted in `odd`) |

A container is the set of ids in it. The connection keeps nothing when it breaks.
The server handles an id once per session; it may answer, acknowledge, refuse a
message with or without a reset of the session, or forget the session. `odd` is
history: an id was misread, or was dropped because `_ackedIds` was full.

`Rpc` is the abstract specification: a request is asked, answered with its own
answer or cancelled (`Safety`), and does not wait for ever (`Settles`; the two make
`Spec`). `Session!KeepsPromise` is `Rpc!Spec` under the mapping `Call`: `SendPrepared`, `CancelBegin` and
`TryToReceive` are its steps, everything else stutters.

`ReceivedIds` takes a packet apart: the messages of a container are registered one
by one, and `Shrink` comes only after the last.

### 2.4 RequestRegistry

Requests of the instance and where each is: in a session, in the list of delayed
requests or among the waiters of a data centre. `Delay` is the FLOOD_WAIT and
server-error branch of `onErrorDefault` (the doubled delay included), `Migrate`,
`Unauthorised`, `NotInited` and `WaitFailed` the others; `CheckDelayedRequests` and
the export and import of the authorisation follow the code line by line. Time is
counted in seconds from now; `Tick` lowers all of them. `SetMainDcId` includes
`killSession`, which removes two sessions: that of the old main data centre and, since
it was the main one, the session that the new main data centre had already
(`mtp_instance.cpp:594`). `Killed` are the requests in the two, `Unauthorized` the data
centres whose export or import was in one of them. In `ImportDone` the waiters sent
before the one that changes the main data centre go with the session too (`early`).
`lost` is history: the requests that the code itself gives up without an answer (see 5).

### 2.5 Downloads

Handlers call each other through the manager, so operators map a state of the
manager and all loaders to the next: an answer frees its session, the manager
sends the next part of *any* loader, and only then are the bytes used. Amounts are
in parts. How long a request took (`requestSucceeded` compares it with two limits)
is a free choice. A part that comes short sets `_lastComplete` (state `"cut"`): the file
asks for nothing more and is finished (`"short"`) when what was asked for has come; a
streamed file has no such end. Writing a part and finishing the file may fail. A streamed
file is stopped and asked for parts at any time (`Load`, `Stop`); which of them it asks
for first (`_requested` is ordered by priority) is left out: the smallest offset. `Running` stops a behaviour at the one point where the code breaks
a postcondition of its own (see 5).

### 2.6 StreamReader

| Code | Model |
|---|---|
| `Reader::Slices` and `Slice` | `reader.slice[0]` is the header, the others the slices; `ProcessPart`, `FillSlices`, `SerializeAndUnloadUnused`, ... |
| `_streamingActive`, `_stopStreamingAsync` | `main.active`, `main.stopFlag` |
| `_waiting`, `_cacheHelper->waiting`, `_sleeping` | `waits`; a pointer to a semaphore that is gone is `"stale"` |
| `File::Context::read` and `Reader::fill` | `StartRead`, `StartFill`, `StartWaiting`, `CheckAgain`, `Acquire` |
| `startSleep`, `wakeFromSleep`, `stopSleep` | `StartSleep` and `ProcessBeforeSleep`; `LookSleeping` and `Rouse`; `WakeUp` |
| the handler of a loaded part | `DeliverPart`, `QueuePart`, `LookWaiting`, `ReleaseWaiting`, one step per shared variable |
| `File::start`, `File::stop`, the end of the thread | `StartFile`, `InterruptThread`, `JoinThread`, `EndThread`, `StopStreamingAsync` |
| `readFromCache` and its answer | `ReadFromCache`, `CacheResult`, `NotifyThread` |
| `StreamedFileDownloader` | `StartClient`, `RequestParts` (no wake when nothing is left to save), `SavePart` (a failed write cancels the downloader), `CancelClient` |

Steps of different threads interleave wherever one reads a shared atomic or queue;
what is done under the mutex of the cache helper, or with data of one thread, is
one step. A part is its offset; what goes into the cache comes out as the same set
of parts. `ok` becomes false where an `Expects`, `Assert` or `Ensures` of the reader
would fail. The order in which the loader loads is left out.

## 3. Runs

| Run | What it shows | Bounds |
|---|---|---|
| `updates_boxes` | the common box and a channel under loss, overtaking, slices, failures, and pushes dropped because of the other box's request: nothing is lost, gaps are watched, answers are fresh; with fairness both catch up and the open chat is polled | pts up to 2 (common) and 3 (channel), updates of 1 and 2 changes: an update put off behind a gap, a slice in the middle, one change of the common box to drop the channel's updates |
| `updates_rough` | `GoodMeansApplied` under the roughest server: unknown pts, updates without a number, stale snapshots, too long differences, failures of every request; and a box stops asking only after one of the three steps of `DeadEnd` (`StaysAlive`) | pts up to 1 and 3 |
| `histories_two` | every assertion of `data_histories.cpp`, no slice during a deletion, the shared batch and the shared timer, an entry settled only when no change is on its way | two chats (symmetric), 3 inputs of 8 kinds, 2 message ids |
| `histories_live` | read marks, slices and entries arrive | one chat, 3 inputs |
| `received_ids` | no message is handled twice | 6 ids, a buffer of 2, packets of 3: it overflows inside a packet, and what is forgotten comes again |
| `session_faults` | no request is forgotten, no answer goes astray, with two faults in one behaviour | 2 requests, 5 messages, two faults of any of 8 kinds: cancellations, error answers, breaks, refusals of a message, a fatal refusal, a session lost by the server or reset, a missing answer asked after |
| `session_live` | the session implements `Rpc`, liveness included | 2 requests, 7 messages, one fault of any of 8 kinds |
| `registry` | a request is in one place, can be found there, the timer is right, every request settles | 2 requests, one of which may follow the other, 2 data centres, 4 errors or cancellations: a delay, a migration and a failed import in one behaviour. `early` of `ImportDone` next to a waiter for the main data centre takes a third request to get there: only the proofs reach it |
| `downloads` | amounts match, a finished file is whole up to a part that came short, nothing stalls | a file on a CDN and a streamed file of 2 parts each, 1 to 2 sessions, 2 inputs, 1 fault |
| `reader` | no assertion of the reader fails, the threads keep apart, reads end, the downloader is served | files of 2 parts (all in the header) and 3 parts (two slices, one in memory), with and without cache, 3 reads, failures and calls of the user |

The largest is `downloads` with 475,000 states (3 minutes), then `reader` with 356,000 and
`histories_two` with 328,000; `registry` has 55,000.

Bounds are constants with names and a comment saying so. `MaxInputs`, `MaxFaults`,
`MaxErrors` and `MaxEvents` limit how often somebody *starts* something, never the
reactions, so liveness is checked without cutting behaviours short. `MaxMsgId` of
`Session` bounds the messages the client makes; 7 is enough for every repetition that
one fault can cause, else `session_live` would report a request that waits.
`SemBound` limits the count of the semaphore: one wake too many makes a loop look
again and wait again, so counts above one add nothing. `CHECK_DEADLOCK FALSE` stands
where the system may stop: all inputs used, all answers handled. `Updates` and
`ReceivedIds` always have a step. In a long random
simulation of an instance with larger constants the two invariants of `reader` held as
well.

Two runs expect a violation; each is a disagreement between the code and what
it says of itself (quoted in `PROJECT.json`, `findings`):

- `updates_failed_channel`: `getDifferenceAfterFail` resets the requesting flag
  for the common box and not for channels, so the retry of a failed
  `getChannelDifference` returns at once, for ever. The channel drops all its
  updates until restart.
- `session_misread`: `requestsAcked` erases an entry of `toSend` and then reads the id
  of the request through the erased iterator. In a flat map that is the next
  entry, so when an answer arrives for a message that waits to be sent again, the
  response is saved for another request.

### 3.1 Fairness

- The Qt event loop runs armed timers, posted calls and received answers: weak
  fairness of `ByPtsTimer`, `AfterFailTimer`, `FailDifference`, `GotDifference`,
  `GotChannelDifference`, `SendDialogRequests`, `ReadRequestsTimer`, `DelayedTimer`,
  `TryToReceive`.
- MTProto repeats a request until it is answered (`KeepsPromise`): weak fairness of
  the answers in `Histories` and `RequestRegistry`, where an error need not come.
- In `Updates` an error is not progress: every request may fail, but a request
  repeated for ever is answered at some time (strong fairness of `ServerReply`).
- In `Session` the threads go on, the client connects again, the server handles what
  it gets and answers what it handled. `session_live` leaves out the behaviours in
  which an id is misread or trimmed (`Misreads = FALSE`): there the promise is broken, which is
  the finding above.
- In `StreamReader` the threads run, the cache and the loader answer, and the event
  loop comes to every call. Its fairness is written out (infinitely often not
  ready, or infinitely often a step) with the guards of the steps.
- Nothing is assumed about the user, the player, losses, or the order of anything.

## 4. Proofs

Each theorem holds for every value of the constants, from the assumption its model
names (`ConstantsAssumption`, `SessionAssumption`, ...: sets are finite where the code
has finitely many, bounds are numbers). The bounds on inputs, faults, ids and pts are
arbitrary. Each inductive invariant was checked with TLC before it was proved.

| Theorem | Statement | Beyond the assumption of its model |
|---|---|---|
| `UpdatesProofs!TypeCorrect`, `NothingLost`, `AnswersFresh`, `CountBounded` | `TypeOK`, `GoodMeansApplied`, `AnswerIsFresh`, `NeverOvercounted` | |
| `UpdatesProofs!GapsAreWatched`, `UpdatesInOrder` | `GapIsWatched`, `AppliedInOrder` | `[][NonePasses]_vars`: no update without a number and no snapshot is let through where there is a gap |
| `UpdatesProofs!RequestsStayAlive` | `StaysAlive` | |
| `HistoriesProofs!TypeCorrect`, `MarksOnlyGrow`, `AnswersFindTheState`, `SlicesWaitForDeletion`, `EntriesHaveOneMap`, `EntriesAreOnTheirWay`, `MarksHaveATimer`, `EntriesAreSettled` | every safety property of `Histories` | |
| `ReceivedIdsProofs!TypeCorrect`, `MessagesHandledOnce` | `TypeOK`, `NeverTwice` | |
| `SessionProofs!TypeCorrect`, `IdsAgree`, `AnswersAreOwn`, `RequestsAreHeld` | `TypeOK`, `OneOwner`, `OwnAnswer`, `NothingForgotten` | |
| `SessionProofs!SessionImplementsRpc` | `Rpc!Safety` under the mapping `Call` | no id is ever misread |
| `RegistryProofs!TypeCorrect`, `RequestsArePlaced`, `SessionsAreFound`, `DelaysAreTimed` | every safety property of `RequestRegistry` | |
| `DownloadsProofs!FinishedFilesAreWhole` | `FinishedIsWhole` | |
| `AmountsProofs!AmountsMatchUnlessOverbooked`, `TypesUnlessOverbooked`, `NothingStallsUnlessOverbooked` | `AmountsMatch`, `TypeOK`, `NothingStalls` | no session is removed while every other one is full (`[]~Overbooked(dc)`) |
| `ReaderProofs!OneOwnerOfSlices`, `WakesAreSafe` | `ThreadsApart`; `SleepsInside` and `SemaphoreExists` | |

The conditions of the third column are about behaviours, not constants: each names the one
step after which the code breaks the property. With zero in `Counts` or with `Snapshots` in
the bounds of `updates_boxes`, or with 4 parts and one part per session in those of
`downloads`, TLC finds the counterexample, and section 5 or the findings tell what happens.

### 4.1 Updates

`GoodMeansApplied` alone is not inductive: `check` moves `_good` to
`_last` because two *numbers* agree, `_last = _count`. Why does that mean that
every change in between was seen? The invariant `IInv` adds, per box:

- `CountersInv`: the changes counted since `_good` moved (`seen`) lie in
  `_good + 1 .. _last`, and there are exactly `_count - _good` of them. A subset
  of an interval with as many members as the interval is the interval
  (`NoneMissing`): so `_last = _count` means no change is missing.
- `ContentInv`: what was counted is applied, made by this client, or held in the
  queue, unless a difference is requested, which clears the queue and will
  bring it; the queue is not empty only while the waiter waits.
- `NetInv`: updates on the way are disjoint from each other and from `seen`, so
  nothing is counted twice.
- `ReplyInv`: an answer belongs to a request in flight and to the current `_good`,
  which does not move meanwhile, since nothing is counted while requesting.
- `ServerInv`: updates end at most at the server's pts.

There is one lemma per operator of `PtsWaiter` and one per action.

`GapInv` comes on top of `IInv`. `GapIsWatched` is not inductive
because the timer of a box is shared with the poll of the open chat, and
`checkForWaiting` takes the entry away when nobody waits: so a gap has to keep
`waitingForSkipped` as well (`Watched`), and the queue must not hold anything beyond
`_last` (`HeldBack`). An update counting for no change reaches the branch of `check` that
says "in order" inside a gap; `PassesGap` is that step, for an update or a snapshot, and
such updates are harmless anywhere else. The proofs go through a decomposition of
`Next` into what happens to one box (`NextBox`): a step of the waiter, of the network or
of the server. `RequestsStayAlive` goes through the same decomposition: the steps
that set the flag send a request, those that take the request away reset the flag or plan
a retry, except in the three dead ends.

### 4.2 Histories

The invariant `Inv` speaks of one chat at a time, except for the shared timer:

- `Kept`: the state is in `_states` exactly when it is not empty;
- `Requested`: every request sent can still be answered, slices wait exactly while a
  deletion is on its way;
- `Marked` with `Covered`: a read mark whose answer has not come is not above the mark
  sent last, or that one is settled and the border of what is read is beyond it.
  Without the second case the assertion of `sendReadRequest` about an older answer is
  not inductive: an answer to a later mark resets `sentReadTill`, and only the read
  border then keeps a new mark from being smaller than the one still on the wire;
- `Entered` and `Coming`: an entry is asked for again exactly while a change is on its
  way; a pending one has a call posted, one asked for and not put off has a request
  on its way that names its chat.

Handlers call each other, so each operator has a lemma saying which fields it changes;
`GoodBut(w, X)` is the invariant while the handlers of the requests in `X` run.

### 4.3 Session

`OneOwner` is the heart: a message id is known to the maps of both threads, to a
container, to a request being moved or cancelled, to the connection and to the
server, and all of them mean the same request (`Claim`). It holds because
new ids are above all earlier ones and different from each other (`NewIdRange`,
`NewIdsDiffer`) and because `replaceMsgId` moves all keys at once. `OwnAnswer` and
`NothingForgotten` follow step by step from it. For the refinement, `CancelIsAsked`
says that a request being cancelled has callbacks until `CancelEnd`. Misread ids are
in the model and excluded by the statements themselves, as in the runs.

### 4.4 RequestRegistry

`Placed` says "exactly one of three": the invariant splits it into `Somewhere` (at least
one, unless lost) and `Apart` (at most one), with `Asked` (only requests that were made are
known, delayed or waiting). A request given up (`lost`) stays apart too: it may still be
cancelled. `DelayedIsTimed` needs the list to be ordered and without
repetitions (`GoodList`) through `insert` before the first later entry, through taking
the due ones from the front, and through removing a cancelled one; the lemmas
at the head of the module say what these do to a sequence.

### 4.5 ReceivedIds

`NeverTwice` is not inductive: it needs `ForgottenIsOld`, that what was handled and is
not kept is older than all that is kept *and* that the map is then full, because that is
what `registerMsgId` tests. It is the assumption "at most once" of `Updates`.

### 4.6 StreamReader

What the folds over slices compute is not needed for who owns them: the flags of the
main thread, the place where the streaming thread is and the three pointers are
enough. `ThreadsApart` is not inductive because `stopStreamingAsync` may be posted long
before it runs: `StopIsDue` says that a report that still counts is of a thread that
is over, since `File::start` takes an old report back before a new thread runs.
`SemaphoreExists` states that with no thread none of `_waiting`, `_sleeping`, or a
pointer that another thread has already read, is left; the pointer that the cache
may keep is the `"stale"` one of section 5 and is excluded by its name.

### 4.7 Downloads

Handlers are operators that call one another, so the invariant has to hold at the
beginning and the end of a handler and something weaker in between. The proof has one
lemma per operator: what it does to the record of the data centre, to the queue and to
the loader it is called for, and that the other loaders only send (`Sends`).

`Good` is the invariant behind `FinishedIsWhole`: every part of a file that loads is to be
asked for, or asked for, or waits for its hash, or is written (`Sound`), also while it is
cut short: then what is to be asked for stays behind and nothing else does. Inside a handler of
loader `t`, `Mid(w, t, X)` says the same but for the parts `X` that the handler has in its
hands; `FeedParts` or a new request gives them back, whatever the manager has sent
for other loaders, or for this one, in between. The loops (`checkSendNext`, the redirection
of the requests of a session) are functions from the turn to the state;
that each turn stays inside the good states is enough, and no induction over data is needed.

`Fair` (in `AmountsProofs`) is the invariant behind `AmountsMatch`: the amounts of the sessions and the total are
the cardinalities of sets of requests on the way (`Agree`), every part that waits is with a
session that exists, a loader that is owed something is in the queue, once (`removeSession`
only reaches loaders in the queue). `Agree` takes an extra amount per session because
`removeSession` books `kMaxWaitedInSession * kMaxSessionsCount` on the session it removes
to keep requests away from it. While its requests go elsewhere, the argument is that some
other session had, together with it, less than that (`Roomy`): what leaves the one and
comes to the other keeps the sum, so the removed session is never the least loaded. That
is exactly the hypothesis `~Overbooked(dc)`. It is a condition on the behaviour: in the instance of the
run `downloads` it always holds.

`Quiet` is the invariant behind `NothingStalls`, on top of `Good` and `Fair`. Only
`requestSucceeded`, `enqueue` and `remove` call `checkSendNext`, and after it the manager is
`Awake`: either something is asked for or nobody in the queue is ready, because a ready
loader finds a session with room when nothing is on the way (the amounts are then zero,
which is where `Fair` comes in, and a session's share is at least one). Every other step
that may take the last request away has to be shown harmless: a file that is cancelled or
fails stays in the queue, not ready, and a streamed file keeps the request that failed; a
redirection sends the part again; what is left are the requests for hashes, which may end
or be given up in `removeSession` with nobody looking. `Tied` covers those: whoever asks for hashes has a CDN, hashes or parts that wait
for them, so the step falls under the exception that the property names. For
`removeSession` the argument runs through its loops as `Kept`: a loader that asked for a part
asks for one still.

### 4.8 Only model-checked

- Liveness (`CatchesUp`, `OpenChatAsksAgain`, `MarkArrives`, `SliceArrives`,
  `EntryArrives`, `Settles`, `FillReturns`, `DownloaderServed`) and with it the `Settles`
  part of `KeepsPromise`: fairness and `ENABLED` are out of the prover's reach.
- `AssertionsHold` of `StreamReader`: it speaks of what the folds over slices compute, and
  that needs induction over data.

## 5. Observations that are not findings

Where the code does something a reader may not expect and no line of the repository
says otherwise, the models do it too, and the properties name the exception.

Updates

- An update with `pts_count` zero that arrives in a gap makes `check` start the timer
  and answer true; `applySkippedUpdates` then applies what was put off and stops
  the timer, although an earlier change is missing. The gap is known and nobody waits
  for it (`GapIsWatched` and `AppliedInOrder` fail with zero in `Counts`). The pts that
  comes with a channel's full data (`ptsReceived`, `Snapshots`) takes the same path.
  It heals with the next update.
- The poll timer of a channel opened before its pts is known is used up without a
  request, and nothing starts it again when the pts comes: the channel is not polled
  until it is opened again or a difference of it was fetched for another reason.
  `OpenChatAsksAgain` starts where the timer runs and the pts is known.
- `updates.differenceTooLong` is only logged: the common box would stay requesting
  for ever. The server does not send it unless `pts_total_limit` is set.
- `updates.getState` is sent without a handler for errors (`mainwidget.cpp:3233`) while the
  common box is marked as requesting: after an error nothing asks again and pushed updates
  are dropped. With `differenceTooLong` and the failed channel difference of the findings
  these are all ways to stop asking (`DeadEnd`, `StaysAlive`).

Requests per chat

- After a deletion is over, an older `getPeerDialogs` answer still on the way runs
  the callbacks of an entry that has been queued again (`data_histories.cpp:299`).
  If the answer comes before the postponed call, the entry is not asked for again
  and the unread count of the older answer stays.
- `sendDialogRequests` sends a request for no chats at all when every pending chat
  is put off.
- `dialogEntryApplied` keeps a pointer into `_states` while callbacks run that may
  add the state of another chat (`data_histories.cpp:330`).

Session and instance

- An acknowledged id may be trimmed from `_ackedIds` in the same call that adds it
  if the map holds more than `kIdsBufferSize` newer ids; its answer is then dropped.
- A delayed request to the main data centre is sent again to the one that was the
  main one when it was first sent.
- A change of the main data centre removes its session and also the session that the new
  main data centre had (`mtp_instance.cpp:594`): the requests in both are lost without an
  answer, except the one that caused the change, as are exports and imports in them.
- A request is lost without an answer as well when the export or import of an authorisation it waits for
  fails, or when MSG_WAIT_FAILED comes after the request it follows has been sent
  again (`lost` in `RequestRegistry`).

Downloads

- A part that comes empty or with a size that is not a multiple of 1024 ends a file, even
  in the middle of one of known size: the parts not yet asked for are never asked for and
  the file counts as finished (`file_download_mtproto.cpp:109`; the second case of `FinishedIsWhole`).
- An answer about CDN hashes makes room in a session and does not look for the next
  part of another loader: with nothing else on the way the other loader waits
  until something else happens (the exception of `NothingStalls`).
- `removeSession` books `kMaxWaitedInSession * kMaxSessionsCount` on the session it removes
  ("Make sure we don't send anything to that session while redirecting"). Answers,
  redirections and CDN parts send without a look at the share of a session, so every
  other session may have more than that: then a request is sent to the very session
  that is removed, and the assertion after it fails (`Overbooked`; one part per session
  and 4 parts are enough for TLC, with the real constants it takes more than 128 parts on
  the way).
- When a CDN token is refused while a part waits for its hashes,
  `changeCDNParams` asks for that offset again, and the answer about hashes may ask
  once more: two requests for one offset, against `Ensures(ok1 && ok2)` of
  `placeSentRequest`. `Running` ends such a behaviour.

Streaming

- Neither an acknowledgement of the downloader nor a result of the cache wakes the
  sleeping thread; only `loadForDownloader` does. The downloader keeps 8 parts
  requested, the reader asks for 4: near the end of a file no request follows, and
  the last parts wait until the player wants more (`Overslept`).
- `cancelForDownloader` leaves `_downloaderOffsetAcks`, `_offsetsForDownloader` and
  `_downloaderOffsetsRequested` as they are: an acknowledgement of the old downloader
  may remove a request of the next one, and an offset that was asked for and
  never came is not asked for again.
- `stopStreaming` resets `_waiting` and not `_cacheHelper->waiting`, so a result of the
  cache may be reported to the semaphore of a context that is gone (`Untold`; in the
  model nobody is woken, and the downloader is not told either).
- A slice without changes is unloaded without `cancelLoadInRange`. A part of it that
  comes later is added to a slice that is not loaded from the cache, hence not
  marked as changed; the slice counts as full and is dropped unsaved, so
  `fullInCache()` may be true of a file that is not. It takes parts loaded ahead
  (`PreloadAhead = 1`, `LoadMax = 2`, a file of 3 parts with part 0 or parts 0 and 2
  cached).

## 6. Not modelled, and why

Most of the 340,000 lines are widgets, layout, painting, platform integration,
generated-like request handlers (`apiwrap.cpp`) and data objects filled from
answers; a model of them would repeat their assignments. Cryptography and byte
framing, FFmpeg, OpenAL and the call engine are external. File formats and locks of
`storage/localstorage` and the updater depend on three file systems. What those
parts do *to* the modelled ones appears as inputs: the user opens, deletes, reads,
plays, cancels.

## 7. Plan

Models, in this order:

1. `UpdatesSeq`: the `seq` numbers of update packets (`updSetState`, `feedUpdates`,
   `_bySeqUpdates`, `_bySeqTimer`) on top of the common box.
2. `Uploads`: one queue over several sessions, pausing and cancelling.
3. `SparseIds`: merging slices against a set of messages as the reference.
4. `KeyCreation`, `ScheduledMessages`, `Call`, chat list counters.

Theorems: `AssertionsHold` of `StreamReader`, once the folds over slices have closed forms.
