---------------------------- MODULE ReaderProofs ----------------------------
(***************************************************************************)
(* Who owns the slices of a reader, and whose semaphores are released, for *)
(* files of any size, any cache and any number of reads and restarts.      *)
(***************************************************************************)
EXTENDS StreamReader, TLAPS

\* The records keep their fields.
ThreadFields == {"at", "from", "till", "sem", "interrupted", "got", "header"}
MainFields == {"at", "part", "active", "again", "stopFlag", "stopPosted", "checkPosted"}
WaitFields == {"waiting", "cache", "sleeping"}

Fields == /\ DOMAIN stream = ThreadFields
          /\ DOMAIN main = MainFields
          /\ DOMAIN waits = WaitFields

NotRunning == {"off", "over"}

\* A call of stopStreamingAsync that still counts is of the thread that is over:
\* the next one is started only after it was taken back (File::start stops first).
StopIsDue == main.stopFlag => stream.at \in NotRunning

\* Only the thread itself says that it sleeps, and it takes that back when it
\* wakes up (stopSleep), so that Expects(_sleeping == nullptr) of stopStreaming
\* holds.
SleepsInside == waits.sleeping => stream.at \in {"process", "asleep"}

\* A semaphore about to be released by the main thread or by the thread of the
\* cache, or that one of them can find, is of a context that exists.
SemaphoreExists ==
    stream.at = "off" => /\ ~waits.waiting /\ ~waits.sleeping /\ waits.cache # "alive"
                         /\ main.at \notin {"rouse", "release"} /\ worker # "notify"

Inv == Fields /\ ThreadsApart /\ StopIsDue /\ SleepsInside /\ SemaphoreExists

LEMMA InitInv == Init => Inv
<1> SUFFICES ASSUME Init PROVE Inv
    OBVIOUS
<1>1. PICK active \in BOOLEAN :
         /\ stream = IF active THEN NewThread ELSE NoThread
         /\ main = [at |-> "free", part |-> NoPart, active |-> active, again |-> FALSE,
                    stopFlag |-> FALSE, stopPosted |-> 0, checkPosted |-> FALSE]
    BY DEF Init
<1>2. waits = [waiting |-> FALSE, cache |-> "none", sleeping |-> FALSE] /\ worker = "free"
    BY DEF Init
<1>3. stream.at = (IF active THEN "idle" ELSE "off") /\ DOMAIN stream = ThreadFields
    BY <1>1 DEF NewThread, NoThread, ThreadFields
<1>4. /\ main.active = active /\ main.stopFlag = FALSE /\ main.at = "free"
      /\ DOMAIN main = MainFields
    BY <1>1 DEF MainFields
<1>5. waits.waiting = FALSE /\ waits.cache = "none" /\ waits.sleeping = FALSE /\ DOMAIN waits = WaitFields
    BY <1>2 DEF WaitFields
<1> QED BY <1>2, <1>3, <1>4, <1>5
        DEF Inv, Fields, ThreadsApart, StopIsDue, SleepsInside, SemaphoreExists, NotRunning

-----------------------------------------------------------------------------
\* Steps, by what they do to who runs and who waits.

\* A wake changes nothing else.
LEMMA ReleaseKeeps ==
    ASSUME NEW s, DOMAIN s = ThreadFields, NEW v, v = Release(s)
    PROVE  v.at = s.at /\ DOMAIN v = ThreadFields
BY DEF Release, ThreadFields

\* The end of a look at the slices: the thread has a part, waits or goes on.
LEMMA FillInv ==
    ASSUME Inv, stream.at \in {"check", "recheck"}, UNCHANGED <<main, worker>>,
           \/ FillFails
           \/ \E w : TryToFill(w)
           \/ waits' = waits /\ stream' = [stream EXCEPT !.at = "wait"]
    PROVE  Inv'
<1> USE DEF Inv, Fields, ThreadsApart, StopIsDue, SleepsInside, SemaphoreExists, NotRunning,
            ThreadFields, MainFields, WaitFields
<1>1. CASE FillFails
    <2>1. PICK s : s = [stream EXCEPT !.at = "wait"]
        OBVIOUS
    <2>2. DOMAIN s = ThreadFields /\ s.at = "wait" /\ stream' = Release(s) /\ waits' = NobodyWaits
        BY <1>1, <2>1 DEF FillFails
    <2>3. stream'.at = "wait" /\ DOMAIN stream' = ThreadFields
        BY <2>2, ReleaseKeeps
    <2> QED BY <2>2, <2>3 DEF NobodyWaits
<1>2. CASE \E w : TryToFill(w)
    <2>1. PICK w : TryToFill(w)
        BY <1>2
    <2>2. PICK fill \in Fills(w) : reader' = fill.w /\ GoesOn(fill.filled)
        BY <2>1 DEF TryToFill
    <2>3. CASE fill.filled
        BY <2>2, <2>3 DEF GoesOn, NobodyWaits
    <2>4. CASE ~fill.filled
        BY <2>2, <2>4 DEF GoesOn
    <2> QED BY <2>3, <2>4
<1>3. CASE waits' = waits /\ stream' = [stream EXCEPT !.at = "wait"]
    BY <1>3
<1> QED BY <1>1, <1>2, <1>3

\* The steps of the thread itself.
LEMMA ThreadInv == Inv /\ Thread => Inv'
<1> SUFFICES ASSUME Inv, Thread PROVE Inv'
    OBVIOUS
<1> USE DEF Inv, Fields, ThreadsApart, StopIsDue, SleepsInside, SemaphoreExists, NotRunning,
            ThreadFields, MainFields, WaitFields
<1>1. CASE StartRead
    BY <1>1 DEF StartRead
<1>2. CASE StartFill
    BY <1>2, FillInv DEF StartFill
<1>3. CASE StartWaiting
    BY <1>3 DEF StartWaiting
<1>4. CASE CheckAgain
    BY <1>4, FillInv DEF CheckAgain
<1>5. CASE Acquire
    BY <1>5 DEF Acquire
<1>6. CASE HeaderIsDone
    BY <1>6 DEF HeaderIsDone
<1>7. CASE StartSleep
    BY <1>7 DEF StartSleep
<1>8. CASE ProcessBeforeSleep
    BY <1>8 DEF ProcessBeforeSleep
<1>9. CASE WakeUp
    BY <1>9 DEF WakeUp
<1>10. CASE Finish
    BY <1>10 DEF Finish
<1>11. CASE EndThread
    BY <1>11 DEF EndThread
<1> QED BY <1>1, <1>2, <1>3, <1>4, <1>5, <1>6, <1>7, <1>8, <1>9, <1>10, <1>11 DEF Thread

\* The main thread goes on with a part.
LEMMA GoOnInv ==
    ASSUME Inv, NEW w, NEW part, GoOn(w, part), stream'.at = stream.at, DOMAIN stream' = ThreadFields,
           DOMAIN waits' = WaitFields, worker' = worker, waits'.waiting = waits.waiting,
           waits'.cache = waits.cache, waits'.sleeping => waits.sleeping
    PROVE  Inv'
<1> USE DEF Inv, Fields, ThreadsApart, StopIsDue, SleepsInside, SemaphoreExists, NotRunning,
            ThreadFields, MainFields, WaitFields
<1>1. PICK at : at = CASE WantsPart(w) -> "request" [] part = NoPart -> "free" [] OTHER -> "push"
    OBVIOUS
<1>2. main' = [main EXCEPT !.part = part, !.at = at]
    BY <1>1 DEF GoOn
<1>3. at \in {"request", "free", "push"}
    BY <1>1, Zenon
<1> QED BY <1>2, <1>3

\* The steps of the main thread, of the loader and of the cache, but for the
\* start and the end of a thread.
LEMMA MainInv == Inv /\ (Handler \/ Posted \/ Loader \/ Cache \/ User \/ Wake) => Inv'
<1> SUFFICES ASSUME Inv, Handler \/ Posted \/ Loader \/ Cache \/ User \/ Wake PROVE Inv'
    OBVIOUS
<1> USE DEF Inv, Fields, ThreadsApart, StopIsDue, SleepsInside, SemaphoreExists, NotRunning,
            ThreadFields, MainFields, WaitFields
<1>1. CASE RequestParts
    <2>1. CASE main.active /\ Unsaved(reader) # {}
        BY <1>1, <2>1 DEF RequestParts, Handle
    <2>2. CASE ~(main.active /\ Unsaved(reader) # {})
        BY <1>1, <2>2, GoOnInv DEF RequestParts
    <2> QED BY <2>1, <2>2
<1>2. CASE LookSleeping
    <2>1. CASE waits.sleeping
        BY <1>2, <2>1 DEF LookSleeping, Handle
    <2>2. CASE ~waits.sleeping
        BY <1>2, <2>2, GoOnInv DEF LookSleeping
    <2> QED BY <2>1, <2>2
<1>3. CASE Rouse
    <2>1. GoOn(reader, main.part) /\ waits' = [waits EXCEPT !.sleeping = FALSE] /\ worker' = worker
        BY <1>3 DEF Rouse
    <2>2. stream'.at = stream.at /\ DOMAIN stream' = ThreadFields
        BY <1>3, ReleaseKeeps DEF Rouse
    <2> QED BY <2>1, <2>2, GoOnInv
<1>4. CASE QueuePart
    BY <1>4 DEF QueuePart, Handle
<1>5. CASE LookWaiting
    BY <1>5 DEF LookWaiting, Handle
<1>6. CASE ReleaseWaiting
    <2>1. stream'.at = stream.at /\ DOMAIN stream' = ThreadFields
        BY <1>6, ReleaseKeeps DEF ReleaseWaiting
    <2>2. /\ main.at = "release" /\ main' = [main EXCEPT !.at = "free", !.part = NoPart]
          /\ waits' = [waits EXCEPT !.waiting = FALSE] /\ worker' = worker
        BY <1>6 DEF ReleaseWaiting, Handle
    <2>3. /\ DOMAIN waits' = WaitFields /\ waits'.waiting = FALSE
          /\ waits'.cache = waits.cache /\ waits'.sleeping = waits.sleeping
        BY <2>2
    <2> QED BY <2>1, <2>2, <2>3
<1>7. CASE CheckCacheResultsForDownloader
    BY <1>7 DEF CheckCacheResultsForDownloader
<1>8. CASE StopStreamingAsync
    <2>1. /\ DOMAIN main' = MainFields /\ main'.at = main.at /\ main'.stopFlag = FALSE
          /\ main'.active = (main.active /\ ~main.stopFlag)
        BY <1>8 DEF StopStreamingAsync
    <2>2. UNCHANGED <<stream, worker>> /\ (waits' = waits \/ waits' = [waits EXCEPT !.waiting = FALSE])
        BY <1>8 DEF StopStreamingAsync
    <2>3. /\ DOMAIN waits' = WaitFields /\ waits'.waiting => waits.waiting
          /\ waits'.cache = waits.cache /\ waits'.sleeping = waits.sleeping
        BY <2>2
    <2> QED BY <2>1, <2>2, <2>3
<1>9. CASE StartClient
    BY <1>9 DEF StartClient, Handle
<1>10. CASE CancelClient
    BY <1>10 DEF CancelClient
<1>11. CASE DestroyReader
    BY <1>11 DEF DestroyReader, NobodyWaits, CacheLockFree
<1>12. CASE Wake
    <2>1. stream'.at = stream.at /\ DOMAIN stream' = ThreadFields
        BY <1>12, ReleaseKeeps DEF Wake
    <2> QED BY <1>12, <2>1 DEF Wake
<1>13. CASE NotifyThread
    <2>1. stream'.at = stream.at /\ DOMAIN stream' = ThreadFields
        BY <1>13, ReleaseKeeps DEF NotifyThread
    <2>2. /\ DOMAIN waits' = WaitFields /\ waits'.cache = "none" /\ waits'.waiting = waits.waiting
          /\ waits'.sleeping = waits.sleeping /\ worker' = "free" /\ main' = main
        BY <1>13 DEF NotifyThread
    <2> QED BY <2>1, <2>2
<1>14. CASE \E o \in Parts, fails \in BOOLEAN : ReadyPart(o, fails)
    BY <1>14, GoOnInv DEF ReadyPart
<1>15. CASE Loader
    BY <1>15, GoOnInv DEF Loader, DeliverPart, LoaderFails
<1>16. CASE \E i \in 1 .. Len(reader.reading) : CacheResult(i)
    BY <1>16 DEF CacheResult
<1> QED BY <1>1, <1>2, <1>3, <1>4, <1>5, <1>6, <1>7, <1>8, <1>9, <1>10, <1>11, <1>12, <1>13, <1>14, <1>15, <1>16
        DEF Handler, Posted, Cache, User

\* File::start and File::stop.
LEMMA FileInv == Inv /\ File => Inv'
<1> SUFFICES ASSUME Inv, File PROVE Inv'
    OBVIOUS
<1> USE DEF Inv, Fields, ThreadsApart, StopIsDue, SleepsInside, SemaphoreExists, NotRunning,
            ThreadFields, MainFields, WaitFields
<1>1. ASSUME NEW again, StopFile(again), stream.at \in NotRunning PROVE Inv'
    <2>1. stream' = (IF again THEN NewThread ELSE NoThread)
        BY <1>1 DEF StopFile
    <2>2. DOMAIN stream' = ThreadFields /\ stream'.at = IF again THEN "idle" ELSE "off"
        BY <2>1 DEF NewThread, NoThread
    <2>3. /\ DOMAIN main' = MainFields /\ main'.active = again /\ main'.stopFlag = FALSE
          /\ main'.at = "free"
        BY <1>1 DEF StopFile
    <2>4. /\ DOMAIN waits' = WaitFields /\ waits'.waiting = FALSE /\ waits'.sleeping = waits.sleeping
          /\ waits'.cache # "alive" /\ worker' # "notify"
        BY <1>1 DEF StopFile
    <2> QED BY <1>1, <2>2, <2>3, <2>4
<1>2. CASE Wake
    BY <1>2, MainInv
<1>3. CASE JoinThread
    BY <1>1, <1>3 DEF JoinThread
<1>4. CASE \E again \in BOOLEAN : StartFile(again)
    BY <1>1, <1>4 DEF StartFile
<1>5. CASE \E again \in BOOLEAN : InterruptThread(again)
    <2>1. PICK again \in BOOLEAN : InterruptThread(again)
        BY <1>5
    <2>2. PICK s : s = [stream EXCEPT !.interrupted = TRUE]
        OBVIOUS
    <2>3. DOMAIN s = ThreadFields /\ s.at = stream.at /\ stream' = Release(s)
        BY <2>1, <2>2 DEF InterruptThread
    <2>4. stream'.at = stream.at /\ DOMAIN stream' = ThreadFields
        BY <2>3, ReleaseKeeps
    <2> QED BY <2>1, <2>4 DEF InterruptThread
<1> QED BY <1>2, <1>3, <1>4, <1>5 DEF File

LEMMA StepInv == Inv /\ [Next]_vars => Inv'
<1>1. Inv /\ UNCHANGED vars => Inv'
    BY DEF vars, Inv, Fields, ThreadsApart, StopIsDue, SleepsInside, SemaphoreExists
<1> QED BY <1>1, ThreadInv, MainInv, FileInv DEF Next

-----------------------------------------------------------------------------
\* The inductive invariant.
THEOREM Invariant == Spec => []Inv
BY InitInv, StepInv, PTL DEF Spec

\* The slices and the downloader's offsets, which no lock guards, belong to one
\* thread at a time: whenever _streamingActive is false and the main thread uses
\* them (processDownloaderRequests), no streaming thread runs, however often the
\* file was stopped and started and however late the end of a thread is reported.
THEOREM OneOwnerOfSlices == Spec => []ThreadsApart
<1>1. Inv => ThreadsApart
    BY DEF Inv
<1> QED BY <1>1, Invariant, PTL

\* No semaphore of a context that is gone is released through _waiting or
\* _sleeping, and a stopped reader has no sleeping thread (the precondition of
\* stopStreaming).
THEOREM WakesAreSafe == Spec => [](SleepsInside /\ SemaphoreExists)
<1>1. Inv => SleepsInside /\ SemaphoreExists
    BY DEF Inv
<1> QED BY <1>1, Invariant, PTL
=============================================================================
