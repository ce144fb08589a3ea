----------------------------- MODULE StreamReader -----------------------------
(***************************************************************************)
(* The reader of a streamed file (media/streaming/media_streaming_reader), *)
(* the thread that decodes it (media_streaming_file) and a downloader that *)
(* saves the whole file from the same reader                               *)
(* (storage/streamed_file_downloader).                                     *)
(*                                                                         *)
(* Three threads: the streaming thread fills the buffers of the decoder    *)
(* and sleeps when it has decoded enough; the main thread gets the parts   *)
(* from the network and serves the downloader; a thread of the pool brings *)
(* what was read from the cache.  While streaming is active the slices and *)
(* the downloader's offsets belong to the streaming thread, else to the    *)
(* main thread.                                                            *)
(*                                                                         *)
(* Offsets are counted in parts (kPartSize) from 0; slices from 1, number  *)
(* 0 is the header.  The decoder, the player, the network and the cache    *)
(* are external.  Bytes are left out: what is put into the cache comes out *)
(* as the same set of parts.  The order in which the loader loads is left  *)
(* out, so a part that is asked for may be asked for again.                *)
(***************************************************************************)
EXTENDS Integers, Sequences, FiniteSets, SequencesExt, FiniteSetsExt

CONSTANTS
    Sizes,              \* the sizes a file may have
    PartsInSlice,       \* kPartsInSlice
    MaxOnlyInHeader,    \* kMaxOnlyInHeader: smaller files are in the header
    MaxPartsInHeader,   \* kMaxPartsInHeader
    OutsideFirstGood,   \* kPartsOutsideFirstSliceGood
    SlicesInMemory,     \* kSlicesInMemory
    PreloadAhead,       \* kPreloadPartsAhead
    LoadMax,            \* kLoadFromRemoteMax
    DownloaderLimit,    \* kDownloaderRequestsLimit
    RequestLimit,       \* kRequestPartsCount of the downloader
    CachedAtStart,      \* the parts that the cache may hold at the start
    UsesCache,          \* is the file remote (then it is cached) or local?
    ReadParts,          \* how many parts a read of the decoder touches
    SemBound,           \* bound: the count of the semaphore
    MaxEvents           \* bound: reads of the decoder, failures of the loader or of the
                        \* file and requests of the user, together

ASSUME StreamReaderAssumption ==
    /\ Sizes \subseteq Nat \ {0} /\ CachedAtStart \subseteq SUBSET Nat
    /\ {PartsInSlice, MaxPartsInHeader, SlicesInMemory, LoadMax, DownloaderLimit, RequestLimit}
         \subseteq Nat \ {0}
    /\ {MaxOnlyInHeader, OutsideFirstGood, PreloadAhead, SemBound, MaxEvents} \subseteq Nat
    /\ UsesCache \subseteq BOOLEAN /\ ReadParts \subseteq 1 .. PartsInSlice + 1

VARIABLES
    size,    \* of the file; never changes
    reader,  \* the reader, what was asked of the loader and the cache, the downloader
    waits,   \* who waits: _waiting, _cacheHelper->waiting and _sleeping
    stream,  \* the streaming thread and its File::Context
    main,    \* the main thread; `active' is _streamingActive, which only it uses
    worker,  \* the thread that brings a result of the cache
    events   \* how many reads, failures and requests of the user there were

vars == <<size, reader, waits, stream, main, worker, events>>

Failed == -1    \* LoadedPart::kFailedOffset
Unread == {-1}  \* not read from the cache (yet)
NotThere == {-2} \* no entry in a map

Parts == 0 .. size - 1
SlicesCount == IF size <= MaxOnlyInHeader THEN 0 ELSE (size + PartsInSlice - 1) \div PartsInSlice
SliceOf(o) == o \div PartsInSlice + 1
InSlice(n) == IF n = 0 THEN Parts ELSE {o \in Parts : SliceOf(o) = n}
IsFullInHeader == size <= MaxOnlyInHeader

ComputeIsGoodHeader(parts) ==
    ~IsFullInHeader /\ Cardinality({o \in parts : o >= PartsInSlice}) <= OutsideFirstGood

\* The first `count' of a set.
FirstOf(S, count) == {o \in S : Cardinality({p \in S : p < o}) < count}

-----------------------------------------------------------------------------
(* Slices.  An operator maps the reader to the next one; `ok' becomes false*)
(* where an assertion of the code fails.  slice[0] is _header.             *)

NoSlice == [parts |-> {}, loading |-> FALSE, loaded |-> FALSE, changed |-> FALSE, full |-> FALSE]

IsGoodHeader(w) == w.mode = "Good"
HeaderModeUnknown(w) == w.mode = "Unknown"
Asserted(w, holds) == [w EXCEPT !.ok = @ /\ holds]

\* The slices in S change as Op says.
InSlices(w, S, Op(_)) ==
    FoldLeft(LAMBDA v, n : [v EXCEPT !.slice[n] = Op(@)], w, SetToSortSeq(S, <))

\* Slice::addPart for some parts.
AddParts(w, n, parts) ==
    LET s == w.slice[n]
    IN  [Asserted(w, parts \cap s.parts = {}) EXCEPT
            !.slice[n] = [s EXCEPT !.parts = @ \cup parts, !.changed = @ \/ (s.loaded /\ parts # {})]]

CheckFullInCache(w) ==
    IF IsFullInHeader THEN w.slice[0].full ELSE \A n \in 1 .. SlicesCount : w.slice[n].full

CheckSliceFullLoaded(w, n) ==
    LET loaded == w.slice[n].parts = InSlice(n)
        v == [w EXCEPT !.slice[n].full = loaded]
    IN  IF (n = 0 /\ ~IsFullInHeader) \/ w.slice[n].full = loaded THEN w
        ELSE [v EXCEPT !.full = loaded /\ CheckFullInCache(v)]

HeaderDone(w, fromCache) ==
    LET mode == IF IsFullInHeader THEN "Full"
                ELSE IF ComputeIsGoodHeader(w.slice[0].parts) THEN "Good" ELSE "Small"
        clean == \A n \in 1 .. SlicesCount : ~w.slice[n].loading /\ ~w.slice[n].loaded
        v == [w EXCEPT !.mode = mode]
    IN  IF ~HeaderModeUnknown(w) THEN w
        ELSE IF fromCache THEN v
        ELSE InSlices(Asserted(v, clean), 1 .. SlicesCount, LAMBDA s : [s EXCEPT !.loaded = TRUE])

\* The parts of the header go to the slices that `applies' names.
ApplyHeader(w, applies) ==
    FoldLeft(LAMBDA v, n : AddParts(v, n, w.slice[0].parts \cap InSlice(n)), w, applies)

ApplyHeaderCacheData(w) ==
    LET all == [n \in 1 .. SlicesCount |-> n]
    IN  IF w.slice[0].parts = {} THEN w
        ELSE IF IsGoodHeader(w) THEN ApplyHeader(w, <<1>>)
        ELSE IF ~HeaderModeUnknown(w) THEN w
        ELSE HeaderDone(ApplyHeader(w, all), TRUE)

\* Slice::processCacheData.
ProcessCacheData(w, n, parts) ==
    LET s == w.slice[n]
    IN  [Asserted(w, s.loading /\ ~s.loaded) EXCEPT
            !.slice[n] = [s EXCEPT !.parts = @ \cup parts, !.loading = FALSE, !.loaded = TRUE]]

\* A good header comes with the first slice.
FirstSliceComes(w) == IF IsGoodHeader(w) THEN [w EXCEPT !.slice[1].loading = TRUE] ELSE w

\* Mutant of ProcessCacheResult: a slice that was unloaded gets the result too.
ApplyAnyResult(w, n, parts) ==
    LET first == n = 0 /\ IsGoodHeader(w)
        v == IF first THEN [w EXCEPT !.slice[0].loading = TRUE, !.slice[0].loaded = FALSE] ELSE w
        read == CheckSliceFullLoaded(ProcessCacheData(v, n, parts), n)
    IN  IF n > 0 THEN read ELSE FirstSliceComes(ApplyHeaderCacheData(read))

\* A result nobody waits for any more is ignored: the slice was unloaded.
ProcessCacheResult(w, n, parts) ==
    LET first == n = 0 /\ IsGoodHeader(w)
        v == IF first THEN [w EXCEPT !.slice[0].loading = TRUE, !.slice[0].loaded = FALSE] ELSE w
        read == CheckSliceFullLoaded(ProcessCacheData(v, n, parts), n)
    IN  IF (IF first THEN ~w.slice[1].loading ELSE ~w.slice[n].loading) THEN w
        ELSE IF n > 0 THEN read
        ELSE FirstSliceComes(ApplyHeaderCacheData(read))

ProcessCachedSizes(w, sizes) ==
    LET v == InSlices(w, sizes, LAMBDA s : [s EXCEPT !.full = TRUE])
    IN  [v EXCEPT !.full = \A n \in 1 .. SlicesCount : v.slice[n].full]

ProcessPart(w, o) ==
    LET n == SliceOf(o)
        header == w.slice[0].parts
        v == IF HeaderModeUnknown(w) /\ Cardinality(header) < MaxPartsInHeader
             THEN AddParts(w, 0, {o}) ELSE w
    IN  IF IsFullInHeader THEN CheckSliceFullLoaded(AddParts(w, 0, {o}), 0)
        ELSE IF HeaderModeUnknown(w) /\ o \in header THEN w
        ELSE CheckSliceFullLoaded(AddParts(v, n, {o}), n)

HeaderWontBeFilled(w) ==
    HeaderModeUnknown(w) /\ Cardinality(w.slice[0].parts) >= MaxPartsInHeader

\* Slice::prepareFill: what is missing, and some parts ahead of the demand.
OffsetsFromLoader(w, n, from, till) ==
    LET missing == (from .. till - 1) \ w.slice[n].parts
        start == IF missing = {} THEN till ELSE Min(missing)
    IN  FirstOf((start .. till + PreloadAhead - 1) \ w.slice[n].parts, LoadMax) \cap InSlice(n)

UnloadSlice(w, n) == [w EXCEPT !.slice[n] = [NoSlice EXCEPT !.full = w.slice[n].full]]

Entry(parts, included) == [parts |-> parts, included |-> included]
NoEntry == Entry({}, {})

\* serializeAndUnloadSlice; the first slice goes with a good header.
SerializeAndUnloadSlice(w, number) ==
    LET n == IF IsGoodHeader(w) /\ number = 1 THEN 0 ELSE number
        both == IsGoodHeader(w) /\ n = 0
        parts == w.slice[n].parts
        v == Asserted(w, parts # {} /\ (both => w.slice[1].loaded))
        rest == IF both THEN UnloadSlice(v, 1) ELSE v
    IN  [number |-> n,
         data |-> Entry(parts, IF both THEN w.slice[1].parts \ parts ELSE {}),
         w |-> IF n > 0 THEN UnloadSlice(rest, n) ELSE [rest EXCEPT !.slice[0].changed = FALSE]]

NothingToCache(w) == [number |-> -1, data |-> NoEntry, w |-> w]

\* markSliceUsed.
MarkSliceUsed(w, n) == [w EXCEPT !.used = Append(SelectSeq(@, LAMBDA k : k # n), n)]

SerializeAndUnloadUnused(w) ==
    LET n == Head(w.used)
        s == w.slice[n]
        v == [w EXCEPT !.used = Tail(@)]
        save == \/ s.changed
                \/ IsGoodHeader(w) /\ n = 1 /\ w.slice[0].changed
    IN  IF HeaderModeUnknown(w) \/ Len(w.used) <= SlicesInMemory THEN NothingToCache(w)
        ELSE IF ~s.loaded THEN NothingToCache(v)
        ELSE IF w.mode = "NoCache" \/ ~save THEN NothingToCache(UnloadSlice(v, n))
        ELSE SerializeAndUnloadSlice(v, n)

\* unloadToCache, again and again until nothing is left to save.
UnloadToCache(w) ==
    LET changed == {n \in 0 .. SlicesCount : w.slice[n].changed}
    IN  IF w.mode \in {"Unknown", "NoCache"} \/ changed = {} THEN NothingToCache(w)
        ELSE SerializeAndUnloadSlice(w, Min(changed))

\* Slices::fill: filled or not, what to read from the cache, what to load, and
\* what leaves the memory.
FillSlices(w, from, till) ==
    LET touched == IF IsFullInHeader THEN {0} ELSE {SliceOf(from), SliceOf(till - 1)}
        Wanted(n) == (from .. till - 1) \cap InSlice(n)
        Absent(n) == /\ n > 0 /\ w.mode \notin {"NoCache", "Unknown"}
                     /\ ~w.slice[n].loaded
        ready == \A n \in touched : Wanted(n) \subseteq w.slice[n].parts
        offsets == FirstOf(UNION {OffsetsFromLoader(w, n, Min(Wanted(n)), Max(Wanted(n)) + 1) :
                                    n \in {k \in touched : ~Absent(k)}}, LoadMax)
        read == {n \in touched : Absent(n) /\ ~w.slice[n].loading}
        inOrder == SetToSortSeq(touched \ {0}, <)
        unload == SerializeAndUnloadUnused(FoldLeft(MarkSliceUsed, w, inOrder))
        left == IF IsFullInHeader THEN NothingToCache(w) ELSE unload
        marked == InSlices(w, read, LAMBDA s : [s EXCEPT !.loading = TRUE])
    IN  IF w.mode # "NoCache" /\ ~w.slice[0].loaded
        THEN [filled |-> FALSE, offsets |-> {}, read |-> {},
              out |-> NothingToCache(Asserted(w, w.slice[0].loading))]
        ELSE IF ready THEN [filled |-> TRUE, offsets |-> offsets, read |-> {}, out |-> left]
        ELSE [filled |-> FALSE, offsets |-> offsets, read |-> read, out |-> NothingToCache(marked)]

-----------------------------------------------------------------------------
(* The reader and the cache.                                               *)

\* Results of a read: a slice may come with the header.
ReadFromCache(w, number) ==
    LET n == IF number = 1 /\ IsGoodHeader(w) THEN 0 ELSE number
        sizes == IF HeaderModeUnknown(w)
                 THEN {k \in 1 .. SlicesCount : w.stored[k].parts = InSlice(k)} ELSE {}
    IN  [Asserted(w, number = 0 \/ ~HeaderModeUnknown(w)) EXCEPT
            !.reading = Append(@, [number |-> n, data |-> w.stored[n], sizes |-> sizes])]

PutToCache(w, out) == IF out.number < 0 THEN w ELSE [w EXCEPT !.stored[out.number] = out.data]

HasCache(w) == w.mode # "NoCache"

WithSizes(w, sizes) == IF sizes # {} THEN ProcessCachedSizes(w, sizes) ELSE w
HeaderIsWhole(w, came) == Asserted(w, 0 \in came /\ IsGoodHeader(w) => 1 \in came)

\* processCacheResults: what is next, and whether something came.
ProcessCacheResults(w) ==
    LET came == {n \in 0 .. SlicesCount : w.results[n] # Unread}
        wanted == {n \in came \ {0} : w.readCache[n] = Unread}
        taken == [w EXCEPT !.results = [n \in 0 .. SlicesCount |-> Unread], !.sizes = {}]
        kept == FoldLeft(LAMBDA v, n : [v EXCEPT !.readCache[n] = w.results[n]],
                         taken, SetToSortSeq(wanted, <))
        given == FoldLeft(LAMBDA v, n : ProcessCacheResult(v, n, w.results[n]),
                          kept, SetToSortSeq(came, <))
    IN  IF w.error # "none" THEN [w |-> kept, more |-> FALSE]
        ELSE [w |-> HeaderIsWhole(WithSizes(given, w.sizes), came), more |-> came # {}]

\* processLoadedParts: those after a failure are dropped.
ProcessLoadedParts(w) ==
    LET bad == SelectInSeq(w.loadedParts, LAMBDA o : o = Failed)
        good == IF bad = 0 THEN w.loadedParts ELSE SubSeq(w.loadedParts, 1, bad - 1)
        Use(v, o) == IF o \in v.loading
                     THEN ProcessPart([v EXCEPT !.loading = @ \ {o}], o) ELSE v
        used == FoldLeft(Use, [w EXCEPT !.loadedParts = <<>>], good)
    IN  IF w.error # "none" THEN [w |-> w, more |-> FALSE]
        ELSE IF bad # 0 THEN [w |-> [used EXCEPT !.error = "LoadFailed"], more |-> FALSE]
        ELSE [w |-> used, more |-> w.loadedParts # <<>>]

AlsoMore(received, more) == [received EXCEPT !.more = @ \/ more]
ThenLoadedParts(cached) == AlsoMore(ProcessLoadedParts(cached.w), cached.more)
CheckForSomethingMoreReceived(w) == ThenLoadedParts(ProcessCacheResults(w))

\* What leaves the memory is not loaded any more, unless for the downloader;
\* a cancellation may be late (`late').
CancelLoadInRange(w, n, late) ==
    LET cancelled == (w.loading \cap InSlice(n)) \ w.requested
    IN  [w EXCEPT !.loading = @ \ InSlice(n), !.asked = IF late THEN @ ELSE @ \ cancelled]

\* loadAtOffset; with new priorities parts are asked for again.
LoadAtOffsets(w, offsets, again) ==
    [w EXCEPT !.asked = @ \cup (IF again THEN offsets ELSE offsets \ w.loading),
              !.loading = @ \cup offsets]

\* fillFromSlices: what is next, and whether the buffer is filled.
AfterFill(fill, again, late) ==
    LET out == fill.out
        read == FoldLeft(ReadFromCache, out.w, SetToSortSeq(fill.read, <))
        saved == IF out.number < 0 THEN read
                 ELSE PutToCache(CancelLoadInRange(Asserted(read, out.number > 0 \/ IsGoodHeader(read)),
                                                   IF out.number = 0 THEN 1 ELSE out.number, late), out)
    IN  IF ~fill.filled /\ HeaderWontBeFilled(out.w)
        THEN [w |-> [out.w EXCEPT !.error = "NotStreamable"], filled |-> FALSE]
        ELSE [w |-> LoadAtOffsets(saved, fill.offsets, again), filled |-> fill.filled]

FillFromSlices(w, from, till, again, late) == AfterFill(FillSlices(w, from, till), again, late)

-----------------------------------------------------------------------------
(* The reader and the downloader.                                          *)

\* A lower offset means that the downloader was changed: old ones are ignored.
CheckForDownloaderChange(w, count) ==
    LET last == Len(w.offsets)
        drops == {i \in last - count + 1 .. last - 1 : w.offsets[i + 1] <= w.offsets[i]}
    IN  IF drops = {} THEN w
        ELSE [w EXCEPT !.offsets = SubSeq(@, Min(drops) + 1, last), !.acks = {},
                       !.readCache = [n \in 1 .. SlicesCount |-> NotThere]]

\* With no old offsets the count is that of the container moved from: none.
EnqueueDownloaderOffsets(w) ==
    LET v == [w EXCEPT !.offsets = @ \o w.requests, !.requests = <<>>]
    IN  IF w.requests = <<>> \/ w.offsets = <<>> THEN v
        ELSE CheckForDownloaderChange(v, Len(w.requests) + 1)

InMemory(w, o) == o \in w.slice[0].parts \/ (~IsFullInHeader /\ o \in w.slice[SliceOf(o)].parts)
InReadCache(w, o) == ~IsFullInHeader /\ o \in w.readCache[SliceOf(o)]

\* The bytes of a part are moved out of the cached slice.
CheckForDownloaderReadyOffsets(w) ==
    LET missing == SelectInSeq(w.offsets, LAMBDA o : ~InMemory(w, o) /\ ~InReadCache(w, o))
        count == IF missing = 0 THEN Len(w.offsets) ELSE missing - 1
        Fire(v, o) == LET u == [v EXCEPT !.ready = @ \cup {o}]
                      IN  IF InMemory(w, o) THEN u ELSE [u EXCEPT !.readCache[SliceOf(o)] = @ \ {o}]
    IN  FoldLeft(Fire, [w EXCEPT !.offsets = SubSeq(@, count + 1, Len(@))], SubSeq(w.offsets, 1, count))

PruneDoneDownloaderRequests(w) ==
    [w EXCEPT !.requested = @ \ w.acks, !.acks = {},
              !.offsets = SelectSeq(@, LAMBDA o : o \notin w.acks)]

PruneDownloaderCache(w, o) ==
    FoldLeft(LAMBDA v, n : [v EXCEPT !.readCache[n] = NotThere], w,
             [n \in 1 .. (IF IsFullInHeader THEN 0 ELSE SliceOf(o) - 1) |-> n])

\* downloaderWaitForCachedSlice, when the slice is to be read: an empty one
\* while the mode is unknown.
LookInCache(w, o) ==
    LET n == SliceOf(o)
    IN  IF ~HasCache(w) \/ w.slice[0].loading \/ IsFullInHeader THEN w
        ELSE IF w.slice[n].loaded \/ w.readCache[n] # NotThere THEN w
        ELSE IF HeaderModeUnknown(w) THEN [w EXCEPT !.readCache[n] = {}]
        ELSE [ReadFromCache(w, n) EXCEPT !.readCache[n] = Unread]

WaitsForCache(w, o) ==
    /\ HasCache(w)
    /\ w.slice[0].loading \/ (/\ ~IsFullInHeader /\ ~w.slice[SliceOf(o)].loaded
                              /\ w.readCache[SliceOf(o)] = Unread)

SendDownloaderRequests(w) ==
    LET Send(v, o) == LET u == LookInCache(v, o)
                      IN  IF WaitsForCache(u, o) \/ o \in u.requested THEN u
                          ELSE [u EXCEPT !.requested = @ \cup {o}, !.asked = @ \cup {o}]
    IN  FoldLeft(Send, w, SubSeq(w.offsets, 1, Min({DownloaderLimit, Len(w.offsets)})))

ProcessOffsets(w) ==
    IF w.offsets = <<>> THEN w
    ELSE SendDownloaderRequests(PruneDownloaderCache(w, Head(w.offsets)))

ProcessDownloaderRequests(w) ==
    ProcessOffsets(PruneDoneDownloaderRequests(CheckForDownloaderReadyOffsets(
        EnqueueDownloaderOffsets(ProcessCacheResults(w).w))))

\* While streaming is active the streaming thread will do it.
ProcessOnMain(w) == IF main.active THEN w ELSE ProcessDownloaderRequests(w)

LoadForDownloader(w, o) ==
    ProcessOnMain([w EXCEPT !.attached = TRUE, !.requests = Append(@, o)])

DoneForDownloader(w, o) == ProcessOnMain([w EXCEPT !.acks = @ \cup {o}])

CancelForDownloader(w) == [w EXCEPT !.requests = IF w.attached THEN <<>> ELSE @, !.attached = FALSE]

\* The downloader: requestParts, one part.
WantsPart(w) == /\ w.client.state = "on" /\ w.client.next < size
                /\ w.client.pending < RequestLimit

Unsaved(w) == (w.client.next .. size - 1) \ w.client.saved

RequestPart(w) ==
    IF Unsaved(w) = {} THEN [w EXCEPT !.client.next = size]
    ELSE LoadForDownloader([w EXCEPT !.client.next = Min(Unsaved(w)) + 1,
                                     !.client.pending = @ + 1], Min(Unsaved(w)))

NoClient == [state |-> "off", next |-> 0, pending |-> 0, saved |-> {}]
CancelHook(w) == CancelForDownloader([w EXCEPT !.client = NoClient, !.cancelled = TRUE])

\* The downloader takes the part o.
Takes(w, o) == w.client.state = "on" /\ o \notin w.client.saved

\* savePart, up to the parts it asks for in turn.  A part that cannot be written
\* cancels the downloader (`fails').
SavePart(w, o, fails) ==
    LET k == w.client
        saved == k.saved \cup {o}
        v == [w EXCEPT !.client = [k EXCEPT !.saved = saved,
                                            !.pending = IF o < k.next THEN @ - 1 ELSE @,
                                            !.state = IF saved = Parts THEN "done" ELSE @]]
    IN  IF ~Takes(w, o) THEN w ELSE IF fails THEN CancelHook(w) ELSE DoneForDownloader(v, o)

-----------------------------------------------------------------------------
(* The streaming thread.                                                   *)

NoThread == [at |-> "off", from |-> 0, till |-> 0, sem |-> 0, interrupted |-> FALSE, got |-> FALSE,
             header |-> FALSE]
NewThread == [NoThread EXCEPT !.at = "idle"]

Release(s) == [s EXCEPT !.sem = Min({@ + 1, SemBound})]
Event == events < MaxEvents /\ events' = events + 1
CacheLockFree == worker = "free"
NobodyWaits == [waits EXCEPT !.waiting = FALSE, !.cache = "none"]

\* The decoder reads: not more than a slice, so from two of them at most.
StartRead ==
    /\ stream.at = "idle" /\ ~stream.interrupted /\ Event
    /\ \E from \in Parts, count \in ReadParts :
         /\ from + count <= size /\ SliceOf(from + count - 1) <= SliceOf(from) + 1
         /\ stream' = [stream EXCEPT !.at = "check", !.from = from, !.till = from + count]
    /\ UNCHANGED <<size, reader, waits, main, worker>>

\* The rest of `failed' of Reader::fill.
FillFails == waits' = NobodyWaits /\ stream' = Release([stream EXCEPT !.at = "wait"])

\* The buffer of the decoder is filled, or the thread is going to wait.
GoesOn(filled) ==
    /\ waits' = IF filled THEN NobodyWaits ELSE waits
    /\ stream' = [stream EXCEPT !.at = IF filled THEN "idle" ELSE "arm", !.got = @ \/ filled]

\* What fillFromSlices may do for the read of the decoder.
Fills(w) == {FillFromSlices(w, stream.from, stream.till, again, late) :
                again \in {FALSE, Cardinality(w.loading) > 1}, late \in BOOLEAN}

TryToFill(w) == \E fill \in Fills(w) : reader' = fill.w /\ GoesOn(fill.filled)

\* Reader::fill up to the first startWaiting.
StartFill ==
    /\ stream.at = "check" /\ CacheLockFree
    /\ \E received \in {CheckForSomethingMoreReceived(reader)} :
         IF received.w.error # "none" THEN reader' = received.w /\ FillFails
         ELSE TryToFill(received.w)
    /\ UNCHANGED <<size, main, worker, events>>

StartWaiting ==
    /\ stream.at = "arm"
    /\ waits' = [waits EXCEPT !.waiting = TRUE, !.cache = IF HasCache(reader) THEN "alive" ELSE @]
    /\ stream' = [stream EXCEPT !.at = "recheck"]
    /\ UNCHANGED <<size, reader, main, worker, events>>

\* Mutant of CheckAgain: what came before startWaiting is not looked for.
WaitAtOnce ==
    /\ stream.at = "recheck"
    /\ stream' = [stream EXCEPT !.at = "wait"]
    /\ UNCHANGED <<size, reader, waits, main, worker, events>>

\* What came before startWaiting woke nobody up, so it is looked for again.
CheckAgain ==
    /\ stream.at = "recheck" /\ CacheLockFree
    /\ \E received \in {CheckForSomethingMoreReceived(reader)} :
         IF received.more THEN TryToFill(received.w)
         ELSE /\ reader' = received.w
              /\ IF received.w.error # "none" THEN FillFails
                 ELSE waits' = waits /\ stream' = [stream EXCEPT !.at = "wait"]
    /\ UNCHANGED <<size, main, worker, events>>

\* File::Context::read wakes up.
Acquire ==
    /\ stream.at = "wait" /\ stream.sem > 0
    /\ stream' = [stream EXCEPT !.sem = @ - 1,
            !.at = IF stream.interrupted \/ reader.error # "none" THEN "end" ELSE "check"]
    /\ UNCHANGED <<size, reader, waits, main, worker, events>>

\* File::Context::start is over: it has read something.
HeaderIsDone ==
    /\ stream.at = "idle" /\ ~stream.header /\ stream.got /\ ~stream.interrupted
    /\ reader' = HeaderDone(reader, FALSE)
    /\ stream' = [stream EXCEPT !.header = TRUE]
    /\ UNCHANGED <<size, waits, main, worker, events>>

\* Reader::startSleep: when enough is decoded.
StartSleep ==
    /\ stream.at = "sleep" \/ (stream.at = "idle" /\ stream.header /\ ~stream.interrupted)
    /\ waits' = [waits EXCEPT !.sleeping = TRUE]
    /\ stream' = [stream EXCEPT !.at = "process"]
    /\ UNCHANGED <<size, reader, main, worker, events>>

ProcessBeforeSleep ==
    /\ stream.at = "process" /\ CacheLockFree
    /\ reader' = ProcessDownloaderRequests(reader)
    /\ stream' = [stream EXCEPT !.at = "asleep"]
    /\ UNCHANGED <<size, waits, main, worker, events>>

WakeUp ==
    /\ stream.at = "asleep" /\ stream.sem > 0
    /\ waits' = [waits EXCEPT !.sleeping = FALSE]
    /\ \E next \in IF stream.interrupted THEN {"end"} ELSE {"idle", "sleep"} :
         stream' = [stream EXCEPT !.sem = @ - 1, !.at = next]
    /\ UNCHANGED <<size, reader, main, worker, events>>

\* All is read, or the decoder fails, or the thread was told to stop.
Finish ==
    /\ stream.at = "idle"
    /\ stream' = [stream EXCEPT !.at = "end"]
    /\ UNCHANGED <<size, reader, waits, main, worker, events>>

\* stopStreamingAsync, unless interrupted.
EndThread ==
    /\ stream.at = "end"
    /\ stream' = [stream EXCEPT !.at = "over"]
    /\ main' = IF stream.interrupted THEN main
               ELSE [main EXCEPT !.stopFlag = TRUE, !.stopPosted = @ + 1]
    /\ UNCHANGED <<size, reader, waits, worker, events>>

-----------------------------------------------------------------------------
(* The main thread.  What it does with the slices and the cache it does    *)
(* when streaming is not active; then it waits for the lock.               *)

MainFree == main.at = "free"
Unlocked == main.active \/ CacheLockFree
NoPart == -2
Handle(part, at) == main' = [main EXCEPT !.at = at, !.part = part]

\* The reader becomes w, and the main thread goes on with `part'.
GoOn(w, part) ==
    /\ reader' = w
    /\ main' = [main EXCEPT !.part = part,
                            !.at = CASE WantsPart(w) -> "request" [] part = NoPart -> "free"
                                     [] OTHER -> "push"]

\* The loader has a part: the downloader gets it first.
DeliverPart(o, fails) ==
    LET w == [reader EXCEPT !.asked = @ \ {o}]
    IN  /\ MainFree /\ Unlocked /\ o \in reader.asked
        /\ IF fails THEN reader.attached /\ Takes(reader, o) /\ Event ELSE UNCHANGED events
        /\ GoOn(IF reader.attached THEN SavePart(w, o, fails) ELSE w, o)
        /\ UNCHANGED <<size, waits, stream, worker>>

LoaderFails(o) ==
    LET w == [reader EXCEPT !.asked = @ \ {o}]
    IN  /\ MainFree /\ o \in reader.asked /\ Event
        /\ GoOn(IF reader.attached THEN CancelHook(w) ELSE w, Failed)
        /\ UNCHANGED <<size, waits, stream, worker>>

\* A part that was in memory or in the cache comes to the downloader.
ReadyPart(o, fails) ==
    /\ MainFree /\ Unlocked /\ o \in reader.ready
    /\ IF fails THEN Takes(reader, o) /\ Event ELSE UNCHANGED events
    /\ GoOn(SavePart([reader EXCEPT !.ready = @ \ {o}], o, fails), NoPart)
    /\ UNCHANGED <<size, waits, stream, worker>>

RequestParts ==
    /\ main.at = "request" /\ Unlocked
    /\ IF main.active /\ Unsaved(reader) # {}
       THEN reader' = RequestPart(reader) /\ Handle(main.part, "wakes")
       ELSE GoOn(RequestPart(reader), main.part)
    /\ UNCHANGED <<size, waits, stream, worker, events>>

\* Mutant of LookSleeping: the thread is left asleep.
LetSleep ==
    /\ main.at = "wakes"
    /\ GoOn(reader, main.part)
    /\ UNCHANGED <<size, waits, stream, worker, events>>

\* wakeFromSleep: looks whether the thread sleeps, then wakes it up.
LookSleeping ==
    /\ main.at = "wakes"
    /\ IF waits.sleeping THEN Handle(main.part, "rouse") /\ UNCHANGED reader
       ELSE GoOn(reader, main.part)
    /\ UNCHANGED <<size, waits, stream, worker, events>>

Rouse ==
    /\ main.at = "rouse"
    /\ waits' = [waits EXCEPT !.sleeping = FALSE] /\ stream' = Release(stream)
    /\ GoOn(reader, main.part)
    /\ UNCHANGED <<size, worker, events>>

\* The handler of a part goes on: it is queued, and who waits is woken up.
QueuePart ==
    /\ main.at = "push"
    /\ reader' = IF main.active THEN [reader EXCEPT !.loadedParts = Append(@, main.part)] ELSE reader
    /\ Handle(NoPart, "look")
    /\ UNCHANGED <<size, waits, stream, worker, events>>

LookWaiting ==
    /\ main.at = "look"
    /\ Handle(NoPart, IF waits.waiting THEN "release" ELSE "free")
    /\ UNCHANGED <<size, reader, waits, stream, worker, events>>

ReleaseWaiting ==
    /\ main.at = "release"
    /\ waits' = [waits EXCEPT !.waiting = FALSE] /\ stream' = Release(stream)
    /\ Handle(NoPart, "free")
    /\ UNCHANGED <<size, reader, worker, events>>

CheckCacheResultsForDownloader ==
    /\ MainFree /\ Unlocked /\ main.checkPosted
    /\ reader' = ProcessOnMain(reader)
    /\ main' = [main EXCEPT !.checkPosted = FALSE]
    /\ UNCHANGED <<size, waits, stream, worker, events>>

StartClient ==
    /\ MainFree /\ Event /\ reader.client.state = "off"
    /\ reader' = [reader EXCEPT !.client = [NoClient EXCEPT !.state = "on"]]
    /\ Handle(NoPart, "request")
    /\ UNCHANGED <<size, waits, stream, worker>>

CancelClient ==
    /\ MainFree /\ Event /\ reader.client.state # "off"
    /\ reader' = CancelHook(reader)
    /\ UNCHANGED <<size, waits, stream, main, worker>>

\* File::wake: the player can take more.  A wake at another time stays in the
\* semaphore until the thread waits.
Wake ==
    /\ MainFree /\ stream.at \in {"wait", "asleep"} /\ stream.sem = 0
    /\ stream' = Release(stream)
    /\ UNCHANGED <<size, reader, waits, main, worker, events>>

\* Reader::stopStreaming(stillActive), but for its two flags.
StopStreaming(w, stillActive) ==
    LET v == Asserted(w, ~waits.sleeping)
    IN  IF stillActive THEN v ELSE ProcessDownloaderRequests([v EXCEPT !.loading = {}])

\* The end of File::stop, and what File::start (`again') does after it.
StopFile(again) ==
    /\ reader' = StopStreaming(reader, again)
    /\ waits' = [waits EXCEPT !.waiting = FALSE, !.cache = IF @ = "alive" THEN "stale" ELSE @]
    /\ worker' = IF worker = "notify" THEN "stale" ELSE worker
    /\ stream' = IF again THEN NewThread ELSE NoThread
    /\ main' = [main EXCEPT !.at = "free", !.active = again, !.stopFlag = FALSE, !.again = FALSE]
    /\ UNCHANGED <<size>>

\* File::start and File::stop without a thread.
StartFile(again) ==
    /\ MainFree /\ stream.at = "off" /\ Event /\ (again \/ CacheLockFree)
    /\ StopFile(again)

\* ... and with one.
InterruptThread(again) ==
    /\ MainFree /\ stream.at # "off" /\ Event
    /\ stream' = Release([stream EXCEPT !.interrupted = TRUE])
    /\ main' = [main EXCEPT !.at = "join", !.again = again]
    /\ UNCHANGED <<size, reader, waits, worker>>

JoinThread ==
    /\ main.at = "join" /\ stream.at = "over" /\ (main.again \/ CacheLockFree)
    /\ StopFile(main.again)
    /\ UNCHANGED events

\* Mutant of StopStreamingAsync: does not look at _stopStreamingAsync.
StopAnyway ==
    /\ MainFree /\ CacheLockFree /\ main.stopPosted > 0
    /\ reader' = StopStreaming(reader, FALSE) /\ waits' = [waits EXCEPT !.waiting = FALSE]
    /\ main' = [main EXCEPT !.stopPosted = @ - 1, !.stopFlag = FALSE, !.active = FALSE]
    /\ UNCHANGED <<size, stream, worker, events>>

\* What the thread has posted at its end, unless the file was started or
\* stopped meanwhile.
StopStreamingAsync ==
    /\ MainFree /\ CacheLockFree /\ main.stopPosted > 0
    /\ IF main.stopFlag
       THEN reader' = StopStreaming(reader, FALSE) /\ waits' = [waits EXCEPT !.waiting = FALSE]
       ELSE UNCHANGED <<reader, waits>>
    /\ main' = [main EXCEPT !.stopPosted = @ - 1, !.stopFlag = FALSE,
                            !.active = @ /\ ~main.stopFlag]
    /\ UNCHANGED <<size, stream, worker, events>>

\* The reader is destroyed: finalizeCache.
DestroyReader ==
    LET Save(w, turn) == LET out == UnloadToCache(w) IN PutToCache(out.w, out)
    IN  /\ MainFree /\ CacheLockFree /\ Event /\ stream.at = "off" /\ reader.client.state = "off"
        /\ reader' = [FoldLeft(Save, reader, [turn \in 1 .. SlicesCount + 1 |-> turn]) EXCEPT
                        !.reading = <<>>, !.asked = {}, !.ready = {}]
        /\ waits' = NobodyWaits
        /\ main' = [main EXCEPT !.at = "gone", !.checkPosted = FALSE, !.stopPosted = 0]
        /\ UNCHANGED <<size, stream, worker>>

-----------------------------------------------------------------------------
(* The cache.                                                              *)

\* A result comes, under the lock, and who waits is looked up: when nobody does
\* checkCacheResultsForDownloader is posted.
CacheResult(i) ==
    LET read == reader.reading[i]
        parts == read.data.parts
        Put(n, new) == IF reader.results[n] = Unread THEN new ELSE reader.results[n]
    IN  /\ worker = "free"
        /\ reader' = [reader EXCEPT
              !.reading = RemoveAt(@, i), !.sizes = read.sizes,
              !.results[read.number] = Put(read.number, parts),
              !.results[1] = IF read.number = 0 /\ ComputeIsGoodHeader(parts)
                             THEN Put(1, read.data.included) ELSE @]
        /\ worker' = CASE waits.cache = "alive" -> "notify"
                       [] waits.cache = "stale" -> "stale"
                       [] OTHER -> "free"
        /\ main' = [main EXCEPT !.checkPosted = @ \/ waits.cache = "none"]
        /\ UNCHANGED <<size, waits, stream, events>>

\* The thread is woken up; a stale pointer wakes nobody.
NotifyThread ==
    /\ worker \in {"notify", "stale"}
    /\ waits' = [waits EXCEPT !.cache = "none"]
    /\ stream' = IF worker = "notify" THEN Release(stream) ELSE stream
    /\ worker' = "free"
    /\ UNCHANGED <<size, reader, main, events>>

-----------------------------------------------------------------------------

\* Slices::Slices and the rest of the constructor.  The cache holds what an
\* earlier reader left: a header, with the first slice if it is good, and slices.
NewReader(cached, header, others) ==
    LET good == ComputeIsGoodHeader(header)
        first == [NoSlice EXCEPT !.loading = cached]
        Stored(n) ==
            CASE n = 0 -> Entry(header, IF good THEN (others \cap InSlice(1)) \ header ELSE {})
              [] n = 1 /\ good -> NoEntry
              [] others \cap InSlice(n) = {} -> NoEntry
              [] OTHER -> Entry((others \cup header) \cap InSlice(n), {})
        w == [slice |-> [n \in 0 .. SlicesCount |-> IF n = 0 THEN first ELSE NoSlice],
              mode |-> IF cached THEN "Unknown" ELSE "NoCache",
              used |-> <<>>, full |-> FALSE, ok |-> TRUE, loading |-> {}, error |-> "none",
              attached |-> FALSE, offsets |-> <<>>, requested |-> {},
              readCache |-> [n \in 1 .. SlicesCount |-> NotThere],
              requests |-> <<>>, acks |-> {}, loadedParts |-> <<>>,
              results |-> [n \in 0 .. SlicesCount |-> Unread], sizes |-> {},
              stored |-> [n \in 0 .. SlicesCount |-> IF cached THEN Stored(n) ELSE NoEntry],
              reading |-> <<>>, asked |-> {}, ready |-> {}, client |-> NoClient,
              cancelled |-> FALSE]
    IN  IF cached THEN ReadFromCache(w, 0) ELSE w

Init ==
    /\ size \in Sizes
    /\ \E cached \in UsesCache, header, others \in CachedAtStart :
         /\ header \cup others \subseteq Parts /\ (header = {} => others = {})
         /\ cached \/ header = {}
         /\ IsFullInHeader => others = {}
         /\ reader = NewReader(cached, header, others)
    /\ waits = [waiting |-> FALSE, cache |-> "none", sleeping |-> FALSE]
    /\ \E active \in BOOLEAN :
         /\ stream = IF active THEN NewThread ELSE NoThread
         /\ main = [at |-> "free", part |-> NoPart, active |-> active, again |-> FALSE,
                    stopFlag |-> FALSE, stopPosted |-> 0, checkPosted |-> FALSE]
    /\ worker = "free" /\ events = 0

Thread == \/ StartRead \/ StartFill \/ StartWaiting \/ CheckAgain \/ Acquire \/ HeaderIsDone
          \/ StartSleep \/ ProcessBeforeSleep \/ WakeUp \/ Finish \/ EndThread
Handler == RequestParts \/ LookSleeping \/ Rouse \/ QueuePart \/ LookWaiting \/ ReleaseWaiting
Posted == \/ CheckCacheResultsForDownloader \/ StopStreamingAsync
          \/ \E o \in Parts, fails \in BOOLEAN : ReadyPart(o, fails)
Loader == \E o \in Parts : (\E fails \in BOOLEAN : DeliverPart(o, fails)) \/ LoaderFails(o)
Cache == (\E i \in 1 .. Len(reader.reading) : CacheResult(i)) \/ NotifyThread
File == \/ Wake \/ JoinThread
        \/ \E again \in BOOLEAN : StartFile(again) \/ InterruptThread(again)
User == StartClient \/ CancelClient \/ DestroyReader

Next == Thread \/ Handler \/ Posted \/ Loader \/ Cache \/ File \/ User

-----------------------------------------------------------------------------
(* Fairness: the threads run, the loader and the cache answer, and the     *)
(* event loop comes to every call.  Weak and strong fairness are written   *)
(* out, with the guards of the steps and with what only these steps change.*)

ThreadReady ==
    \/ stream.at \in {"idle", "arm", "sleep", "end"}
    \/ stream.at \in {"check", "recheck", "process"} /\ CacheLockFree
    \/ stream.at \in {"wait", "asleep"} /\ stream.sem > 0
HandlerReady ==
    \/ main.at \in {"wakes", "rouse", "push", "look", "release"}
    \/ main.at = "request" /\ Unlocked
    \/ main.at = "join" /\ stream.at = "over" /\ CacheLockFree
CacheReady == reader.reading # <<>> \/ worker # "free"
MainReady == /\ MainFree /\ CacheLockFree
             /\ main.checkPosted \/ main.stopPosted > 0 \/ reader.ready \cup reader.asked # {}

ThreadMoves == stream'.at # stream.at
HandlerMoves == main' # main \/ reader'.client # reader.client
CacheMoves == worker' # worker \/ Len(reader'.reading) < Len(reader.reading)
MainMoves == \/ main.checkPosted /\ ~main'.checkPosted
             \/ main'.stopPosted < main.stopPosted
             \/ reader.ready \ reader'.ready # {}
             \/ reader.asked \ reader'.asked # {}

Fairness ==
    /\ []<>~ThreadReady \/ []<><<ThreadMoves>>_vars
    /\ []<>~HandlerReady \/ []<><<HandlerMoves>>_vars
    /\ []<>~CacheReady \/ []<><<CacheMoves>>_vars
    /\ []<>~MainReady \/ []<><<MainMoves>>_vars

Spec == Init /\ [][Next]_vars /\ Fairness

-----------------------------------------------------------------------------
(* Properties.                                                             *)

\* No Expects, Assert or Ensures of the reader fails, whatever order parts,
\* results of the cache, reads, restarts and the downloader come in: no part is
\* added twice to a slice, a result is applied only to a slice that waits for
\* it, a header that comes back good brings the first slice, and what is saved
\* is there to be saved (Slice::addPart, Slice::processCacheData,
\* Slices::headerDone, serializeAndUnloadSlice, Reader::processCacheResults,
\* stopStreaming).
AssertionsHold == reader.ok

\* The main thread never takes the slices and the downloader's offsets for its
\* own (Reader::stopStreaming) while a streaming thread runs, although the end
\* of an old thread is reported by a call that may be posted long before the
\* next thread starts.
ThreadsApart == main.active \/ stream.at \in {"off", "over"}

\* Reader::fill and the loop around it in File::Context::read do not miss a part
\* or a result of the cache: every read of the decoder ends, even if what it
\* needs comes between the look at the queues and startWaiting.
FillReturns == stream.at \in {"check", "arm", "recheck", "wait"} ~> stream.at \in {"idle", "end"}

Came == \E n \in 0 .. SlicesCount : reader.results[n] # Unread
Overslept == stream.at = "asleep" /\ (Came \/ reader.acks # {})
Untold == ~main.active /\ Came /\ CacheLockFree /\ ~main.checkPosted

\* The first downloader of a reader gets the whole file, or is stopped, whoever
\* owns the offsets and wherever the parts are (processDownloaderRequests),
\* except while the streaming thread sleeps over results of the cache or over
\* what the downloader has acknowledged, which do not wake it, and after a result
\* of the cache was reported to a file that is gone.
DownloaderServed ==
    reader.client.state = "on" /\ ~reader.cancelled
        ~> reader.client.state # "on" \/ Overslept \/ Untold

=============================================================================
