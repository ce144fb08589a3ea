-------------------------- MODULE RequestRegistry --------------------------
(***************************************************************************)
(* MTP::Instance: the requests that wait for an answer, the data centre    *)
(* each is sent to, and what is done by default about errors: a request    *)
(* moves to another data centre, waits in the list of delayed requests,    *)
(* or waits for the authorization to be carried over to its data centre.   *)
(* All of it runs in the main thread.  The sessions are external here      *)
(* (see Session): a request put into one stays there until its answer      *)
(* comes, it is cancelled, or the session is killed.                       *)
(* Requests to a data centre other than the main one have a shift of zero. *)
(***************************************************************************)
EXTENDS Integers, Sequences, SequencesExt

CONSTANTS
    Requests,   \* the ids of the requests, positive numbers
    Dcs,        \* data centres, positive numbers
    MaxDelay,   \* above it a delay is not doubled (60 in the code)
    MaxErrors   \* bound: errors and cancellations

ASSUME RegistryAssumption ==
    /\ Requests \subseteq Nat \ {0} /\ Dcs \subseteq Nat \ {0} /\ 1 \in Dcs
    /\ MaxDelay \in Nat \ {0} /\ MaxErrors \in Nat

VARIABLES
    known,        \* requests in _requestMap and _parserMap
    byDc,         \* _requestsByDc: [dc, main], main for the negative ids
    after,        \* the request that each one has to follow, or 0
    delays,       \* _requestsDelays, 0 where there is none
    delayed,      \* _delayedRequests: a sequence of [id, at], in seconds from now
    timer,        \* when _checkDelayedTimer fires, or Off
    waiters,      \* _authWaiters of each data centre
    badGuest,     \* _badGuestDcRequests
    mainDc,
    \* External.
    inSession,    \* the session in which a request is, or 0
    auth,         \* of each dc: is an export or an import on its way
    errors,
    \* History.
    asked,        \* requests sent so far
    lost          \* requests that nothing will answer

maps == <<known, byDc, after, delays, badGuest>>
times == <<delayed, timer>>
vars == <<maps, times, waiters, mainDc, inSession, auth, errors, asked, lost>>

NoDc == [dc |-> 0, main |-> FALSE]
Off == -1
Times == 0 .. 2 * MaxDelay + 1

TypeOK ==
    /\ known \subseteq Requests /\ asked \subseteq Requests /\ lost \subseteq Requests
    /\ badGuest \subseteq Requests
    /\ byDc \in [Requests -> [dc : Dcs \cup {0}, main : BOOLEAN]]
    /\ after \in [Requests -> Requests \cup {0}]
    /\ delays \in [Requests -> 0 .. 2 * MaxDelay]
    /\ delayed \in Seq([id : Requests, at : Times]) /\ timer \in Times \cup {Off}
    /\ waiters \in [Dcs -> SUBSET Requests]
    /\ mainDc \in Dcs /\ inSession \in [Requests -> Dcs \cup {0}]
    /\ auth \in [Dcs -> {"none", "export", "import"}]
    /\ errors \in 0 .. MaxErrors

Init ==
    /\ known = {} /\ asked = {} /\ lost = {} /\ badGuest = {}
    /\ byDc = [r \in Requests |-> NoDc]
    /\ after = [r \in Requests |-> 0] /\ delays = [r \in Requests |-> 0]
    /\ delayed = <<>> /\ timer = Off
    /\ waiters = [d \in Dcs |-> {}] /\ mainDc = 1
    /\ inSession = [r \in Requests |-> 0]
    /\ auth = [d \in Dcs |-> "none"]
    /\ errors = 0

Error == errors < MaxErrors /\ errors' = errors + 1

-----------------------------------------------------------------------------
\* sendRequest, to the main data centre (dc is 0) or to dc, possibly after
\* another request that is still known.
SendRequest(r, dc, follow) ==
    /\ r \notin asked
    /\ asked' = asked \cup {r}
    /\ known' = known \cup {r}
    /\ byDc' = [byDc EXCEPT ![r] = IF dc = 0 THEN [dc |-> mainDc, main |-> TRUE]
                                             ELSE [dc |-> dc, main |-> FALSE]]
    /\ after' = [after EXCEPT ![r] = IF follow \in known THEN follow ELSE 0]
    /\ inSession' = [inSession EXCEPT ![r] = byDc'[r].dc]
    /\ UNCHANGED <<delays, badGuest, times, waiters, mainDc, auth, errors, lost>>

\* unregisterRequest, with the callbacks gone.
UnregisterRequest(r) ==
    /\ known' = known \ {r}
    /\ delays' = [delays EXCEPT ![r] = 0]
    /\ byDc' = [byDc EXCEPT ![r] = NoDc]
    /\ UNCHANGED <<after, badGuest>>

\* cancel: ids stay in the list of delayed requests and among the waiters.
Cancel(r) ==
    /\ r \in known
    /\ Error
    /\ UnregisterRequest(r)
    /\ inSession' = IF inSession[r] = byDc[r].dc THEN [inSession EXCEPT ![r] = 0] ELSE inSession
    /\ UNCHANGED <<times, waiters, mainDc, auth, asked, lost>>

\* A session has an answer of r.
Answered(r) == inSession[r] # 0 /\ r \in known
Taken(r) == [inSession EXCEPT ![r] = 0]

\* execCallback with a result, or with an error that is not handled here.
ExecCallback(r) ==
    /\ Answered(r)
    /\ inSession' = Taken(r)
    /\ UnregisterRequest(r)
    /\ UNCHANGED <<times, waiters, mainDc, auth, errors, asked, lost>>

-----------------------------------------------------------------------------
\* Delayed requests.

\* Where the first entry of a list is that is later, or the end of the list.
FirstLater(list, at) ==
    LET later == {i \in DOMAIN list : list[i].at > at}
    IN  IF later = {} THEN Len(list) + 1 ELSE Min(later)

\* How many checkDelayedRequests takes from the front of a list.
Due(list) == FirstLater(list, 0) - 1

\* A mutant: the timer is not set for the requests that are left.
KeepsTimer(left, was) == was

\* The timer after checkDelayedRequests.
NextTimer(left, was) == IF left = <<>> THEN was ELSE left[1].at

\* checkDelayedRequests on a list: unknown requests are dropped, the others
\* go to their sessions.
CheckDelayedRequests(list, was, sessions) ==
    LET ids == {list[i].id : i \in 1 .. Due(list)} \cap known
        left == SubSeq(list, Due(list) + 1, Len(list))
    IN  /\ delayed' = left
        /\ timer' = NextTimer(left, was)
        /\ inSession' = [r \in Requests |-> IF r \in ids THEN byDc[r].dc ELSE sessions[r]]

\* The timer.
DelayedTimer ==
    /\ timer = 0
    /\ CheckDelayedRequests(delayed, Off, inSession)
    /\ UNCHANGED <<maps, waiters, mainDc, auth, errors, asked, lost>>

Less(t) == IF t > 0 THEN t - 1 ELSE t

Tick ==
    /\ timer # 0 /\ (timer # Off \/ delayed # <<>>)
    /\ timer' = Less(timer)
    /\ delayed' = [i \in DOMAIN delayed |-> [delayed[i] EXCEPT !.at = Less(@)]]
    /\ UNCHANGED <<maps, waiters, mainDc, inSession, auth, errors, asked, lost>>

\* A mutant: a delayed request goes to the end of the list.
InsertLast(x) == Append(delayed, x)

\* A new entry comes before the first that is later.
Insert(x) == InsertAt(delayed, FirstLater(delayed, x.at), x)

IsDelayed(r) == \E i \in DOMAIN delayed : delayed[i].id = r

\* A mutant: the delay is doubled without a limit.
GrowsAlways(r) == IF delays[r] = 0 THEN 1 ELSE 2 * delays[r]

\* The delay after one more error of the server.
Grown(r) == IF delays[r] = 0 THEN 1
            ELSE IF delays[r] > MaxDelay THEN delays[r] ELSE 2 * delays[r]

\* onErrorDefault: FLOOD_WAIT_secs, or (secs is 0) an error of the server,
\* after which the delay grows.
Delay(r, secs) ==
    LET at == IF secs = 0 THEN Grown(r) ELSE secs
    IN  /\ Answered(r)
        /\ Error
        /\ delays' = IF secs = 0 THEN [delays EXCEPT ![r] = Grown(r)] ELSE delays
        /\ IF IsDelayed(r)
           THEN inSession' = Taken(r) /\ UNCHANGED <<delayed, timer>>
           ELSE CheckDelayedRequests(Insert([id |-> r, at |-> at]), timer, Taken(r))
        /\ UNCHANGED <<known, byDc, after, badGuest, waiters, mainDc, auth, asked, lost>>

-----------------------------------------------------------------------------
\* Data centres.

\* setMainDcId and killSession: the session of the old main data centre is
\* removed, and the one that the new main data centre had already; a new one
\* is started for it.
Killed(dc) == IF dc = mainDc THEN {} ELSE {x \in Requests : inSession[x] \in {mainDc, dc}}

\* Whose authorization is never carried over then: every export is in the
\* session of the old main data centre, and two imports may be in the two.
Unauthorized(dc) ==
    IF dc = mainDc THEN {}
    ELSE {d \in Dcs : auth[d] = "export" \/ (auth[d] = "import" /\ d \in {mainDc, dc})}

\* setMainDcId, called about r.
SetMainDcId(dc, r) ==
    /\ mainDc' = dc
    /\ lost' = lost \cup (Killed(dc) \ {r}) \cup UNION {waiters[d] : d \in Unauthorized(dc)}

\* A mutant: the request goes to the new session and is registered at the old.
LeavesRegistered(r, dc) == byDc

\* registerRequest with the new data centre.
Registered(r, dc) == [byDc EXCEPT ![r].dc = dc]

\* onErrorDefault: FILE_MIGRATE_dc and the like.  A request to the main data
\* centre makes dc the main one.
Migrate(r, dc) ==
    /\ Answered(r)
    /\ Error
    /\ IF byDc[r].main
       THEN /\ SetMainDcId(dc, r)
            /\ inSession' = [x \in Requests |-> IF x = r THEN dc
                                                ELSE IF x \in Killed(dc) THEN 0 ELSE inSession[x]]
            /\ auth' = [d \in Dcs |-> IF d \in Unauthorized(dc) THEN "none" ELSE auth[d]]
       ELSE /\ inSession' = [inSession EXCEPT ![r] = dc]
            /\ UNCHANGED <<mainDc, auth, lost>>
    /\ byDc' = Registered(r, dc)
    /\ UNCHANGED <<known, after, delays, badGuest, times, waiters, asked>>

\* onErrorDefault: CONNECTION_NOT_INITED: the same session again.
NotInited(r) ==
    /\ Answered(r)
    /\ Error
    /\ inSession' = [inSession EXCEPT ![r] = byDc[r].dc]
    /\ UNCHANGED <<maps, times, waiters, mainDc, auth, asked, lost>>

\* A mutant: the second waiter asks for the export.
ExportsForSecond(d) == IF waiters[d] # {} THEN [auth EXCEPT ![d] = "export"] ELSE auth

\* The first waiter of a data centre asks for an export.
StartExport(d) == IF waiters[d] = {} THEN [auth EXCEPT ![d] = "export"] ELSE auth

\* onErrorDefault: 401, or (bad) FILE_ID_INVALID the first time.
Unauthorised(r, bad) ==
    LET d == byDc[r].dc
    IN  /\ Answered(r) /\ (bad => r \notin badGuest)
        /\ d # mainDc
        /\ Error
        /\ auth' = StartExport(d)
        /\ lost' = IF waiters[d] # {} /\ auth[d] = "none" THEN lost \cup {r} ELSE lost
        /\ waiters' = [waiters EXCEPT ![d] = @ \cup {r}]
        /\ badGuest' = IF bad THEN badGuest \cup {r} ELSE badGuest
        /\ inSession' = Taken(r)
        /\ UNCHANGED <<known, byDc, after, delays, times, mainDc, asked>>

\* exportDone sends the import to the data centre.
ExportDone(d) ==
    /\ auth[d] = "export"
    /\ auth' = [auth EXCEPT ![d] = "import"]
    /\ UNCHANGED <<maps, times, waiters, mainDc, inSession, errors, asked, lost>>

\* exportFail forgets the waiters.
ExportFail(d) ==
    /\ auth[d] = "export"
    /\ Error
    /\ auth' = [auth EXCEPT ![d] = "none"]
    /\ lost' = lost \cup waiters[d]
    /\ waiters' = [waiters EXCEPT ![d] = {}]
    /\ UNCHANGED <<maps, times, mainDc, inSession, asked>>

\* importDone: the waiters that are still known are sent.  One that was for
\* the main data centre makes d the main one, and is put into a session for
\* the negative id of d, which never connects.  Those that were sent before
\* it, early, were in the session of d that is removed then.
ImportDone(d) ==
    LET ids == waiters[d] \cap known
        main == {r \in ids : byDc[r].main}
    IN  /\ auth[d] = "import"
        /\ IF main = {}
           THEN /\ inSession' = [r \in Requests |-> IF r \in ids THEN d ELSE inSession[r]]
                /\ auth' = [auth EXCEPT ![d] = "none"]
                /\ UNCHANGED <<mainDc, lost>>
           ELSE \E early \in SUBSET {r \in ids \ main : d # mainDc} :
                /\ mainDc' = d
                /\ lost' = lost \cup main \cup early \cup Killed(d)
                                \cup UNION {waiters[x] : x \in Unauthorized(d) \ {d}}
                /\ inSession' = [r \in Requests |-> IF r \in ids \ (main \cup early) THEN d
                                                    ELSE IF r \in Killed(d) THEN 0 ELSE inSession[r]]
                /\ auth' = [x \in Dcs |-> IF x \in Unauthorized(d) \cup {d} THEN "none" ELSE auth[x]]
        /\ waiters' = [waiters EXCEPT ![d] = {}]
        /\ UNCHANGED <<maps, times, errors, asked>>

\* importFail leaves the waiters where they are.
ImportFail(d) ==
    /\ auth[d] = "import"
    /\ Error
    /\ auth' = [auth EXCEPT ![d] = "none"]
    /\ lost' = lost \cup waiters[d]
    /\ UNCHANGED <<maps, times, waiters, mainDc, inSession, asked>>

-----------------------------------------------------------------------------
\* onErrorDefault: MSG_WAIT_FAILED, the request that this one follows failed
\* or waits itself.
WaitFailed(r) ==
    LET a == after[r]
        d == byDc[r].dc
    IN  /\ Answered(r) /\ a # 0
        /\ Error
        /\ IF a \notin known
           THEN \* The callbacks are told that it failed.
                /\ inSession' = Taken(r)
                /\ UnregisterRequest(r)
                /\ UNCHANGED <<delayed, timer, waiters, lost>>
           ELSE IF byDc[r] # byDc[a]
           THEN /\ after' = [after EXCEPT ![r] = 0]
                /\ inSession' = [inSession EXCEPT ![r] = d]
                /\ UNCHANGED <<known, byDc, delays, badGuest, delayed, timer, waiters, lost>>
           ELSE IF a \in waiters[d]
           THEN /\ waiters' = [waiters EXCEPT ![d] = @ \cup {r}]
                /\ badGuest' = IF a \in badGuest THEN badGuest \cup {r} ELSE badGuest
                /\ inSession' = Taken(r)
                /\ lost' = lost \cup ({r} \cap IF auth[d] = "none" THEN {r} ELSE {})
                /\ UNCHANGED <<known, byDc, after, delays, delayed, timer>>
           ELSE /\ IF IsDelayed(a) /\ ~IsDelayed(r)
                   THEN LET i == Min({j \in DOMAIN delayed : delayed[j].id = a})
                        IN  /\ CheckDelayedRequests(InsertAt(delayed, i, [id |-> r, at |-> delayed[i].at]), timer, Taken(r))
                            /\ UNCHANGED lost
                   ELSE IF IsDelayed(r)
                   THEN inSession' = Taken(r) /\ UNCHANGED <<delayed, timer, lost>>
                   ELSE /\ CheckDelayedRequests(delayed, timer, Taken(r))
                        /\ lost' = lost \cup {r}
                /\ UNCHANGED <<maps, waiters>>
        /\ UNCHANGED <<mainDc, auth, asked>>

-----------------------------------------------------------------------------
Next ==
    \/ \E r \in Requests, dc \in Dcs \cup {0}, follow \in Requests \cup {0} : SendRequest(r, dc, follow)
    \/ \E r \in Requests : Cancel(r) \/ ExecCallback(r) \/ NotInited(r) \/ WaitFailed(r)
    \/ \E r \in Requests, secs \in {0, 3} : Delay(r, secs)
    \/ \E r \in Requests, dc \in Dcs : Migrate(r, dc)
    \/ \E r \in Requests, bad \in BOOLEAN : Unauthorised(r, bad)
    \/ \E d \in Dcs : ExportDone(d) \/ ExportFail(d) \/ ImportDone(d) \/ ImportFail(d)
    \/ DelayedTimer \/ Tick

Spec == Init /\ [][Next]_vars

\* Time goes on, timers fire, and the server answers.  It need not send errors.
Fairness ==
    /\ WF_vars(Tick) /\ WF_vars(DelayedTimer)
    /\ \A r \in Requests : WF_vars(ExecCallback(r))
    /\ \A d \in Dcs : WF_vars(ExportDone(d)) /\ WF_vars(ImportDone(d))

LiveSpec == Spec /\ Fairness

-----------------------------------------------------------------------------
\* A request whose callbacks are kept is in exactly one of a session, the
\* delayed requests and the waiters of its data centre (onErrorDefault,
\* checkDelayedRequests, importDone), unless it is lost: its session was
\* removed with a change of the main data centre, its export or import failed
\* or was removed so, it was for the main data centre when its import was
\* done, or what it follows had already been sent again.
Placed ==
    \A r \in known \ lost :
        LET w == \E d \in Dcs : r \in waiters[d] /\ auth[d] # "none"
        IN  \/ inSession[r] # 0 /\ ~IsDelayed(r) /\ ~w
            \/ inSession[r] = 0 /\ IsDelayed(r) /\ ~w
            \/ inSession[r] = 0 /\ ~IsDelayed(r) /\ w

\* A session holds only requests that are known, and the registered data
\* centre leads to it: cancel and the errors find every request.
FoundByDc == \A r \in Requests : inSession[r] # 0 => r \in known /\ byDc[r].dc = inSession[r]

\* The timer is set for the first of the delayed requests, and none of the
\* others is to be sent before it.
DelayedIsTimed ==
    delayed # <<>> => /\ timer # Off /\ timer <= delayed[1].at
                      /\ \A i \in DOMAIN delayed : delayed[1].at <= delayed[i].at

\* Every request that is not lost is answered, however often it is moved,
\* delayed or put off.
Settles == \A r \in Requests : r \in known ~> r \notin known \/ r \in lost
=============================================================================
