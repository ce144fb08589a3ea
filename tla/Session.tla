------------------------------ MODULE Session ------------------------------
(***************************************************************************)
(* One MTProto session: the main thread puts requests into SessionData and *)
(* takes responses out of it (session.cpp), the session thread sends them, *)
(* sends them again and matches answers with them (session_private.cpp).   *)
(* The two threads share `toSend', `haveSent' and `responses', each under  *)
(* a lock of its own; `moving' is what the session thread holds after it   *)
(* unlocked one map and before it locks the other.                         *)
(*                                                                         *)
(* A function from ids to requests has the value 0 where the map of the    *)
(* code has no entry.  Messages are numbered in the order in which they    *)
(* are made (base::unixtime::mtproto_msg_id).  The clocks are in step (no  *)
(* badTime), the key is known, pings and acknowledgements of the server's  *)
(* messages are left out.  The server and the connection are external: the *)
(* connection loses everything on the way when it breaks, the server       *)
(* handles an id at most once per session, may refuse messages, forget the *)
(* session, and repeats answers it does not know to have arrived.  A       *)
(* repeated answer is ignored (ReceivedIds).                               *)
(***************************************************************************)
EXTENDS Integers, FiniteSets, FiniteSetsExt

CONSTANTS
    Requests,       \* the ids of the requests, positive numbers
    MaxMsgId,       \* bound: messages the client makes
    IdsBufferSize,  \* kIdsBufferSize, for _ackedIds
    MaxFaults,      \* bound: breaks, refusals, lost sessions, retries
    Faults,         \* which faults happen
    Misreads        \* are behaviours in which an id is misread or dropped looked at?

ASSUME SessionAssumption ==
    /\ Requests \subseteq Nat \ {0} /\ IsFiniteSet(Requests)
    /\ MaxMsgId \in Nat /\ IdsBufferSize \in Nat \ {0} /\ MaxFaults \in Nat
    /\ Misreads \in BOOLEAN

VARIABLES
    \* Shared by the two threads (SessionData).
    toSend,        \* _toSend
    haveSent,      \* _haveSent
    responses,     \* _receivedResponses
    msgId,         \* the message id kept in the data of each request
    forced,        \* requests with forceSendInContainer
    sendPosted,    \* a call of tryToSend is on its way to the session thread
    \* The session thread (SessionPrivate).
    resending,     \* <<id, forceContainer>> that a handler has still to resend
    rest,          \* what the handler does after that
    moving,        \* <<id, request, forceContainer>> out of haveSent, not in toSend yet
    resendingIds, ackedIds, sentContainers,
    stateRequestData, stateRequests,  \* _stateAndResendRequests
    connected, started, lastId,
    \* The main thread.
    status,        \* of each request
    cancelling,    \* <<request, id>> inside Session::cancel, or <<0, 0>>
    \* External.
    toServer,      \* packets on their way
    executed,      \* <<id, request>> the server has handled in this session
    containers,    \* the containers it has got
    refused,       \* ids of which it sends a bad_msg_notification
    infos,         \* <<id of a state request, ids received>>
    fresh,         \* the server has no session: the next packet makes one
    created,       \* first_msg_id of a new_session_created on its way, or 0
    answered,      \* ids whose answer this session has handled
    faults,
    \* History.
    delivered,     \* <<request, the request answered>> given to callbacks
    odd            \* what happened to the maps that no reader expects

data == <<toSend, haveSent, responses, msgId, forced>>
private == <<resendingIds, ackedIds, sentContainers, stateRequestData, stateRequests>>
thread == <<resending, rest, moving>>
link == <<connected, started, lastId>>
main == <<status, cancelling, delivered>>
server == <<executed, containers, refused, infos, fresh, created>>
world == <<toServer, server, answered>>
vars == <<data, sendPosted, thread, private, link, main, world, faults, odd>>

MsgIds == 1 .. MaxMsgId
NoMap == [m \in MsgIds |-> 0]

\* A response: of which request it is, and whether it is a result.
Response == [of : Requests, ok : BOOLEAN]
None == [of |-> 0, ok |-> FALSE]

\* No second part of a handler.
Nothing == [do |-> "nothing", ids |-> {}]

Packet == [id : MsgIds, reqs : SUBSET (MsgIds \X Requests), ask : SUBSET MsgIds, askId : 0 .. MaxMsgId]

TypeOK ==
    /\ toSend \subseteq Requests /\ forced \subseteq Requests
    /\ haveSent \in [MsgIds -> Requests \cup {0}]
    /\ responses \in [Requests -> Response \cup {None}]
    /\ msgId \in [Requests -> 0 .. MaxMsgId]
    /\ moving \subseteq MsgIds \X Requests \X BOOLEAN
    /\ resending \subseteq MsgIds \X BOOLEAN
    /\ rest \in [do : {"nothing", "ack", "check"}, ids : SUBSET MsgIds]
    /\ resendingIds \in [MsgIds -> Requests \cup {0}]
    /\ ackedIds \in [MsgIds -> Requests \cup {0}]
    /\ sentContainers \in [MsgIds -> SUBSET MsgIds]
    /\ stateRequestData \subseteq MsgIds
    /\ stateRequests \in [MsgIds -> SUBSET MsgIds]
    /\ connected \in BOOLEAN /\ started \in BOOLEAN /\ sendPosted \in BOOLEAN
    /\ lastId \in 0 .. MaxMsgId
    /\ status \in [Requests -> {"new", "asked", "delayed", "done", "cancelled"}]
    /\ cancelling \in (Requests \cup {0}) \X (0 .. MaxMsgId)
    /\ toServer \subseteq Packet
    /\ executed \subseteq MsgIds \X Requests /\ containers \subseteq MsgIds
    /\ refused \subseteq MsgIds /\ answered \subseteq MsgIds
    /\ infos \subseteq MsgIds \X SUBSET MsgIds
    /\ fresh \in BOOLEAN /\ created \in 0 .. MaxMsgId
    /\ faults \in 0 .. MaxFaults

Init ==
    /\ toSend = {} /\ forced = {}
    /\ resending = {} /\ rest = Nothing /\ moving = {}
    /\ haveSent = NoMap /\ resendingIds = NoMap /\ ackedIds = NoMap
    /\ responses = [r \in Requests |-> None]
    /\ msgId = [r \in Requests |-> 0]
    /\ sentContainers = [m \in MsgIds |-> {}]
    /\ stateRequestData = {} /\ stateRequests = [m \in MsgIds |-> {}]
    /\ connected = FALSE /\ started = FALSE /\ sendPosted = FALSE
    /\ lastId = 0
    /\ status = [r \in Requests |-> "new"] /\ cancelling = <<0, 0>>
    /\ toServer = {} /\ executed = {} /\ containers = {} /\ refused = {} /\ infos = {}
    /\ fresh = FALSE /\ created = 0 /\ answered = {}
    /\ faults = 0 /\ delivered = {} /\ odd = {}

Keys(f) == {m \in MsgIds : f[m] # 0}

\* A fault of a kind that this instance allows, within the bound.
Fault(kind) == kind \in Faults /\ faults < MaxFaults /\ faults' = faults + 1

-----------------------------------------------------------------------------
\* The main thread.

MainFree == cancelling = <<0, 0>>

\* hasCallbacks.
HasCallbacks(r) == status[r] \in {"asked", "delayed"}

\* sendPrepared, with the id in the request's data set to zero.
Prepare(r) ==
    /\ toSend' = toSend \cup {r}
    /\ msgId' = [msgId EXCEPT ![r] = 0]
    /\ sendPosted' = TRUE
    /\ status' = [status EXCEPT ![r] = "asked"]

SendPrepared(r) ==
    /\ MainFree /\ status[r] = "new"
    /\ Prepare(r)
    /\ UNCHANGED <<haveSent, responses, forced, thread, private, link, cancelling, delivered, world, faults, odd>>

\* checkDelayedRequests: the same request again.
SendAgain(r) ==
    /\ MainFree /\ status[r] = "delayed"
    /\ Prepare(r)
    /\ UNCHANGED <<haveSent, responses, forced, thread, private, link, cancelling, delivered, world, faults, odd>>

\* Instance::cancel reads the id of the message under a lock of its own ...
CancelBegin(r) ==
    /\ MainFree /\ HasCallbacks(r)
    /\ Fault("cancel")
    /\ cancelling' = <<r, msgId[r]>>
    /\ UNCHANGED <<data, sendPosted, thread, private, link, status, delivered, world, odd>>

\* The packet that has only the request r, under the id m, is on its way.
SentAlone(r, m) == \E p \in toServer : p.id = m /\ <<m, r>> \in p.reqs

\* ... and then Session::cancel looks for the request in both maps.  A request
\* that is sent alone is out of toSend before it is in haveSent, so it may be
\* found in neither.
CancelEnd ==
    LET r == cancelling[1]
        m == cancelling[2]
    IN  /\ ~MainFree
        /\ toSend' = toSend \ {r}
        /\ \E found \in {TRUE, ~SentAlone(r, m)} :
             haveSent' = IF m = 0 \/ ~found THEN haveSent ELSE [haveSent EXCEPT ![m] = 0]
        /\ status' = [status EXCEPT ![r] = "cancelled"]
        /\ cancelling' = <<0, 0>>
        /\ UNCHANGED <<responses, msgId, forced, sendPosted, thread, private, link, delivered, world, faults, odd>>

\* tryToReceive with execCallback: a response whose callbacks are gone is
\* dropped; after an error of the default kind the request is sent again.
TryToReceive ==
    /\ MainFree
    /\ \E r \in Requests : responses[r] # None
    /\ LET came == {r \in Requests : responses[r] # None}
           mine == {r \in came : HasCallbacks(r)}
           again == {r \in mine : ~responses[r].ok}
       IN  /\ responses' = [r \in Requests |-> None]
           /\ status' = [r \in Requests |-> IF r \in again THEN "delayed"
                                            ELSE IF r \in mine THEN "done" ELSE status[r]]
           /\ delivered' = delivered \cup {<<r, responses[r].of>> : r \in mine \ again}
    /\ UNCHANGED <<toSend, haveSent, msgId, forced, sendPosted, thread, private, link, cancelling, world, faults, odd>>

-----------------------------------------------------------------------------
\* The session thread: sending again.

\* A handler resends ids: what a container holds, or the message itself.
Inner(m) == IF sentContainers[m] # {} THEN sentContainers[m] ELSE {m}
Unsent(C) == [m \in MsgIds |-> IF m \in C THEN {} ELSE sentContainers[m]]

\* resend, the first half: the request leaves haveSent, if it is there.
TakeOut(m, force) ==
    /\ moving = {} /\ <<m, force>> \in resending
    /\ resending' = resending \ {<<m, force>>}
    /\ moving' = IF haveSent[m] = 0 THEN {} ELSE {<<m, haveSent[m], force>>}
    /\ haveSent' = [haveSent EXCEPT ![m] = 0]
    /\ UNCHANGED <<toSend, responses, msgId, forced, sendPosted, rest, private, link, main, world, faults, odd>>

\* A mutant: the id is stored in place of the request.
RemembersIds(p) ==
    resendingIds' = [m \in MsgIds |-> IF \E q \in p : q[1] = m THEN m ELSE resendingIds[m]]

\* A mutant: the id is not remembered while its request waits to go again.
ForgetsResending(p) == UNCHANGED resendingIds

\* The entries of _resendingIds for what is sent again.
Remember(p) ==
    resendingIds' = [m \in MsgIds |->
        IF resendingIds[m] = 0 /\ \E q \in p : q[1] = m
        THEN (CHOOSE q \in p : q[1] = m)[2] ELSE resendingIds[m]]

\* resend and resendAll, the second half.
PutBack ==
    /\ moving # {}
    /\ Remember(moving)
    /\ toSend' = toSend \cup {q[2] : q \in moving}
    /\ forced' = (forced \ {q[2] : q \in moving}) \cup {q[2] : q \in {x \in moving : x[3]}}
    /\ moving' = {}
    /\ sendPosted' = TRUE
    /\ UNCHANGED <<haveSent, responses, msgId, resending, rest, ackedIds, sentContainers, stateRequestData, stateRequests, link, main, world, faults, odd>>

\* The session thread is between two events.
Idle == moving = {} /\ resending = {} /\ rest = Nothing

-----------------------------------------------------------------------------
\* The session thread: sending.

\* Who gets a new message id in tryToSend: new requests, and in a new session
\* (forceNewMsgId) all of them.
Renumbered == {r \in toSend : msgId[r] = 0 \/ ~started}

\* A mutant: all requests of a container get the next id.
LastIdAgain(r) == IF r \in Renumbered THEN lastId + 1 ELSE msgId[r]

\* Requests of a container are numbered in the order of their ids.
IdOf(r) == IF r \in Renumbered
           THEN lastId + Cardinality({x \in Renumbered : x <= r}) ELSE msgId[r]

\* replaceMsgId: entries under the old id move to the new one.
Renamed(m) == IF \E r \in Renumbered : msgId[r] = m
              THEN IdOf(CHOOSE r \in Renumbered : msgId[r] = m) ELSE m
MoveKeys(f) == [m \in MsgIds |->
                  IF \E k \in Keys(f) : Renamed(k) = m
                  THEN f[CHOOSE k \in Keys(f) : Renamed(k) = m] ELSE 0]

\* tryToSend takes everything: alone if it is one message, else in a container.
TryToSend ==
    /\ Idle /\ sendPosted
    /\ sendPosted' = FALSE
    /\ IF ~connected \/ toSend \cup stateRequestData = {}
       THEN UNCHANGED <<data, private, link, toServer>>
       ELSE LET asks == stateRequestData # {}
                last == lastId + Cardinality(Renumbered)
                askId == IF asks THEN last + 1 ELSE 0
                count == Cardinality(toSend) + (IF asks THEN 1 ELSE 0)
                alone == count = 1 /\ toSend \cap forced = {}
                outer == IF alone THEN IF asks THEN askId ELSE IdOf(CHOOSE r \in toSend : TRUE)
                         ELSE last + (IF asks THEN 2 ELSE 1)
                ids == {IdOf(r) : r \in toSend}
                have == MoveKeys(haveSent)
                lists == [m \in MsgIds |-> {Renamed(k) : k \in sentContainers[m]}]
            IN  /\ outer <= MaxMsgId /\ last <= MaxMsgId
                /\ haveSent' = [m \in MsgIds |-> IF have[m] = 0 /\ m \in ids
                                                 THEN CHOOSE r \in toSend : IdOf(r) = m ELSE have[m]]
                /\ resendingIds' = [m \in MsgIds |-> IF \E r \in toSend : msgId[r] = m
                                                     THEN 0 ELSE resendingIds[m]]
                /\ ackedIds' = MoveKeys(ackedIds)
                /\ sentContainers' = IF alone THEN lists ELSE [lists EXCEPT ![outer] = ids]
                /\ stateRequests' = IF asks THEN [stateRequests EXCEPT ![askId] = stateRequestData]
                                    ELSE stateRequests
                /\ msgId' = [r \in Requests |-> IF r \in toSend THEN IdOf(r) ELSE msgId[r]]
                /\ toServer' = toServer \cup {[id |-> outer, reqs |-> {<<IdOf(r), r>> : r \in toSend},
                                               ask |-> stateRequestData, askId |-> askId]}
                /\ lastId' = IF alone THEN last + (IF asks THEN 1 ELSE 0) ELSE outer
                /\ started' = TRUE
                /\ toSend' = {} /\ stateRequestData' = {}
                /\ UNCHANGED <<responses, forced, connected>>
    /\ UNCHANGED <<thread, main, server, answered, faults, odd>>
-----------------------------------------------------------------------------
\* The session thread: what comes from the server.

\* A mutant: an acknowledgement is enough for every request.
CountsAlways(r, byResponse) == TRUE

\* Whether an acknowledgement is enough: not where somebody waits for an answer.
Counts(r, byResponse) == byResponse \/ ~HasCallbacks(r)

\* Ids that an acknowledgement takes out of haveSent, and ids whose request
\* is already taken back to be sent again.
Sent(S, byResponse) == {m \in S \cap Keys(haveSent) : Counts(haveSent[m], byResponse)}
Late(S, byResponse) == {m \in (S \ Keys(haveSent)) \cap Keys(resendingIds) :
                          Counts(resendingIds[m], byResponse)}

\* What `j->second->requestId' reads after toSend.erase(j): the entry that took
\* the place of the erased one; after the last one, the freed memory.
ReadAfterErase(r) ==
    LET after == {x \in toSend : x > r}
    IN  IF after = {} THEN {r, 0} ELSE {Min(after)}

\* The oldest ids leave _ackedIds when there are too many.
KeepNewest(f) == [m \in MsgIds |-> IF Cardinality({k \in Keys(f) : k >= m}) > IdsBufferSize
                                   THEN 0 ELSE f[m]]

\* requestsAcked for the ids of messages (not of containers).
RequestsAcked(S, byResponse) ==
    LET sent == Sent(S, byResponse)
        late == Late(S, byResponse)
        back == {m \in late : resendingIds[m] \in toSend}
    IN  \E read \in [back -> Requests \cup {0}] :
          /\ \A m \in back : read[m] \in ReadAfterErase(resendingIds[m])
          /\ LET all == [m \in MsgIds |-> IF ackedIds[m] # 0 THEN ackedIds[m]
                                          ELSE IF m \in sent THEN haveSent[m]
                                          ELSE IF m \in back THEN read[m] ELSE 0]
             IN  /\ ackedIds' = KeepNewest(all)
                 /\ odd' = odd \cup {x \in {"misread"} : \E m \in back : read[m] # resendingIds[m]}
                               \cup {x \in {"trimmed"} : byResponse /\ \E m \in sent \cup back :
                                                            all[m] # 0 /\ ackedIds'[m] = 0}
                 /\ Misreads \/ odd' = {}
          /\ haveSent' = [m \in MsgIds |-> IF m \in sent THEN 0 ELSE haveSent[m]]
          /\ resendingIds' = [m \in MsgIds |-> IF m \in late THEN 0 ELSE resendingIds[m]]
          /\ toSend' = toSend \ {resendingIds[m] : m \in back}

\* wasSent, which knows containers too (as the request 0xFFFFFFFF).
Known(m) == \/ resendingIds[m] # 0 \/ ackedIds[m] # 0 \/ haveSent[m] # 0
            \/ sentContainers[m] # {}
WasSent(m) == IF resendingIds[m] # 0 THEN resendingIds[m]
              ELSE IF ackedIds[m] # 0 THEN ackedIds[m] ELSE haveSent[m]

\* haveReceivedResponses().emplace: a response that is there is kept.
Emplace(r, response) ==
    responses' = IF r = 0 \/ responses[r] # None THEN responses
                 ELSE [responses EXCEPT ![r] = response]

\* A handler works for this connection and this session.
Handles == Idle /\ connected

\* mtpc_rpc_result.  An error that makes the main thread ask again is a fault.
RpcResult(m, r, ok) ==
    /\ Handles /\ <<m, r>> \in executed /\ m \notin answered
    /\ IF ok THEN UNCHANGED faults ELSE Fault("error")
    /\ answered' = answered \cup {m}
    /\ RequestsAcked({m}, TRUE)
    /\ Emplace(WasSent(m)', [of |-> r, ok |-> ok])
    /\ UNCHANGED <<msgId, forced, sendPosted, thread, sentContainers, stateRequestData, stateRequests, link, main, toServer, server>>

\* mtpc_msgs_ack, of a message or of a container.
MsgsAck(m) ==
    /\ Handles /\ m \in {p[1] : p \in executed} \cup containers
    /\ RequestsAcked(Inner(m), FALSE)
    /\ sentContainers' = Unsent({m})
    /\ UNCHANGED <<responses, msgId, forced, sendPosted, thread, stateRequestData, stateRequests, link, main, world, faults>>

\* mtpc_bad_msg_notification with a code that asks for the message again
\* (force) and mtpc_bad_server_salt (not force, except for containers).
BadMsg(m, force) ==
    /\ Handles /\ m \in refused
    /\ refused' = refused \ {m}
    /\ IF Known(m)
       THEN /\ resending' = {<<k, force \/ sentContainers[m] # {}>> : k \in Inner(m)}
            /\ sentContainers' = Unsent({m})
            /\ sendPosted' = TRUE
       ELSE UNCHANGED <<resending, sentContainers, sendPosted>>
    /\ UNCHANGED <<data, rest, moving, resendingIds, ackedIds, stateRequestData, stateRequests, link, main,
                   toServer, executed, containers, infos, fresh, created, answered, faults, odd>>

\* mtpc_bad_msg_notification with any other code: the request fails, and its
\* message stays where it is.
FatalBadMsg(m) ==
    /\ Handles /\ m \in refused
    /\ refused' = refused \ {m}
    /\ "fatal" \in Faults
    /\ Emplace(WasSent(m), [of |-> WasSent(m), ok |-> FALSE])
    /\ UNCHANGED <<toSend, haveSent, msgId, forced, sendPosted, thread, private, link, main,
                   toServer, executed, containers, infos, fresh, created, answered, faults, odd>>

\* mtpc_new_session_created.
NewSessionCreated ==
    /\ Handles /\ created # 0
    /\ created' = 0
    /\ resending' = {<<m, TRUE>> : m \in {k \in Keys(haveSent) : k < created}}
    /\ sendPosted' = TRUE
    /\ UNCHANGED <<data, rest, moving, private, link, main,
                   toServer, executed, containers, refused, infos, fresh, answered, faults, odd>>

\* mtpc_msgs_state_info with handleMsgsStates: what the server has not got is
\* sent again, then the others are acknowledged.
MsgsStateInfo(q, got) ==
    /\ Handles /\ <<q, got>> \in infos
    /\ infos' = infos \ {<<q, got>>}
    /\ IF stateRequests[q] = {}
       THEN UNCHANGED <<stateRequests, resending, rest, sendPosted>>
       ELSE /\ stateRequests' = [stateRequests EXCEPT ![q] = {}]
            /\ resending' = {<<m, TRUE>> : m \in (stateRequests[q] \ got) \cap Keys(haveSent)}
            /\ rest' = [do |-> "ack", ids |-> stateRequests[q] \cap got
                                                \cap (Keys(haveSent) \cup Keys(resendingIds))]
            /\ sendPosted' = TRUE
    /\ UNCHANGED <<data, moving, resendingIds, ackedIds, sentContainers, stateRequestData, link, main,
                   toServer, executed, containers, refused, fresh, created, answered, faults, odd>>

\* Nothing is on its way, and the server lacks a message.
Stuck == /\ connected /\ toSend = {} /\ stateRequestData = {}
         /\ toServer = {} /\ refused = {} /\ infos = {} /\ created = 0
         /\ ~ Keys(haveSent) \subseteq {p[1] : p \in executed}

\* checkSentRequests by a timer: old containers are sent again
\* (clearOldContainers), then the server is asked for the state of old
\* messages.  Where nothing else goes on the timer is not bounded.
CheckSentRequests(C) ==
    /\ Idle /\ C \subseteq {m \in MsgIds : sentContainers[m] # {}}
    /\ IF Stuck THEN "check" \in Faults /\ UNCHANGED faults ELSE Fault("check")
    /\ sentContainers' = Unsent(C)
    /\ resending' = {<<m, TRUE>> : m \in UNION {sentContainers[c] : c \in C}}
    /\ rest' = [do |-> "check", ids |-> {}]
    /\ sendPosted' = TRUE
    /\ UNCHANGED <<data, moving, resendingIds, ackedIds, stateRequestData, stateRequests, link, main, world, odd>>

\* The second part of a handler.
Finish ==
    /\ moving = {} /\ resending = {} /\ rest # Nothing
    /\ rest' = Nothing
    /\ \/ /\ rest.do = "ack"
          /\ RequestsAcked(rest.ids, FALSE)
          /\ UNCHANGED <<stateRequestData, sendPosted>>
       \/ /\ rest.do = "check"
          /\ stateRequestData' = stateRequestData \cup Keys(haveSent)
          /\ sendPosted' = TRUE
          /\ UNCHANGED <<toSend, haveSent, resendingIds, ackedIds, odd>>
    /\ UNCHANGED <<responses, msgId, forced, resending, moving, sentContainers, stateRequests, link, main, world, faults>>

-----------------------------------------------------------------------------
\* The connection.

\* setState(ConnectedState) with resendAll.
Connect ==
    /\ Idle /\ ~connected
    /\ connected' = TRUE
    /\ moving' = {<<m, haveSent[m], TRUE>> : m \in Keys(haveSent)}
    /\ haveSent' = NoMap
    /\ sendPosted' = TRUE
    /\ UNCHANGED <<toSend, responses, msgId, forced, resending, rest, private, started, lastId, main, world, faults, odd>>

\* restart: nothing that is on its way arrives.
Lost == toServer' = {} /\ refused' = {} /\ infos' = {} /\ created' = 0

Disconnect ==
    /\ Idle /\ connected
    /\ Fault("break")
    /\ connected' = FALSE
    /\ Lost
    /\ UNCHANGED <<data, sendPosted, thread, private, started, lastId, main, executed, containers, fresh, answered, odd>>

\* changeSessionId: the server knows nothing of the new session.
ChangeSessionId ==
    /\ started' = FALSE
    /\ Lost
    /\ executed' = {} /\ containers' = {} /\ answered' = {} /\ fresh' = FALSE

\* restart after a bad_msg_notification about sequence numbers.
ResetSession(m) ==
    /\ Handles /\ m \in refused /\ Known(m)
    /\ connected' = FALSE
    /\ ChangeSessionId
    /\ stateRequestData' = {}
    /\ UNCHANGED <<data, sendPosted, thread, resendingIds, ackedIds, sentContainers, stateRequests, lastId, main, faults, odd>>

\* Session::stop and start: SessionPrivate is made anew, SessionData stays.
StopAndStart ==
    /\ Idle
    /\ Fault("stop")
    /\ connected' = FALSE
    /\ ChangeSessionId
    /\ resendingIds' = NoMap /\ ackedIds' = NoMap
    /\ sentContainers' = [m \in MsgIds |-> {}]
    /\ stateRequestData' = {} /\ stateRequests' = [m \in MsgIds |-> {}]
    /\ UNCHANGED <<data, sendPosted, thread, lastId, main, odd>>

-----------------------------------------------------------------------------
\* The server (external).

\* It takes a packet: new messages are handled, the state of others is told.
ServerGets(p) ==
    /\ p \in toServer
    /\ toServer' = toServer \ {p}
    /\ executed' = executed \cup p.reqs
    /\ containers' = containers \cup ({p.id} \ ({x[1] : x \in p.reqs} \cup {p.askId}))
    /\ infos' = infos \cup {<<q, {x[1] : x \in executed}>> : q \in {p.askId} \ {0}}
    /\ created' = IF fresh THEN Min({x[1] : x \in p.reqs} \cup {p.id}) ELSE created
    /\ fresh' = FALSE
    /\ UNCHANGED <<data, sendPosted, thread, private, link, main, refused, answered, faults, odd>>

\* It refuses a packet, naming the message or the container.
ServerRefuses(p) ==
    /\ p \in toServer
    /\ Fault("refuse")
    /\ toServer' = toServer \ {p}
    /\ refused' = refused \cup {p.id}
    /\ UNCHANGED <<data, sendPosted, thread, private, link, main, executed, containers, infos, fresh, created, answered, odd>>

\* It loses the session.
ServerForgets ==
    /\ executed # {}
    /\ Fault("forget")
    /\ fresh' = TRUE
    /\ executed' = {} /\ containers' = {} /\ answered' = {}
    /\ UNCHANGED <<data, sendPosted, thread, private, link, main, toServer, refused, infos, created, odd>>

-----------------------------------------------------------------------------
MainThread == \/ \E r \in Requests : SendPrepared(r) \/ SendAgain(r) \/ CancelBegin(r)
              \/ CancelEnd \/ TryToReceive

Received == \/ \E p \in executed, ok \in BOOLEAN : RpcResult(p[1], p[2], ok)
            \/ \E m \in MsgIds : MsgsAck(m) \/ FatalBadMsg(m) \/ ResetSession(m)
            \/ \E m \in MsgIds, force \in BOOLEAN : BadMsg(m, force)
            \/ \E i \in infos : MsgsStateInfo(i[1], i[2])
            \/ NewSessionCreated

SessionThread == \/ \E t \in resending : TakeOut(t[1], t[2])
                 \/ PutBack \/ Finish \/ TryToSend
                 \/ \E C \in SUBSET {m \in MsgIds : sentContainers[m] # {}} : CheckSentRequests(C)
                 \/ Connect \/ Disconnect \/ StopAndStart

Server == \/ \E p \in toServer : ServerGets(p) \/ ServerRefuses(p)
          \/ ServerForgets

Next == MainThread \/ Received \/ SessionThread \/ Server

Spec == Init /\ [][Next]_vars

\* The threads and their queues go on, the client connects again, the server
\* handles what it gets and answers what it handled.  A cancellation, a
\* break, a refusal or an error never has to happen.
Fairness ==
    /\ WF_vars(CancelEnd) /\ WF_vars(TryToReceive)
    /\ \A r \in Requests : WF_vars(SendAgain(r))
    /\ WF_vars(\E t \in resending : TakeOut(t[1], t[2]))
    /\ WF_vars(PutBack) /\ WF_vars(Finish) /\ WF_vars(TryToSend) /\ WF_vars(Connect)
    /\ WF_vars(Stuck /\ CheckSentRequests({}))
    /\ WF_vars(NewSessionCreated) /\ WF_vars(\E i \in infos : MsgsStateInfo(i[1], i[2]))
    /\ WF_vars(\E m \in MsgIds : FatalBadMsg(m) \/ ResetSession(m) \/ BadMsg(m, TRUE))
    /\ WF_vars(\E p \in toServer : ServerGets(p))
    /\ WF_vars(\E p \in executed : RpcResult(p[1], p[2], TRUE))

LiveSpec == Spec /\ Fairness

-----------------------------------------------------------------------------
\* Every response, waiting or delivered, is of the request it is given to
\* (requestsAcked, wasSent), where no id was misread on the way.
OwnAnswer ==
    "misread" \notin odd =>
        /\ \A r \in Requests : responses[r].of \in {0, r}
        /\ \A d \in delivered : d[1] = d[2]

\* A request whose callbacks wait is on its way, waits to go, is being moved
\* or has its response: whatever is acknowledged, refused, sent again or
\* cancelled meanwhile, unless its id was misread or dropped.
NothingForgotten ==
    odd = {} =>
        \A r \in Requests : status[r] = "asked" =>
            \/ r \in toSend
            \/ \E m \in MsgIds : haveSent[m] = r
            \/ \E q \in moving : q[2] = r
            \/ responses[r] # None

\* The refinement mapping: what the caller of a request knows of it.
Call(r) == CASE status[r] = "new" -> "none"
             [] status[r] \in {"asked", "delayed"} -> "waiting"
             [] status[r] = "done" -> "answered"
             [] status[r] = "cancelled" -> "cancelled"

Promise == INSTANCE Rpc WITH calls <- [r \in Requests |-> Call(r)], given <- delivered

\* The session keeps the promise of Rpc: sendPrepared, cancel and tryToReceive
\* are its three steps, all the rest stutters, and a request that waits is
\* answered or cancelled in the end.
KeepsPromise == Promise!Spec

\* "map of request_id -> response that should be processed in the main thread"
\* (session.h): a response is under the request that it answers.
ResponseIsOfRequest == \A r \in Requests : responses[r].of \in {0, r}
=============================================================================
