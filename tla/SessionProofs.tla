---------------------------- MODULE SessionProofs ----------------------------
(***************************************************************************)
(* Session for any number of requests, messages and faults.                *)
(***************************************************************************)
EXTENDS Session, FiniteSetTheorems, TLAPS

-----------------------------------------------------------------------------
\* A set of numbers has a smallest one.
LEMMA Smallest ==
    ASSUME NEW S, S \subseteq Nat, S # {}
    PROVE  Min(S) \in S /\ \A y \in S : Min(S) <= y
<1> DEFINE T == {0 .. n : n \in S}
<1>1. T \subseteq FiniteSubsetsOf(Nat)
    <2>1. \A n \in S : 0 .. n \in SUBSET Nat /\ IsFiniteSet(0 .. n)
        BY FS_Interval
    <2> QED BY <2>1 DEF FiniteSubsetsOf
<1>2. \E x \in T : \A y \in T : <<y, x>> \notin StrictSubsetOrdering(Nat)
    <2>1. T # {}
        OBVIOUS
    <2> HIDE DEF T
    <2> QED BY <2>1, <1>1, FS_StrictSubsetOrderingWellFounded, WFMin
<1>3. PICK x \in S : \A y \in S : <<0 .. y, 0 .. x>> \notin StrictSubsetOrdering(Nat)
    BY <1>2
<1>4. ASSUME NEW y \in S, ~(x <= y) PROVE FALSE
    <2>1. 0 .. y \subseteq 0 .. x /\ 0 .. y # 0 .. x
        BY <1>4
    <2>2. <<0 .. y, 0 .. x>> \in (SUBSET Nat) \X (SUBSET Nat)
        BY <2>1
    <2>3. <<0 .. y, 0 .. x>> \in StrictSubsetOrdering(Nat)
        BY <2>1, <2>2, Zenon DEF StrictSubsetOrdering
    <2> QED BY <1>3, <2>3
<1>5. \E z \in S : \A y \in S : z <= y
    BY <1>4
<1> QED BY <1>5 DEF Min

-----------------------------------------------------------------------------
\* A set of requests is finite.
LEMMA FiniteRequests ==
    ASSUME NEW S, S \subseteq Requests
    PROVE  IsFiniteSet(S) /\ Cardinality(S) \in Nat
<1>1. IsFiniteSet(S)
    BY FS_Subset, SessionAssumption
<1> QED BY <1>1, FS_CardinalityType

-----------------------------------------------------------------------------
\* The numbers that tryToSend gives.

LEMMA RenumberedType ==
    ASSUME TypeOK
    PROVE  /\ Renumbered \subseteq toSend /\ Renumbered \subseteq Requests
           /\ Cardinality(Renumbered) \in Nat
BY FiniteRequests DEF Renumbered, TypeOK

\* A new id is above all ids made before and within the new last one.
LEMMA NewIdRange ==
    ASSUME TypeOK, NEW r \in Renumbered
    PROVE  IdOf(r) \in Nat /\ lastId < IdOf(r) /\ IdOf(r) <= lastId + Cardinality(Renumbered)
<1> DEFINE S == {x \in Renumbered : x <= r}
<1>1. S \subseteq Renumbered /\ S \subseteq Requests /\ r \in S
    <2>1. r \in Nat /\ Renumbered \subseteq Requests
        BY RenumberedType, SessionAssumption
    <2>2. r <= r
        BY <2>1
    <2> QED BY <2>1, <2>2, Zenon
<1>2. IsFiniteSet(Renumbered) /\ IsFiniteSet(S) /\ Cardinality(S) \in Nat
    BY <1>1, RenumberedType, FiniteRequests
<1>3. Cardinality(S) <= Cardinality(Renumbered)
    BY <1>1, <1>2, FS_Subset
<1>4. Cardinality(S) # 0
    BY <1>1, <1>2, FS_EmptySet
<1>5. IdOf(r) = lastId + Cardinality(S)
    BY DEF IdOf
<1> HIDE DEF S
<1> QED BY <1>2, <1>3, <1>4, <1>5, RenumberedType, SessionAssumption DEF TypeOK

\* No two requests get the same new id.
LEMMA NewIdsDiffer ==
    ASSUME TypeOK, NEW r \in Renumbered, NEW s \in Renumbered, IdOf(r) = IdOf(s)
    PROVE  r = s
<1>1. ASSUME NEW a \in Renumbered, NEW b \in Renumbered, a < b
      PROVE  IdOf(a) # IdOf(b)
    <2> DEFINE A == {x \in Renumbered : x <= a}
    <2> DEFINE B == {x \in Renumbered : x <= b}
    <2>1. Renumbered \subseteq Nat
        BY RenumberedType, SessionAssumption
    <2>2. A \in SUBSET B /\ b \in B /\ b \notin A /\ A \subseteq Requests /\ B \subseteq Requests
        <3>1. a \in Nat /\ b \in Nat /\ Renumbered \subseteq Requests
            BY <2>1, RenumberedType
        <3>2. \A x \in Renumbered : x <= a => x <= b
            BY <2>1, <3>1, <1>1
        <3>3. b <= b /\ ~(b <= a)
            BY <3>1, <1>1
        <3> QED BY <3>1, <3>2, <3>3, Zenon
    <2>3. IdOf(a) = lastId + Cardinality(A) /\ IdOf(b) = lastId + Cardinality(B)
        BY DEF IdOf
    <2> HIDE DEF A, B
    <2>4. IsFiniteSet(B) /\ Cardinality(A) \in Nat /\ Cardinality(B) \in Nat
        BY <2>2, FiniteRequests
    <2>5. Cardinality(A) # Cardinality(B)
        BY <2>2, <2>4, FS_Subset
    <2> QED BY <2>3, <2>4, <2>5, SessionAssumption DEF TypeOK
<1>2. r \in Nat /\ s \in Nat
    BY RenumberedType, SessionAssumption
<1> QED BY <1>1, <1>2

\* What is sent has an id; the ids of requests that are not new are kept.
LEMMA IdOfType ==
    ASSUME TypeOK, NEW r \in toSend, lastId + Cardinality(Renumbered) <= MaxMsgId
    PROVE  IdOf(r) \in MsgIds
<1>1. CASE r \in Renumbered
    <2>1. lastId \in Nat /\ MaxMsgId \in Nat /\ Cardinality(Renumbered) \in Nat
        BY RenumberedType, SessionAssumption DEF TypeOK
    <2>2. IdOf(r) \in Nat /\ lastId < IdOf(r) /\ IdOf(r) <= lastId + Cardinality(Renumbered)
        BY <1>1, NewIdRange
    <2> QED BY <2>1, <2>2 DEF MsgIds
<1>2. CASE r \notin Renumbered
    <2>1. msgId[r] \in 0 .. MaxMsgId /\ MaxMsgId \in Nat
        BY SessionAssumption DEF TypeOK
    <2>2. IdOf(r) = msgId[r] /\ msgId[r] # 0
        BY <1>2 DEF IdOf, Renumbered
    <2> QED BY <2>1, <2>2 DEF MsgIds
<1> QED BY <1>1, <1>2

LEMMA RenamedType ==
    ASSUME TypeOK, NEW m \in MsgIds, lastId + Cardinality(Renumbered) <= MaxMsgId
    PROVE  Renamed(m) \in MsgIds
<1>1. CASE \E r \in Renumbered : msgId[r] = m
    <2>1. PICK r \in Renumbered : Renamed(m) = IdOf(r)
        BY <1>1 DEF Renamed
    <2> QED BY <2>1, IdOfType, RenumberedType
<1> QED BY <1>1 DEF Renamed

\* replaceMsgId: the value at an id is the one that was at the id it renames.
LEMMA MoveKeysValue ==
    ASSUME NEW f \in [MsgIds -> Requests \cup {0}], NEW m \in MsgIds
    PROVE  /\ MoveKeys(f)[m] \in Requests \cup {0}
           /\ MoveKeys(f)[m] # 0 => \E k \in Keys(f) : Renamed(k) = m /\ MoveKeys(f)[m] = f[k]
           /\ (\E k \in Keys(f) : Renamed(k) = m) => MoveKeys(f)[m] # 0
<1>1. CASE \E k \in Keys(f) : Renamed(k) = m
    <2>1. PICK k \in Keys(f) : Renamed(k) = m /\ MoveKeys(f)[m] = f[k]
        BY <1>1 DEF MoveKeys
    <2> QED BY <2>1 DEF Keys
<1>2. CASE ~ \E k \in Keys(f) : Renamed(k) = m
    BY <1>2 DEF MoveKeys
<1> QED BY <1>1, <1>2

LEMMA MoveKeysType ==
    ASSUME NEW f \in [MsgIds -> Requests \cup {0}]
    PROVE  MoveKeys(f) \in [MsgIds -> Requests \cup {0}]
<1>1. \A m \in MsgIds : MoveKeys(f)[m] \in Requests \cup {0}
    BY MoveKeysValue
<1>2. MoveKeys(f) = [m \in MsgIds |-> MoveKeys(f)[m]]
    BY DEF MoveKeys
<1> QED BY <1>1, <1>2

-----------------------------------------------------------------------------
\* Type correctness.

LEMMA InitType == Init => TypeOK
<1> SUFFICES ASSUME Init PROVE TypeOK
    OBVIOUS
<1>1. /\ haveSent \in [MsgIds -> Requests \cup {0}]
      /\ resendingIds \in [MsgIds -> Requests \cup {0}]
      /\ ackedIds \in [MsgIds -> Requests \cup {0}]
      /\ sentContainers \in [MsgIds -> SUBSET MsgIds]
      /\ stateRequests \in [MsgIds -> SUBSET MsgIds]
    BY DEF Init, NoMap
<1>2. rest \in [do : {"nothing", "ack", "check"}, ids : SUBSET MsgIds]
    BY DEF Init, Nothing
<1>3. /\ responses \in [Requests -> Response \cup {None}]
      /\ msgId \in [Requests -> 0 .. MaxMsgId]
      /\ status \in [Requests -> {"new", "asked", "delayed", "done", "cancelled"}]
      /\ lastId \in 0 .. MaxMsgId /\ created \in 0 .. MaxMsgId /\ faults \in 0 .. MaxFaults
      /\ cancelling \in (Requests \cup {0}) \X (0 .. MaxMsgId)
    BY SessionAssumption DEF Init
<1> QED BY <1>1, <1>2, <1>3 DEF Init, TypeOK

\* What a handler has still to resend.
LEMMA ResendingType ==
    ASSUME NEW S, S \subseteq MsgIds, NEW b \in BOOLEAN
    PROVE  {<<m, b>> : m \in S} \subseteq MsgIds \X BOOLEAN
OBVIOUS

LEMMA MainThreadType ==
    ASSUME TypeOK, MainThread
    PROVE  TypeOK'
<1> USE SessionAssumption DEF data, private, thread, link, main, server, world
<1>1. ASSUME NEW r \in Requests, SendPrepared(r) PROVE TypeOK'
    BY <1>1 DEF TypeOK, SendPrepared, Prepare
<1>2. ASSUME NEW r \in Requests, SendAgain(r) PROVE TypeOK'
    BY <1>2 DEF TypeOK, SendAgain, Prepare
<1>3. ASSUME NEW r \in Requests, CancelBegin(r) PROVE TypeOK'
    BY <1>3 DEF TypeOK, CancelBegin, Fault
<1>4. CASE CancelEnd
    <2>1. cancelling' \in (Requests \cup {0}) \X (0 .. MaxMsgId)
        BY <1>4 DEF CancelEnd
    <2>2. haveSent' \in [MsgIds -> Requests \cup {0}]
        BY <1>4 DEF CancelEnd, TypeOK
    <2>3. toSend' \subseteq Requests
          /\ status' \in [Requests -> {"new", "asked", "delayed", "done", "cancelled"}]
        BY <1>4 DEF CancelEnd, TypeOK
    <2> QED BY <1>4, <2>1, <2>2, <2>3 DEF TypeOK, CancelEnd
<1>5. CASE TryToReceive
    BY <1>5 DEF TypeOK, TryToReceive
<1> QED BY <1>1, <1>2, <1>3, <1>4, <1>5 DEF MainThread

\* requestsAcked changes three maps and the queue.
LEMMA RequestsAckedType ==
    ASSUME TypeOK, NEW S, NEW byResponse, RequestsAcked(S, byResponse)
    PROVE  /\ toSend' \subseteq Requests
           /\ haveSent' \in [MsgIds -> Requests \cup {0}]
           /\ resendingIds' \in [MsgIds -> Requests \cup {0}]
           /\ ackedIds' \in [MsgIds -> Requests \cup {0}]
<1>1. /\ toSend \subseteq Requests
      /\ haveSent \in [MsgIds -> Requests \cup {0}]
      /\ resendingIds \in [MsgIds -> Requests \cup {0}]
      /\ ackedIds \in [MsgIds -> Requests \cup {0}]
    BY DEF TypeOK
<1> DEFINE sent == Sent(S, byResponse)
           late == Late(S, byResponse)
           back == {m \in late : resendingIds[m] \in toSend}
           all(read) == [m \in MsgIds |-> IF ackedIds[m] # 0 THEN ackedIds[m]
                                          ELSE IF m \in sent THEN haveSent[m]
                                          ELSE IF m \in back THEN read[m] ELSE 0]
<1>2. PICK read \in [back -> Requests \cup {0}] : ackedIds' = KeepNewest(all(read))
    BY DEF RequestsAcked
<1>3. all(read) \in [MsgIds -> Requests \cup {0}]
    BY <1>1
<1>4. ackedIds' \in [MsgIds -> Requests \cup {0}]
    <2> HIDE DEF all
    <2> QED BY <1>2, <1>3 DEF KeepNewest
<1>5. /\ toSend' = toSend \ {resendingIds[m] : m \in back}
      /\ haveSent' = [m \in MsgIds |-> IF m \in sent THEN 0 ELSE haveSent[m]]
      /\ resendingIds' = [m \in MsgIds |-> IF m \in late THEN 0 ELSE resendingIds[m]]
    BY DEF RequestsAcked
<1> QED BY <1>1, <1>4, <1>5

\* haveReceivedResponses().emplace.
LEMMA EmplaceType ==
    ASSUME TypeOK, NEW r \in Requests \cup {0}, NEW response \in Response \cup {None},
           Emplace(r, response)
    PROVE  responses' \in [Requests -> Response \cup {None}]
BY DEF TypeOK, Emplace

LEMMA ReceivedType ==
    ASSUME TypeOK, Received
    PROVE  TypeOK'
<1> USE SessionAssumption DEF data, private, thread, link, main, server, world
<1>1. ASSUME NEW p \in executed, NEW ok \in BOOLEAN, RpcResult(p[1], p[2], ok) PROVE TypeOK'
    <2>1. p[1] \in MsgIds /\ p[2] \in Requests
        BY DEF TypeOK
    <2>2. RequestsAcked({p[1]}, TRUE)
        BY <1>1 DEF RpcResult
    <2>3. /\ toSend' \subseteq Requests
          /\ haveSent' \in [MsgIds -> Requests \cup {0}]
          /\ resendingIds' \in [MsgIds -> Requests \cup {0}]
          /\ ackedIds' \in [MsgIds -> Requests \cup {0}]
        BY <2>2, RequestsAckedType
    <2>4. WasSent(p[1])' \in Requests \cup {0}
        BY <2>1, <2>3 DEF WasSent
    <2>5. responses' \in [Requests -> Response \cup {None}]
        <3>1. [of |-> p[2], ok |-> ok] \in Response \cup {None}
            BY <2>1 DEF Response
        <3>2. Emplace(WasSent(p[1])', [of |-> p[2], ok |-> ok])
            BY <1>1 DEF RpcResult
        <3> QED BY <2>4, <3>1, <3>2, EmplaceType
    <2>6. faults' \in 0 .. MaxFaults /\ answered' \subseteq MsgIds
        BY <1>1, <2>1 DEF RpcResult, Fault, TypeOK
    <2> QED BY <1>1, <2>3, <2>5, <2>6 DEF RpcResult, TypeOK
<1>2. ASSUME NEW m \in MsgIds, MsgsAck(m) PROVE TypeOK'
    <2>1. RequestsAcked(Inner(m), FALSE)
        BY <1>2 DEF MsgsAck
    <2>2. sentContainers' \in [MsgIds -> SUBSET MsgIds]
        BY <1>2 DEF MsgsAck, Unsent, TypeOK
    <2> QED BY <1>2, <2>1, <2>2, RequestsAckedType DEF MsgsAck, TypeOK
<1>3. ASSUME NEW m \in MsgIds, FatalBadMsg(m) PROVE TypeOK'
    <2>1. WasSent(m) \in Requests \cup {0}
        BY DEF WasSent, TypeOK
    <2>2. responses' \in [Requests -> Response \cup {None}]
        <3>1. CASE WasSent(m) = 0
            BY <3>1, <1>3 DEF FatalBadMsg, Emplace, TypeOK
        <3>2. CASE WasSent(m) # 0
            <4>1. [of |-> WasSent(m), ok |-> FALSE] \in Response \cup {None}
                BY <2>1, <3>2 DEF Response
            <4> QED BY <2>1, <4>1, <1>3, EmplaceType DEF FatalBadMsg
        <3> QED BY <3>1, <3>2
    <2> QED BY <1>3, <2>2 DEF FatalBadMsg, TypeOK
<1>4. ASSUME NEW m \in MsgIds, ResetSession(m) PROVE TypeOK'
    <2>1. connected' = FALSE /\ started' = FALSE /\ fresh' = FALSE /\ created' = 0
        BY <1>4 DEF ResetSession, ChangeSessionId, Lost
    <2>2. /\ toServer' = {} /\ refused' = {} /\ infos' = {} /\ executed' = {}
          /\ containers' = {} /\ answered' = {} /\ stateRequestData' = {}
        BY <1>4 DEF ResetSession, ChangeSessionId, Lost
    <2>3. created' \in 0 .. MaxMsgId
        BY <2>1
    <2>4. UNCHANGED <<data, sendPosted, thread, resendingIds, ackedIds, sentContainers,
                      stateRequests, lastId, main, faults>>
        BY <1>4 DEF ResetSession
    <2> QED BY <2>1, <2>2, <2>3, <2>4 DEF TypeOK
<1>5. ASSUME NEW m \in MsgIds, NEW force \in BOOLEAN, BadMsg(m, force) PROVE TypeOK'
    <2>1. Inner(m) \subseteq MsgIds
        BY DEF Inner, TypeOK
    <2>2. /\ resending' \subseteq MsgIds \X BOOLEAN
          /\ sentContainers' \in [MsgIds -> SUBSET MsgIds]
          /\ sendPosted' \in BOOLEAN
        <3>1. (force \/ sentContainers[m] # {}) \in BOOLEAN
            OBVIOUS
        <3>2. CASE Known(m)
            <4>1. resending' = {<<k, force \/ sentContainers[m] # {}>> : k \in Inner(m)}
                BY <3>2, <1>5 DEF BadMsg
            <4>2. sentContainers' = Unsent({m}) /\ sendPosted' = TRUE
                BY <3>2, <1>5 DEF BadMsg
            <4>3. resending' \subseteq MsgIds \X BOOLEAN
                BY <2>1, <3>1, <4>1, ResendingType
            <4>4. sentContainers' \in [MsgIds -> SUBSET MsgIds]
                BY <4>2 DEF Unsent, TypeOK
            <4> QED BY <4>2, <4>3, <4>4
        <3>3. CASE ~Known(m)
            BY <3>3, <1>5 DEF BadMsg, TypeOK
        <3> QED BY <3>2, <3>3
    <2> QED BY <1>5, <2>2 DEF BadMsg, TypeOK
<1>6. ASSUME NEW i \in infos, MsgsStateInfo(i[1], i[2]) PROVE TypeOK'
    <2>1. i[1] \in MsgIds /\ i[2] \subseteq MsgIds
        BY DEF TypeOK
    <2>2. /\ stateRequests' \in [MsgIds -> SUBSET MsgIds]
          /\ resending' \subseteq MsgIds \X BOOLEAN
          /\ rest' \in [do : {"nothing", "ack", "check"}, ids : SUBSET MsgIds]
          /\ sendPosted' \in BOOLEAN
        <3>1. CASE stateRequests[i[1]] = {}
            BY <3>1, <1>6 DEF MsgsStateInfo, TypeOK
        <3>2. CASE stateRequests[i[1]] # {}
            <4>1. /\ stateRequests' = [stateRequests EXCEPT ![i[1]] = {}]
                  /\ resending' = {<<m, TRUE>> : m \in (stateRequests[i[1]] \ i[2]) \cap Keys(haveSent)}
                  /\ rest' = [do |-> "ack", ids |-> stateRequests[i[1]] \cap i[2]
                                                \cap (Keys(haveSent) \cup Keys(resendingIds))]
                  /\ sendPosted' = TRUE
                BY <3>2, <1>6 DEF MsgsStateInfo
            <4>2. /\ stateRequests \in [MsgIds -> SUBSET MsgIds]
                  /\ stateRequests[i[1]] \subseteq MsgIds
                BY <2>1 DEF TypeOK
            <4>3. resending' \subseteq MsgIds \X BOOLEAN
                BY <4>1, <4>2, ResendingType
            <4>4. rest' \in [do : {"nothing", "ack", "check"}, ids : SUBSET MsgIds]
                BY <4>1, <4>2
            <4>5. stateRequests' \in [MsgIds -> SUBSET MsgIds]
                BY <4>1, <4>2
            <4> QED BY <4>1, <4>3, <4>4, <4>5
        <3> QED BY <3>1, <3>2
    <2> QED BY <1>6, <2>1, <2>2 DEF MsgsStateInfo, TypeOK
<1>7. CASE NewSessionCreated
    <2>1. resending' = {<<m, TRUE>> : m \in {k \in Keys(haveSent) : k < created}}
        BY <1>7 DEF NewSessionCreated
    <2>2. resending' \subseteq MsgIds \X BOOLEAN
        <3>1. {k \in Keys(haveSent) : k < created} \subseteq MsgIds
            BY DEF Keys
        <3> QED BY <2>1, <3>1, ResendingType
    <2>3. created' \in 0 .. MaxMsgId /\ sendPosted' = TRUE
        BY <1>7 DEF NewSessionCreated
    <2>4. UNCHANGED <<data, rest, moving, private, link, main, toServer, executed, containers,
                      refused, infos, fresh, answered, faults>>
        BY <1>7 DEF NewSessionCreated
    <2> QED BY <2>2, <2>3, <2>4 DEF TypeOK
<1> QED BY <1>1, <1>2, <1>3, <1>4, <1>5, <1>6, <1>7 DEF Received

LEMMA TryToSendType ==
    ASSUME TypeOK, TryToSend
    PROVE  TypeOK'
<1> USE SessionAssumption DEF data, private, thread, link, main, server, world
<1>1. CASE ~connected \/ toSend \cup stateRequestData = {}
    BY <1>1 DEF TryToSend, TypeOK
<1>2. CASE ~(~connected \/ toSend \cup stateRequestData = {})
    <2> DEFINE asks == stateRequestData # {}
               last == lastId + Cardinality(Renumbered)
               askId == IF asks THEN last + 1 ELSE 0
               count == Cardinality(toSend) + (IF asks THEN 1 ELSE 0)
               alone == count = 1 /\ toSend \cap forced = {}
               outer == IF alone THEN IF asks THEN askId ELSE IdOf(CHOOSE r \in toSend : TRUE)
                        ELSE last + (IF asks THEN 2 ELSE 1)
               ids == {IdOf(r) : r \in toSend}
               have == MoveKeys(haveSent)
               lists == [m \in MsgIds |-> {Renamed(k) : k \in sentContainers[m]}]
               packet == [id |-> outer, reqs |-> {<<IdOf(r), r>> : r \in toSend},
                          ask |-> stateRequestData, askId |-> askId]
    <2>1. /\ outer <= MaxMsgId /\ last <= MaxMsgId
          /\ haveSent' = [m \in MsgIds |-> IF have[m] = 0 /\ m \in ids
                                           THEN CHOOSE r \in toSend : IdOf(r) = m ELSE have[m]]
          /\ resendingIds' = [m \in MsgIds |-> IF \E r \in toSend : msgId[r] = m
                                               THEN 0 ELSE resendingIds[m]]
          /\ ackedIds' = MoveKeys(ackedIds)
          /\ sentContainers' = IF alone THEN lists ELSE [lists EXCEPT ![outer] = ids]
          /\ stateRequests' = IF asks THEN [stateRequests EXCEPT ![askId] = stateRequestData]
                              ELSE stateRequests
          /\ msgId' = [r \in Requests |-> IF r \in toSend THEN IdOf(r) ELSE msgId[r]]
          /\ toServer' = toServer \cup {packet}
          /\ lastId' = IF alone THEN last + (IF asks THEN 1 ELSE 0) ELSE outer
          /\ started' = TRUE
          /\ toSend' = {} /\ stateRequestData' = {}
          /\ UNCHANGED <<responses, forced, connected>>
        BY <1>2, Zenon DEF TryToSend
    <2>2. /\ lastId \in Nat /\ Cardinality(Renumbered) \in Nat /\ last \in Nat /\ MaxMsgId \in Nat
          /\ Cardinality(toSend) \in Nat
        BY RenumberedType, FiniteRequests DEF TypeOK
    <2>3. \A r \in toSend : r \in Requests /\ IdOf(r) \in MsgIds
        BY <2>1, IdOfType DEF TypeOK
    <2>4. \A m \in MsgIds : Renamed(m) \in MsgIds
        BY <2>1, RenamedType
    <2>5. outer \in MsgIds
        <3>1. CASE alone /\ ~asks
            <4>1. Cardinality(toSend) = 1
                BY <3>1, <2>2
            <4>2. toSend # {}
                BY <4>1, FS_EmptySet
            <4>3. PICK r \in toSend : outer = IdOf(r)
                BY <4>2, <3>1
            <4> QED BY <4>3, <2>3
        <3>2. CASE alone /\ asks
            <4>1. outer = last + 1
                BY <3>2
            <4> HIDE DEF outer, last
            <4> QED BY <4>1, <2>1, <2>2 DEF MsgIds
        <3>3. CASE ~alone
            <4>1. outer = last + 1 \/ outer = last + 2
                BY <3>3
            <4> HIDE DEF outer, last
            <4> QED BY <4>1, <2>1, <2>2 DEF MsgIds
        <3> QED BY <3>1, <3>2, <3>3
    <2>6. askId \in 0 .. MaxMsgId /\ (asks => askId \in MsgIds)
        <3>1. CASE asks
            <4>1. askId = last + 1 /\ (outer = last + 1 \/ outer = last + 2)
                BY <3>1
            <4> HIDE DEF outer, last, askId
            <4> QED BY <4>1, <2>1, <2>2 DEF MsgIds
        <3>2. CASE ~asks
            BY <3>2, <2>2
        <3> QED BY <3>1, <3>2
    <2>7. lastId' \in 0 .. MaxMsgId
        <3>1. CASE alone /\ asks
            <4>1. lastId' = askId
                BY <2>1, <3>1
            <4> HIDE DEF askId
            <4> QED BY <4>1, <2>6
        <3>2. CASE alone /\ ~asks
            <4>1. lastId' = last
                BY <2>1, <2>2, <3>2
            <4> HIDE DEF last, outer
            <4> QED BY <4>1, <2>1, <2>2
        <3>3. CASE ~alone
            <4>1. lastId' = outer
                BY <2>1, <3>3
            <4> HIDE DEF outer
            <4> QED BY <4>1, <2>5 DEF MsgIds
        <3> QED BY <3>1, <3>2, <3>3
    <2>8. haveSent' \in [MsgIds -> Requests \cup {0}]
        <3>1. have \in [MsgIds -> Requests \cup {0}]
            BY MoveKeysType DEF TypeOK
        <3>2. \A m \in ids : (CHOOSE r \in toSend : IdOf(r) = m) \in Requests
            BY <2>3
        <3> HIDE DEF have, ids
        <3> QED BY <2>1, <3>1, <3>2
    <2>9. /\ resendingIds' \in [MsgIds -> Requests \cup {0}]
          /\ ackedIds' \in [MsgIds -> Requests \cup {0}]
        BY <2>1, MoveKeysType DEF TypeOK
    <2>10. sentContainers' \in [MsgIds -> SUBSET MsgIds]
        <3>1. ids \in SUBSET MsgIds
            BY <2>3
        <3>2. lists \in [MsgIds -> SUBSET MsgIds]
            <4>1. \A m \in MsgIds : {Renamed(k) : k \in sentContainers[m]} \in SUBSET MsgIds
                BY <2>4 DEF TypeOK
            <4> QED BY <4>1
        <3> HIDE DEF lists, ids, alone, outer
        <3> QED BY <2>1, <3>1, <3>2
    <2>11. stateRequests' \in [MsgIds -> SUBSET MsgIds]
        <3> HIDE DEF askId, asks
        <3> QED BY <2>1 DEF TypeOK
    <2>12. msgId' \in [Requests -> 0 .. MaxMsgId]
        BY <2>1, <2>3 DEF TypeOK, MsgIds
    <2>13. packet \in Packet
        <3>1. {<<IdOf(r), r>> : r \in toSend} \in SUBSET (MsgIds \X Requests)
            BY <2>3
        <3>2. stateRequestData \in SUBSET MsgIds
            BY DEF TypeOK
        <3> HIDE DEF outer, askId
        <3> QED BY <3>1, <3>2, <2>5, <2>6 DEF Packet
    <2>14. toServer' \subseteq Packet
        <3> HIDE DEF packet
        <3> QED BY <2>1, <2>13 DEF TypeOK
    <2>15. started' \in BOOLEAN /\ toSend' \subseteq Requests /\ stateRequestData' \subseteq MsgIds
        BY <2>1
    <2>16. /\ UNCHANGED <<responses, forced, connected, thread, main, server, answered, faults>>
           /\ sendPosted' = FALSE
        BY <2>1 DEF TryToSend
    <2> HIDE DEF asks, last, askId, count, alone, outer, ids, have, lists, packet
    <2> QED BY <2>7, <2>8, <2>9, <2>10, <2>11, <2>12, <2>14, <2>15, <2>16 DEF TypeOK
<1> QED BY <1>1, <1>2

\* The entries of _resendingIds for what is sent again.
LEMMA RememberValue ==
    ASSUME TypeOK, Remember(moving), NEW m \in MsgIds
    PROVE  \/ resendingIds'[m] = resendingIds[m]
           \/ resendingIds'[m] \in Requests /\ \E q \in moving : q[1] = m /\ resendingIds'[m] = q[2]
<1>1. CASE resendingIds[m] = 0 /\ \E q \in moving : q[1] = m
    <2>1. PICK q \in moving : q[1] = m /\ resendingIds'[m] = q[2]
        BY <1>1 DEF Remember
    <2> QED BY <2>1 DEF TypeOK
<1>2. CASE ~(resendingIds[m] = 0 /\ \E q \in moving : q[1] = m)
    BY <1>2 DEF Remember
<1> QED BY <1>1, <1>2

LEMMA SessionThreadType ==
    ASSUME TypeOK, SessionThread
    PROVE  TypeOK'
<1> USE SessionAssumption DEF data, private, thread, link, main, server, world
<1>1. ASSUME NEW t \in resending, TakeOut(t[1], t[2]) PROVE TypeOK'
    <2>1. t[1] \in MsgIds /\ t[2] \in BOOLEAN
        BY DEF TypeOK
    <2>2. moving' \subseteq MsgIds \X Requests \X BOOLEAN
        <3>1. haveSent[t[1]] = 0 => moving' = {}
            BY <1>1 DEF TakeOut
        <3>2. haveSent[t[1]] # 0 => moving' = {<<t[1], haveSent[t[1]], t[2]>>}
            BY <1>1 DEF TakeOut
        <3>3. haveSent[t[1]] # 0 => haveSent[t[1]] \in Requests
            BY <2>1 DEF TypeOK
        <3> QED BY <2>1, <3>1, <3>2, <3>3
    <2>3. haveSent' \in [MsgIds -> Requests \cup {0}] /\ resending' \subseteq MsgIds \X BOOLEAN
        BY <1>1, <2>1 DEF TakeOut, TypeOK
    <2> QED BY <1>1, <2>2, <2>3 DEF TakeOut, TypeOK
<1>2. CASE PutBack
    <2>1. \A q \in moving : q[2] \in Requests
        BY DEF TypeOK
    <2>2. resendingIds' \in [MsgIds -> Requests \cup {0}]
        <3>1. Remember(moving)
            BY <1>2 DEF PutBack
        <3>2. \A m \in MsgIds : resendingIds'[m] \in Requests \cup {0}
            BY <3>1, RememberValue DEF TypeOK
        <3>3. resendingIds' = [m \in MsgIds |-> resendingIds'[m]]
            BY <3>1 DEF Remember
        <3> QED BY <3>2, <3>3
    <2>3. toSend' \subseteq Requests /\ forced' \subseteq Requests
        BY <1>2, <2>1 DEF PutBack, TypeOK
    <2> QED BY <1>2, <2>2, <2>3 DEF PutBack, TypeOK
<1>3. CASE Finish
    <2>1. rest' \in [do : {"nothing", "ack", "check"}, ids : SUBSET MsgIds]
        BY <1>3 DEF Finish, Nothing
    <2>2. /\ toSend' \subseteq Requests
          /\ haveSent' \in [MsgIds -> Requests \cup {0}]
          /\ resendingIds' \in [MsgIds -> Requests \cup {0}]
          /\ ackedIds' \in [MsgIds -> Requests \cup {0}]
          /\ stateRequestData' \subseteq MsgIds /\ sendPosted' \in BOOLEAN
        <3>1. CASE RequestsAcked(rest.ids, FALSE) /\ UNCHANGED <<stateRequestData, sendPosted>>
            BY <3>1, RequestsAckedType DEF TypeOK
        <3>2. CASE /\ stateRequestData' = stateRequestData \cup Keys(haveSent)
                   /\ sendPosted' = TRUE
                   /\ UNCHANGED <<toSend, haveSent, resendingIds, ackedIds, odd>>
            BY <3>2 DEF TypeOK, Keys
        <3> QED BY <1>3, <3>1, <3>2 DEF Finish
    <2> QED BY <1>3, <2>1, <2>2 DEF Finish, TypeOK
<1>4. ASSUME NEW C \in SUBSET {m \in MsgIds : sentContainers[m] # {}}, CheckSentRequests(C)
      PROVE  TypeOK'
    <2>1. sentContainers' \in [MsgIds -> SUBSET MsgIds]
        BY <1>4 DEF CheckSentRequests, Unsent, TypeOK
    <2>2. resending' \subseteq MsgIds \X BOOLEAN
        <3>1. UNION {sentContainers[c] : c \in C} \subseteq MsgIds
            BY DEF TypeOK
        <3>2. resending' = {<<m, TRUE>> : m \in UNION {sentContainers[c] : c \in C}}
            BY <1>4 DEF CheckSentRequests
        <3> QED BY <3>1, <3>2, ResendingType
    <2>3. rest' \in [do : {"nothing", "ack", "check"}, ids : SUBSET MsgIds]
        BY <1>4 DEF CheckSentRequests
    <2>4. faults' \in 0 .. MaxFaults
        BY <1>4 DEF CheckSentRequests, Fault, TypeOK
    <2> QED BY <1>4, <2>1, <2>2, <2>3, <2>4 DEF CheckSentRequests, TypeOK
<1>5. CASE Connect
    <2>1. moving' = {<<m, haveSent[m], TRUE>> : m \in Keys(haveSent)}
        BY <1>5 DEF Connect
    <2>2. \A m \in Keys(haveSent) : m \in MsgIds /\ haveSent[m] \in Requests
        BY DEF TypeOK, Keys
    <2>3. moving' \subseteq MsgIds \X Requests \X BOOLEAN
        <3>1. \A m \in Keys(haveSent) : <<m, haveSent[m], TRUE>> \in MsgIds \X Requests \X BOOLEAN
            BY <2>2
        <3> QED BY <2>1, <3>1
    <2>4. haveSent' \in [MsgIds -> Requests \cup {0}]
        BY <1>5 DEF Connect, NoMap
    <2> QED BY <1>5, <2>3, <2>4 DEF Connect, TypeOK
<1>6. CASE Disconnect
    <2>1. /\ toServer' = {} /\ refused' = {} /\ infos' = {} /\ created' \in 0 .. MaxMsgId
          /\ connected' = FALSE
        BY <1>6 DEF Disconnect, Lost
    <2>2. faults' \in 0 .. MaxFaults
        BY <1>6 DEF Disconnect, Fault, TypeOK
    <2> QED BY <1>6, <2>1, <2>2 DEF Disconnect, TypeOK
<1>7. CASE StopAndStart
    <2>1. connected' = FALSE /\ started' = FALSE /\ fresh' = FALSE /\ created' \in 0 .. MaxMsgId
        BY <1>7 DEF StopAndStart, ChangeSessionId, Lost
    <2>2. /\ toServer' = {} /\ refused' = {} /\ infos' = {} /\ executed' = {}
          /\ containers' = {} /\ answered' = {} /\ stateRequestData' = {}
        BY <1>7 DEF StopAndStart, ChangeSessionId, Lost
    <2>3. faults' \in 0 .. MaxFaults
        BY <1>7 DEF StopAndStart, Fault, TypeOK
    <2>4. /\ resendingIds' \in [MsgIds -> Requests \cup {0}]
          /\ ackedIds' \in [MsgIds -> Requests \cup {0}]
          /\ sentContainers' \in [MsgIds -> SUBSET MsgIds]
          /\ stateRequests' \in [MsgIds -> SUBSET MsgIds]
        BY <1>7 DEF StopAndStart, NoMap
    <2>5. UNCHANGED <<data, sendPosted, thread, lastId, main>>
        BY <1>7 DEF StopAndStart
    <2> QED BY <2>1, <2>2, <2>3, <2>4, <2>5 DEF TypeOK
<1> QED BY <1>1, <1>2, <1>3, <1>4, <1>5, <1>6, <1>7, TryToSendType DEF SessionThread

LEMMA ServerType ==
    ASSUME TypeOK, Server
    PROVE  TypeOK'
<1> USE SessionAssumption DEF data, private, thread, link, main, server, world
<1>1. ASSUME NEW p \in toServer, ServerGets(p) PROVE TypeOK'
    <2>1. /\ p.id \in MsgIds /\ p.reqs \subseteq MsgIds \X Requests
          /\ p.askId \in 0 .. MaxMsgId
        BY DEF TypeOK, Packet
    <2>2. executed' \subseteq MsgIds \X Requests /\ toServer' \subseteq Packet
        BY <1>1, <2>1 DEF ServerGets, TypeOK
    <2>3. containers' \subseteq MsgIds
        BY <1>1, <2>1 DEF ServerGets, TypeOK
    <2>4. infos' \subseteq MsgIds \X SUBSET MsgIds
        <3>1. {x[1] : x \in executed} \subseteq MsgIds
            BY DEF TypeOK
        <3>2. {p.askId} \ {0} \subseteq MsgIds
            BY <2>1 DEF MsgIds
        <3>3. infos' = infos \cup {<<q, {x[1] : x \in executed}>> : q \in {p.askId} \ {0}}
            BY <1>1 DEF ServerGets
        <3> QED BY <3>1, <3>2, <3>3 DEF TypeOK
    <2>5. created' \in 0 .. MaxMsgId
        <3> DEFINE S == {x[1] : x \in p.reqs} \cup {p.id}
        <3>1. S \subseteq MsgIds /\ S # {} /\ MsgIds \subseteq Nat
            BY <2>1 DEF MsgIds
        <3>2. Min(S) \in MsgIds
            <4> HIDE DEF S
            <4> QED BY <3>1, Smallest
        <3>3. created' = Min(S) \/ created' = created
            BY <1>1 DEF ServerGets
        <3> HIDE DEF S
        <3> QED BY <3>2, <3>3 DEF MsgIds, TypeOK
    <2> QED BY <1>1, <2>2, <2>3, <2>4, <2>5 DEF ServerGets, TypeOK
<1>2. ASSUME NEW p \in toServer, ServerRefuses(p) PROVE TypeOK'
    <2>1. p.id \in MsgIds /\ toServer' \subseteq Packet
        BY <1>2 DEF TypeOK, Packet, ServerRefuses
    <2>2. refused' \subseteq MsgIds /\ faults' \in 0 .. MaxFaults
        BY <1>2, <2>1 DEF ServerRefuses, Fault, TypeOK
    <2> QED BY <1>2, <2>1, <2>2 DEF ServerRefuses, TypeOK
<1>3. CASE ServerForgets
    <2>1. faults' \in 0 .. MaxFaults
        BY <1>3 DEF ServerForgets, Fault, TypeOK
    <2> QED BY <1>3, <2>1 DEF ServerForgets, TypeOK
<1> QED BY <1>1, <1>2, <1>3 DEF Server

LEMMA StepType == TypeOK /\ [Next]_vars => TypeOK'
<1>1. TypeOK /\ UNCHANGED vars => TypeOK'
    BY DEF TypeOK, vars, data, private, thread, link, main, server, world
<1> QED BY <1>1, MainThreadType, ReceivedType, SessionThreadType, ServerType DEF Next

\* The types of the session's maps and of its messages, with every operation
\* of both threads, of the connection and of the server.
THEOREM TypeCorrect == Spec => []TypeOK
BY InitType, StepType, PTL DEF Spec

-----------------------------------------------------------------------------
\* Every id has one owner.

\* Somewhere - in a map of the client, in the data of a request, on the way,
\* at the server - the message id m stands for the request r.
Claim(m, r) ==
    \/ haveSent[m] = r \/ resendingIds[m] = r \/ ackedIds[m] = r \/ msgId[r] = m
    \/ \E q \in moving : q[1] = m /\ q[2] = r
    \/ <<m, r>> \in executed
    \/ \E p \in toServer : <<m, r>> \in p.reqs
    \/ cancelling = <<r, m>>

\* An id that is in use was made, and all who use it agree on its request.
OneOwner ==
    "misread" \notin odd =>
        \A m \in MsgIds, r \in Requests : Claim(m, r) =>
            m <= lastId /\ \A s \in Requests : Claim(m, s) => r = s

\* A step after which nobody stands for a request who did not before.
NoNewClaim == \A m \in MsgIds, r \in Requests : Claim(m, r)' => Claim(m, r)

LEMMA OwnersStay ==
    ASSUME OneOwner, lastId' = lastId, odd \subseteq odd',
           "misread" \notin odd' => NoNewClaim
    PROVE  OneOwner'
<1> SUFFICES ASSUME "misread" \notin odd',
                    NEW m \in MsgIds, NEW r \in Requests, Claim(m, r)'
             PROVE  m <= lastId' /\ \A s \in Requests : Claim(m, s)' => r = s
    BY DEF OneOwner
<1>1. NoNewClaim /\ "misread" \notin odd
    OBVIOUS
<1>2. Claim(m, r)
    BY <1>1 DEF NoNewClaim
<1>3. m <= lastId /\ \A s \in Requests : Claim(m, s) => r = s
    BY <1>1, <1>2 DEF OneOwner
<1> QED BY <1>1, <1>3 DEF NoNewClaim

\* requestsAcked moves ids between the maps of the client.
LEMMA RequestsAckedClaims ==
    ASSUME TypeOK, NEW S, NEW byResponse, RequestsAcked(S, byResponse)
    PROVE  /\ odd \subseteq odd'
           /\ Misreads \/ odd' = {}
           /\ "misread" \notin odd' =>
                \A m \in MsgIds, r \in Requests :
                    /\ haveSent'[m] = r => haveSent[m] = r
                    /\ resendingIds'[m] = r => resendingIds[m] = r
                    /\ ackedIds'[m] = r => ackedIds[m] = r \/ haveSent[m] = r \/ resendingIds[m] = r
<1> DEFINE sent == Sent(S, byResponse)
           late == Late(S, byResponse)
           back == {m \in late : resendingIds[m] \in toSend}
           all(read) == [m \in MsgIds |-> IF ackedIds[m] # 0 THEN ackedIds[m]
                                          ELSE IF m \in sent THEN haveSent[m]
                                          ELSE IF m \in back THEN read[m] ELSE 0]
<1>1. PICK read \in [back -> Requests \cup {0}] :
        /\ ackedIds' = KeepNewest(all(read))
        /\ odd' = odd \cup {x \in {"misread"} : \E m \in back : read[m] # resendingIds[m]}
                      \cup {x \in {"trimmed"} : byResponse /\ \E m \in sent \cup back :
                                                   all(read)[m] # 0 /\ ackedIds'[m] = 0}
        /\ Misreads \/ odd' = {}
    BY DEF RequestsAcked
<1>2. /\ haveSent' = [m \in MsgIds |-> IF m \in sent THEN 0 ELSE haveSent[m]]
      /\ resendingIds' = [m \in MsgIds |-> IF m \in late THEN 0 ELSE resendingIds[m]]
    BY DEF RequestsAcked
<1>3. ASSUME "misread" \notin odd', NEW m \in MsgIds, NEW r \in Requests
      PROVE  /\ haveSent'[m] = r => haveSent[m] = r
             /\ resendingIds'[m] = r => resendingIds[m] = r
             /\ ackedIds'[m] = r => ackedIds[m] = r \/ haveSent[m] = r \/ resendingIds[m] = r
    <2>1. r # 0
        BY SessionAssumption
    <2>2. \A k \in back : read[k] = resendingIds[k]
        BY <1>1, <1>3
    <2>3. ackedIds'[m] = r => all(read)[m] = r
        <3> HIDE DEF all
        <3> QED BY <1>1, <2>1 DEF KeepNewest
    <2>4. all(read)[m] = r => ackedIds[m] = r \/ haveSent[m] = r \/ resendingIds[m] = r
        <3> HIDE DEF sent, back
        <3> QED BY <2>1, <2>2
    <2> HIDE DEF sent, late, back, all
    <2> QED BY <1>2, <2>1, <2>3, <2>4
<1> HIDE DEF sent, late, back, all
<1> QED BY <1>1, <1>3

\* A step that leaves all these variables alone, or only empties some.
LEMMA QuietClaims ==
    ASSUME UNCHANGED <<haveSent, resendingIds, ackedIds, msgId, moving, cancelling>>,
           executed' \subseteq executed, toServer' \subseteq toServer
    PROVE  NoNewClaim
BY DEF NoNewClaim, Claim

LEMMA MainThreadOwners ==
    ASSUME TypeOK, OneOwner, MainThread
    PROVE  OneOwner'
<1> USE DEF data, private, thread, link, main, server, world
<1>1. ASSUME NEW r \in Requests, Prepare(r),
             UNCHANGED <<haveSent, private, moving, cancelling, executed, toServer>>
      PROVE  NoNewClaim
    <2>1. \A s \in Requests, m \in MsgIds : msgId'[s] = m => msgId[s] = m
        BY <1>1 DEF Prepare, TypeOK, MsgIds
    <2> QED BY <1>1, <2>1 DEF NoNewClaim, Claim
<1>2. ASSUME NEW r \in Requests, SendPrepared(r) \/ SendAgain(r) PROVE OneOwner'
    <2>1. NoNewClaim
        BY <1>1, <1>2 DEF SendPrepared, SendAgain
    <2> QED BY <1>2, <2>1, OwnersStay DEF SendPrepared, SendAgain
<1>3. ASSUME NEW r \in Requests, CancelBegin(r) PROVE OneOwner'
    <2>1. ASSUME NEW m \in MsgIds, NEW s \in Requests, cancelling' = <<s, m>>
          PROVE  msgId[s] = m
        BY <1>3, <2>1 DEF CancelBegin
    <2>2. UNCHANGED <<haveSent, resendingIds, ackedIds, msgId, moving, executed, toServer>>
        BY <1>3 DEF CancelBegin
    <2>3. NoNewClaim
        BY <2>1, <2>2 DEF NoNewClaim, Claim
    <2> QED BY <1>3, <2>3, OwnersStay DEF CancelBegin
<1>4. CASE CancelEnd
    <2>1. ASSUME NEW m \in MsgIds, NEW s \in Requests, haveSent'[m] = s
          PROVE  haveSent[m] = s
        BY <1>4, <2>1, SessionAssumption DEF CancelEnd, TypeOK
    <2>2. \A s \in Requests, m \in MsgIds : cancelling' # <<s, m>>
        BY <1>4, SessionAssumption DEF CancelEnd
    <2>3. UNCHANGED <<resendingIds, ackedIds, msgId, moving, executed, toServer>>
        BY <1>4 DEF CancelEnd
    <2>4. NoNewClaim
        BY <2>1, <2>2, <2>3 DEF NoNewClaim, Claim
    <2> QED BY <1>4, <2>4, OwnersStay DEF CancelEnd
<1>5. CASE TryToReceive
    <2>1. NoNewClaim
        BY <1>5, QuietClaims DEF TryToReceive
    <2> QED BY <1>5, <2>1, OwnersStay DEF TryToReceive
<1> QED BY <1>2, <1>3, <1>4, <1>5 DEF MainThread

\* requestsAcked with the rest of a handler.
LEMMA AckedOwners ==
    ASSUME TypeOK, OneOwner, NEW S, NEW byResponse, RequestsAcked(S, byResponse),
           UNCHANGED <<msgId, moving, cancelling, executed, toServer, lastId>>
    PROVE  OneOwner'
<1>1. "misread" \notin odd' => NoNewClaim
    BY RequestsAckedClaims DEF NoNewClaim, Claim
<1>2. odd \subseteq odd'
    BY RequestsAckedClaims
<1> QED BY <1>1, <1>2, OwnersStay

LEMMA ReceivedOwners ==
    ASSUME TypeOK, OneOwner, Received
    PROVE  OneOwner'
<1> USE DEF data, private, thread, link, main, server, world
<1>1. ASSUME NEW p \in executed, NEW ok \in BOOLEAN, RpcResult(p[1], p[2], ok) PROVE OneOwner'
    BY <1>1, AckedOwners DEF RpcResult
<1>2. ASSUME NEW m \in MsgIds, MsgsAck(m) PROVE OneOwner'
    BY <1>2, AckedOwners DEF MsgsAck
<1>3. ASSUME NEW m \in MsgIds, FatalBadMsg(m) PROVE OneOwner'
    BY <1>3, QuietClaims, OwnersStay DEF FatalBadMsg
<1>4. ASSUME NEW m \in MsgIds, ResetSession(m) PROVE OneOwner'
    BY <1>4, QuietClaims, OwnersStay DEF ResetSession, ChangeSessionId, Lost
<1>5. ASSUME NEW m \in MsgIds, NEW force \in BOOLEAN, BadMsg(m, force) PROVE OneOwner'
    BY <1>5, QuietClaims, OwnersStay DEF BadMsg
<1>6. ASSUME NEW i \in infos, MsgsStateInfo(i[1], i[2]) PROVE OneOwner'
    BY <1>6, QuietClaims, OwnersStay DEF MsgsStateInfo
<1>7. CASE NewSessionCreated
    BY <1>7, QuietClaims, OwnersStay DEF NewSessionCreated
<1> QED BY <1>1, <1>2, <1>3, <1>4, <1>5, <1>6, <1>7 DEF Received

LEMMA ServerOwners ==
    ASSUME TypeOK, OneOwner, Server
    PROVE  OneOwner'
<1> USE DEF data, private, thread, link, main, server, world
<1>1. ASSUME NEW p \in toServer, ServerGets(p) PROVE OneOwner'
    <2>1. /\ executed' = executed \cup p.reqs /\ toServer' \subseteq toServer
          /\ UNCHANGED <<haveSent, resendingIds, ackedIds, msgId, moving, cancelling, lastId, odd>>
        BY <1>1 DEF ServerGets
    <2>2. NoNewClaim
        BY <2>1 DEF NoNewClaim, Claim
    <2> QED BY <2>1, <2>2, OwnersStay
<1>2. ASSUME NEW p \in toServer, ServerRefuses(p) PROVE OneOwner'
    BY <1>2, QuietClaims, OwnersStay DEF ServerRefuses
<1>3. CASE ServerForgets
    BY <1>3, QuietClaims, OwnersStay DEF ServerForgets
<1> QED BY <1>1, <1>2, <1>3 DEF Server

\* What tryToSend does to the maps when it sends.
Sends == TryToSend /\ ~(~connected \/ toSend \cup stateRequestData = {})

LEMMA SendsEffect ==
    ASSUME TypeOK, Sends
    PROVE  /\ lastId + Cardinality(Renumbered) <= MaxMsgId
           /\ lastId + Cardinality(Renumbered) <= lastId'
           /\ haveSent' = [m \in MsgIds |->
                 IF MoveKeys(haveSent)[m] = 0 /\ m \in {IdOf(r) : r \in toSend}
                 THEN CHOOSE r \in toSend : IdOf(r) = m ELSE MoveKeys(haveSent)[m]]
           /\ resendingIds' = [m \in MsgIds |-> IF \E r \in toSend : msgId[r] = m
                                                THEN 0 ELSE resendingIds[m]]
           /\ ackedIds' = MoveKeys(ackedIds)
           /\ msgId' = [r \in Requests |-> IF r \in toSend THEN IdOf(r) ELSE msgId[r]]
           /\ \A p \in toServer' : p \in toServer \/ p.reqs = {<<IdOf(r), r>> : r \in toSend}
           /\ UNCHANGED <<responses, moving, main, executed, odd>>
<1> DEFINE asks == stateRequestData # {}
           last == lastId + Cardinality(Renumbered)
           askId == IF asks THEN last + 1 ELSE 0
           count == Cardinality(toSend) + (IF asks THEN 1 ELSE 0)
           alone == count = 1 /\ toSend \cap forced = {}
           outer == IF alone THEN IF asks THEN askId ELSE IdOf(CHOOSE r \in toSend : TRUE)
                    ELSE last + (IF asks THEN 2 ELSE 1)
<1>1. /\ last <= MaxMsgId
      /\ haveSent' = [m \in MsgIds |->
            IF MoveKeys(haveSent)[m] = 0 /\ m \in {IdOf(r) : r \in toSend}
            THEN CHOOSE r \in toSend : IdOf(r) = m ELSE MoveKeys(haveSent)[m]]
      /\ resendingIds' = [m \in MsgIds |-> IF \E r \in toSend : msgId[r] = m
                                           THEN 0 ELSE resendingIds[m]]
      /\ ackedIds' = MoveKeys(ackedIds)
      /\ msgId' = [r \in Requests |-> IF r \in toSend THEN IdOf(r) ELSE msgId[r]]
      /\ toServer' = toServer \cup {[id |-> outer, reqs |-> {<<IdOf(r), r>> : r \in toSend},
                                     ask |-> stateRequestData, askId |-> askId]}
      /\ lastId' = IF alone THEN last + (IF asks THEN 1 ELSE 0) ELSE outer
      /\ UNCHANGED responses
    BY Zenon DEF Sends, TryToSend
<1>2. UNCHANGED <<responses, moving, main, executed, odd>>
    BY <1>1 DEF Sends, TryToSend, thread, server
<1>3. last <= lastId'
    <2>1. last \in Nat
        BY RenumberedType, SessionAssumption DEF TypeOK
    <2>2. lastId' = last \/ lastId' = last + 1 \/ lastId' = last + 2
        <3>1. CASE alone
            <4> HIDE DEF last, alone
            <4> QED BY <3>1, <1>1, <2>1
        <3>2. CASE ~alone
            <4>1. lastId' = last + (IF asks THEN 2 ELSE 1)
                BY <3>2, <1>1, Zenon
            <4> HIDE DEF last
            <4> QED BY <4>1
        <3> QED BY <3>1, <3>2
    <2> HIDE DEF last
    <2> QED BY <2>1, <2>2
<1>4. \A p \in toServer' : p \in toServer \/ p.reqs = {<<IdOf(r), r>> : r \in toSend}
    <2> HIDE DEF outer, askId
    <2> QED BY <1>1
<1> QED BY <1>1, <1>2, <1>3, <1>4

\* A map of the client after replaceMsgId says of an old id what some map said
\* before, and of a new id whom it was given to.
LEMMA MovedClaim ==
    ASSUME TypeOK, OneOwner, "misread" \notin odd,
           NEW f \in {haveSent, ackedIds},
           NEW m \in MsgIds, NEW r \in Requests, MoveKeys(f)[m] = r
    PROVE  Claim(m, r) \/ (r \in Renumbered /\ m = IdOf(r))
<1>1. r # 0
    BY SessionAssumption
<1>2. f \in [MsgIds -> Requests \cup {0}]
    BY DEF TypeOK
<1>3. PICK k \in Keys(f) : Renamed(k) = m /\ f[k] = r
    BY <1>1, <1>2, MoveKeysValue
<1>4. k \in MsgIds /\ Claim(k, r)
    BY <1>3 DEF Keys, Claim
<1>5. CASE \E s \in Renumbered : msgId[s] = k
    <2>1. PICK s \in Renumbered : msgId[s] = k /\ m = IdOf(s)
        BY <1>3, <1>5 DEF Renamed
    <2>2. s \in Requests /\ Claim(k, s)
        BY <2>1, RenumberedType DEF Claim
    <2>3. s = r
        BY <1>4, <2>2 DEF OneOwner
    <2> QED BY <2>1, <2>3
<1>6. CASE ~ \E s \in Renumbered : msgId[s] = k
    BY <1>3, <1>4, <1>6 DEF Renamed
<1> QED BY <1>5, <1>6

\* Who has an id after tryToSend had it before or got it now.
LEMMA SendsClaims ==
    ASSUME TypeOK, OneOwner, Sends, "misread" \notin odd,
           NEW m \in MsgIds, NEW r \in Requests, Claim(m, r)'
    PROVE  Claim(m, r) \/ (r \in Renumbered /\ m = IdOf(r))
<1>1. ASSUME r \in toSend, IdOf(r) = m
      PROVE  Claim(m, r) \/ (r \in Renumbered /\ m = IdOf(r))
    BY <1>1 DEF IdOf, Claim
<1>2. CASE haveSent'[m] = r
    <2>1. CASE MoveKeys(haveSent)[m] = 0 /\ m \in {IdOf(s) : s \in toSend}
        <3>1. haveSent'[m] = CHOOSE s \in toSend : IdOf(s) = m
            BY <2>1, SendsEffect
        <3>2. r \in toSend /\ IdOf(r) = m
            BY <3>1, <2>1, <1>2
        <3> QED BY <3>2, <1>1
    <2>2. CASE ~(MoveKeys(haveSent)[m] = 0 /\ m \in {IdOf(s) : s \in toSend})
        <3>1. MoveKeys(haveSent)[m] = r
            BY <1>2, <2>2, SendsEffect
        <3> QED BY <3>1, MovedClaim
    <2> QED BY <2>1, <2>2
<1>3. CASE resendingIds'[m] = r
    <2>1. resendingIds[m] = r
        BY <1>3, SendsEffect, SessionAssumption
    <2> QED BY <2>1 DEF Claim
<1>4. CASE ackedIds'[m] = r
    BY <1>4, SendsEffect, MovedClaim
<1>5. CASE msgId'[r] = m
    <2>1. CASE r \in toSend
        BY <1>1, <1>5, <2>1, SendsEffect
    <2>2. CASE r \notin toSend
        BY <1>5, <2>2, SendsEffect DEF Claim
    <2> QED BY <2>1, <2>2
<1>6. CASE \E q \in moving' : q[1] = m /\ q[2] = r
    BY <1>6, SendsEffect DEF Claim
<1>7. CASE <<m, r>> \in executed'
    BY <1>7, SendsEffect DEF Claim
<1>8. CASE \E p \in toServer' : <<m, r>> \in p.reqs
    <2>1. PICK p \in toServer' : <<m, r>> \in p.reqs
        BY <1>8
    <2>2. CASE p \in toServer
        BY <2>1, <2>2 DEF Claim
    <2>3. CASE p.reqs = {<<IdOf(s), s>> : s \in toSend}
        <3>1. r \in toSend /\ IdOf(r) = m
            BY <2>1, <2>3
        <3> QED BY <3>1, <1>1
    <2> QED BY <2>2, <2>3, SendsEffect
<1>9. CASE cancelling' = <<r, m>>
    BY <1>9, SendsEffect DEF Claim, main
<1> QED BY <1>2, <1>3, <1>4, <1>5, <1>6, <1>7, <1>8, <1>9 DEF Claim

LEMMA SendsOwners ==
    ASSUME TypeOK, OneOwner, Sends
    PROVE  OneOwner'
<1> SUFFICES ASSUME "misread" \notin odd',
                    NEW m \in MsgIds, NEW r \in Requests, Claim(m, r)'
             PROVE  m <= lastId' /\ \A s \in Requests : Claim(m, s)' => r = s
    BY DEF OneOwner
<1>1. "misread" \notin odd
    BY SendsEffect
<1>2. /\ lastId \in Nat /\ lastId' \in Nat /\ Cardinality(Renumbered) \in Nat
      /\ m \in Nat /\ lastId <= lastId'
    <2>1. lastId' \in Nat
        BY TryToSendType, SessionAssumption DEF TypeOK, Sends
    <2>2. lastId \in Nat /\ Cardinality(Renumbered) \in Nat /\ m \in Nat
        <3>1. m \in Nat
            BY SessionAssumption DEF MsgIds
        <3> QED BY <3>1, RenumberedType, SessionAssumption DEF TypeOK
    <2>3. lastId + Cardinality(Renumbered) <= lastId'
        BY SendsEffect
    <2> QED BY <2>1, <2>2, <2>3
<1>3. \A s \in Requests : Claim(m, s)' => Claim(m, s) \/ (s \in Renumbered /\ m = IdOf(s))
    BY <1>1, SendsClaims
<1>4. \A s \in Requests : Claim(m, s) => m <= lastId
    BY <1>1 DEF OneOwner
<1>5. \A s \in Renumbered : m = IdOf(s) => lastId < m /\ m <= lastId'
    <2>1. \A s \in Renumbered : lastId < IdOf(s) /\ IdOf(s) <= lastId + Cardinality(Renumbered)
        BY NewIdRange
    <2>2. lastId + Cardinality(Renumbered) <= lastId'
        BY SendsEffect
    <2> QED BY <1>2, <2>1, <2>2
<1>6. m <= lastId'
    BY <1>2, <1>3, <1>4, <1>5
<1>7. ASSUME NEW s \in Requests, Claim(m, s)' PROVE r = s
    <2>1. CASE Claim(m, r) /\ Claim(m, s)
        BY <2>1, <1>1 DEF OneOwner
    <2>2. CASE r \in Renumbered /\ m = IdOf(r) /\ s \in Renumbered /\ m = IdOf(s)
        BY <2>2, NewIdsDiffer
    <2>3. ~(Claim(m, r) /\ s \in Renumbered /\ m = IdOf(s))
        BY <1>2, <1>4, <1>5
    <2>4. ~(Claim(m, s) /\ r \in Renumbered /\ m = IdOf(r))
        BY <1>2, <1>4, <1>5
    <2> QED BY <1>3, <1>7, <2>1, <2>2, <2>3, <2>4
<1> QED BY <1>6, <1>7

LEMMA SessionThreadOwners ==
    ASSUME TypeOK, OneOwner, SessionThread
    PROVE  OneOwner'
<1> USE DEF data, private, thread, link, main, server, world
<1>1. ASSUME NEW t \in resending, TakeOut(t[1], t[2]) PROVE OneOwner'
    <2>1. t[1] \in MsgIds
        BY DEF TypeOK
    <2>2. ASSUME NEW m \in MsgIds, NEW s \in Requests, haveSent'[m] = s
          PROVE  haveSent[m] = s
        BY <1>1, <2>1, <2>2, SessionAssumption DEF TakeOut, TypeOK
    <2>3. ASSUME NEW q \in moving' PROVE q[1] \in MsgIds /\ haveSent[q[1]] = q[2]
        BY <1>1, <2>1 DEF TakeOut
    <2>4. UNCHANGED <<resendingIds, ackedIds, msgId, cancelling, executed, toServer, lastId, odd>>
        BY <1>1 DEF TakeOut
    <2>5. NoNewClaim
        BY <2>2, <2>3, <2>4 DEF NoNewClaim, Claim
    <2> QED BY <2>4, <2>5, OwnersStay
<1>2. CASE PutBack
    <2>1. Remember(moving) /\ moving' = {}
        BY <1>2 DEF PutBack
    <2>2. UNCHANGED <<haveSent, ackedIds, msgId, cancelling, executed, toServer, lastId, odd>>
        BY <1>2 DEF PutBack
    <2>3. ASSUME NEW m \in MsgIds, NEW s \in Requests, resendingIds'[m] = s
          PROVE  Claim(m, s)
        BY <2>1, <2>3, RememberValue DEF Claim
    <2>4. NoNewClaim
        BY <2>1, <2>2, <2>3 DEF NoNewClaim, Claim
    <2> QED BY <2>2, <2>4, OwnersStay
<1>3. CASE Finish
    <2>1. UNCHANGED <<msgId, moving, cancelling, executed, toServer, lastId>>
        BY <1>3 DEF Finish
    <2>2. CASE RequestsAcked(rest.ids, FALSE)
        BY <2>1, <2>2, AckedOwners
    <2>3. CASE UNCHANGED <<toSend, haveSent, resendingIds, ackedIds, odd>>
        BY <2>1, <2>3, QuietClaims, OwnersStay
    <2> QED BY <1>3, <2>2, <2>3 DEF Finish
<1>4. ASSUME NEW C \in SUBSET {m \in MsgIds : sentContainers[m] # {}}, CheckSentRequests(C)
      PROVE  OneOwner'
    BY <1>4, QuietClaims, OwnersStay DEF CheckSentRequests
<1>5. CASE Connect
    <2>1. \A m \in MsgIds, s \in Requests : haveSent'[m] # s
        BY <1>5, SessionAssumption DEF Connect, NoMap
    <2>2. \A q \in moving' : q[1] \in MsgIds /\ haveSent[q[1]] = q[2]
        <3>1. moving' = {<<m, haveSent[m], TRUE>> : m \in Keys(haveSent)}
            BY <1>5 DEF Connect
        <3>2. Keys(haveSent) \subseteq MsgIds
            BY DEF Keys
        <3> SUFFICES ASSUME NEW q \in moving' PROVE q[1] \in MsgIds /\ haveSent[q[1]] = q[2]
            OBVIOUS
        <3>3. PICK m \in Keys(haveSent) : q = <<m, haveSent[m], TRUE>>
            BY <3>1
        <3> QED BY <3>2, <3>3
    <2>3. UNCHANGED <<resendingIds, ackedIds, msgId, cancelling, executed, toServer, lastId, odd>>
        BY <1>5 DEF Connect
    <2>4. NoNewClaim
        BY <2>1, <2>2, <2>3 DEF NoNewClaim, Claim
    <2> QED BY <2>3, <2>4, OwnersStay
<1>6. CASE Disconnect
    BY <1>6, QuietClaims, OwnersStay DEF Disconnect, Lost
<1>7. CASE StopAndStart
    <2>1. \A m \in MsgIds, s \in Requests : resendingIds'[m] # s /\ ackedIds'[m] # s
        BY <1>7, SessionAssumption DEF StopAndStart, NoMap
    <2>2. executed' = {} /\ toServer' = {}
        BY <1>7 DEF StopAndStart, ChangeSessionId, Lost
    <2>3. UNCHANGED <<haveSent, msgId, moving, cancelling, lastId, odd>>
        BY <1>7 DEF StopAndStart
    <2>4. NoNewClaim
        BY <2>1, <2>2, <2>3 DEF NoNewClaim, Claim
    <2> QED BY <2>3, <2>4, OwnersStay
<1>8. CASE TryToSend
    <2>1. CASE Sends
        BY <2>1, SendsOwners
    <2>2. CASE ~Sends
        <3>1. UNCHANGED <<data, private, link, toServer, thread, main, server, odd>>
            BY <1>8, <2>2 DEF Sends, TryToSend
        <3> QED BY <3>1, QuietClaims, OwnersStay
    <2> QED BY <2>1, <2>2
<1> QED BY <1>1, <1>2, <1>3, <1>4, <1>5, <1>6, <1>7, <1>8 DEF SessionThread

LEMMA InitOwners == Init => OneOwner
<1> SUFFICES ASSUME Init, NEW m \in MsgIds, NEW r \in Requests PROVE ~Claim(m, r)
    BY DEF OneOwner
<1>1. r # 0 /\ m # 0
    BY SessionAssumption DEF MsgIds
<1>2. haveSent[m] = 0 /\ resendingIds[m] = 0 /\ ackedIds[m] = 0 /\ msgId[r] = 0
    BY DEF Init, NoMap
<1>3. moving = {} /\ executed = {} /\ toServer = {} /\ cancelling = <<0, 0>>
    BY DEF Init
<1> QED BY <1>1, <1>2, <1>3 DEF Claim

LEMMA StepOwners == TypeOK /\ OneOwner /\ [Next]_vars => OneOwner'
<1>1. ASSUME OneOwner, UNCHANGED vars PROVE OneOwner'
    <2>1. UNCHANGED <<haveSent, resendingIds, ackedIds, msgId, moving, cancelling,
                      executed, toServer, lastId, odd>>
        BY <1>1 DEF vars, data, private, thread, link, main, server, world
    <2> QED BY <1>1, <2>1, QuietClaims, OwnersStay
<1> QED BY <1>1, MainThreadOwners, ReceivedOwners, SessionThreadOwners, ServerOwners DEF Next

\* Every message id means one request: all maps of the two threads, the packets
\* on their way and the server agree on it, and the id was made by tryToSend,
\* as long as no id was misread.
THEOREM IdsAgree == Spec => []OneOwner
BY InitType, StepType, InitOwners, StepOwners, PTL DEF Spec

-----------------------------------------------------------------------------
\* Answers and callbacks.

\* A request that is being cancelled has callbacks; an id is misread only where
\* that is looked at.
CancelIsAsked == cancelling = <<0, 0>> \/ (cancelling[1] \in Requests /\ HasCallbacks(cancelling[1]))
OddAllowed == Misreads \/ odd = {}

Inv == TypeOK /\ OneOwner /\ CancelIsAsked /\ OddAllowed /\ OwnAnswer /\ NothingForgotten

LEMMA InitInv == Init => Inv
<1> SUFFICES ASSUME Init PROVE Inv
    OBVIOUS
<1>1. CancelIsAsked /\ OddAllowed
    BY DEF Init, CancelIsAsked, OddAllowed
<1>2. OwnAnswer
    BY DEF Init, OwnAnswer, None
<1>3. NothingForgotten
    BY DEF Init, NothingForgotten
<1> QED BY <1>1, <1>2, <1>3, InitType, InitOwners DEF Inv

\* The steps of a caller: only the main thread changes what it knows.
LEMMA StepCancel ==
    ASSUME Inv, [Next]_vars
    PROVE  CancelIsAsked'
<1> USE DEF data, private, thread, link, main, server, world
<1>1. ASSUME UNCHANGED main PROVE CancelIsAsked'
    BY <1>1 DEF Inv, CancelIsAsked, HasCallbacks
<1>2. ASSUME NEW r \in Requests, SendPrepared(r) \/ SendAgain(r) PROVE CancelIsAsked'
    BY <1>2 DEF SendPrepared, SendAgain, MainFree, CancelIsAsked
<1>3. ASSUME NEW r \in Requests, CancelBegin(r) PROVE CancelIsAsked'
    BY <1>3 DEF CancelBegin, CancelIsAsked, HasCallbacks
<1>4. CASE CancelEnd
    BY <1>4 DEF CancelEnd, CancelIsAsked
<1>5. CASE TryToReceive
    BY <1>5 DEF TryToReceive, MainFree, CancelIsAsked
<1>6. CASE MainThread
    BY <1>2, <1>3, <1>4, <1>5, <1>6 DEF MainThread
<1>7. CASE Received
    <2>1. UNCHANGED main
        BY <1>7 DEF Received, RpcResult, MsgsAck, FatalBadMsg, ResetSession, BadMsg, MsgsStateInfo,
                    NewSessionCreated
    <2> QED BY <2>1, <1>1
<1>8. CASE SessionThread
    <2>1. UNCHANGED main
        BY <1>8 DEF SessionThread, TakeOut, PutBack, Finish, TryToSend, CheckSentRequests,
                    Connect, Disconnect, StopAndStart
    <2> QED BY <2>1, <1>1
<1>9. CASE Server
    <2>1. UNCHANGED main
        BY <1>9 DEF Server, ServerGets, ServerRefuses, ServerForgets
    <2> QED BY <2>1, <1>1
<1> QED BY <1>1, <1>6, <1>7, <1>8, <1>9 DEF Next, vars

LEMMA StepOdd ==
    ASSUME Inv, [Next]_vars
    PROVE  OddAllowed' /\ odd \subseteq odd'
<1> USE DEF data, private, thread, link, main, server, world
<1>1. ASSUME UNCHANGED odd PROVE OddAllowed' /\ odd \subseteq odd'
    BY <1>1 DEF Inv, OddAllowed
<1>2. ASSUME NEW S, NEW byResponse, RequestsAcked(S, byResponse)
      PROVE  OddAllowed' /\ odd \subseteq odd'
    BY <1>2, RequestsAckedClaims DEF Inv, OddAllowed
<1>3. CASE MainThread
    <2>1. UNCHANGED odd
        BY <1>3 DEF MainThread, SendPrepared, SendAgain, CancelBegin, CancelEnd, TryToReceive
    <2> QED BY <2>1, <1>1
<1>4. CASE Received
    <2>1. ASSUME NEW p \in executed, NEW ok \in BOOLEAN, RpcResult(p[1], p[2], ok)
          PROVE  OddAllowed' /\ odd \subseteq odd'
        BY <2>1, <1>2 DEF RpcResult
    <2>2. ASSUME NEW m \in MsgIds, MsgsAck(m) PROVE OddAllowed' /\ odd \subseteq odd'
        BY <2>2, <1>2 DEF MsgsAck
    <2>3. ASSUME NEW m \in MsgIds, FatalBadMsg(m) \/ ResetSession(m) PROVE UNCHANGED odd
        BY <2>3 DEF FatalBadMsg, ResetSession
    <2>4. ASSUME NEW m \in MsgIds, NEW force \in BOOLEAN, BadMsg(m, force) PROVE UNCHANGED odd
        BY <2>4 DEF BadMsg
    <2>5. ASSUME NEW i \in infos, MsgsStateInfo(i[1], i[2]) PROVE UNCHANGED odd
        BY <2>5 DEF MsgsStateInfo
    <2>6. NewSessionCreated => UNCHANGED odd
        BY DEF NewSessionCreated
    <2> QED BY <1>1, <1>4, <2>1, <2>2, <2>3, <2>4, <2>5, <2>6 DEF Received
<1>5. CASE SessionThread
    <2>1. CASE Finish
        BY <2>1, <1>1, <1>2 DEF Finish
    <2>2. CASE ~Finish
        <3>1. UNCHANGED odd
            BY <1>5, <2>2 DEF SessionThread, TakeOut, PutBack, TryToSend, CheckSentRequests,
                              Connect, Disconnect, StopAndStart
        <3> QED BY <3>1, <1>1
    <2> QED BY <2>1, <2>2
<1>6. CASE Server
    <2>1. UNCHANGED odd
        BY <1>6 DEF Server, ServerGets, ServerRefuses, ServerForgets
    <2> QED BY <2>1, <1>1
<1> QED BY <1>1, <1>3, <1>4, <1>5, <1>6 DEF Next, vars

\* The answer to a message is put under the request whose message it was.
LEMMA AnswerIsOwn ==
    ASSUME Inv, TypeOK', OneOwner', "misread" \notin odd',
           NEW p \in executed, NEW ok \in BOOLEAN, RpcResult(p[1], p[2], ok)
    PROVE  WasSent(p[1])' \in {0, p[2]}
<1>1. p[1] \in MsgIds /\ p[2] \in Requests /\ p \in executed' /\ p = <<p[1], p[2]>>
    BY DEF Inv, TypeOK, RpcResult, server
<1>2. Claim(p[1], p[2])'
    BY <1>1 DEF Claim
<1>3. \A s \in Requests : Claim(p[1], s)' => s = p[2]
    BY <1>1, <1>2 DEF OneOwner
<1>4. ASSUME NEW s \in Requests, WasSent(p[1])' = s PROVE Claim(p[1], s)'
    BY <1>4 DEF WasSent, Claim
<1>5. WasSent(p[1])' \in Requests \cup {0}
    BY <1>1 DEF WasSent, TypeOK
<1> QED BY <1>3, <1>4, <1>5

LEMMA StepOwnAnswer ==
    ASSUME Inv, TypeOK', OneOwner', [Next]_vars
    PROVE  OwnAnswer'
<1> USE DEF data, private, thread, link, main, server, world
<1> SUFFICES ASSUME "misread" \notin odd'
             PROVE  /\ \A r \in Requests : responses'[r].of \in {0, r}
                    /\ \A d \in delivered' : d[1] = d[2]
    BY DEF OwnAnswer
<1>0. /\ \A r \in Requests : responses[r].of \in {0, r}
      /\ \A d \in delivered : d[1] = d[2]
    BY StepOdd DEF Inv, OwnAnswer
<1>1. CASE UNCHANGED <<responses, delivered>>
    BY <1>0, <1>1
<1>2. CASE MainThread
    <2>1. CASE TryToReceive
        <3>1. responses' = [r \in Requests |-> None]
            BY <2>1 DEF TryToReceive
        <3>2. ASSUME NEW d \in delivered' PROVE d[1] = d[2]
            <4>1. CASE d \in delivered
                BY <4>1, <1>0
            <4>2. CASE d \notin delivered
                <5>1. PICK r \in Requests : responses[r] # None /\ d = <<r, responses[r].of>>
                    BY <4>2, <3>2, <2>1 DEF TryToReceive
                <5>2. responses[r] \in Response
                    BY <5>1 DEF Inv, TypeOK
                <5>3. responses[r].of # 0
                    BY <5>2, SessionAssumption DEF Response
                <5> QED BY <1>0, <5>1, <5>3
            <4> QED BY <4>1, <4>2
        <3> QED BY <3>1, <3>2 DEF None
    <2>2. CASE ~TryToReceive
        BY <1>1, <1>2, <2>2 DEF MainThread, SendPrepared, SendAgain, CancelBegin, CancelEnd
    <2> QED BY <2>1, <2>2
<1>3. CASE Received
    <2>1. ASSUME NEW s \in Requests \cup {0}, NEW response,
                 s # 0 => response.of \in {0, s}, Emplace(s, response), UNCHANGED delivered
          PROVE  /\ \A r \in Requests : responses'[r].of \in {0, r}
                 /\ \A d \in delivered' : d[1] = d[2]
        BY <1>0, <2>1 DEF Emplace, Inv, TypeOK
    <2>2. ASSUME NEW p \in executed, NEW ok \in BOOLEAN, RpcResult(p[1], p[2], ok)
          PROVE  /\ \A r \in Requests : responses'[r].of \in {0, r}
                 /\ \A d \in delivered' : d[1] = d[2]
        <3>1. WasSent(p[1])' \in {0, p[2]} /\ p[2] \in Requests
            BY <2>2, AnswerIsOwn DEF Inv, TypeOK
        <3>2. Emplace(WasSent(p[1])', [of |-> p[2], ok |-> ok]) /\ UNCHANGED delivered
            BY <2>2 DEF RpcResult
        <3>3. WasSent(p[1])' # 0 => [of |-> p[2], ok |-> ok].of \in {0, WasSent(p[1])'}
            BY <3>1
        <3> QED BY <2>1, <3>1, <3>2, <3>3
    <2>3. ASSUME NEW m \in MsgIds, FatalBadMsg(m)
          PROVE  /\ \A r \in Requests : responses'[r].of \in {0, r}
                 /\ \A d \in delivered' : d[1] = d[2]
        <3>1. WasSent(m) \in Requests \cup {0}
            BY DEF Inv, TypeOK, WasSent
        <3>2. Emplace(WasSent(m), [of |-> WasSent(m), ok |-> FALSE]) /\ UNCHANGED delivered
            BY <2>3 DEF FatalBadMsg
        <3> QED BY <2>1, <3>1, <3>2
    <2>4. CASE \/ \E m \in MsgIds : MsgsAck(m) \/ ResetSession(m)
               \/ \E m \in MsgIds, force \in BOOLEAN : BadMsg(m, force)
               \/ \E i \in infos : MsgsStateInfo(i[1], i[2])
               \/ NewSessionCreated
        BY <1>1, <2>4 DEF MsgsAck, ResetSession, BadMsg, MsgsStateInfo, NewSessionCreated
    <2> QED BY <1>3, <2>2, <2>3, <2>4 DEF Received
<1>4. CASE SessionThread
    BY <1>1, <1>4 DEF SessionThread, TakeOut, PutBack, Finish, TryToSend, CheckSentRequests,
                      Connect, Disconnect, StopAndStart
<1>5. CASE Server
    BY <1>1, <1>5 DEF Server, ServerGets, ServerRefuses, ServerForgets
<1> QED BY <1>1, <1>2, <1>3, <1>4, <1>5 DEF Next, vars

-----------------------------------------------------------------------------
\* Nothing is forgotten.

\* Where a request that waits can be.
Held(r) == \/ r \in toSend
           \/ \E m \in MsgIds : haveSent[m] = r
           \/ \E q \in moving : q[2] = r
           \/ responses[r] # None

\* requestsAcked for an acknowledgement leaves whoever waits for an answer.
LEMMA AckHolds ==
    ASSUME TypeOK, NEW S, RequestsAcked(S, FALSE), UNCHANGED <<status, moving, responses>>,
           NEW r \in Requests, status[r] = "asked", Held(r)
    PROVE  Held(r)'
<1>1. HasCallbacks(r)
    BY DEF HasCallbacks
<1>2. CASE r \in toSend
    <2>1. toSend' = toSend \ {resendingIds[m] : m \in {k \in Late(S, FALSE) : resendingIds[k] \in toSend}}
        BY DEF RequestsAcked
    <2>2. \A m \in Late(S, FALSE) : ~HasCallbacks(resendingIds[m])
        BY DEF Late, Counts
    <2>3. r \in toSend'
        BY <1>1, <1>2, <2>1, <2>2
    <2> QED BY <2>3 DEF Held
<1>3. CASE \E m \in MsgIds : haveSent[m] = r
    <2>1. PICK m \in MsgIds : haveSent[m] = r
        BY <1>3
    <2>2. m \notin Sent(S, FALSE)
        BY <1>1, <2>1 DEF Sent, Counts
    <2>3. haveSent'[m] = r
        BY <2>1, <2>2 DEF RequestsAcked
    <2> QED BY <2>3 DEF Held
<1> QED BY <1>2, <1>3 DEF Held

\* requestsAcked for a response leaves all but the request of that id, and if
\* it took that one, wasSent finds it and it gets the response.
LEMMA AnswerHolds ==
    ASSUME Inv, TypeOK', OneOwner', odd' = {},
           NEW p \in executed, NEW ok \in BOOLEAN, RpcResult(p[1], p[2], ok),
           NEW r \in Requests, Held(r)
    PROVE  Held(r)'
<1> DEFINE m == p[1]
           sent == Sent({m}, TRUE)
           late == Late({m}, TRUE)
           back == {k \in late : resendingIds[k] \in toSend}
           all(read) == [k \in MsgIds |-> IF ackedIds[k] # 0 THEN ackedIds[k]
                                          ELSE IF k \in sent THEN haveSent[k]
                                          ELSE IF k \in back THEN read[k] ELSE 0]
<1>1. m \in MsgIds /\ p[2] \in Requests /\ p = <<m, p[2]>> /\ TypeOK /\ OneOwner
    BY DEF Inv, TypeOK
<1>2. "misread" \notin odd
    BY RequestsAckedClaims, <1>1 DEF RpcResult
<1>3. \A s \in Requests : Claim(m, s) => s = p[2]
    <2>1. Claim(m, p[2])
        BY <1>1 DEF Claim
    <2> QED BY <1>1, <1>2, <2>1 DEF OneOwner
<1>4. PICK read \in [back -> Requests \cup {0}] :
        /\ ackedIds' = KeepNewest(all(read))
        /\ odd' = odd \cup {x \in {"misread"} : \E k \in back : read[k] # resendingIds[k]}
                      \cup {x \in {"trimmed"} : TRUE /\ \E k \in sent \cup back :
                                                   all(read)[k] # 0 /\ ackedIds'[k] = 0}
    BY DEF RpcResult, RequestsAcked
<1>5. /\ haveSent' = [k \in MsgIds |-> IF k \in sent THEN 0 ELSE haveSent[k]]
      /\ resendingIds' = [k \in MsgIds |-> IF k \in late THEN 0 ELSE resendingIds[k]]
      /\ toSend' = toSend \ {resendingIds[k] : k \in back}
    BY DEF RpcResult, RequestsAcked
<1>6. /\ \A k \in back : read[k] = resendingIds[k]
      /\ \A k \in sent \cup back : all(read)[k] # 0 => ackedIds'[k] # 0
    <2> HIDE DEF all, sent, back
    <2> QED BY <1>4
<1>7. /\ sent = {k \in {m} : haveSent[k] # 0}
      /\ late = {k \in {m} : haveSent[k] = 0 /\ resendingIds[k] # 0}
    BY <1>1 DEF Sent, Late, Counts, Keys
<1>8. UNCHANGED moving
    BY DEF RpcResult, thread
<1>9. Emplace(WasSent(m)', [of |-> p[2], ok |-> ok])
    BY DEF RpcResult
<1>10. ASSUME WasSent(m)' = p[2] PROVE responses'[p[2]] # None
    <2>1. p[2] # 0 /\ [of |-> p[2], ok |-> ok] # None
        BY <1>1, SessionAssumption DEF None
    <2> QED BY <1>1, <1>9, <1>10, <2>1 DEF Emplace, TypeOK
<1>11. WasSent(m)' \in {0, p[2]}
    BY <1>2, AnswerIsOwn
<1>12. WasSent(m)' = 0 => resendingIds'[m] = 0 /\ ackedIds'[m] = 0
    BY DEF WasSent
<1>13. CASE r \in toSend
    <2>1. CASE r \in toSend'
        BY <2>1 DEF Held
    <2>2. CASE r \notin toSend'
        <3>1. m \in back /\ resendingIds[m] = r
            BY <1>5, <1>7, <1>13, <2>2
        <3>2. r = p[2]
            BY <3>1, <1>1, <1>3 DEF Claim
        <3>3. m \notin sent /\ read[m] = r /\ r # 0
            BY <3>1, <1>6, <1>7, SessionAssumption
        <3>4. all(read)[m] # 0
            <4> HIDE DEF sent, back
            <4> QED BY <3>1, <3>3, <1>1
        <3>5. ackedIds'[m] # 0
            BY <3>1, <3>4, <1>6
        <3>6. WasSent(m)' = p[2]
            BY <1>11, <1>12, <3>5
        <3> QED BY <3>2, <3>6, <1>10 DEF Held
    <2> QED BY <2>1, <2>2
<1>14. CASE \E k \in MsgIds : haveSent[k] = r
    <2>1. PICK k \in MsgIds : haveSent[k] = r
        BY <1>14
    <2>2. CASE k \notin sent
        BY <2>1, <2>2, <1>5 DEF Held
    <2>3. CASE k \in sent
        <3>1. k = m /\ r # 0 /\ m \in sent
            BY <1>7, <2>3, SessionAssumption
        <3>2. r = p[2]
            BY <2>1, <3>1, <1>3 DEF Claim
        <3>3. all(read)[m] # 0
            <4> HIDE DEF sent, back
            <4> QED BY <2>1, <3>1, <1>1
        <3>4. ackedIds'[m] # 0
            BY <3>1, <3>3, <1>6
        <3>5. WasSent(m)' = p[2]
            BY <1>11, <1>12, <3>4
        <3> QED BY <3>2, <3>5, <1>10 DEF Held
    <2> QED BY <2>2, <2>3
<1>15. CASE \E q \in moving : q[2] = r
    BY <1>8, <1>15 DEF Held
<1>16. CASE responses[r] # None
    <2>1. responses'[r] # None
        BY <1>1, <1>9, <1>16 DEF Emplace, TypeOK
    <2> QED BY <2>1 DEF Held
<1> HIDE DEF m, sent, late, back, all
<1> QED BY <1>13, <1>14, <1>15, <1>16 DEF Held

\* tryToSend: whatever goes out is in haveSent under its id, and whatever was
\* there stays, under the same id or a new one.
LEMMA SendsHolds ==
    ASSUME Inv, TypeOK', OneOwner', "misread" \notin odd, Sends,
           NEW r \in Requests, Held(r)
    PROVE  Held(r)'
<1>0. TypeOK /\ OneOwner /\ "misread" \notin odd'
    BY SendsEffect DEF Inv
<1>1. CASE r \in toSend
    <2>1. PICK m \in MsgIds : m = IdOf(r)
        BY <1>0, <1>1, IdOfType, SendsEffect
    <2>2. Claim(m, r)'
        <3>1. msgId'[r] = m
            BY <1>0, <1>1, <2>1, SendsEffect
        <3> QED BY <3>1 DEF Claim
    <2>3. haveSent'[m] # 0
        <3>1. CASE MoveKeys(haveSent)[m] = 0
            <4>1. haveSent'[m] = CHOOSE s \in toSend : IdOf(s) = m
                BY <1>0, <1>1, <2>1, <3>1, SendsEffect
            <4>2. haveSent'[m] \in toSend
                BY <4>1, <1>1, <2>1
            <4> QED BY <4>2, <1>0, SessionAssumption DEF TypeOK
        <3>2. CASE MoveKeys(haveSent)[m] # 0
            BY <1>0, <2>1, <3>2, SendsEffect
        <3> QED BY <3>1, <3>2
    <2>4. haveSent'[m] \in Requests
        BY <2>1, <2>3 DEF TypeOK
    <2>5. ASSUME NEW s \in Requests, haveSent'[m] = s PROVE s = r
        <3>1. Claim(m, s)'
            BY <2>5 DEF Claim
        <3> QED BY <1>0, <2>1, <2>2, <3>1 DEF OneOwner
    <2>6. haveSent'[m] = r
        BY <2>4, <2>5
    <2> QED BY <2>6 DEF Held
<1>2. CASE r \notin toSend /\ \E m \in MsgIds : haveSent[m] = r
    <2>1. PICK m \in MsgIds : haveSent[m] = r
        BY <1>2
    <2>2. Claim(m, r) /\ r # 0 /\ haveSent \in [MsgIds -> Requests \cup {0}]
        BY <1>0, <2>1, SessionAssumption DEF Claim, TypeOK
    <2>3. ~ \E s \in Renumbered : msgId[s] = m
        <3> SUFFICES ASSUME NEW s \in Renumbered, msgId[s] = m PROVE FALSE
            OBVIOUS
        <3>1. s \in Requests /\ s \in toSend /\ Claim(m, s)
            BY <1>0, RenumberedType DEF Claim
        <3>2. s = r
            BY <1>0, <2>2, <3>1 DEF OneOwner
        <3> QED BY <1>2, <3>1, <3>2
    <2>4. Renamed(m) = m /\ m \in Keys(haveSent)
        BY <2>1, <2>2, <2>3 DEF Renamed, Keys
    <2>5. MoveKeys(haveSent)[m] # 0 /\ MoveKeys(haveSent)[m] \in Requests \cup {0}
        BY <2>2, <2>4, MoveKeysValue
    <2>6. ASSUME NEW s \in Requests, MoveKeys(haveSent)[m] = s PROVE s = r
        <3>1. Claim(m, s) \/ (s \in Renumbered /\ m = IdOf(s))
            BY <1>0, <2>6, MovedClaim
        <3>2. m <= lastId
            BY <1>0, <2>2 DEF OneOwner
        <3>3. ~(s \in Renumbered /\ m = IdOf(s))
            <4>1. \A x \in Renumbered : lastId < IdOf(x)
                BY <1>0, NewIdRange
            <4>2. m \in Nat /\ lastId \in Nat
                <5>1. m \in Nat
                    BY SessionAssumption DEF MsgIds
                <5> QED BY <5>1, <1>0, SessionAssumption DEF TypeOK
            <4> QED BY <3>2, <4>1, <4>2
        <3> QED BY <1>0, <2>2, <3>1, <3>3 DEF OneOwner
    <2>7. haveSent'[m] = r
        BY <1>0, <2>5, <2>6, SendsEffect
    <2> QED BY <2>7 DEF Held
<1>3. CASE \E q \in moving : q[2] = r
    BY <1>0, <1>3, SendsEffect DEF Held
<1>4. CASE responses[r] # None
    BY <1>0, <1>4, SendsEffect DEF Held
<1> QED BY <1>1, <1>2, <1>3, <1>4 DEF Held

LEMMA StepForgotten ==
    ASSUME Inv, TypeOK', OneOwner', [Next]_vars
    PROVE  NothingForgotten'
<1> USE DEF data, private, thread, link, main, server, world
<1> SUFFICES ASSUME odd' = {}, NEW r \in Requests, status'[r] = "asked"
             PROVE  Held(r)'
    BY DEF NothingForgotten, Held
<1>0. odd = {} /\ TypeOK /\ (status[r] = "asked" => Held(r))
    BY StepOdd DEF Inv, NothingForgotten, Held
<1>1. ASSUME status[r] = "asked", UNCHANGED <<toSend, haveSent, moving, responses>> PROVE Held(r)'
    BY <1>0, <1>1 DEF Held
<1>2. CASE MainThread
    <2>1. ASSUME NEW s \in Requests, SendPrepared(s) \/ SendAgain(s) PROVE Held(r)'
        <3>1. CASE r = s
            BY <2>1, <3>1 DEF SendPrepared, SendAgain, Prepare, Held
        <3>2. CASE r # s
            <4>1. status[r] = "asked" /\ toSend \subseteq toSend'
                  /\ UNCHANGED <<haveSent, moving, responses>>
                BY <1>0, <2>1, <3>2 DEF SendPrepared, SendAgain, Prepare, TypeOK
            <4> QED BY <1>0, <4>1 DEF Held
        <3> QED BY <3>1, <3>2
    <2>2. ASSUME NEW s \in Requests, CancelBegin(s) PROVE Held(r)'
        BY <1>1, <2>2 DEF CancelBegin
    <2>3. CASE CancelEnd
        <3> DEFINE s == cancelling[1]
                   m == cancelling[2]
        <3>1. s \in Requests /\ m \in 0 .. MaxMsgId /\ cancelling = <<s, m>>
            BY <2>3 DEF CancelEnd, MainFree, Inv, CancelIsAsked, TypeOK
        <3>2. r # s /\ status[r] = "asked"
            BY <1>0, <2>3, <3>1 DEF CancelEnd, TypeOK
        <3>3. r \in toSend => r \in toSend'
            BY <2>3, <3>2 DEF CancelEnd
        <3>4. ASSUME NEW k \in MsgIds, haveSent[k] = r PROVE haveSent'[k] = r
            <4>1. CASE m = 0 \/ k # m
                BY <1>0, <2>3, <3>4, <4>1 DEF CancelEnd, TypeOK
            <4>2. CASE m # 0 /\ k = m
                <5>1. Claim(k, r) /\ Claim(k, s)
                    BY <3>1, <3>4, <4>2 DEF Claim
                <5> QED BY <1>0, <3>1, <3>2, <5>1 DEF Inv, OneOwner
            <4> QED BY <4>1, <4>2
        <3>5. UNCHANGED <<moving, responses>>
            BY <2>3 DEF CancelEnd
        <3> QED BY <1>0, <3>2, <3>3, <3>4, <3>5 DEF Held
    <2>4. CASE TryToReceive
        <3>1. status[r] = "asked" /\ responses[r] = None
            BY <1>0, <2>4 DEF TryToReceive, TypeOK, HasCallbacks
        <3>2. UNCHANGED <<toSend, haveSent, moving>>
            BY <2>4 DEF TryToReceive
        <3> QED BY <1>0, <3>1, <3>2 DEF Held
    <2> QED BY <1>2, <2>1, <2>2, <2>3, <2>4 DEF MainThread
<1>3. CASE Received
    <2>1. status[r] = "asked"
        BY <1>3 DEF Received, RpcResult, MsgsAck, FatalBadMsg, ResetSession, BadMsg, MsgsStateInfo,
                    NewSessionCreated
    <2>2. ASSUME NEW p \in executed, NEW ok \in BOOLEAN, RpcResult(p[1], p[2], ok) PROVE Held(r)'
        BY <1>0, <2>1, <2>2, AnswerHolds
    <2>3. ASSUME NEW m \in MsgIds, MsgsAck(m) PROVE Held(r)'
        BY <1>0, <2>1, <2>3, AckHolds DEF MsgsAck
    <2>4. ASSUME NEW m \in MsgIds, FatalBadMsg(m) PROVE Held(r)'
        <3>1. WasSent(m) \in Requests \cup {0}
            BY <1>0 DEF WasSent, TypeOK
        <3>2. responses[r] # None => responses'[r] # None
            BY <1>0, <2>4, <3>1 DEF FatalBadMsg, Emplace, TypeOK
        <3>3. UNCHANGED <<toSend, haveSent, moving>>
            BY <2>4 DEF FatalBadMsg
        <3> QED BY <1>0, <2>1, <3>2, <3>3 DEF Held
    <2>5. CASE \/ \E m \in MsgIds : ResetSession(m)
               \/ \E m \in MsgIds, force \in BOOLEAN : BadMsg(m, force)
               \/ \E i \in infos : MsgsStateInfo(i[1], i[2])
               \/ NewSessionCreated
        BY <1>1, <2>1, <2>5 DEF ResetSession, BadMsg, MsgsStateInfo, NewSessionCreated
    <2> QED BY <1>3, <2>2, <2>3, <2>4, <2>5 DEF Received
<1>4. CASE SessionThread
    <2>1. status[r] = "asked"
        BY <1>4 DEF SessionThread, TakeOut, PutBack, Finish, TryToSend, CheckSentRequests,
                    Connect, Disconnect, StopAndStart
    <2>2. ASSUME NEW t \in resending, TakeOut(t[1], t[2]) PROVE Held(r)'
        <3>1. t[1] \in MsgIds /\ moving = {} /\ UNCHANGED <<toSend, responses>>
            BY <1>0, <2>2 DEF TakeOut, TypeOK
        <3>2. ASSUME NEW m \in MsgIds, haveSent[m] = r
              PROVE  haveSent'[m] = r \/ \E q \in moving' : q[2] = r
            <4>1. CASE m = t[1]
                <5>1. moving' = {<<m, r, t[2]>>}
                    BY <2>2, <3>2, <4>1, SessionAssumption DEF TakeOut
                <5> QED BY <5>1
            <4>2. CASE m # t[1]
                BY <1>0, <2>2, <3>2, <4>2 DEF TakeOut, TypeOK
            <4> QED BY <4>1, <4>2
        <3> QED BY <1>0, <2>1, <3>1, <3>2 DEF Held
    <2>3. CASE PutBack
        BY <1>0, <2>1, <2>3 DEF PutBack, Held
    <2>4. CASE Finish
        <3>1. UNCHANGED <<status, moving, responses>>
            BY <2>4 DEF Finish
        <3>2. CASE RequestsAcked(rest.ids, FALSE)
            BY <1>0, <2>1, <3>1, <3>2, AckHolds
        <3>3. CASE UNCHANGED <<toSend, haveSent, resendingIds, ackedIds, odd>>
            BY <1>1, <2>1, <3>1, <3>3
        <3> QED BY <2>4, <3>2, <3>3 DEF Finish
    <2>5. CASE TryToSend
        <3>1. CASE Sends
            BY <1>0, <2>1, <3>1, SendsHolds
        <3>2. CASE ~Sends
            BY <1>1, <2>1, <2>5, <3>2 DEF Sends, TryToSend
        <3> QED BY <3>1, <3>2
    <2>6. CASE Connect
        <3>1. moving = {} /\ UNCHANGED <<toSend, responses>>
            BY <2>6 DEF Connect, Idle
        <3>2. moving' = {<<m, haveSent[m], TRUE>> : m \in Keys(haveSent)}
            BY <2>6 DEF Connect
        <3>3. ASSUME NEW m \in MsgIds, haveSent[m] = r PROVE \E q \in moving' : q[2] = r
            <4>1. m \in Keys(haveSent)
                BY <3>3, SessionAssumption DEF Keys
            <4>2. <<m, haveSent[m], TRUE>> \in moving'
                BY <3>2, <4>1
            <4> QED BY <3>3, <4>2
        <3> QED BY <1>0, <2>1, <3>1, <3>3 DEF Held
    <2>7. CASE \/ \E C \in SUBSET {m \in MsgIds : sentContainers[m] # {}} : CheckSentRequests(C)
               \/ Disconnect \/ StopAndStart
        BY <1>1, <2>1, <2>7 DEF CheckSentRequests, Disconnect, StopAndStart
    <2> QED BY <1>4, <2>2, <2>3, <2>4, <2>5, <2>6, <2>7 DEF SessionThread
<1>5. CASE Server
    BY <1>1, <1>5 DEF Server, ServerGets, ServerRefuses, ServerForgets
<1>6. CASE UNCHANGED vars
    BY <1>1, <1>6 DEF vars
<1> QED BY <1>2, <1>3, <1>4, <1>5, <1>6 DEF Next

LEMMA StepInv == Inv /\ [Next]_vars => Inv'
<1> SUFFICES ASSUME Inv, [Next]_vars PROVE Inv'
    OBVIOUS
<1>1. TypeOK' /\ OneOwner'
    BY StepType, StepOwners DEF Inv
<1> QED BY <1>1, StepCancel, StepOdd, StepOwnAnswer, StepForgotten DEF Inv

LEMMA Invariant == Spec => []Inv
BY InitInv, StepInv, PTL DEF Spec

\* Whatever was sent again, renumbered, acknowledged or refused on the way, a
\* response is put under the request whose message it answers and is given to
\* its callbacks, unless an id was misread.
THEOREM AnswersAreOwn == Spec => []OwnAnswer
<1>1. Inv => OwnAnswer
    BY DEF Inv
<1> QED BY <1>1, Invariant, PTL

\* No request whose callbacks wait is lost between the maps of the two threads,
\* unless an id was misread or dropped.
THEOREM RequestsAreHeld == Spec => []NothingForgotten
<1>1. Inv => NothingForgotten
    BY DEF Inv
<1> QED BY <1>1, Invariant, PTL

-----------------------------------------------------------------------------
\* The promise of Rpc.

LEMMA InitPromise == Init => Promise!Init
<1> SUFFICES ASSUME Init PROVE Promise!Init
    OBVIOUS
<1>1. \A r \in Requests : Call(r) = "none"
    BY DEF Init, Call
<1> QED BY <1>1 DEF Init, Promise!Init

\* What a caller knows depends on the status of its request only.
LEMMA CallUnchanged ==
    ASSUME UNCHANGED <<status, delivered>>
    PROVE  UNCHANGED Promise!vars
<1>1. \A r \in Requests : Call(r)' = Call(r)
    BY DEF Call
<1> QED BY <1>1 DEF Promise!vars

LEMMA StepPromise ==
    ASSUME Inv, "misread" \notin odd, [Next]_vars
    PROVE  [Promise!Next]_(Promise!vars)
<1> USE DEF data, private, thread, link, main, server, world
<1> DEFINE calls == [r \in Requests |-> Call(r)]
<1>0. TypeOK /\ status \in [Requests -> {"new", "asked", "delayed", "done", "cancelled"}]
    BY DEF Inv, TypeOK
<1>1. ASSUME NEW r \in Requests, SendPrepared(r) PROVE Promise!Next
    <2>1. status[r] = "new" /\ status' = [status EXCEPT ![r] = "asked"] /\ UNCHANGED delivered
        BY <1>1 DEF SendPrepared, Prepare
    <2>2. calls[r] = "none" /\ Call(r)' = "waiting"
        BY <1>0, <2>1 DEF Call
    <2>3. \A s \in Requests \ {r} : Call(s)' = Call(s)
        BY <1>0, <2>1 DEF Call
    <2>4. [s \in Requests |-> Call(s)'] = [calls EXCEPT ![r] = "waiting"]
        BY <2>2, <2>3
    <2>5. Promise!Ask(r)
        BY <2>1, <2>2, <2>4 DEF Promise!Ask
    <2> QED BY <2>5 DEF Promise!Next
<1>2. ASSUME NEW r \in Requests, SendAgain(r) PROVE UNCHANGED Promise!vars
    <2>1. status[r] = "delayed" /\ status' = [status EXCEPT ![r] = "asked"] /\ UNCHANGED delivered
        BY <1>2 DEF SendAgain, Prepare
    <2>2. \A s \in Requests : Call(s)' = Call(s)
        BY <1>0, <2>1 DEF Call
    <2> QED BY <2>1, <2>2 DEF Promise!vars
<1>3. CASE CancelEnd
    <2>1. PICK r \in Requests : HasCallbacks(r) /\ r = cancelling[1]
        BY <1>3 DEF Inv, CancelIsAsked, CancelEnd, MainFree
    <2>2. status' = [status EXCEPT ![r] = "cancelled"] /\ UNCHANGED delivered
        BY <1>3, <2>1 DEF CancelEnd
    <2>3. calls[r] = "waiting" /\ Call(r)' = "cancelled"
        BY <1>0, <2>1, <2>2 DEF Call, HasCallbacks
    <2>4. \A s \in Requests \ {r} : Call(s)' = Call(s)
        BY <1>0, <2>2 DEF Call
    <2>5. [s \in Requests |-> Call(s)'] = [calls EXCEPT ![r] = "cancelled"]
        BY <2>3, <2>4
    <2>6. Promise!Cancel(r)
        BY <2>2, <2>3, <2>5 DEF Promise!Cancel
    <2> QED BY <2>6 DEF Promise!Next
<1>4. CASE TryToReceive
    <2> DEFINE came == {r \in Requests : responses[r] # None}
               mine == {r \in came : HasCallbacks(r)}
               again == {r \in mine : ~responses[r].ok}
               S == mine \ again
    <2>1. /\ status' = [r \in Requests |-> IF r \in again THEN "delayed"
                                           ELSE IF r \in mine THEN "done" ELSE status[r]]
          /\ delivered' = delivered \cup {<<r, responses[r].of>> : r \in S}
        BY <1>4 DEF TryToReceive
    <2>2. \A r \in S : calls[r] = "waiting"
        BY DEF Call, HasCallbacks
    <2>3. \A r \in Requests : Call(r)' = IF r \in S THEN "answered" ELSE Call(r)
        <3> SUFFICES ASSUME NEW r \in Requests
                     PROVE  Call(r)' = IF r \in S THEN "answered" ELSE Call(r)
            OBVIOUS
        <3>1. CASE r \in S
            <4>1. status'[r] = "done"
                BY <2>1, <3>1
            <4> QED BY <3>1, <4>1 DEF Call
        <3>2. CASE r \in again
            <4>1. status'[r] = "delayed" /\ status[r] \in {"asked", "delayed"} /\ r \notin S
                BY <2>1, <3>2 DEF HasCallbacks
            <4> QED BY <4>1 DEF Call
        <3>3. CASE r \notin mine
            <4>1. status'[r] = status[r] /\ r \notin S
                BY <2>1, <3>3
            <4>2. Call(r)' = Call(r)
                BY <4>1, Zenon DEF Call
            <4> HIDE DEF S
            <4> QED BY <4>1, <4>2
        <3> QED BY <3>1, <3>2, <3>3
    <2>4. \A r \in S : responses[r].of = r
        <3> SUFFICES ASSUME NEW r \in S PROVE responses[r].of = r
            OBVIOUS
        <3>1. responses[r] \in Response /\ responses[r].of \in {0, r}
            BY <1>0 DEF Inv, OwnAnswer, TypeOK
        <3> QED BY <3>1, SessionAssumption DEF Response
    <2>5. delivered' = delivered \cup {<<r, r>> : r \in S}
        <3> HIDE DEF S
        <3> QED BY <2>1, <2>4
    <2>6. S \in SUBSET Requests
        OBVIOUS
    <2>7. Promise!Answer(S)
        <3> HIDE DEF S
        <3> QED BY <2>2, <2>3, <2>5, <2>6 DEF Promise!Answer
    <2> QED BY <2>6, <2>7 DEF Promise!Next
<1>5. CASE UNCHANGED <<status, delivered>>
    BY <1>5, CallUnchanged
<1>6. CASE MainThread
    <2>1. ASSUME NEW r \in Requests, CancelBegin(r) PROVE UNCHANGED <<status, delivered>>
        BY <2>1 DEF CancelBegin
    <2> QED BY <1>1, <1>2, <1>3, <1>4, <1>5, <1>6, <2>1 DEF MainThread
<1>7. CASE Received
    <2>1. UNCHANGED main
        BY <1>7 DEF Received, RpcResult, MsgsAck, FatalBadMsg, ResetSession, BadMsg, MsgsStateInfo,
                    NewSessionCreated
    <2> QED BY <2>1, <1>5
<1>8. CASE SessionThread
    <2>1. UNCHANGED main
        BY <1>8 DEF SessionThread, TakeOut, PutBack, Finish, TryToSend, CheckSentRequests,
                    Connect, Disconnect, StopAndStart
    <2> QED BY <2>1, <1>5
<1>9. CASE Server
    <2>1. UNCHANGED main
        BY <1>9 DEF Server, ServerGets, ServerRefuses, ServerForgets
    <2> QED BY <2>1, <1>5
<1> QED BY <1>5, <1>6, <1>7, <1>8, <1>9 DEF Next, vars

\* As long as no id is misread, the session implements the safety part of Rpc:
\* a request is answered at most once, with its own answer, and never after it
\* was cancelled.
THEOREM SessionImplementsRpc == Spec /\ []("misread" \notin odd) => Promise!Safety
BY InitPromise, StepPromise, Invariant, PTL DEF Spec, Promise!Safety
=============================================================================
