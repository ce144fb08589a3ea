---------------------------- MODULE ReceivedIds ----------------------------
(***************************************************************************)
(* ReceivedIdsManager: the ids of the messages a session has received, at  *)
(* most IdsBufferSize of them between two packets, so that a message that  *)
(* comes again is told from a new one.  A packet is one message or a       *)
(* container; the messages of a container are registered one by one and    *)
(* the map is cut down only when the whole packet has been handled.        *)
(***************************************************************************)
EXTENDS Integers, FiniteSets, FiniteSetsExt

CONSTANTS
    MaxMsgId,       \* message ids are 1 .. MaxMsgId
    IdsBufferSize,  \* kIdsBufferSize
    MaxPacket       \* bound: messages of one container

ASSUME BufferAssumption == /\ MaxMsgId \in Nat
                           /\ IdsBufferSize \in Nat \ {0}
                           /\ MaxPacket \in Nat

VARIABLES
    ids,      \* the keys of _idsNeedAck
    open,     \* messages registered since the last shrink
    handled,  \* history: messages that registerMsgId let through
    twice     \* history: messages that it let through again

vars == <<ids, open, handled, twice>>

MsgIds == 1 .. MaxMsgId

TypeOK == /\ ids \subseteq MsgIds
          /\ open \in 0 .. MaxPacket
          /\ handled \subseteq MsgIds
          /\ twice \subseteq MsgIds

Init == ids = {} /\ open = 0 /\ handled = {} /\ twice = {}

\* m is above the smallest id kept.
AboveMin(m) == \E i \in ids : i < m

\* A mutant: whatever is not kept is taken for new.
AcceptsUnknown(m) == m \notin ids

\* The condition under which registerMsgId returns true.
Accepts(m) == m \notin ids /\ (Cardinality(ids) < IdsBufferSize \/ AboveMin(m))

\* registerMsgId, and the handling of the message when it returns true.
RegisterMsgId(m) ==
    /\ open < MaxPacket
    /\ open' = open + 1
    /\ IF Accepts(m)
       THEN /\ ids' = ids \cup {m}
            /\ handled' = handled \cup {m}
            /\ twice' = twice \cup (handled \cap {m})
       ELSE UNCHANGED <<ids, handled, twice>>

\* What shrink leaves: the oldest ids go first.
KeepsNewest(S) == \A i \in S, j \in ids \ S : j < i

\* A mutant: the count of the packet is not set back.
ShrinksNothing == open' = open + 1 /\ UNCHANGED <<ids, handled, twice>>

\* shrink, at the end of a packet.
Shrink ==
    /\ open > 0
    /\ open' = 0
    /\ \E S \in SUBSET ids :
          /\ KeepsNewest(S)
          /\ Cardinality(S) = IF Cardinality(ids) > IdsBufferSize
                              THEN IdsBufferSize ELSE Cardinality(ids)
          /\ ids' = S
    /\ UNCHANGED <<handled, twice>>

\* clear, called by changeSessionId: ids are about one session, and messages
\* of another one are refused before they come here.
Clear == ids' = {} /\ open' = 0 /\ handled' = {} /\ UNCHANGED twice

Next == (\E m \in MsgIds : RegisterMsgId(m)) \/ Shrink \/ Clear

Spec == Init /\ [][Next]_vars

-----------------------------------------------------------------------------
\* No message of a session is handled twice, however late it is repeated and
\* whatever was forgotten in between (registerMsgId with shrink).
NeverTwice == twice = {}

\* A message that is not kept any more is older than all that are, and
\* then the map is full: so registerMsgId refuses it.
ForgottenIsOld ==
    \A m \in handled \ ids :
        /\ Cardinality(ids) >= IdsBufferSize
        /\ \A i \in ids : m < i
=============================================================================
