-------------------------- MODULE ReceivedIdsProofs --------------------------
(***************************************************************************)
(* ReceivedIds for every size of the buffer: the inductive invariant says  *)
(* that a forgotten id is older than all that are kept, and that ids are   *)
(* forgotten only while the buffer is full.                                *)
(***************************************************************************)
EXTENDS ReceivedIds, FiniteSetTheorems, TLAPS

Inv == /\ TypeOK
       /\ ids \subseteq handled
       /\ ForgottenIsOld
       /\ NeverTwice

\* Sets of message ids are finite.
LEMMA FiniteIds ==
    ASSUME NEW S, S \subseteq MsgIds
    PROVE  IsFiniteSet(S) /\ Cardinality(S) \in Nat
<1>1. IsFiniteSet(MsgIds)
    BY FS_Interval, BufferAssumption DEF MsgIds
<1>2. IsFiniteSet(S)
    BY <1>1, FS_Subset
<1> QED BY <1>2, FS_CardinalityType

LEMMA InitInv == Init => Inv
BY BufferAssumption DEF Init, Inv, TypeOK, ForgottenIsOld, NeverTwice

\* Whatever registerMsgId lets through was not handled before.
LEMMA AcceptedIsNew ==
    ASSUME Inv, NEW m \in MsgIds, Accepts(m)
    PROVE  m \notin handled
<1>1. ASSUME m \in handled PROVE FALSE
    <2>1. Cardinality(ids) >= IdsBufferSize /\ \A i \in ids : m < i
        BY <1>1 DEF Inv, ForgottenIsOld, Accepts
    <2>2. Cardinality(ids) \in Nat
        BY FiniteIds DEF Inv, TypeOK
    <2>3. AboveMin(m)
        BY <2>1, <2>2, BufferAssumption DEF Accepts
    <2> QED BY <2>1, <2>3 DEF AboveMin, MsgIds, Inv, TypeOK
<1> QED BY <1>1

LEMMA RegisterKeepsInv ==
    ASSUME Inv, NEW m \in MsgIds, RegisterMsgId(m)
    PROVE  Inv'
<1>1. CASE ~Accepts(m)
    BY <1>1, BufferAssumption
    DEF Inv, TypeOK, ForgottenIsOld, NeverTwice, RegisterMsgId
<1>2. CASE Accepts(m)
    <2>1. m \notin handled
        BY <1>2, AcceptedIsNew
    <2>2. ids' = ids \cup {m} /\ handled' = handled \cup {m} /\ twice' = twice
        BY <1>2, <2>1 DEF RegisterMsgId
    <2>3. TypeOK'
        BY <2>2, BufferAssumption DEF Inv, TypeOK, RegisterMsgId
    <2>4. Cardinality(ids') >= Cardinality(ids)
        <3>1. IsFiniteSet(ids') /\ ids \subseteq ids'
            BY <2>2, <2>3, FiniteIds DEF TypeOK
        <3>2. Cardinality(ids) <= Cardinality(ids')
            BY <3>1, FS_Subset
        <3> QED BY <3>2, <2>3, FiniteIds DEF TypeOK, Inv
    <2>5. ForgottenIsOld'
        <3> SUFFICES ASSUME NEW x \in handled' \ ids'
                     PROVE  /\ Cardinality(ids') >= IdsBufferSize
                            /\ \A i \in ids' : x < i
            BY DEF ForgottenIsOld
        <3>1. x \in handled \ ids
            BY <2>2
        <3>2. Cardinality(ids) >= IdsBufferSize /\ \A i \in ids : x < i
            BY <3>1 DEF Inv, ForgottenIsOld
        <3>3. Cardinality(ids) \in Nat /\ Cardinality(ids') \in Nat
            BY FiniteIds, <2>3 DEF Inv, TypeOK
        <3>4. PICK k \in ids : k < m
            BY <1>2, <3>2, <3>3, BufferAssumption DEF Accepts, AboveMin
        <3>5. x < m
            BY <3>1, <3>2, <3>4 DEF Inv, TypeOK, MsgIds
        <3> QED BY <2>2, <2>4, <3>2, <3>3, <3>5, BufferAssumption
    <2> QED BY <2>2, <2>3, <2>5 DEF Inv, NeverTwice
<1> QED BY <1>1, <1>2

LEMMA ShrinkKeepsInv ==
    ASSUME Inv, Shrink
    PROVE  Inv'
<1>1. /\ ids' \subseteq ids
      /\ KeepsNewest(ids')
      /\ Cardinality(ids') = IF Cardinality(ids) > IdsBufferSize
                             THEN IdsBufferSize ELSE Cardinality(ids)
    BY DEF Shrink
<1>2. IsFiniteSet(ids) /\ Cardinality(ids) \in Nat
    BY FiniteIds DEF Inv, TypeOK
<1>3. ForgottenIsOld'
    <2> SUFFICES ASSUME NEW x \in handled \ ids'
                 PROVE  /\ Cardinality(ids') >= IdsBufferSize
                        /\ \A i \in ids' : x < i
        BY DEF ForgottenIsOld, Shrink
    <2>1. CASE x \in ids
        <3>1. \A i \in ids' : x < i
            BY <1>1, <2>1 DEF KeepsNewest
        <3>2. ids' # ids
            BY <2>1
        <3>3. Cardinality(ids') # Cardinality(ids)
            BY <3>2, <1>1, <1>2, FS_Subset
        <3> QED BY <3>1, <3>3, <1>1, <1>2, BufferAssumption
    <2>2. CASE x \notin ids
        BY <2>2, <1>1, <1>2, BufferAssumption DEF Inv, ForgottenIsOld
    <2> QED BY <2>1, <2>2
<1> QED BY <1>1, <1>3, BufferAssumption DEF Inv, TypeOK, NeverTwice, Shrink

LEMMA NextKeepsInv == Inv /\ [Next]_vars => Inv'
<1> SUFFICES ASSUME Inv, [Next]_vars PROVE Inv'
    OBVIOUS
<1>1. CASE \E m \in MsgIds : RegisterMsgId(m)
    BY <1>1, RegisterKeepsInv
<1>2. CASE Shrink
    BY <1>2, ShrinkKeepsInv
<1>3. CASE Clear
    BY <1>3, BufferAssumption
    DEF Clear, Inv, TypeOK, ForgottenIsOld, NeverTwice
<1>4. CASE UNCHANGED vars
    BY <1>4 DEF vars, Inv, TypeOK, ForgottenIsOld, NeverTwice
<1> QED BY <1>1, <1>2, <1>3, <1>4 DEF Next

\* The ids kept and the count of the packet stay within their bounds.
THEOREM TypeCorrect == Spec => []TypeOK
<1>1. Inv => TypeOK
    BY DEF Inv
<1> QED BY InitInv, NextKeepsInv, <1>1, PTL DEF Spec

\* No message of a session is handled twice, for every size of the buffer,
\* every container and every order in which messages come.
THEOREM MessagesHandledOnce == Spec => []NeverTwice
<1>1. Inv => NeverTwice
    BY DEF Inv
<1> QED BY InitInv, NextKeepsInv, <1>1, PTL DEF Spec
=============================================================================
