--------------------------- MODULE DeliveryProofs ---------------------------
(***************************************************************************)
(* That ChatDelivery keeps its Promise, for any set of calls.  Promise and *)
(* the types are inductive together.                                       *)
(***************************************************************************)
EXTENDS ChatDelivery, TLAPS

IInv == TypeOK /\ Promise

\* NewHub and WsService start with no call and no message.
LEMMA InitOK == Init => IInv
BY DEF Init, IInv, TypeOK, Promise

\* Each of a call's steps keeps the promise.
LEMMA CallStep ==
    ASSUME IInv, NEW c \in Calls, Start(c) \/ Store(c) \/ Succeed(c) \/ Refuse(c) \/ Fail(c)
    PROVE  IInv'
<1> USE DEF IInv, TypeOK, Promise
<1>1. CASE Start(c)
    BY <1>1 DEF Start
<1>2. CASE Store(c)
    BY <1>2 DEF Store
<1>3. CASE Succeed(c)
    BY <1>3 DEF Succeed
<1>4. CASE Refuse(c)
    BY <1>4 DEF Refuse
<1>5. CASE Fail(c)
    BY <1>5 DEF Fail
<1> QED BY <1>1, <1>2, <1>3, <1>4, <1>5

\* The loss of a connection only fails calls.
LEMMA FailAllStep == ASSUME IInv, FailAll PROVE IInv'
BY DEF IInv, TypeOK, Promise, FailAll

\* A message is stored at most once, when the call succeeded it is stored, when it
\* was refused it is not: what sendChat tells its caller (ws_service.dart:340-363).
THEOREM PromiseKept == Spec => []Promise
<1>1. IInv /\ [Next]_<<copies, result>> => IInv'
    <2> SUFFICES ASSUME IInv, [Next]_<<copies, result>> PROVE IInv'
        OBVIOUS
    <2>1. CASE \E c \in Calls : Start(c) \/ Store(c) \/ Succeed(c) \/ Refuse(c) \/ Fail(c)
        BY <2>1, CallStep
    <2>2. CASE FailAll
        BY <2>2, FailAllStep
    <2>3. CASE UNCHANGED <<copies, result>>
        BY <2>3 DEF IInv, TypeOK, Promise
    <2> QED BY <2>1, <2>2, <2>3 DEF Next
<1>2. IInv => Promise
    BY DEF IInv
<1> QED BY InitOK, <1>1, <1>2, PTL DEF Spec
=============================================================================
