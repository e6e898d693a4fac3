-------------------------- MODULE GetStreamProofs --------------------------
(* Theorems about GetStream, for any calls, peers and idle limit: the type *)
(* invariant, one inductive invariant from which the four safety           *)
(* properties follow, and the refinement of StreamService.                 *)
EXTENDS GetStream, TLAPS

USE NoneAssumption, IdleLimitAssumption

(* A manager in its loop has counted no more idle periods than the limit:  *)
(* without this the counter could leave its type.                          *)
CounterInLimit ==
    \A m \in Requests : manager[m] \in {"select", "pinging", "handling"} =>
        idle_counter[m] \in 0 .. IdleLimit

(* GetStream is type correct.                                              *)
THEOREM TypeCorrect == Spec => []TypeOK
<1> DEFINE TypeInv == TypeOK /\ CounterInLimit
<1>1. Init => TypeInv
  <2> SUFFICES ASSUME Init PROVE TypeInv
    OBVIOUS
  <2>1. cancelled \in BOOLEAN
    BY DEF Init
  <2>2. idle_counter \in [Requests -> 0 .. IdleLimit + 1]
    BY DEF Init
  <2>3. CounterInLimit
    BY DEF Init, CounterInLimit
  <2> QED BY <2>1, <2>2, <2>3 DEF Init, TypeOK, CallStates, ManagerStates
<1>2. TypeInv /\ [Next]_vars => TypeInv'
  <2> SUFFICES ASSUME TypeInv, [Next]_vars PROVE TypeInv'
    OBVIOUS
  <2> USE DEF TypeOK, CallStates, ManagerStates, CounterInLimit, Goto, Answer,
              Return, callVars, managerVars
  <2>1. ASSUME NEW r \in Requests, Caller(r) PROVE TypeInv'
    <3>1. ASSUME NEW p \in Peers, GetStreamRequestSender(r, p) PROVE TypeInv'
      BY <3>1 DEF GetStreamRequestSender, ReuseSender, SpawnManager
    <3>2. CASE SendRequest(r)  BY <3>2 DEF SendRequest, Receiving
    <3>3. CASE SendFails(r)    BY <3>3 DEF SendFails
    <3>4. CASE ReceiveReply(r) BY <3>4 DEF ReceiveReply
    <3>5. CASE DropCall(r)     BY <3>5 DEF DropCall
    <3> QED BY <2>1, <3>1, <3>2, <3>3, <3>4, <3>5 DEF Caller
  <2>2. ASSUME NEW m \in Requests, Manager(m) PROVE TypeInv'
    <3>1. CASE Connect(m)            BY <3>1 DEF Connect
    <3>2. CASE ConnectFails(m)       BY <3>2 DEF ConnectFails
    <3>3. CASE SelectCancelled(m)    BY <3>3 DEF SelectCancelled
    <3>4. CASE SelectTimer(m)        BY <3>4 DEF SelectTimer
    <3>5. CASE PingOk(m)
      <4>1. CASE idle_counter[m] + 1 > IdleLimit
        BY <3>5, <4>1 DEF PingOk
      <4>2. CASE ~(idle_counter[m] + 1 > IdleLimit)
        BY <3>5, <4>2 DEF PingOk
      <4> QED BY <4>1, <4>2
    <3>6. CASE PingFails(m)          BY <3>6 DEF PingFails
    <3>7. CASE SelectRequest(m)      BY <3>7 DEF SelectRequest
    <3>8. CASE HandleRequestOk(m)    BY <3>8 DEF HandleRequestOk
    <3>9. CASE HandleRequestFails(m) BY <3>9 DEF HandleRequestFails
    <3>10. CASE Drain(m)             BY <3>10 DEF Drain
    <3>11. CASE DrainDone(m)         BY <3>11 DEF DrainDone
    <3>12. CASE RemoveSender(m)      BY <3>12 DEF RemoveSender
    <3> QED BY <2>2, <3>1, <3>2, <3>3, <3>4, <3>5, <3>6, <3>7, <3>8, <3>9,
               <3>10, <3>11, <3>12 DEF Manager
  <2>3. CASE Cancel         BY <2>3 DEF Cancel
  <2>4. CASE UNCHANGED vars BY <2>4 DEF vars
  <2> QED BY <2>1, <2>2, <2>3, <2>4 DEF Next
<1>3. TypeInv => TypeOK
  OBVIOUS
<1> QED BY <1>1, <1>2, <1>3, PTL DEF Spec

-----------------------------------------------------------------------------
(* The inductive invariant.                                                *)

(* A call that has not begun has touched nothing; one that has holds a     *)
(* sender to a manager of the peer it asked for.                           *)
CallsKnowTheirManager ==
    \A r \in Requests :
        /\ call[r] = "new" =>
             /\ peer[r] = None
             /\ sender[r] = None
             /\ reply[r] = "none"
             /\ manager[r] = "unborn"
        /\ call[r] # "new" =>
             /\ peer[r] \in Peers
             /\ sender[r] \in Requests
             /\ manager[sender[r]] # "unborn"
             /\ peer[sender[r]] = peer[r]
        /\ call[r] = "sending" => reply[r] = "none"
        /\ call[r] = "stream" => reply[r] = "stream"

(* r is pending at manager m.                                              *)
PendingAt(r, m) ==
    /\ sender[r] = m
    /\ call[r] \in {"waiting", "dropped"}
    /\ reply[r] = "none"

(* What a manager holds was sent to it and is unanswered, and only a       *)
(* manager that can still answer holds anything.                           *)
ManagersHoldPendingRequests ==
    \A m \in Requests :
        /\ slot[m] # None =>
             /\ PendingAt(slot[m], m)
             /\ Receiving(m) \/ manager[m] = "draining"
             /\ slot[m] # current[m]
        /\ current[m] # None =>
             /\ PendingAt(current[m], m)
             /\ manager[m] = "handling"

(* No pending request is lost.                                             *)
WaitingCallsAreHeld ==
    \A r \in Requests :
        call[r] = "waiting" /\ reply[r] = "none" =>
            slot[sender[r]] = r \/ current[sender[r]] = r

IInv ==
    /\ CallsKnowTheirManager
    /\ RegisteredManagerIsTheRunningOne
    /\ ManagersHoldPendingRequests
    /\ WaitingCallsAreHeld
    /\ ErrorOnlyFromClosedManager

(* Every step of GetStream preserves the inductive invariant.              *)
LEMMA InductiveStep ==
    ASSUME TypeOK, TypeOK', IInv, [Next]_vars
    PROVE  IInv'
<1> USE DEF IInv, CallsKnowTheirManager, RegisteredManagerIsTheRunningOne,
            ManagersHoldPendingRequests, WaitingCallsAreHeld,
            ErrorOnlyFromClosedManager, PendingAt, Alive, Receiving,
            TypeOK, CallStates, ManagerStates, Goto, Answer, Return,
            callVars, managerVars
<1>1. ASSUME NEW r \in Requests, Caller(r) PROVE IInv'
  <2>1. ASSUME NEW p \in Peers, GetStreamRequestSender(r, p) PROVE IInv'
    <3>1. CASE ReuseSender(r, p)
      BY <2>1, <3>1 DEF GetStreamRequestSender, ReuseSender
    <3>2. CASE SpawnManager(r, p)
      BY <2>1, <3>2 DEF GetStreamRequestSender, SpawnManager
    <3> QED BY <2>1, <3>1, <3>2 DEF GetStreamRequestSender
  <2>2. CASE SendRequest(r)
    BY <2>2 DEF SendRequest
  <2>3. CASE SendFails(r)
    BY <2>3 DEF SendFails
  <2>4. CASE ReceiveReply(r)
    BY <2>4 DEF ReceiveReply
  <2>5. CASE DropCall(r)
    BY <2>5 DEF DropCall
  <2> QED BY <1>1, <2>1, <2>2, <2>3, <2>4, <2>5 DEF Caller
<1>2. ASSUME NEW m \in Requests, Manager(m) PROVE IInv'
  <2>1. CASE Connect(m)
    BY <2>1 DEF Connect
  <2>2. CASE ConnectFails(m)
    BY <2>2 DEF ConnectFails
  <2>3. CASE SelectCancelled(m)
    BY <2>3 DEF SelectCancelled
  <2>4. CASE SelectTimer(m)
    BY <2>4 DEF SelectTimer
  <2>5. CASE PingOk(m)
    BY <2>5 DEF PingOk
  <2>6. CASE PingFails(m)
    BY <2>6 DEF PingFails
  <2>7. CASE SelectRequest(m)
    BY <2>7 DEF SelectRequest
  <2>8. CASE HandleRequestOk(m)
    BY <2>8 DEF HandleRequestOk
  <2>9. CASE HandleRequestFails(m)
    BY <2>9 DEF HandleRequestFails
  <2>10. CASE Drain(m)
    BY <2>10 DEF Drain
  <2>11. CASE DrainDone(m)
    BY <2>11 DEF DrainDone
  <2>12. CASE RemoveSender(m)
    BY <2>12 DEF RemoveSender
  <2> QED BY <1>2, <2>1, <2>2, <2>3, <2>4, <2>5, <2>6, <2>7, <2>8, <2>9,
             <2>10, <2>11, <2>12 DEF Manager
<1>3. CASE Cancel
  BY <1>3 DEF Cancel
<1>4. CASE UNCHANGED vars
  BY <1>4 DEF vars
<1> QED BY <1>1, <1>2, <1>3, <1>4 DEF Next

LEMMA InductiveInvariant == Spec => []IInv
<1>1. Init => IInv
  BY DEF Init, IInv, CallsKnowTheirManager, RegisteredManagerIsTheRunningOne,
         ManagersHoldPendingRequests, WaitingCallsAreHeld,
         ErrorOnlyFromClosedManager, Alive, Receiving
<1>2. IInv /\ TypeOK /\ TypeOK' /\ [Next]_vars => IInv'
  BY InductiveStep
<1> QED BY <1>1, <1>2, TypeCorrect, PTL DEF Spec

(* One running manager per peer, and it is the one in the map.             *)
THEOREM RegistryCorrect == Spec => []RegisteredManagerIsTheRunningOne
<1>1. IInv => RegisteredManagerIsTheRunningOne
  BY DEF IInv
<1> QED BY <1>1, InductiveInvariant, PTL

(* No request is lost or answered twice.                                   *)
THEOREM NoRequestLost == Spec => []UnansweredRequestIsHeld
<1>1. TypeOK /\ IInv => UnansweredRequestIsHeld
  <2> SUFFICES ASSUME TypeOK, IInv PROVE UnansweredRequestIsHeld
    OBVIOUS
  <2>1. ASSUME NEW r \in Requests, NEW m \in Holders(r)
        PROVE  /\ sender[r] = m
               /\ reply[r] = "none"
               /\ Alive(m)
               /\ ~(slot[m] = r /\ current[m] = r)
    <3>1. r # None /\ m \in Requests /\ (slot[m] = r \/ current[m] = r)
      BY DEF Holders
    <3> QED BY <3>1 DEF IInv, ManagersHoldPendingRequests, PendingAt, Alive,
                        Receiving
  <2>2. ASSUME NEW r \in Requests, call[r] = "waiting", reply[r] = "none"
        PROVE  Holders(r) = {sender[r]} /\ Alive(sender[r])
    <3>1. sender[r] \in Requests
      BY <2>2 DEF TypeOK, IInv, CallsKnowTheirManager
    <3>2. slot[sender[r]] = r \/ current[sender[r]] = r
      BY <2>2 DEF IInv, WaitingCallsAreHeld
    <3>3. sender[r] \in Holders(r)
      BY <3>1, <3>2 DEF Holders
    <3>4. \A m \in Holders(r) : m = sender[r]
      BY <2>1
    <3> QED BY <2>1, <3>3, <3>4
  <2>3. ASSUME NEW r \in Requests, Holders(r) # {}
        PROVE  reply[r] = "none"
    BY <2>1, <2>3
  <2> QED BY <2>1, <2>2, <2>3 DEF UnansweredRequestIsHeld
<1> QED BY <1>1, TypeCorrect, InductiveInvariant, PTL

(* A stream leads to the peer that was asked for.                          *)
THEOREM NoMisdelivery == Spec => []StreamLeadsToRequestedPeer
<1>1. TypeOK /\ IInv => StreamLeadsToRequestedPeer
  BY DEF TypeOK, CallStates, IInv, CallsKnowTheirManager,
         StreamLeadsToRequestedPeer
<1> QED BY <1>1, TypeCorrect, InductiveInvariant, PTL

(* An error comes only from a manager that has closed its channel.         *)
THEOREM NoSpuriousError == Spec => []ErrorOnlyFromClosedManager
<1>1. IInv => ErrorOnlyFromClosedManager
  BY DEF IInv
<1> QED BY <1>1, InductiveInvariant, PTL

-----------------------------------------------------------------------------
(* The refinement.                                                         *)

(* What a step does to the mapped outcome and status, pointwise ...        *)
SameOutcome == \A q \in Requests : Outcome(q)' = Outcome(q)
SameStatus == \A q \in Requests : Status(q)' = Status(q)
OutcomeOf(r, o) ==
    \A q \in Requests : Outcome(q)' = IF q = r THEN o ELSE Outcome(q)
StatusOf(m, s) ==
    \A q \in Requests : Status(q)' = IF q = m THEN s ELSE Status(q)

(* ... and as functions.                                                   *)
LEMMA OutcomeChange ==
    ASSUME NEW r \in Requests, NEW o, OutcomeOf(r, o)
    PROVE  [q \in Requests |-> Outcome(q)]' =
           [[q \in Requests |-> Outcome(q)] EXCEPT ![r] = o]
BY DEF OutcomeOf

LEMMA StatusChange ==
    ASSUME NEW m \in Requests, NEW s, StatusOf(m, s)
    PROVE  [q \in Requests |-> Status(q)]' =
           [[q \in Requests |-> Status(q)] EXCEPT ![m] = s]
BY DEF StatusOf

LEMMA NoChange ==
    /\ SameOutcome => UNCHANGED [q \in Requests |-> Outcome(q)]
    /\ SameStatus => UNCHANGED [q \in Requests |-> Status(q)]
    /\ SameOutcome /\ SameStatus /\ UNCHANGED <<peer, sender, senders>> =>
          UNCHANGED Service!vars
BY DEF SameOutcome, SameStatus, Service!vars

LEMMA BeginStep ==
    ASSUME NEW r \in Requests, NEW p \in Peers,
           Outcome(r) = "idle", OutcomeOf(r, "asked"),
           Status(r) = "unused", StatusOf(r, "opening"),
           senders[p] = None,
           peer' = [peer EXCEPT ![r] = p],
           sender' = [sender EXCEPT ![r] = r],
           senders' = [senders EXCEPT ![p] = r]
    PROVE  Service!Begin(r, p, r)
BY OutcomeChange, StatusChange DEF Service!Begin

LEMMA WithdrawStep ==
    ASSUME NEW r \in Requests,
           Outcome(r) \in {"asked", "granted", "refused"},
           OutcomeOf(r, "withdrawn"), SameStatus,
           UNCHANGED <<peer, sender, senders>>
    PROVE  Service!Withdraw(r)
BY OutcomeChange, NoChange DEF Service!Withdraw

(* Every step of GetStream is a step of StreamService, or is invisible.    *)
(* Under each action, first what it does to Outcome and Status, pointwise, *)
(* then the abstract action this amounts to.                               *)
LEMMA StepRefines ==
    ASSUME TypeOK, TypeOK', IInv, [Next]_vars
    PROVE  [Service!Next]_(Service!vars)
<1> USE DEF IInv, CallsKnowTheirManager, RegisteredManagerIsTheRunningOne,
            ManagersHoldPendingRequests, ErrorOnlyFromClosedManager,
            PendingAt, Alive, Receiving, TypeOK, CallStates, ManagerStates,
            Goto, Answer, Return, callVars, managerVars, Answered
<1>1. ASSUME NEW r \in Requests, Caller(r)
      PROVE  [Service!Next]_(Service!vars)
  <2>1. ASSUME NEW p \in Peers, GetStreamRequestSender(r, p)
        PROVE  Service!Next
    <3> USE <2>1 DEF GetStreamRequestSender
    <3>1. OutcomeOf(r, "asked") /\ Outcome(r) = "idle"
      BY DEF ReuseSender, SpawnManager, OutcomeOf, Outcome
    <3>2. CASE ReuseSender(r, p)
      <4>1. SameStatus
        BY <3>2 DEF ReuseSender, SameStatus, Status
      <4>2. UNCHANGED [q \in Requests |-> Status(q)]
        BY <4>1, NoChange
      <4>3. /\ senders[p] # None
            /\ sender' = [sender EXCEPT ![r] = senders[p]]
            /\ UNCHANGED senders
        BY <3>2 DEF ReuseSender
      <4>4. Service!Join(r, p)
        BY <3>1, <4>2, <4>3, OutcomeChange DEF Service!Join
      <4> QED BY <4>4 DEF Service!Next
    <3>3. CASE SpawnManager(r, p)
      <4>1. StatusOf(r, "opening") /\ Status(r) = "unused"
        BY <3>3 DEF SpawnManager, StatusOf, Status
      <4>2. /\ senders[p] = None
            /\ sender' = [sender EXCEPT ![r] = r]
            /\ senders' = [senders EXCEPT ![p] = r]
        BY <3>3 DEF SpawnManager
      <4>3. Service!Begin(r, p, r)
        BY <3>1, <4>1, <4>2, BeginStep
      <4> QED BY <4>3 DEF Service!Next
    <3> QED BY <3>2, <3>3
  <2>2. CASE SendRequest(r)
    <3>1. SameOutcome
      BY <2>2 DEF SendRequest, SameOutcome, Outcome
    <3>2. SameStatus
      BY <2>2 DEF SendRequest, SameStatus, Status
    <3> QED BY NoChange, <2>2, <3>1, <3>2 DEF SendRequest
  <2>3. CASE SendFails(r)
    <3>1. OutcomeOf(r, "refused")
      <4>1. call' = [call EXCEPT ![r] = "error"] /\ UNCHANGED reply
        BY <2>3 DEF SendFails
      <4>2. Outcome(r)' = "refused"
        BY <4>1 DEF Outcome
      <4>3. \A q \in Requests \ {r} : Outcome(q)' = Outcome(q)
        BY <4>1 DEF Outcome
      <4> QED BY <4>2, <4>3 DEF OutcomeOf
    <3>2. Outcome(r) = "asked"
      BY <2>3 DEF SendFails, Outcome
    <3>3. SameStatus /\ Status(sender[r]) = "closed"
      BY <2>3 DEF SendFails, SameStatus, Status
    <3>4. sender[r] # None /\ UNCHANGED <<peer, sender, senders>>
      BY <2>3 DEF SendFails
    <3>5. Service!Refuse(r)
      BY <3>1, <3>2, <3>3, <3>4, OutcomeChange, NoChange DEF Service!Refuse
    <3> QED BY <3>5 DEF Service!Next
  <2>4. CASE ReceiveReply(r)
    <3>1. SameOutcome
      BY <2>4 DEF ReceiveReply, SameOutcome, Outcome
    <3>2. SameStatus
      BY <2>4 DEF ReceiveReply, SameStatus, Status
    <3> QED BY NoChange, <2>4, <3>1, <3>2 DEF ReceiveReply
  <2>5. CASE DropCall(r)
    <3>1. OutcomeOf(r, "withdrawn")
      BY <2>5 DEF DropCall, OutcomeOf, Outcome
    <3>2. Outcome(r) \in {"asked", "granted", "refused"}
      <4>1. call[r] # "new" /\ call[r] # "dropped"
        BY <2>5 DEF DropCall
      <4> QED BY <4>1 DEF Outcome
    <3>3. SameStatus
      BY <2>5 DEF DropCall, SameStatus, Status
    <3>4. UNCHANGED <<peer, sender, senders>>
      BY <2>5 DEF DropCall
    <3>5. Service!Withdraw(r)
      BY <3>1, <3>2, <3>3, <3>4, WithdrawStep
    <3> QED BY <3>5 DEF Service!Next
  <2> QED BY <1>1, <2>1, <2>2, <2>3, <2>4, <2>5 DEF Caller
<1>2. ASSUME NEW m \in Requests, Manager(m)
      PROVE  [Service!Next]_(Service!vars)
  <2>0. ASSUME StatusOf(m, "closed"), Status(m) \in {"opening", "up"},
               NEW r, \/ SameOutcome
                      \/ r \in Requests /\ sender[r] = m
                         /\ Outcome(r) = "asked" /\ OutcomeOf(r, "refused"),
               UNCHANGED <<peer, sender, senders>>
        PROVE  Service!Next
    <3>1. CASE SameOutcome
      <4>1. Service!Close(m, {})
        BY <2>0, <3>1, StatusChange DEF Service!Close, SameOutcome
      <4> QED BY <4>1 DEF Service!Next
    <3>2. CASE r \in Requests /\ sender[r] = m
               /\ Outcome(r) = "asked" /\ OutcomeOf(r, "refused")
      <4>1. Service!Close(m, {r})
        BY <2>0, <3>2, StatusChange DEF Service!Close, OutcomeOf
      <4> QED BY <3>2, <4>1 DEF Service!Next
    <3> QED BY <2>0, <3>1, <3>2
  <2>1. CASE Connect(m)
    <3>1. SameOutcome
      BY <2>1 DEF Connect, SameOutcome, Outcome
    <3>2. StatusOf(m, "up") /\ Status(m) = "opening"
      BY <2>1 DEF Connect, StatusOf, Status
    <3>3. Service!Establish(m)
      BY <2>1, <3>1, <3>2, StatusChange, NoChange
         DEF Connect, Service!Establish
    <3> QED BY <3>3 DEF Service!Next
  <2>2. CASE ConnectFails(m)
    <3>1. SameOutcome
      BY <2>2 DEF ConnectFails, SameOutcome, Outcome
    <3>2. StatusOf(m, "closed") /\ Status(m) = "opening"
      BY <2>2 DEF ConnectFails, StatusOf, Status
    <3> QED BY <2>0, <2>2, <3>1, <3>2 DEF ConnectFails
  <2>3. ASSUME Return(m), Status(m) = "up", UNCHANGED <<callVars, senders>>
        PROVE  Service!Next
    <3>1. StatusOf(m, "closed")
      BY <2>3 DEF StatusOf, Status
    <3>2. CASE slot[m] # None /\ call[slot[m]] = "waiting"
      <4>1. slot[m] \in Requests /\ sender[slot[m]] = m
        BY <3>2
      <4>2. Outcome(slot[m]) = "asked" /\ OutcomeOf(slot[m], "refused")
        BY <2>3, <3>2 DEF OutcomeOf, Outcome
      <4> QED BY <2>0, <2>3, <3>1, <4>1, <4>2
    <3>3. CASE ~(slot[m] # None /\ call[slot[m]] = "waiting")
      <4>1. SameOutcome
        BY <2>3, <3>3 DEF SameOutcome, Outcome
      <4> QED BY <2>0, <2>3, <3>1, <4>1
    <3> QED BY <3>2, <3>3
  <2>4. CASE SelectCancelled(m)
    BY <2>3, <2>4 DEF SelectCancelled, Status
  <2>5. CASE SelectTimer(m)
    <3>1. SameOutcome
      BY <2>5 DEF SelectTimer, SameOutcome, Outcome
    <3>2. SameStatus
      BY <2>5 DEF SelectTimer, SameStatus, Status
    <3> QED BY NoChange, <2>5, <3>1, <3>2 DEF SelectTimer
  <2>6. CASE PingOk(m)
    <3>1. CASE idle_counter[m] + 1 > IdleLimit
      BY <2>3, <2>6, <3>1 DEF PingOk, Status
    <3>2. CASE ~(idle_counter[m] + 1 > IdleLimit)
      <4>1. SameOutcome
        BY <2>6, <3>2 DEF PingOk, SameOutcome, Outcome
      <4>2. SameStatus
        BY <2>6, <3>2 DEF PingOk, SameStatus, Status
      <4> QED BY NoChange, <2>6, <4>1, <4>2 DEF PingOk
    <3> QED BY <3>1, <3>2
  <2>7. CASE PingFails(m)
    BY <2>3, <2>7 DEF PingFails, Status
  <2>8. CASE SelectRequest(m)
    <3>1. SameOutcome
      BY <2>8 DEF SelectRequest, SameOutcome, Outcome
    <3>2. SameStatus
      BY <2>8 DEF SelectRequest, SameStatus, Status
    <3> QED BY NoChange, <2>8, <3>1, <3>2 DEF SelectRequest
  <2>9. CASE HandleRequestOk(m)
    <3>1. SameStatus /\ Status(m) = "up"
      BY <2>9 DEF HandleRequestOk, SameStatus, Status
    <3>2. CASE current[m] # None /\ call[current[m]] = "waiting"
      <4>1. current[m] \in Requests /\ sender[current[m]] = m
        BY <3>2
      <4>2. Outcome(current[m]) = "asked" /\ OutcomeOf(current[m], "granted")
        BY <2>9, <3>2 DEF HandleRequestOk, OutcomeOf, Outcome
      <4>3. Service!Grant(current[m])
        BY <2>9, <3>1, <4>1, <4>2, OutcomeChange, NoChange
           DEF HandleRequestOk, Service!Grant
      <4> QED BY <4>1, <4>3 DEF Service!Next
    <3>3. CASE ~(current[m] # None /\ call[current[m]] = "waiting")
      <4>1. SameOutcome
        BY <2>9, <3>3 DEF HandleRequestOk, SameOutcome, Outcome
      <4> QED BY NoChange, <2>9, <3>1, <4>1 DEF HandleRequestOk
    <3> QED BY <3>2, <3>3
  <2>10. CASE HandleRequestFails(m)
    <3>1. StatusOf(m, "closed") /\ Status(m) = "up"
      BY <2>10 DEF HandleRequestFails, StatusOf, Status
    <3>2. CASE current[m] # None /\ call[current[m]] = "waiting"
      <4>1. current[m] \in Requests /\ sender[current[m]] = m
        BY <3>2
      <4>2. Outcome(current[m]) = "asked" /\ OutcomeOf(current[m], "refused")
        BY <2>10, <3>2 DEF HandleRequestFails, OutcomeOf, Outcome
      <4> QED BY <2>0, <2>10, <3>1, <4>1, <4>2 DEF HandleRequestFails
    <3>3. CASE ~(current[m] # None /\ call[current[m]] = "waiting")
      <4>1. SameOutcome
        BY <2>10, <3>3 DEF HandleRequestFails, SameOutcome, Outcome
      <4> QED BY <2>0, <2>10, <3>1, <4>1 DEF HandleRequestFails
    <3> QED BY <3>2, <3>3
  <2>11. CASE Drain(m)
    <3>1. SameStatus /\ Status(m) = "closed"
      BY <2>11 DEF Drain, SameStatus, Status
    <3>2. CASE call[slot[m]] = "waiting"
      <4>1. slot[m] \in Requests /\ sender[slot[m]] = m
        BY <2>11 DEF Drain
      <4>2. Outcome(slot[m]) = "asked" /\ OutcomeOf(slot[m], "refused")
        BY <2>11, <3>2 DEF Drain, OutcomeOf, Outcome
      <4>3. Service!Refuse(slot[m])
        BY <2>11, <3>1, <4>1, <4>2, OutcomeChange, NoChange
           DEF Drain, Service!Refuse
      <4> QED BY <4>1, <4>3 DEF Service!Next
    <3>3. CASE call[slot[m]] # "waiting"
      <4>1. SameOutcome
        BY <2>11, <3>3 DEF Drain, SameOutcome, Outcome
      <4> QED BY NoChange, <2>11, <3>1, <4>1 DEF Drain
    <3> QED BY <3>2, <3>3
  <2>12. CASE DrainDone(m)
    <3>1. SameOutcome
      BY <2>12 DEF DrainDone, SameOutcome, Outcome
    <3>2. SameStatus
      BY <2>12 DEF DrainDone, SameStatus, Status
    <3> QED BY NoChange, <2>12, <3>1, <3>2 DEF DrainDone
  <2>13. CASE RemoveSender(m)
    <3>1. SameOutcome
      BY <2>13 DEF RemoveSender, SameOutcome, Outcome
    <3>2. SameStatus /\ Status(m) = "closed"
      BY <2>13 DEF RemoveSender, SameStatus, Status
    <3>3. peer[m] \in Peers /\ senders[peer[m]] = m
      BY <2>13 DEF RemoveSender
    <3>4. Service!Forget(peer[m])
      BY <2>13, <3>1, <3>2, <3>3, NoChange
         DEF RemoveSender, Service!Forget, SameStatus
    <3> QED BY <3>3, <3>4 DEF Service!Next
  <2> QED BY <1>2, <2>1, <2>2, <2>4, <2>5, <2>6, <2>7, <2>8, <2>9, <2>10,
             <2>11, <2>12, <2>13 DEF Manager
<1>3. CASE Cancel
  <2>1. SameOutcome
    BY <1>3 DEF Cancel, SameOutcome, Outcome
  <2>2. SameStatus
    BY <1>3 DEF Cancel, SameStatus, Status
  <2> QED BY NoChange, <1>3, <2>1, <2>2 DEF Cancel
<1>4. CASE UNCHANGED vars
  <2>1. SameOutcome
    BY <1>4 DEF vars, SameOutcome, Outcome
  <2>2. SameStatus
    BY <1>4 DEF vars, SameStatus, Status
  <2> QED BY NoChange, <1>4, <2>1, <2>2 DEF vars
<1> QED BY <1>1, <1>2, <1>3, <1>4 DEF Next

(* get_stream implements the abstract service.                             *)
THEOREM Refinement == Spec => ImplementsService
<1>1. Init => Service!Init
  BY DEF Init, Service!Init, Outcome, Status, Answered
<1>2. TypeOK /\ TypeOK' /\ IInv /\ [Next]_vars =>
          [Service!Next]_(Service!vars)
  BY StepRefines
<1> QED BY <1>1, <1>2, TypeCorrect, InductiveInvariant, PTL
        DEF Spec, ImplementsService, Service!Spec
=============================================================================
