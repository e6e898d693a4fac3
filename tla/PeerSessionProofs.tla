------------------------- MODULE PeerSessionProofs -------------------------
(* Theorems about PeerSession, for any calls, peers, protocols and either  *)
(* kind of acceptor: an ack is evidence, only the network cuts a stream in *)
(* use, no stream is left to nobody, and what GetStreamProofs shows of the *)
(* broker holds with the peers at the other end.                           *)
EXTENDS PeerSession, TLAPS

BrokerProofs == INSTANCE GetStreamProofs

-----------------------------------------------------------------------------
(* Every step of PeerSession is a step of the broker or leaves it alone.   *)
LEMMA StepIsBrokerStep ==
    ASSUME [Next]_vars
    PROVE  [Broker!Next]_brokerVars
<1>1. ASSUME NEW r \in Requests, Caller(r) PROVE [Broker!Next]_brokerVars
  <2>1. ASSUME NEW p \in Peers, GetStreamRequestSender(r, p)
        PROVE  Broker!Caller(r)
    BY <2>1 DEF GetStreamRequestSender, Broker!Caller
  <2>2. CASE Exchange(r)
    BY <2>2 DEF Exchange, Broker!Caller, Broker!Next
  <2>3. CASE DropCall(r)
    BY <2>3 DEF DropCall, Broker!Caller, Broker!Next
  <2>4. CASE Finish(r)
    BY <2>4 DEF Finish
  <2>5. CASE StreamBreaks(r)
    BY <2>5 DEF StreamBreaks
  <2> QED BY <1>1, <2>1, <2>2, <2>3, <2>4, <2>5 DEF Caller, Broker!Next
<1>2. ASSUME NEW m \in Requests, Manager(m) PROVE Broker!Manager(m)
  BY <1>2 DEF Manager, Connect, ConnectFails, Manage, SelectTimer, PingOk,
              PingFails, SelectRequest, HandleRequestOk, HandleRequestFails,
              Broker!Manager
<1>3. ASSUME NEW m \in Requests,
             Peer(m) \/ LinkBreaks(m) \/ ConnectionCloses(m)
      PROVE  UNCHANGED brokerVars
  BY <1>3 DEF Peer, AcceptPing, AcceptStream, AcceptFails, HandlerEnds,
              LinkBreaks, ConnectionCloses
<1>4. CASE Cancel
  BY <1>4 DEF Cancel, Broker!Next
<1>5. CASE UNCHANGED vars
  BY <1>5 DEF vars
<1> QED BY <1>1, <1>2, <1>3, <1>4, <1>5 DEF Next, Broker!Next

(* So what is proved of the broker can be used for the two ends together.  *)
LEMMA Refinement == Spec => ImplementsBroker
<1>1. Init => Broker!Init
  BY DEF Init
<1>2. [Next]_vars => [Broker!Next]_Broker!vars
  <2>1. brokerVars = <<call, peer, sender, reply, senders, manager, slot,
                       current, idle_counter, cancelled>>
    BY DEF brokerVars
  <2> QED BY StepIsBrokerStep DEF brokerVars, Broker!vars, Broker!callVars,
                                  Broker!managerVars
<1> QED BY <1>1, <1>2, PTL DEF Spec, ImplementsBroker, Broker!Spec

(* The broker as PeerSession and as GetStreamProofs name it is one.         *)
LEMMA SameBroker == Broker!Spec <=> BrokerProofs!Spec
<1>1. Broker!Init <=> BrokerProofs!Init
  BY DEF Broker!Init, BrokerProofs!Init
<1>2. Broker!Next <=> BrokerProofs!Next
  BY DEF Broker!Receiving, BrokerProofs!Receiving, Broker!Goto,
         BrokerProofs!Goto, Broker!Answer, BrokerProofs!Answer,
         Broker!ReuseSender, BrokerProofs!ReuseSender, Broker!SpawnManager,
         BrokerProofs!SpawnManager, Broker!GetStreamRequestSender,
         BrokerProofs!GetStreamRequestSender, Broker!SendRequest,
         BrokerProofs!SendRequest, Broker!SendFails, BrokerProofs!SendFails,
         Broker!ReceiveReply, BrokerProofs!ReceiveReply, Broker!DropCall,
         BrokerProofs!DropCall, Broker!Return, BrokerProofs!Return,
         Broker!Connect, BrokerProofs!Connect, Broker!ConnectFails,
         BrokerProofs!ConnectFails, Broker!SelectCancelled,
         BrokerProofs!SelectCancelled, Broker!SelectTimer,
         BrokerProofs!SelectTimer, Broker!PingOk, BrokerProofs!PingOk,
         Broker!PingFails, BrokerProofs!PingFails, Broker!SelectRequest,
         BrokerProofs!SelectRequest, Broker!HandleRequestOk,
         BrokerProofs!HandleRequestOk, Broker!HandleRequestFails,
         BrokerProofs!HandleRequestFails, Broker!Drain, BrokerProofs!Drain,
         Broker!DrainDone, BrokerProofs!DrainDone, Broker!RemoveSender,
         BrokerProofs!RemoveSender, Broker!Cancel, BrokerProofs!Cancel,
         Broker!Caller, BrokerProofs!Caller, Broker!Manager,
         BrokerProofs!Manager, Broker!Next, BrokerProofs!Next, Broker!callVars,
         BrokerProofs!callVars, Broker!managerVars, BrokerProofs!managerVars
<1>3. [Broker!Next]_Broker!vars <=> [BrokerProofs!Next]_BrokerProofs!vars
  BY <1>2 DEF Broker!vars, BrokerProofs!vars, Broker!callVars,
              BrokerProofs!callVars, Broker!managerVars,
              BrokerProofs!managerVars
<1> QED BY <1>1, <1>3, PTL DEF Broker!Spec, BrokerProofs!Spec

(* So what is proved of the broker holds of the composition.               *)
LEMMA BrokerInvariant == Spec => [](Broker!TypeOK /\ BrokerProofs!IInv)
<1>1. Broker!TypeOK <=> BrokerProofs!TypeOK
  BY DEF Broker!TypeOK, BrokerProofs!TypeOK, Broker!CallStates,
         BrokerProofs!CallStates, Broker!ManagerStates,
         BrokerProofs!ManagerStates
<1>2. BrokerProofs!Spec => []BrokerProofs!TypeOK
  BY BrokerProofs!TypeCorrect, NoneAssumption, IdleLimitAssumption
<1>3. BrokerProofs!Spec => []BrokerProofs!IInv
  BY BrokerProofs!InductiveInvariant, NoneAssumption, IdleLimitAssumption
<1> QED BY <1>1, <1>2, <1>3, SameBroker, Refinement, PTL
        DEF ImplementsBroker

-----------------------------------------------------------------------------
(* The types of the variables that PeerSession adds.                       *)
PeerTypeOK ==
    /\ protocol \in [Requests -> Protocols \cup {None}]
    /\ link \in [Requests -> {"none", "up", "lost", "closed"}]
    /\ opened \in [Requests -> Requests \cup {None, Ping}]
    /\ answered \in [Requests -> BOOLEAN]
    /\ acceptor \in [Requests -> {"none", "accepting", "serving", "ended"}]
    /\ handler \in [Requests -> {"none", "serving", "done"}]
    /\ stream \in [Requests -> {"none", "open", "finished", "broken"}]

(* PeerSession is type correct.                                            *)
THEOREM TypeCorrect == Spec => []TypeOK
<1>1. Init => PeerTypeOK
  BY DEF Init, PeerTypeOK
<1>2. ASSUME PeerTypeOK, Broker!TypeOK, [Next]_vars PROVE PeerTypeOK'
  <2> USE <1>2 DEF PeerTypeOK, peerVars
  <2>1. ASSUME NEW r \in Requests, Caller(r) PROVE PeerTypeOK'
    BY <2>1 DEF Caller, GetStreamRequestSender, Exchange, DropCall, Finish,
                StreamBreaks
  <2>2. ASSUME NEW m \in Requests, Manager(m) PROVE PeerTypeOK'
    <3>1. CASE Connect(m) BY <3>1 DEF Connect
    <3>2. CASE ConnectFails(m) \/ Manage(m) \/ PingFails(m)
               \/ HandleRequestFails(m)
      BY <3>2 DEF ConnectFails, Manage, PingFails, HandleRequestFails
    <3>3. CASE SelectTimer(m) BY <3>3 DEF SelectTimer
    <3>4. CASE PingOk(m) BY <3>4 DEF PingOk
    <3>5. CASE SelectRequest(m)
      BY <3>5 DEF SelectRequest, Broker!TypeOK
    <3>6. CASE HandleRequestOk(m) BY <3>6 DEF HandleRequestOk
    <3> QED BY <2>2, <3>1, <3>2, <3>3, <3>4, <3>5, <3>6 DEF Manager
  <2>3. ASSUME NEW m \in Requests, Peer(m) PROVE PeerTypeOK'
    BY <2>3 DEF Peer, AcceptPing, AcceptStream, AcceptFails, HandlerEnds
  <2>4. ASSUME NEW m \in Requests, LinkBreaks(m) \/ ConnectionCloses(m)
        PROVE  PeerTypeOK'
    BY <2>4 DEF LinkBreaks, ConnectionCloses
  <2>5. CASE Cancel BY <2>5 DEF Cancel
  <2>6. CASE UNCHANGED vars BY <2>6 DEF vars
  <2> QED BY <1>2, <2>1, <2>2, <2>3, <2>4, <2>5, <2>6 DEF Next
<1>3. PeerTypeOK /\ Broker!TypeOK => TypeOK
  BY DEF PeerTypeOK, TypeOK
<1> QED BY <1>1, <1>2, <1>3, BrokerInvariant, PTL DEF Spec

-----------------------------------------------------------------------------
(* The inductive invariant.                                                *)

(* A call has no stream and no handler before a manager has opened its     *)
(* stream and the peer has accepted it.                                    *)
StreamsAreFresh ==
    /\ \A r \in Requests : call[r] \in {"new", "sending"} =>
          handler[r] = "none" /\ stream[r] = "none"
    /\ \A m \in Requests : slot[m] # None => handler[slot[m]] = "none"
    /\ \A m \in Requests : opened[m] \in Requests =>
          /\ sender[opened[m]] = m
          /\ call[opened[m]] \notin {"new", "sending"}
          /\ handler[opened[m]] = "none"
          /\ slot[m] # opened[m]

(* While a manager handles a request, the stream it opened is that         *)
(* request's, and an answer means that the peer has accepted it.           *)
AckIsForTheOpenedStream ==
    \A m \in Requests : manager[m] = "handling" =>
        /\ current[m] # None
        /\ opened[m] \in {None, current[m]}
        /\ answered[m] =>
             /\ opened[m] = None
             /\ protocol[current[m]] = Exposed => handler[current[m]] # "none"

(* The acceptor of a connection starts with the connection.                *)
AcceptorStartsWithConnection ==
    \A m \in Requests :
        manager[m] \in {"unborn", "connecting"} => acceptor[m] = "none"

(* r is one that the acceptor of m is serving.                             *)
Busy(r, m) == sender[r] = m /\ handler[r] = "serving"

SerialInv ==
    \A m \in Requests : peer[m] \in Serial =>
        /\ acceptor[m] = "serving" => \E r \in Requests : Busy(r, m)
        /\ \A r \in Requests : Busy(r, m) =>
             /\ acceptor[m] = "serving"
             /\ \A q \in Requests : Busy(q, m) => q = r

(* A manager in its loop has an acceptor at the other end, and while it    *)
(* waits its stream is in the queue or answered.                           *)
AnswersAreDue ==
    \A m \in Requests :
        /\ manager[m] \in {"select", "pinging", "handling"} =>
              acceptor[m] # "none"
        /\ acceptor[m] = "serving" => peer[m] \in Serial
        /\ manager[m] \in {"pinging", "handling"} =>
              answered[m] \/ opened[m] # None

(* A request that is still to be answered has no stream yet, and is in the *)
(* hands of its manager once.                                              *)
PendingHasNoStream ==
    /\ \A r \in Requests : reply[r] = "stream" => stream[r] # "none"
    /\ \A m \in Requests : slot[m] # None =>
          slot[m] # current[m] /\ stream[slot[m]] = "none"
    /\ \A m \in Requests : current[m] # None => stream[current[m]] = "none"

IInv ==
    /\ StreamsAreFresh
    /\ PendingHasNoStream
    /\ StreamsHaveAnOwner
    /\ AnswersAreDue
    /\ AckIsForTheOpenedStream
    /\ AcceptorStartsWithConnection
    /\ GrantedStreamWasAccepted
    /\ OnlyTheNetworkCutsStreams
    /\ SerialInv

(* What the steps below use of the broker's invariant.                     *)
HeldRequests ==
    /\ \A r \in Requests : call[r] # "new" =>
          /\ sender[r] \in Requests /\ peer[sender[r]] = peer[r]
          /\ manager[sender[r]] # "unborn"
    /\ \A m \in Requests : slot[m] # None =>
          sender[slot[m]] = m /\ call[slot[m]] \in {"waiting", "dropped"}
    /\ \A m \in Requests : current[m] # None =>
          sender[current[m]] = m /\ call[current[m]] \in {"waiting", "dropped"}
    /\ \A r \in Requests : call[r] = "new" =>
          sender[r] = None /\ manager[r] = "unborn"

LEMMA BrokerHolds ==
    ASSUME BrokerProofs!IInv
    PROVE  HeldRequests
BY DEF BrokerProofs!IInv, BrokerProofs!CallsKnowTheirManager,
       BrokerProofs!ManagersHoldPendingRequests, BrokerProofs!PendingAt,
       HeldRequests

(* Every step preserves the inductive invariant.                           *)
LEMMA InductiveStep ==
    ASSUME TypeOK, TypeOK', HeldRequests, HeldRequests', IInv, [Next]_vars
    PROVE  IInv'
<1> USE NoneAssumption, PingAssumption, ExposedAssumption, SerialAssumption
<1> USE DEF TypeOK, Broker!TypeOK, Broker!CallStates, Broker!ManagerStates,
            HeldRequests, IInv, StreamsAreFresh, PendingHasNoStream,
            StreamsHaveAnOwner, AckIsForTheOpenedStream, AnswersAreDue,
            AcceptorStartsWithConnection, GrantedStreamWasAccepted,
            OnlyTheNetworkCutsStreams, SerialInv, Busy, Broker!Goto,
            Broker!Answer, Broker!Return, Broker!callVars,
            Broker!managerVars, Broker!Receiving, brokerVars, peerVars
<1>1. ASSUME NEW r \in Requests, Caller(r) PROVE IInv'
  <2>1. ASSUME NEW p \in Peers, GetStreamRequestSender(r, p) PROVE IInv'
    <3>1. CASE Broker!ReuseSender(r, p)
      BY <2>1, <3>1 DEF GetStreamRequestSender, Broker!ReuseSender,
                        Broker!GetStreamRequestSender
    <3>2. CASE Broker!SpawnManager(r, p)
      BY <2>1, <3>2 DEF GetStreamRequestSender, Broker!SpawnManager,
                        Broker!GetStreamRequestSender
    <3> QED BY <2>1, <3>1, <3>2 DEF GetStreamRequestSender,
                                    Broker!GetStreamRequestSender
  <2>2. CASE Exchange(r)
    <3>1. CASE Broker!SendRequest(r)
      BY <2>2, <3>1 DEF Exchange, Broker!SendRequest
    <3>2. CASE Broker!SendFails(r)
      BY <2>2, <3>2 DEF Exchange, Broker!SendFails
    <3>3. CASE Broker!ReceiveReply(r)
      BY <2>2, <3>3 DEF Exchange, Broker!ReceiveReply
    <3> QED BY <2>2, <3>1, <3>2, <3>3 DEF Exchange
  <2>3. CASE DropCall(r)
    BY <2>3 DEF DropCall, Broker!DropCall
  <2>4. CASE Finish(r)
    BY <2>4 DEF Finish
  <2>5. CASE StreamBreaks(r)
    BY <2>5 DEF StreamBreaks
  <2> QED BY <1>1, <2>1, <2>2, <2>3, <2>4, <2>5 DEF Caller
<1>2. ASSUME NEW m \in Requests, Manager(m) PROVE IInv'
  <2>1. CASE Connect(m)
    BY <2>1 DEF Connect, Broker!Connect
  <2>2. CASE ConnectFails(m)
    BY <2>2 DEF ConnectFails, Broker!ConnectFails
  <2>3. CASE Manage(m)
    BY <2>3 DEF Manage, Broker!SelectCancelled, Broker!Drain,
                Broker!DrainDone, Broker!RemoveSender
  <2>4. CASE SelectTimer(m)
    BY <2>4 DEF SelectTimer, Broker!SelectTimer
  <2>5. CASE PingOk(m)
    BY <2>5 DEF PingOk, Broker!PingOk
  <2>6. CASE PingFails(m)
    BY <2>6 DEF PingFails, Broker!PingFails
  <2>7. CASE SelectRequest(m)
    BY <2>7 DEF SelectRequest, Broker!SelectRequest
  <2>8. CASE HandleRequestOk(m)
    BY <2>8 DEF HandleRequestOk, Broker!HandleRequestOk
  <2>9. CASE HandleRequestFails(m)
    BY <2>9 DEF HandleRequestFails, Broker!HandleRequestFails
  <2> QED BY <1>2, <2>1, <2>2, <2>3, <2>4, <2>5, <2>6, <2>7, <2>8, <2>9
          DEF Manager
<1>3. ASSUME NEW m \in Requests, Peer(m) PROVE IInv'
  <2>1. CASE AcceptPing(m)
    BY <2>1 DEF AcceptPing
  <2>2. CASE AcceptStream(m)
    BY <2>2 DEF AcceptStream
  <2>3. CASE AcceptFails(m)
    BY <2>3 DEF AcceptFails
  <2>4. CASE HandlerEnds(m)
    BY <2>4 DEF HandlerEnds
  <2> QED BY <1>3, <2>1, <2>2, <2>3, <2>4 DEF Peer
<1>4. ASSUME NEW m \in Requests, LinkBreaks(m) PROVE IInv'
  BY <1>4 DEF LinkBreaks
<1>5. ASSUME NEW m \in Requests, ConnectionCloses(m) PROVE IInv'
  BY <1>5 DEF ConnectionCloses, Over
<1>6. CASE Cancel
  BY <1>6 DEF Cancel, Broker!Cancel
<1>7. CASE UNCHANGED vars
  BY <1>7 DEF vars
<1> QED BY <1>1, <1>2, <1>3, <1>4, <1>5, <1>6, <1>7 DEF Next

LEMMA InductiveInvariant == Spec => []IInv
<1>1. Init => IInv
  BY NoneAssumption, PingAssumption
     DEF Init, Broker!Init, IInv, StreamsAreFresh, PendingHasNoStream,
         StreamsHaveAnOwner, AckIsForTheOpenedStream, AnswersAreDue,
         AcceptorStartsWithConnection, GrantedStreamWasAccepted,
         OnlyTheNetworkCutsStreams, SerialInv, Busy
<1>2. IInv /\ TypeOK /\ TypeOK' /\ HeldRequests /\ HeldRequests'
        /\ [Next]_vars => IInv'
  BY InductiveStep
<1>3. BrokerProofs!IInv => HeldRequests
  BY BrokerHolds
<1> QED BY <1>1, <1>2, <1>3, TypeCorrect, BrokerInvariant, PTL DEF Spec

(* No call gets a stream of the exposed protocol that the peer has not     *)
(* accepted.                                                               *)
THEOREM AckIsEvidence == Spec => []GrantedStreamWasAccepted
<1>1. IInv => GrantedStreamWasAccepted
  BY DEF IInv
<1> QED BY <1>1, InductiveInvariant, PTL

(* A stream in use at both ends is cut by the network alone.               *)
THEOREM StreamsOutliveManagers == Spec => []OnlyTheNetworkCutsStreams
<1>1. IInv => OnlyTheNetworkCutsStreams
  BY DEF IInv
<1> QED BY <1>1, InductiveInvariant, PTL

(* No stream is left to nobody, whenever its caller goes away              *)
(* (get_stream.rs:313-315).                                                *)
THEOREM NoStreamIsLeftBehind == Spec => []StreamsHaveAnOwner
<1>1. IInv => StreamsHaveAnOwner
  BY DEF IInv
<1> QED BY <1>1, InductiveInvariant, PTL

(* A serial acceptor serves one stream at a time.                          *)
THEOREM OneStreamAtATime == Spec => []SerialAcceptorServesOne
<1>1. IInv => SerialAcceptorServesOne
  <2> SUFFICES ASSUME IInv, NEW m \in Requests, peer[m] \in Serial
               PROVE  LET busy == {r \in Over(m) : handler[r] = "serving"}
                      IN  /\ acceptor[m] = "serving" =>
                               \E r \in busy : busy = {r}
                          /\ acceptor[m] # "serving" => busy = {}
    BY DEF SerialAcceptorServesOne
  <2> DEFINE busy == {r \in Over(m) : handler[r] = "serving"}
  <2>1. \A r \in Requests : r \in busy <=> Busy(r, m)
    BY DEF Over, Busy
  <2>2. busy \subseteq Requests
    BY DEF Over
  <2> HIDE DEF busy
  <2>3. acceptor[m] # "serving" => busy = {}
    BY <2>1, <2>2 DEF IInv, SerialInv
  <2>4. ASSUME acceptor[m] = "serving" PROVE \E r \in busy : busy = {r}
    <3>1. PICK r \in Requests : Busy(r, m)
      BY <2>4 DEF IInv, SerialInv
    <3>2. \A q \in Requests : Busy(q, m) => q = r
      BY <3>1 DEF IInv, SerialInv
    <3> QED BY <3>1, <3>2, <2>1, <2>2
  <2> QED BY <2>3, <2>4 DEF busy
<1> QED BY <1>1, InductiveInvariant, PTL

(* A manager's wait for an ack or a pong is never forgotten by its peer.   *)
THEOREM WaitsAreDue == Spec => []NoWaitIsForgotten
<1>1. TypeOK /\ IInv => NoWaitIsForgotten
  <2> SUFFICES ASSUME TypeOK, IInv, NEW m \in Requests,
                      manager[m] \in {"pinging", "handling"}, ~answered[m]
               PROVE  /\ opened[m] # None
                      /\ \/ acceptor[m] \in {"accepting", "ended"}
                         \/ \E r \in Over(m) \ {opened[m]} :
                                handler[r] = "serving"
    BY DEF NoWaitIsForgotten
  <2>1. opened[m] # None /\ acceptor[m] # "none"
    BY DEF IInv, AnswersAreDue
  <2>2. CASE acceptor[m] = "serving"
    <3>1. PICK r \in Requests : Busy(r, m)
      BY <2>2 DEF IInv, AnswersAreDue, SerialInv
    <3>2. r \in Over(m) /\ handler[r] = "serving"
      BY <3>1 DEF Busy, Over
    <3>3. r # opened[m]
      BY <3>2 DEF IInv, StreamsAreFresh
    <3> QED BY <2>1, <3>2, <3>3
  <2> QED BY <2>1, <2>2 DEF TypeOK
<1> QED BY <1>1, InductiveInvariant, TypeCorrect, PTL

-----------------------------------------------------------------------------
(* The service as PeerSession and as GetStreamProofs name it is one.        *)
LEMMA SameService ==
    Broker!ImplementsService <=> BrokerProofs!ImplementsService
<1>1. \A r \in Requests : /\ Broker!Outcome(r) = BrokerProofs!Outcome(r)
                          /\ Broker!Status(r) = BrokerProofs!Status(r)
  BY DEF Broker!Outcome, BrokerProofs!Outcome, Broker!Answered,
         BrokerProofs!Answered, Broker!Status, BrokerProofs!Status
<1>2. Broker!Service!Init <=> BrokerProofs!Service!Init
  BY <1>1 DEF Broker!Service!Init, BrokerProofs!Service!Init
<1>3. [Broker!Service!Next]_(Broker!Service!vars)
        <=> [BrokerProofs!Service!Next]_(BrokerProofs!Service!vars)
  BY DEF Broker!Outcome, BrokerProofs!Outcome, Broker!Answered,
         BrokerProofs!Answered, Broker!Status, BrokerProofs!Status,
         Broker!Service!vars, BrokerProofs!Service!vars,
         Broker!Service!Next, BrokerProofs!Service!Next,
         Broker!Service!Join, BrokerProofs!Service!Join,
         Broker!Service!Begin, BrokerProofs!Service!Begin,
         Broker!Service!Establish, BrokerProofs!Service!Establish,
         Broker!Service!Close, BrokerProofs!Service!Close,
         Broker!Service!Grant, BrokerProofs!Service!Grant,
         Broker!Service!Refuse, BrokerProofs!Service!Refuse,
         Broker!Service!Withdraw, BrokerProofs!Service!Withdraw,
         Broker!Service!Forget, BrokerProofs!Service!Forget
<1> QED BY <1>2, <1>3, PTL
        DEF Broker!ImplementsService, BrokerProofs!ImplementsService,
            Broker!Service!Spec, BrokerProofs!Service!Spec

(* End to end: with real peers at the other end of the connections the     *)
(* callers of get_stream have the service of StreamService.                *)
THEOREM EndToEnd == Spec => Broker!ImplementsService
<1>1. BrokerProofs!Spec => BrokerProofs!ImplementsService
  BY BrokerProofs!Refinement, NoneAssumption, IdleLimitAssumption
<1> QED BY <1>1, SameBroker, SameService, Refinement, PTL
        DEF ImplementsBroker

(* And with them the broker loses and misdirects no request, and fails     *)
(* none but those of a manager that is going away.                         *)
THEOREM BrokerPromisesKept ==
    Spec => [](/\ Broker!RegisteredManagerIsTheRunningOne
               /\ Broker!UnansweredRequestIsHeld
               /\ Broker!StreamLeadsToRequestedPeer
               /\ Broker!ErrorOnlyFromClosedManager)
<1>1. BrokerProofs!Spec =>
          [](/\ BrokerProofs!RegisteredManagerIsTheRunningOne
             /\ BrokerProofs!UnansweredRequestIsHeld
             /\ BrokerProofs!StreamLeadsToRequestedPeer
             /\ BrokerProofs!ErrorOnlyFromClosedManager)
  BY BrokerProofs!RegistryCorrect, BrokerProofs!NoRequestLost,
     BrokerProofs!NoMisdelivery, BrokerProofs!NoSpuriousError,
     NoneAssumption, IdleLimitAssumption, PTL
<1>2. (/\ BrokerProofs!RegisteredManagerIsTheRunningOne
       /\ BrokerProofs!UnansweredRequestIsHeld
       /\ BrokerProofs!StreamLeadsToRequestedPeer
       /\ BrokerProofs!ErrorOnlyFromClosedManager) =>
      /\ Broker!RegisteredManagerIsTheRunningOne
      /\ Broker!UnansweredRequestIsHeld
      /\ Broker!StreamLeadsToRequestedPeer
      /\ Broker!ErrorOnlyFromClosedManager
  BY DEF Broker!RegisteredManagerIsTheRunningOne,
         BrokerProofs!RegisteredManagerIsTheRunningOne,
         Broker!UnansweredRequestIsHeld, BrokerProofs!UnansweredRequestIsHeld,
         Broker!StreamLeadsToRequestedPeer,
         BrokerProofs!StreamLeadsToRequestedPeer,
         Broker!ErrorOnlyFromClosedManager,
         BrokerProofs!ErrorOnlyFromClosedManager, Broker!Holders,
         BrokerProofs!Holders, Broker!Alive, BrokerProofs!Alive,
         Broker!Receiving, BrokerProofs!Receiving
<1> QED BY <1>1, <1>2, SameBroker, Refinement, PTL DEF ImplementsBroker
=============================================================================
