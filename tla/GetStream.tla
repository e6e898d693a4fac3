----------------------------- MODULE GetStream -----------------------------
(***************************************************************************)
(* kulfi-utils/src/get_stream.rs: many tasks call get_stream to obtain a   *)
(* bidirectional stream to a peer.  Per peer one connection manager task   *)
(* owns the iroh connection and takes the stream requests one at a time    *)
(* from an mpsc::channel(1); each request carries a oneshot reply channel. *)
(* The map PeerStreamSenders says which manager serves a peer.             *)
(*                                                                         *)
(* A manager is named after the call that spawned it.  The remote side,    *)
(* the network and the 12 second timer are nondeterministic: a connect, a  *)
(* ping or a handshake may succeed, fail, or hang.                         *)
(***************************************************************************)
EXTENDS Naturals

CONSTANTS Requests,   \* the calls of get_stream, each made once
          Peers,      \* the values of remote_node_id52
          None,
          IdleLimit   \* a manager leaves once idle_counter > IdleLimit

ASSUME NoneAssumption == None \notin Requests \cup Peers
ASSUME IdleLimitAssumption == IdleLimit \in Nat

VARIABLES
    call,          \* call[r]: where the call r of get_stream is
    peer,          \* peer[r]: the peer call r asked for
    sender,        \* sender[r]: the manager whose StreamRequestSender r holds
    reply,         \* reply[r]: what was sent on r's oneshot reply channel
    senders,       \* PeerStreamSenders: the manager registered for a peer
    manager,       \* manager[m]: where the manager task m is
    slot,          \* slot[m]: the request buffered in m's mpsc::channel(1)
    current,       \* current[m]: the request m has taken and not answered
    idle_counter,  \* idle_counter[m]
    cancelled      \* the CancellationToken of Graceful

callVars == <<call, peer, sender>>
managerVars == <<manager, slot, current, idle_counter>>
vars == <<callVars, reply, senders, managerVars, cancelled>>

CallStates == {"new", "sending", "waiting", "stream", "error", "dropped"}

(* "draining" is the error path after receiver.close(), "returned" is      *)
(* connection_manager having returned before the map entry is removed.     *)
ManagerStates == {"unborn", "connecting", "select", "pinging", "handling",
                  "draining", "returned", "gone"}

TypeOK ==
    /\ call \in [Requests -> CallStates]
    /\ peer \in [Requests -> Peers \cup {None}]
    /\ sender \in [Requests -> Requests \cup {None}]
    /\ reply \in [Requests -> {"none", "stream", "error"}]
    /\ senders \in [Peers -> Requests \cup {None}]
    /\ manager \in [Requests -> ManagerStates]
    /\ slot \in [Requests -> Requests \cup {None}]
    /\ current \in [Requests -> Requests \cup {None}]
    /\ idle_counter \in [Requests -> 0 .. IdleLimit + 1]
    /\ cancelled \in BOOLEAN

Init ==
    /\ call = [r \in Requests |-> "new"]
    /\ peer = [r \in Requests |-> None]
    /\ sender = [r \in Requests |-> None]
    /\ reply = [r \in Requests |-> "none"]
    /\ senders = [p \in Peers |-> None]
    /\ manager = [m \in Requests |-> "unborn"]
    /\ slot = [m \in Requests |-> None]
    /\ current = [m \in Requests |-> None]
    /\ idle_counter = [m \in Requests |-> 0]
    /\ cancelled = FALSE

(* The manager's receiver exists and has not been closed.                  *)
Receiving(m) == manager[m] \in {"connecting", "select", "pinging", "handling"}

(* The manager task has been spawned and has not finished.                 *)
Alive(m) == Receiving(m) \/ manager[m] \in {"draining", "returned"}

Goto(m, state) == manager' = [manager EXCEPT ![m] = state]

(* The oneshot sender of q, if there is a q, is used or dropped.           *)
Answer(q, a) ==
    reply' = [r \in Requests |-> IF r = q THEN a ELSE reply[r]]

-----------------------------------------------------------------------------
(* Mistakes a change of the code could make.  Each stands in for the       *)
(* operator it is named after when the properties are tested, and is no    *)
(* part of Spec.                                                           *)

ReuseSender_AnyPeer(r, p) ==
    /\ \E q \in Peers :
          senders[q] # None /\ sender' = [sender EXCEPT ![r] = senders[q]]
    /\ UNCHANGED <<senders, manager>>

SpawnManager_Unchecked(r, p) ==
    /\ sender' = [sender EXCEPT ![r] = r]
    /\ senders' = [senders EXCEPT ![p] = r]
    /\ Goto(r, "connecting")

PingOk_NotCounted(m) ==
    /\ manager[m] = "pinging"
    /\ Goto(m, "select")
    /\ UNCHANGED <<callVars, reply, senders, slot, current, idle_counter,
                   cancelled>>

HandleRequestFails_LoopGoesOn(m) ==
    /\ manager[m] = "handling"
    /\ Answer(current[m], "error")
    /\ current' = [current EXCEPT ![m] = None]
    /\ Goto(m, "select")
    /\ UNCHANGED <<callVars, senders, slot, idle_counter, cancelled>>

DrainDone_AtOnce(m) ==
    /\ manager[m] = "draining"
    /\ Goto(m, "returned")
    /\ UNCHANGED <<callVars, reply, senders, slot, current, idle_counter,
                   cancelled>>

RemoveSender_Skipped(m) ==
    /\ manager[m] = "returned"
    /\ Goto(m, "gone")
    /\ UNCHANGED <<callVars, reply, senders, slot, current, idle_counter,
                   cancelled>>

-----------------------------------------------------------------------------
(* The caller: get_stream and get_stream_request_sender.                   *)

(* Under the lock of the map, the call clones the registered sender ...    *)
ReuseSender(r, p) ==
    /\ senders[p] # None
    /\ sender' = [sender EXCEPT ![r] = senders[p]]
    /\ UNCHANGED <<senders, manager>>

(* ... or registers a new channel and spawns its connection manager.       *)
SpawnManager(r, p) ==
    /\ senders[p] = None
    /\ sender' = [sender EXCEPT ![r] = r]
    /\ senders' = [senders EXCEPT ![p] = r]
    /\ Goto(r, "connecting")

GetStreamRequestSender(r, p) ==
    /\ call[r] = "new"
    /\ call' = [call EXCEPT ![r] = "sending"]
    /\ peer' = [peer EXCEPT ![r] = p]
    /\ ReuseSender(r, p) \/ SpawnManager(r, p)
    /\ UNCHANGED <<reply, slot, current, idle_counter, cancelled>>

(* stream_request_sender.send(..).await goes through once the buffer of    *)
(* the channel has room.                                                   *)
SendRequest(r) ==
    /\ call[r] = "sending"
    /\ Receiving(sender[r])
    /\ slot[sender[r]] = None
    /\ call' = [call EXCEPT ![r] = "waiting"]
    /\ slot' = [slot EXCEPT ![sender[r]] = r]
    /\ UNCHANGED <<peer, sender, reply, senders, manager, current,
                   idle_counter, cancelled>>

(* "failed to send on stream_request_sender": the receiver was closed.     *)
SendFails(r) ==
    /\ call[r] = "sending"
    /\ ~Receiving(sender[r])
    /\ call' = [call EXCEPT ![r] = "error"]
    /\ UNCHANGED <<peer, sender, reply, senders, managerVars, cancelled>>

(* receiver.await yields the reply, or an error if its sender was dropped. *)
ReceiveReply(r) ==
    /\ call[r] = "waiting"
    /\ reply[r] # "none"
    /\ call' = [call EXCEPT ![r] = reply[r]]
    /\ UNCHANGED <<peer, sender, reply, senders, managerVars, cancelled>>

(* The future of the call is dropped at an await point: the browser hung   *)
(* up and hyper dropped the request handler.                               *)
DropCall(r) ==
    /\ call[r] \in {"sending", "waiting"}
    /\ call' = [call EXCEPT ![r] = "dropped"]
    /\ UNCHANGED <<peer, sender, reply, senders, managerVars, cancelled>>

-----------------------------------------------------------------------------
(* The manager task: connection_manager and connection_manager_.           *)

(* connection_manager_ returned Ok: connection_manager returns at once and *)
(* drops the receiver with whatever is still buffered in it.               *)
Return(m) ==
    /\ Goto(m, "returned")
    /\ slot' = [slot EXCEPT ![m] = None]
    /\ Answer(slot[m], "error")

Connect(m) ==
    /\ manager[m] = "connecting"
    /\ idle_counter' = [idle_counter EXCEPT ![m] = 0]
    /\ Goto(m, "select")
    /\ UNCHANGED <<callVars, reply, senders, slot, current, cancelled>>

(* connect failed, or the id52 is no public key: receiver.close().         *)
ConnectFails(m) ==
    /\ manager[m] = "connecting"
    /\ Goto(m, "draining")
    /\ UNCHANGED <<callVars, reply, senders, slot, current, idle_counter,
                   cancelled>>

SelectCancelled(m) ==
    /\ manager[m] = "select"
    /\ cancelled
    /\ Return(m)
    /\ UNCHANGED <<callVars, senders, current, idle_counter, cancelled>>

SelectTimer(m) ==
    /\ manager[m] = "select"
    /\ Goto(m, "pinging")
    /\ UNCHANGED <<callVars, reply, senders, slot, current, idle_counter,
                   cancelled>>

(* The peer answered the ping; the top of the loop then looks at the       *)
(* counter.                                                                *)
PingOk(m) ==
    /\ manager[m] = "pinging"
    /\ idle_counter' = [idle_counter EXCEPT ![m] = @ + 1]
    /\ IF idle_counter[m] + 1 > IdleLimit
         THEN Return(m)
         ELSE Goto(m, "select") /\ UNCHANGED <<reply, slot>>
    /\ UNCHANGED <<callVars, senders, current, cancelled>>

PingFails(m) ==
    /\ manager[m] = "pinging"
    /\ Return(m)
    /\ UNCHANGED <<callVars, senders, current, idle_counter, cancelled>>

SelectRequest(m) ==
    /\ manager[m] = "select"
    /\ slot[m] # None
    /\ current' = [current EXCEPT ![m] = slot[m]]
    /\ slot' = [slot EXCEPT ![m] = None]
    /\ idle_counter' = [idle_counter EXCEPT ![m] = 0]
    /\ Goto(m, "handling")
    /\ UNCHANGED <<callVars, reply, senders, cancelled>>

(* handle_request: the stream was opened and the peer acknowledged its     *)
(* header.  That the caller is gone is logged and nothing else.            *)
HandleRequestOk(m) ==
    /\ manager[m] = "handling"
    /\ Answer(current[m], "stream")
    /\ current' = [current EXCEPT ![m] = None]
    /\ Goto(m, "select")
    /\ UNCHANGED <<callVars, senders, slot, idle_counter, cancelled>>

(* handle_request failed: its reply channel is dropped and the error       *)
(* closes the receiver.                                                    *)
HandleRequestFails(m) ==
    /\ manager[m] = "handling"
    /\ Answer(current[m], "error")
    /\ current' = [current EXCEPT ![m] = None]
    /\ Goto(m, "draining")
    /\ UNCHANGED <<callVars, senders, slot, idle_counter, cancelled>>

(* while let Some(..) = receiver.recv(): every buffered request gets the   *)
(* error.                                                                  *)
Drain(m) ==
    /\ manager[m] = "draining"
    /\ slot[m] # None
    /\ Answer(slot[m], "error")
    /\ slot' = [slot EXCEPT ![m] = None]
    /\ UNCHANGED <<callVars, senders, manager, current, idle_counter,
                   cancelled>>

DrainDone(m) ==
    /\ manager[m] = "draining"
    /\ slot[m] = None
    /\ Goto(m, "returned")
    /\ UNCHANGED <<callVars, reply, senders, slot, current, idle_counter,
                   cancelled>>

(* The spawned block removes the entry of its key under the lock.          *)
RemoveSender(m) ==
    /\ manager[m] = "returned"
    /\ senders' = [senders EXCEPT ![peer[m]] = None]
    /\ Goto(m, "gone")
    /\ UNCHANGED <<callVars, reply, slot, current, idle_counter, cancelled>>

(* Graceful::shutdown cancels the token.                                   *)
Cancel ==
    /\ ~cancelled
    /\ cancelled' = TRUE
    /\ UNCHANGED <<callVars, reply, senders, managerVars>>

-----------------------------------------------------------------------------
Caller(r) ==
    \/ \E p \in Peers : GetStreamRequestSender(r, p)
    \/ SendRequest(r)
    \/ SendFails(r)
    \/ ReceiveReply(r)
    \/ DropCall(r)

Manager(m) ==
    \/ Connect(m)
    \/ ConnectFails(m)
    \/ SelectCancelled(m)
    \/ SelectTimer(m)
    \/ PingOk(m)
    \/ PingFails(m)
    \/ SelectRequest(m)
    \/ HandleRequestOk(m)
    \/ HandleRequestFails(m)
    \/ Drain(m)
    \/ DrainDone(m)
    \/ RemoveSender(m)

Next ==
    \/ \E r \in Requests : Caller(r) \/ Manager(r)
    \/ Cancel

Spec == Init /\ [][Next]_vars

-----------------------------------------------------------------------------
(* Fairness.  The runtime polls every ready task, so each local step of a  *)
(* caller or a manager is eventually taken.  Nothing is assumed of the     *)
(* choice select! makes among its ready branches.                          *)
LocalFairness ==
    \A r \in Requests :
        /\ WF_vars(SendRequest(r) \/ SendFails(r) \/ ReceiveReply(r))
        /\ WF_vars(SelectCancelled(r) \/ SelectTimer(r) \/ SelectRequest(r))
        /\ WF_vars(Drain(r) \/ DrainDone(r) \/ RemoveSender(r))

(* What the code waits for without a timeout of its own: iroh settles each *)
(* connect, and the peer answers each ping and each header, or the         *)
(* connection breaks.                                                      *)
PeerFairness ==
    \A m \in Requests :
        /\ WF_vars(Connect(m) \/ ConnectFails(m))
        /\ WF_vars(PingOk(m) \/ PingFails(m))
        /\ WF_vars(HandleRequestOk(m) \/ HandleRequestFails(m))

LocalSpec == Spec /\ LocalFairness
FairSpec == Spec /\ LocalFairness /\ PeerFairness

-----------------------------------------------------------------------------
(* Safety.                                                                 *)

(* The map entry of a peer is its one running manager: a second manager is *)
(* never started beside a running one, the entry outlives neither          *)
(* connection_manager nor its cleanup, and a cleanup never removes the     *)
(* entry of a manager registered later (get_stream.rs:73-98).              *)
RegisteredManagerIsTheRunningOne ==
    /\ \A m \in Requests : Alive(m) => senders[peer[m]] = m
    /\ \A p \in Peers : senders[p] # None =>
          Alive(senders[p]) /\ peer[senders[p]] = p

Holders(r) == {m \in Requests : slot[m] = r \/ current[m] = r}

(* A call that waits without a reply is held, once, by the manager whose   *)
(* sender it has, and that manager still runs: no request is lost between  *)
(* the channel, the handler and the two ways a manager ends, and none is   *)
(* answered twice (get_stream.rs:117-152, 207-251).                        *)
UnansweredRequestIsHeld ==
    \A r \in Requests :
        /\ call[r] = "waiting" /\ reply[r] = "none" =>
             /\ Holders(r) = {sender[r]}
             /\ Alive(sender[r])
        /\ Holders(r) # {} => reply[r] = "none"
        /\ \A m \in Holders(r) : ~(slot[m] = r /\ current[m] = r)

(* The stream a call gets leads to the peer it asked for, also when the    *)
(* manager it found in the map was started by another call.                *)
StreamLeadsToRequestedPeer ==
    \A r \in Requests : reply[r] = "stream" =>
        sender[r] # None /\ peer[sender[r]] = peer[r]

(* A call fails only because its own manager is going away: "once we close *)
(* the receiver, any tasks that have gotten access to the corresponding    *)
(* sender will fail when sending" (get_stream.rs:140-142).                 *)
ErrorOnlyFromClosedManager ==
    \A r \in Requests :
        call[r] = "error" \/ reply[r] = "error" =>
            sender[r] # None /\ ~Receiving(sender[r])

-----------------------------------------------------------------------------
(* What the callers see: get_stream implements StreamService.              *)

Answered(r, a) == call[r] = a \/ (call[r] = "waiting" /\ reply[r] = a)

Outcome(r) ==
    CASE call[r] = "new" -> "idle"
      [] call[r] = "dropped" -> "withdrawn"
      [] Answered(r, "stream") -> "granted"
      [] Answered(r, "error") -> "refused"
      [] OTHER -> "asked"

Status(m) ==
    CASE manager[m] = "unborn" -> "unused"
      [] manager[m] = "connecting" -> "opening"
      [] manager[m] \in {"select", "pinging", "handling"} -> "up"
      [] OTHER -> "closed"

Service == INSTANCE StreamService
    WITH Calls <- Requests, Sessions <- Requests,
         target <- peer,
         outcome <- [r \in Requests |-> Outcome(r)],
         joined <- sender,
         status <- [m \in Requests |-> Status(m)],
         current <- senders

(* A call joins the session of the peer it names, a granted call had that  *)
(* session up at that moment, a refused one had it closed, and a peer gets *)
(* a new session only after the old one was closed.                        *)
ImplementsService == Service!Spec

-----------------------------------------------------------------------------
(* Liveness.                                                               *)

(* Every call of get_stream returns or is dropped.                         *)
EveryCallIsAnswered == Service!Answered

(* "this ensures we keep a connection open only for 12 * 5 seconds"        *)
(* (get_stream.rs:190): with finitely many requests every manager leaves   *)
(* the map in the end, and so the next call can start a new one.           *)
IdleManagerLeaves ==
    \A m \in Requests : Alive(m) ~> manager[m] = "gone"

(* "if the ack is not received within a certain time, it assumes the       *)
(* connection is not healthy" (get_stream.rs:23-24): a handled request is  *)
(* settled whatever the peer does.                                         *)
AckWaitIsBounded ==
    \A m \in Requests : manager[m] = "handling" ~> manager[m] # "handling"
=============================================================================
