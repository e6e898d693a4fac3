---------------------------- MODULE PeerSession ----------------------------
(***************************************************************************)
(* Both ends of the iroh connections that get_stream's managers own: the   *)
(* broker of module GetStream, and on the peer the task that accepts the   *)
(* streams of one connection (kulfi-utils/src/utils_iroh.rs and the        *)
(* handle_connection of expose_http.rs, expose_tcp.rs, http_proxy_remote.rs*)
(* and peer_server/run.rs).                                                *)
(*                                                                         *)
(* A connection is named after the manager that opened it.  A manager has  *)
(* at most one stream that the peer has not acknowledged, so opened[m] is  *)
(* all of the connection's accept queue.                                   *)
(***************************************************************************)
EXTENDS Naturals

CONSTANTS Requests, Peers, None, IdleLimit,   \* as in GetStream
          Ping,        \* the stream a manager opens to ping its peer
          Protocols,   \* what callers may put in the stream header
          Exposed,     \* the protocol the peers accept
          Serial       \* the peers that serve a stream before they accept
                       \* another: those that expose HTTP, not the ones that
                       \* expose TCP or the HTTP proxy

ASSUME NoneAssumption == None \notin Requests \cup Peers
ASSUME IdleLimitAssumption == IdleLimit \in Nat
ASSUME PingAssumption == Ping \notin Requests \cup {None}
ASSUME ExposedAssumption == Exposed \in Protocols /\ None \notin Protocols
ASSUME SerialAssumption == Serial \subseteq Peers

VARIABLES
    call, peer, sender, reply, senders, manager, slot, current, idle_counter,
    cancelled,   \* these are GetStream's
    protocol,    \* protocol[r]: the protocol of call r's header
    link,        \* link[m]: the QUIC connection of manager m
    opened,      \* opened[m]: the stream m opened and the peer has not accepted
    answered,    \* answered[m]: its ack (for a ping: and its pong) is sent
    acceptor,    \* acceptor[m]: the peer's handle_connection for the connection
    handler,     \* handler[r]: the peer's work on the stream of call r
    stream       \* stream[r]: the caller's end of the stream of call r

brokerVars == <<call, peer, sender, reply, senders, manager, slot, current,
                idle_counter, cancelled>>
peerVars == <<acceptor, handler>>
vars == <<brokerVars, protocol, link, opened, answered, peerVars, stream>>

Broker == INSTANCE GetStream

(* "lost" is a connection the network broke, "closed" one that an end let  *)
(* go of: quinn closes a connection when its last handle is dropped, and   *)
(* every stream is such a handle.                                          *)
TypeOK ==
    /\ Broker!TypeOK
    /\ protocol \in [Requests -> Protocols \cup {None}]
    /\ link \in [Requests -> {"none", "up", "lost", "closed"}]
    /\ opened \in [Requests -> Requests \cup {None, Ping}]
    /\ answered \in [Requests -> BOOLEAN]
    /\ acceptor \in [Requests -> {"none", "accepting", "serving", "ended"}]
    /\ handler \in [Requests -> {"none", "serving", "done"}]
    /\ stream \in [Requests -> {"none", "open", "finished", "broken"}]

Init ==
    /\ Broker!Init
    /\ protocol = [r \in Requests |-> None]
    /\ link = [m \in Requests |-> "none"]
    /\ opened = [m \in Requests |-> None]
    /\ answered = [m \in Requests |-> FALSE]
    /\ acceptor = [m \in Requests |-> "none"]
    /\ handler = [r \in Requests |-> "none"]
    /\ stream = [r \in Requests |-> "none"]

(* The calls whose streams run over the connection of m.                   *)
Over(m) == {r \in Requests : sender[r] = m}

-----------------------------------------------------------------------------
(* Mistakes a change of the code could make, no part of Spec.              *)

HandleRequestOk_NoAck(m) ==
    /\ Broker!HandleRequestOk(m)
    /\ link[m] = "up"
    /\ answered' = [answered EXCEPT ![m] = FALSE]
    /\ stream' = [stream EXCEPT ![current[m]] =
                    IF call[current[m]] = "waiting" THEN "open" ELSE "finished"]
    /\ UNCHANGED <<protocol, link, opened, peerVars>>

HandleRequestOk_StreamKept(m) ==
    /\ Broker!HandleRequestOk(m)
    /\ link[m] = "up"
    /\ answered[m]
    /\ answered' = [answered EXCEPT ![m] = FALSE]
    /\ stream' = [stream EXCEPT ![current[m]] = "open"]
    /\ UNCHANGED <<protocol, link, opened, peerVars>>

ConnectionCloses_ByManager(m) ==
    /\ link[m] = "up"
    /\ ~Broker!Receiving(m)
    /\ link' = [link EXCEPT ![m] = "closed"]
    /\ UNCHANGED <<brokerVars, protocol, opened, answered, peerVars, stream>>

AcceptPing_NoPong(m) ==
    /\ acceptor[m] = "accepting"
    /\ link[m] = "up"
    /\ opened[m] = Ping
    /\ opened' = [opened EXCEPT ![m] = None]
    /\ UNCHANGED <<brokerVars, protocol, link, answered, peerVars, stream>>

AcceptStream_Spawned(m) ==
    /\ acceptor[m] = "accepting"
    /\ link[m] = "up"
    /\ opened[m] \in Requests
    /\ protocol[opened[m]] = Exposed
    /\ opened' = [opened EXCEPT ![m] = None]
    /\ answered' = [answered EXCEPT ![m] = TRUE]
    /\ handler' = [handler EXCEPT ![opened[m]] = "serving"]
    /\ UNCHANGED <<brokerVars, protocol, link, acceptor, stream>>

AcceptFails_Ignored(m) ==
    /\ acceptor[m] = "accepting"
    /\ link[m] \in {"lost", "closed"}
    /\ UNCHANGED vars

HandlerEnds_LoopLeft(r) ==
    /\ handler[r] = "serving"
    /\ handler' = [handler EXCEPT ![r] = "done"]
    /\ UNCHANGED <<brokerVars, protocol, link, opened, answered, acceptor,
                   stream>>

-----------------------------------------------------------------------------
(* The callers.                                                            *)

GetStreamRequestSender(r, p) ==
    /\ Broker!GetStreamRequestSender(r, p)
    /\ \E h \in Protocols : protocol' = [protocol EXCEPT ![r] = h]
    /\ UNCHANGED <<link, opened, answered, peerVars, stream>>

Exchange(r) ==
    /\ Broker!SendRequest(r) \/ Broker!SendFails(r) \/ Broker!ReceiveReply(r)
    /\ UNCHANGED <<protocol, link, opened, answered, peerVars, stream>>

(* A call that is dropped takes the stream that was sent to it along.      *)
DropCall(r) ==
    /\ Broker!DropCall(r)
    /\ stream' = IF stream[r] = "open"
                   THEN [stream EXCEPT ![r] = "finished"] ELSE stream
    /\ UNCHANGED <<protocol, link, opened, answered, peerVars>>

(* The caller has read its response or lost interest, and drops the stream.*)
Finish(r) ==
    /\ call[r] = "stream"
    /\ stream[r] = "open"
    /\ stream' = [stream EXCEPT ![r] = "finished"]
    /\ UNCHANGED <<brokerVars, protocol, link, opened, answered, peerVars>>

(* Reading from or writing to the stream fails.                            *)
StreamBreaks(r) ==
    /\ call[r] = "stream"
    /\ stream[r] = "open"
    /\ link[sender[r]] \in {"lost", "closed"}
    /\ stream' = [stream EXCEPT ![r] = "broken"]
    /\ UNCHANGED <<brokerVars, protocol, link, opened, answered, peerVars>>

-----------------------------------------------------------------------------
(* The managers.                                                           *)

Connect(m) ==
    /\ Broker!Connect(m)
    /\ link' = [link EXCEPT ![m] = "up"]
    /\ acceptor' = [acceptor EXCEPT ![m] = "accepting"]
    /\ UNCHANGED <<protocol, opened, answered, handler, stream>>

ConnectFails(m) ==
    /\ Broker!ConnectFails(m)
    /\ UNCHANGED <<protocol, link, opened, answered, peerVars, stream>>

(* The steps of a manager that do not touch the connection.                *)
Manage(m) ==
    /\ \/ Broker!SelectCancelled(m)
       \/ Broker!Drain(m)
       \/ Broker!DrainDone(m)
       \/ Broker!RemoveSender(m)
    /\ UNCHANGED <<protocol, link, opened, answered, peerVars, stream>>

(* ping opens a stream and writes its header.                              *)
SelectTimer(m) ==
    /\ Broker!SelectTimer(m)
    /\ opened' = [opened EXCEPT ![m] = Ping]
    /\ answered' = [answered EXCEPT ![m] = FALSE]
    /\ UNCHANGED <<protocol, link, peerVars, stream>>

PingOk(m) ==
    /\ Broker!PingOk(m)
    /\ link[m] = "up"
    /\ answered[m]
    /\ answered' = [answered EXCEPT ![m] = FALSE]
    /\ UNCHANGED <<protocol, link, opened, peerVars, stream>>

PingFails(m) ==
    /\ Broker!PingFails(m)
    /\ link[m] # "up"
    /\ UNCHANGED <<protocol, link, opened, answered, peerVars, stream>>

(* handle_request opens a stream and writes the caller's header.           *)
SelectRequest(m) ==
    /\ Broker!SelectRequest(m)
    /\ opened' = [opened EXCEPT ![m] = slot[m]]
    /\ answered' = [answered EXCEPT ![m] = FALSE]
    /\ UNCHANGED <<protocol, link, peerVars, stream>>

(* The ack was read.  If the caller is gone the stream is dropped at once. *)
HandleRequestOk(m) ==
    /\ Broker!HandleRequestOk(m)
    /\ link[m] = "up"
    /\ answered[m]
    /\ answered' = [answered EXCEPT ![m] = FALSE]
    /\ stream' = [stream EXCEPT ![current[m]] =
                    IF call[current[m]] = "waiting" THEN "open" ELSE "finished"]
    /\ UNCHANGED <<protocol, link, opened, peerVars>>

(* The connection is not closed: "we want to let the stream fail on its    *)
(* own, maybe it will work, maybe it will not" (get_stream.rs:244-247).    *)
HandleRequestFails(m) ==
    /\ Broker!HandleRequestFails(m)
    /\ link[m] # "up"
    /\ UNCHANGED <<protocol, link, opened, answered, peerVars, stream>>

Cancel ==
    /\ Broker!Cancel
    /\ UNCHANGED <<protocol, link, opened, answered, peerVars, stream>>

-----------------------------------------------------------------------------
(* The connection.                                                         *)

LinkBreaks(m) ==
    /\ link[m] = "up"
    /\ link' = [link EXCEPT ![m] = "lost"]
    /\ UNCHANGED <<brokerVars, protocol, opened, answered, peerVars, stream>>

(* One end dropped its last handle: the manager or handle_connection has   *)
(* returned, and no stream of the connection is left at that end.          *)
ConnectionCloses(m) ==
    /\ link[m] = "up"
    /\ \/ ~Broker!Receiving(m) /\ \A r \in Over(m) : stream[r] # "open"
       \/ acceptor[m] = "ended" /\ \A r \in Over(m) : handler[r] # "serving"
    /\ link' = [link EXCEPT ![m] = "closed"]
    /\ UNCHANGED <<brokerVars, protocol, opened, answered, peerVars, stream>>

-----------------------------------------------------------------------------
(* The peer: accept_bi and the loop of handle_connection.                  *)

AcceptPing(m) ==
    /\ acceptor[m] = "accepting"
    /\ link[m] = "up"
    /\ opened[m] = Ping
    /\ opened' = [opened EXCEPT ![m] = None]
    /\ answered' = [answered EXCEPT ![m] = TRUE]
    /\ UNCHANGED <<brokerVars, protocol, link, peerVars, stream>>

(* accept_bi_ sends the ack before accept_bi looks at the protocol; a      *)
(* protocol it does not expect ends handle_connection.                     *)
AcceptStream(m) ==
    /\ acceptor[m] = "accepting"
    /\ link[m] = "up"
    /\ opened[m] \in Requests
    /\ opened' = [opened EXCEPT ![m] = None]
    /\ answered' = [answered EXCEPT ![m] = TRUE]
    /\ IF protocol[opened[m]] = Exposed
         THEN /\ handler' = [handler EXCEPT ![opened[m]] = "serving"]
              /\ acceptor' = IF peer[m] \in Serial
                               THEN [acceptor EXCEPT ![m] = "serving"]
                               ELSE acceptor
         ELSE /\ acceptor' = [acceptor EXCEPT ![m] = "ended"]
              /\ UNCHANGED handler
    /\ UNCHANGED <<brokerVars, protocol, link, stream>>

AcceptFails(m) ==
    /\ acceptor[m] = "accepting"
    /\ link[m] \in {"lost", "closed"}
    /\ acceptor' = [acceptor EXCEPT ![m] = "ended"]
    /\ UNCHANGED <<brokerVars, protocol, link, opened, answered, handler,
                   stream>>

(* peer_to_http or peer_to_tcp is done with the stream, well or badly; a   *)
(* serial acceptor goes back to accept_bi.                                 *)
HandlerEnds(r) ==
    /\ handler[r] = "serving"
    /\ handler' = [handler EXCEPT ![r] = "done"]
    /\ acceptor' = IF peer[sender[r]] \in Serial
                     THEN [acceptor EXCEPT ![sender[r]] = "accepting"]
                     ELSE acceptor
    /\ UNCHANGED <<brokerVars, protocol, link, opened, answered, stream>>

-----------------------------------------------------------------------------
Caller(r) ==
    \/ \E p \in Peers : GetStreamRequestSender(r, p)
    \/ Exchange(r)
    \/ DropCall(r)
    \/ Finish(r)
    \/ StreamBreaks(r)

Manager(m) ==
    \/ Connect(m)
    \/ ConnectFails(m)
    \/ Manage(m)
    \/ SelectTimer(m)
    \/ PingOk(m)
    \/ PingFails(m)
    \/ SelectRequest(m)
    \/ HandleRequestOk(m)
    \/ HandleRequestFails(m)

Peer(m) ==
    \/ AcceptPing(m)
    \/ AcceptStream(m)
    \/ AcceptFails(m)
    \/ HandlerEnds(m)

Next ==
    \/ \E r \in Requests :
          Caller(r) \/ Manager(r) \/ Peer(r) \/ LinkBreaks(r)
              \/ ConnectionCloses(r)
    \/ Cancel

Spec == Init /\ [][Next]_vars

(* Both runtimes poll their ready tasks, iroh settles a connect and tells  *)
(* each end that the connection is over.                                   *)
LocalFairness ==
    \A r \in Requests :
        /\ WF_vars(Exchange(r))
        /\ WF_vars(StreamBreaks(r))
        /\ WF_vars(Connect(r) \/ ConnectFails(r))
        /\ WF_vars(Manage(r) \/ SelectTimer(r) \/ SelectRequest(r))
        /\ WF_vars(PingOk(r) \/ PingFails(r))
        /\ WF_vars(HandleRequestOk(r) \/ HandleRequestFails(r))
        /\ WF_vars(AcceptPing(r) \/ AcceptStream(r) \/ AcceptFails(r))
        /\ WF_vars(ConnectionCloses(r))

(* The exposed service ends every response, and callers let go of streams. *)
UseFairness ==
    \A r \in Requests : WF_vars(HandlerEnds(r)) /\ WF_vars(Finish(r))

FairSpec == Spec /\ LocalFairness /\ UseFairness

-----------------------------------------------------------------------------
(* The two ends together still are the broker of GetStream: each of the    *)
(* actions above is one of the broker's with what happens at the connection*)
(* added, or leaves the broker alone.                                      *)
ImplementsBroker == Broker!Spec

(* An ack is evidence: no call is given a stream for the exposed protocol  *)
(* that the peer's loop has not accepted, and what a loop serves is such a *)
(* stream, of a call that asked for this very peer (get_stream.rs:304-309, *)
(* utils_iroh.rs:34-78).                                                   *)
GrantedStreamWasAccepted ==
    \A r \in Requests :
        /\ stream[r] # "none" /\ protocol[r] = Exposed => handler[r] # "none"
        /\ handler[r] # "none" =>
              protocol[r] = Exposed /\ peer[sender[r]] = peer[r]

(* Neither a manager that idles out, fails or is cancelled nor a peer that *)
(* refuses a protocol cuts a stream that both ends still use: only the     *)
(* network does ("the tasks that already got the stream will not be        *)
(* affected by this", get_stream.rs:135-136).                              *)
OnlyTheNetworkCutsStreams ==
    \A r \in Requests : stream[r] = "open" /\ handler[r] = "serving" =>
        link[sender[r]] \in {"up", "lost"}

(* Every stream in use is in somebody's hands: in those of the caller that *)
(* asked for it, who has one once he is told so, or in the reply that he   *)
(* is waiting for.  A caller that leaves at any moment, before, with or    *)
(* after the ack, leaves no stream behind that would keep the connection   *)
(* and the peer's task for nobody (get_stream.rs:56-60, 304-320).          *)
StreamsHaveAnOwner ==
    \A r \in Requests :
        /\ stream[r] = "open" =>
              \/ call[r] = "stream"
              \/ call[r] = "waiting" /\ reply[r] = "stream"
        /\ call[r] = "stream" => stream[r] # "none"

(* While a serial acceptor is inside peer_to_http it serves exactly one    *)
(* stream of its connection, and outside of it none (expose_http.rs:76-90).*)
SerialAcceptorServesOne ==
    \A m \in Requests : peer[m] \in Serial =>
        LET busy == {r \in Over(m) : handler[r] = "serving"}
        IN  /\ acceptor[m] = "serving" => \E r \in busy : busy = {r}
            /\ acceptor[m] # "serving" => busy = {}

(* A manager that waits, without a timeout, for an ack or a pong is never  *)
(* forgotten by its peer: the answer is sent, or its stream is still in the*)
(* peer's queue and the loop that has to take it is at accept_bi, is over  *)
(* (and the connection with it), or serves another stream of the connection*)
(* that is under way (get_stream.rs:304, ping.rs:14, expose_http.rs:76-91).*)
NoWaitIsForgotten ==
    \A m \in Requests : manager[m] \in {"pinging", "handling"} =>
        \/ answered[m]
        \/ /\ opened[m] # None
           /\ \/ acceptor[m] \in {"accepting", "ended"}
              \/ \E r \in Over(m) \ {opened[m]} : handler[r] = "serving"

(* The waits without a timeout in get_stream end: what GetStream assumes   *)
(* of the peer follows from the peer's accept loop.                        *)
PeerSettlesEveryWait == Broker!PeerFairness

(* So every call returns or is dropped, under no other assumption than that *)
(* the exposed service ends its responses and callers let go of streams.   *)
EveryCallReturns == Broker!EveryCallIsAnswered

(* The task a peer runs per connection ends, so that an idle client costs  *)
(* a peer nothing for ever.                                                *)
AcceptorEnds == \A m \in Requests : acceptor[m] = "accepting" ~> acceptor[m] = "ended"
=============================================================================
