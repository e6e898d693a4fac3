------------------------------ MODULE Graceful ------------------------------
(***************************************************************************)
(* One process of malai or kulfi, from its listener's bind to its exit:    *)
(* the main task in Graceful::shutdown, the accept loop of the command     *)
(* that runs, the task of every connection, the tasks these spawn for a    *)
(* stream or a CONNECT and the connection managers of get_stream.          *)
(*                                                                         *)
(* The CancellationToken is the main task's state: it is cancelled from    *)
(* the second ctrl-c on.  The TaskTracker counts the tasks that            *)
(* Graceful::spawn started; the model keeps which ones they are.  Leaving  *)
(* main drops the runtime and every task with it.  A connection stands for *)
(* one accepted socket, or for one iroh connection of a command that       *)
(* exposes a service.                                                      *)
(***************************************************************************)
EXTENDS Naturals, FiniteSets

CONSTANTS
    Kinds,         \* the commands considered
    Conns,         \* connections
    Peers,         \* peers a bridge may reach, each with its manager
    Streams,       \* requests, or tunnels, a connection carries at once
    MaxTicks,      \* 3 s waits for the tasks to exit: 10 in the code
    MaxRequests    \* bound: requests the control server of kulfi counts

(* Commands that accept iroh connections, and commands that serve HTTP with *)
(* hyper on a socket.  malai folder runs two loops, each a kind here: its   *)
(* own, and "http", which exposes it.                                       *)
Exposing == {"http", "tcp", "http-proxy-remote"}
Hyper == {"http-bridge", "http-proxy", "folder", "kulfi"}
Commands == Exposing \union Hyper \union {"tcp-bridge"}

(* Commands that call get_stream.  kulfi's requests do not get that far: *)
(* see ControlAnswer.                                                       *)
Bridging == {"http-bridge", "http-proxy", "tcp-bridge"}

(* Commands whose loop polls show_info.                                     *)
ShowsInfo == Commands \ {"tcp-bridge", "kulfi"}

ASSUME KindsAssumption == Kinds \subseteq Commands
ASSUME BoundsAssumption ==
    Streams \in Nat \ {0} /\ MaxTicks \in Nat /\ MaxRequests \in Nat
ASSUME ConnsAssumption ==
    Conns \intersect Peers = {} /\ "listener" \notin Conns \union Peers

(* Tasks are named by pairs: that of a connection, or manager, has no       *)
(* stream.                                                                  *)
Listener == <<"listener", 0>>
Task(c) == <<c, 0>>
Tunnels == Conns \X (1 .. Streams)
Tasks == {Listener} \union {Task(c) : c \in Conns \union Peers} \union Tunnels

VARIABLES
    kind,        \* the command
    main,        \* "waiting" for ctrl-c, "armed" by one, "closing" after the
                 \* second; then "clean", "forced" or "failed" exits
    ticks,       \* waits for the tasks that have timed out
    info,        \* the listener has not seen the latest show_info
    listener,    \* "binding", "accepting", "closing" its endpoint or "over"
    conn,        \* the task of each connection: "none", "open", "draining"
                 \* (graceful_shutdown was called) or "over"
    requests,    \* requests in progress on each connection
    tunnels,     \* tasks spawned for a stream, or for a CONNECT
    manager,     \* the connection manager of each peer: "none", "idle" in its
                 \* select!, or "busy": it connects, pings or waits for an ack
    tracked,     \* tasks the TaskTracker counts
    openCount,   \* OPEN_CONTROL_CONNECTION_COUNT
    inFlight,    \* IN_FLIGHT_REQUESTS
    served       \* CONTROL_REQUEST_COUNT

mainVars == <<kind, main, ticks, info>>
tasks == <<listener, conn, requests, tunnels, manager, tracked>>
counters == <<openCount, inFlight, served>>
vars == <<mainVars, tasks, counters>>

TypeOK ==
    /\ kind \in Kinds
    /\ main \in {"waiting", "armed", "closing", "clean", "forced", "failed"}
    /\ ticks \in 0 .. (MaxTicks + 1)
    /\ info \in BOOLEAN
    /\ listener \in {"binding", "accepting", "closing", "over"}
    /\ conn \in [Conns -> {"none", "open", "draining", "over"}]
    /\ requests \in [Conns -> 0 .. Streams]
    /\ tunnels \subseteq Tunnels
    /\ manager \in [Peers -> {"none", "idle", "busy"}]
    /\ tracked \subseteq Tasks
    /\ openCount \in Nat
    /\ inFlight \in Nat
    /\ served \in 0 .. MaxRequests

(* malai's main and kulfi's start spawn the listener on the tracker, then   *)
(* the main task goes on to wait for ctrl-c.                                *)
Init ==
    /\ kind \in Kinds
    /\ main = "waiting"
    /\ ticks = 0
    /\ info = FALSE
    /\ listener = "binding"
    /\ conn = [c \in Conns |-> "none"]
    /\ requests = [c \in Conns |-> 0]
    /\ tunnels = {}
    /\ manager = [p \in Peers |-> "none"]
    /\ tracked = {Listener}
    /\ openCount = 0
    /\ inFlight = 0
    /\ served = 0

Exited == main \in {"clean", "forced", "failed"}
Running == ~Exited
Cancelled == main = "closing"
Live(c) == conn[c] \in {"open", "draining"}

(* A request or a tunnel that has not come to its end; nothing in the       *)
(* process can end it.                                                      *)
Working(c) == requests[c] > 0 \/ \E i \in 1 .. Streams : <<c, i>> \in tunnels

-----------------------------------------------------------------------------
(* The main task: Graceful::shutdown.                                       *)

FirstCtrlC ==
    /\ main = "waiting"
    /\ main' = "armed"
    /\ info' = TRUE
    /\ UNCHANGED <<kind, ticks, tasks, counters>>

(* No second ctrl-c within 3 s.                                             *)
Disarm ==
    /\ main = "armed"
    /\ main' = "waiting"
    /\ UNCHANGED <<kind, ticks, info, tasks, counters>>

SecondCtrlC ==
    /\ main = "armed"
    /\ main' = "closing"
    /\ UNCHANGED <<kind, ticks, info, tasks, counters>>

AllTasksExited ==
    /\ main = "closing"
    /\ tracked = {}
    /\ main' = "clean"
    /\ UNCHANGED <<kind, ticks, info, tasks, counters>>

-----------------------------------------------------------------------------
(* The listener.                                                            *)

ListenerEnds ==
    /\ listener' = "over"
    /\ tracked' = tracked \ {Listener}

Bind ==
    /\ Running
    /\ listener = "binding"
    /\ listener' = "accepting"
    /\ UNCHANGED <<mainVars, conn, requests, tunnels, manager, tracked,
                   counters>>

(* The HTTP listeners and the exposing commands call process::exit.         *)
BindExits ==
    /\ Running
    /\ listener = "binding"
    /\ kind \notin {"tcp-bridge", "kulfi"}
    /\ ListenerEnds
    /\ main' = "failed"
    /\ UNCHANGED <<kind, ticks, info, conn, requests, tunnels, manager,
                   counters>>

(* The tcp bridge unwraps, kulfi's start fails or the task it spawned       *)
(* unwraps: the process stays, and waits for ctrl-c.                        *)
BindPanics ==
    /\ Running
    /\ listener = "binding"
    /\ kind \in {"tcp-bridge", "kulfi"}
    /\ ListenerEnds
    /\ UNCHANGED <<mainVars, manager, conn, requests, tunnels, counters>>

(* Mutant: the loop of expose_tcp has no branch for show_info.              *)
ShowInfo_NotInTcp ==
    /\ Running
    /\ listener = "accepting"
    /\ kind \in ShowsInfo \ {"tcp"}
    /\ info
    /\ info' = FALSE
    /\ UNCHANGED <<kind, main, ticks, tasks, counters>>

ShowInfo ==
    /\ Running
    /\ listener = "accepting"
    /\ kind \in ShowsInfo
    /\ info
    /\ info' = FALSE
    /\ UNCHANGED <<kind, main, ticks, tasks, counters>>

StopListening ==
    /\ Cancelled
    /\ listener = "accepting"
    /\ kind \notin Exposing
    /\ ListenerEnds
    /\ UNCHANGED <<mainVars, manager, conn, requests, tunnels, counters>>

(* An exposing command closes its endpoint before its task ends.            *)
StopExposing ==
    /\ Cancelled
    /\ listener = "accepting"
    /\ kind \in Exposing
    /\ listener' = "closing"
    /\ UNCHANGED <<mainVars, conn, requests, tunnels, manager, tracked,
                   counters>>

EndpointCloses ==
    /\ Running
    /\ listener = "closing"
    /\ ListenerEnds
    /\ UNCHANGED <<mainVars, manager, conn, requests, tunnels, counters>>

(* The HTTP bridge and proxy leave their loop on a failed accept, the other *)
(* commands log it; an endpoint only stops accepting once it is closed.        *)
AcceptFails ==
    /\ Running
    /\ listener = "accepting"
    /\ kind \in {"http-bridge", "http-proxy"}
    /\ ListenerEnds
    /\ UNCHANGED <<mainVars, manager, conn, requests, tunnels, counters>>

(* The select! may accept once more after the token was cancelled.          *)
CanAccept(c) ==
    /\ Running
    /\ listener = "accepting"
    /\ conn[c] = "none"

Accept(c) ==
    /\ CanAccept(c)
    /\ kind \in {"http-bridge", "http-proxy", "folder"}
    /\ conn' = [conn EXCEPT ![c] = "open"]
    /\ tracked' = tracked \union {Task(c)}
    /\ UNCHANGED <<mainVars, manager, listener, requests, tunnels, counters>>

(* A connection of the tcp bridge is a tunnel from the start.               *)
AcceptTunnel(c) ==
    /\ CanAccept(c)
    /\ kind = "tcp-bridge"
    /\ conn' = [conn EXCEPT ![c] = "open"]
    /\ requests' = [requests EXCEPT ![c] = 1]
    /\ tracked' = tracked \union {Task(c)}
    /\ UNCHANGED <<mainVars, manager, listener, tunnels, counters>>

AcceptPeer(c) ==
    /\ CanAccept(c)
    /\ kind \in Exposing
    /\ conn' = [conn EXCEPT ![c] = "open"]
    /\ tracked' = tracked \union {Task(c)}
    /\ UNCHANGED <<mainVars, manager, listener, requests, tunnels, counters>>

-----------------------------------------------------------------------------
(* The control server of kulfi, which keeps counts and tracks no            *)
(* connection.                                                              *)

incr(n) == n + 1

(* GlobalCounter::decr adds one as well.                                    *)
decr(n) == n + 1

AcceptControl(c) ==
    /\ CanAccept(c)
    /\ kind = "kulfi"
    /\ conn' = [conn EXCEPT ![c] = "open"]
    /\ openCount' = incr(openCount)
    /\ UNCHANGED <<mainVars, listener, requests, tunnels, manager, tracked,
                   inFlight, served>>

(* Clients are kept to HTTP/1, so there is one request at a time.           *)
ControlRequest(c) ==
    /\ Running
    /\ kind = "kulfi"
    /\ conn[c] = "open"
    /\ requests[c] = 0
    /\ served < MaxRequests
    /\ requests' = [requests EXCEPT ![c] = 1]
    /\ inFlight' = incr(inFlight)
    /\ served' = incr(served)
    /\ UNCHANGED <<mainVars, listener, conn, tunnels, manager, tracked,
                   openCount>>

(* The task of a connection returns, with what it was serving dropped.      *)
ConnEnds(c) ==
    /\ conn' = [conn EXCEPT ![c] = "over"]
    /\ requests' = [requests EXCEPT ![c] = 0]
    /\ tracked' = tracked \ {Task(c)}
    /\ openCount' = IF kind = "kulfi" THEN decr(openCount) ELSE openCount

(* A connection that is draining ends with its last answer.                 *)
Answered(c) ==
    IF conn[c] = "draining" /\ requests[c] = 1
    THEN ConnEnds(c)
    ELSE /\ requests' = [requests EXCEPT ![c] = @ - 1]
         /\ UNCHANGED <<conn, tracked, openCount>>

(* The only requests that get an answer have no identity in their Host:     *)
(* they are bad requests.                                                   *)
ControlAnswer(c) ==
    /\ Running
    /\ kind = "kulfi"
    /\ requests[c] > 0
    /\ Answered(c)
    /\ inFlight' = decr(inFlight)
    /\ UNCHANGED <<mainVars, manager, listener, tunnels, served>>

(* default_identity expects an identity, and no Identity::run gets as far   *)
(* as adding one: the task panics, and no count is taken down.              *)
ControlPanics(c) ==
    /\ Running
    /\ kind = "kulfi"
    /\ requests[c] > 0
    /\ conn' = [conn EXCEPT ![c] = "over"]
    /\ requests' = [requests EXCEPT ![c] = 0]
    /\ UNCHANGED <<mainVars, manager, listener, tunnels, tracked, counters>>

-----------------------------------------------------------------------------
(* The connections of malai.                                                *)

(* A request to the bridge or a folder, where those of HTTP/2 share a       *)
(* connection, or to the proxy, which speaks HTTP/1.                        *)
Request(c) ==
    /\ Running
    /\ kind \in {"http-bridge", "http-proxy", "folder"}
    /\ conn[c] = "open"
    /\ requests[c] < (IF kind = "http-proxy" THEN 1 ELSE Streams)
    /\ requests' = [requests EXCEPT ![c] = @ + 1]
    /\ UNCHANGED <<mainVars, listener, conn, tunnels, manager, tracked,
                   counters>>

(* A stream to an exposed HTTP service: the task serves one at a time.      *)
ServeStream(c) ==
    /\ Running
    /\ kind = "http"
    /\ listener = "accepting"
    /\ conn[c] = "open"
    /\ requests[c] = 0
    /\ requests' = [requests EXCEPT ![c] = 1]
    /\ UNCHANGED <<mainVars, listener, conn, tunnels, manager, tracked,
                   counters>>

Answer(c) ==
    /\ Running
    /\ kind \in {"http-bridge", "http-proxy", "folder", "http"}
    /\ requests[c] > 0
    /\ Answered(c)
    /\ UNCHANGED <<mainVars, manager, listener, tunnels, inFlight, served>>

(* The only request of a connection fails, and with it the connection; for  *)
(* the tcp bridge, the tunnel ends.                                         *)
RequestFails(c) ==
    /\ Running
    /\ kind # "kulfi"
    /\ Live(c)
    /\ requests[c] = 1
    /\ ConnEnds(c)
    /\ UNCHANGED <<mainVars, manager, listener, tunnels, inFlight, served>>

(* A stream to an exposed TCP service, or to the proxy's remote, gets a     *)
(* task of its own.                                                         *)
SpawnTunnel_Untracked(c, i) ==     \* mutant: started with tokio::spawn
    /\ Running
    /\ kind \in {"tcp", "http-proxy-remote"}
    /\ listener = "accepting"
    /\ conn[c] = "open"
    /\ <<c, i>> \notin tunnels
    /\ tunnels' = tunnels \union {<<c, i>>}
    /\ UNCHANGED <<mainVars, listener, conn, requests, manager, tracked,
                   counters>>

SpawnTunnel(c, i) ==
    /\ Running
    /\ kind \in {"tcp", "http-proxy-remote"}
    /\ listener = "accepting"
    /\ conn[c] = "open"
    /\ <<c, i>> \notin tunnels
    /\ tunnels' = tunnels \union {<<c, i>>}
    /\ tracked' = tracked \union {<<c, i>>}
    /\ UNCHANGED <<mainVars, manager, listener, conn, requests, counters>>

(* A CONNECT to the proxy: its task is spawned, and hyper hands the         *)
(* connection over to it, which ends the connection's own task.             *)
Connect(c) ==
    /\ Running
    /\ kind = "http-proxy"
    /\ conn[c] = "open"
    /\ requests[c] = 0
    /\ tunnels' = tunnels \union {<<c, 1>>}
    /\ conn' = [conn EXCEPT ![c] = "over"]
    /\ tracked' = (tracked \ {Task(c)}) \union {<<c, 1>>}
    /\ UNCHANGED <<mainVars, manager, listener, requests, counters>>

TunnelEnds(t) ==
    /\ Running
    /\ t \in tunnels
    /\ tunnels' = tunnels \ {t}
    /\ tracked' = tracked \ {t}
    /\ UNCHANGED <<mainVars, manager, listener, conn, requests, counters>>

-----------------------------------------------------------------------------
(* How connections end.                                                     *)

(* Mutant: no graceful_shutdown, so that the client's leaving is awaited.   *)
Drain_Awaits(c) ==
    /\ Cancelled
    /\ kind \in Hyper
    /\ conn[c] = "open"
    /\ conn' = [conn EXCEPT ![c] = "draining"]
    /\ UNCHANGED <<requests, tracked, openCount>>
    /\ UNCHANGED <<mainVars, manager, listener, tunnels, inFlight, served>>

(* hyper's graceful_shutdown closes an idle connection and lets a busy one  *)
(* finish what it serves.                                                   *)
Drain(c) ==
    /\ Cancelled
    /\ kind \in Hyper
    /\ conn[c] = "open"
    /\ IF requests[c] = 0
       THEN ConnEnds(c)
       ELSE /\ conn' = [conn EXCEPT ![c] = "draining"]
            /\ UNCHANGED <<requests, tracked, openCount>>
    /\ UNCHANGED <<mainVars, manager, listener, tunnels, inFlight, served>>

(* The client closes the connection, or it is lost.  hyper drops what it    *)
(* serves; an exposing command notices between two streams.                 *)
ClientLeaves(c) ==
    /\ Running
    /\ Live(c)
    /\ kind \in Hyper \/ (kind \in Exposing /\ requests[c] = 0)
    /\ ConnEnds(c)
    /\ UNCHANGED <<mainVars, manager, listener, tunnels, inFlight, served>>

(* accept_bi fails on every connection of a closed endpoint.                *)
EndpointGone(c) ==
    /\ Running
    /\ kind \in Exposing
    /\ listener # "accepting"
    /\ Live(c)
    /\ requests[c] = 0
    /\ ConnEnds(c)
    /\ UNCHANGED <<mainVars, manager, listener, tunnels, inFlight, served>>

-----------------------------------------------------------------------------
(* The connection managers, whose inside is GetStream.  The first request   *)
(* for a peer spawns one, also after the token was cancelled.               *)

StartManager(p) ==
    /\ Running
    /\ kind \in Bridging
    /\ manager[p] = "none"
    /\ \E c \in Conns : Working(c)
    /\ manager' = [manager EXCEPT ![p] = "busy"]
    /\ tracked' = tracked \union {Task(p)}
    /\ UNCHANGED <<mainVars, listener, conn, requests, tunnels, counters>>

(* A ping is due, or a request came.                                        *)
ManagerTurns(p) ==
    /\ Running
    /\ manager[p] = "idle"
    /\ manager' = [manager EXCEPT ![p] = "busy"]
    /\ UNCHANGED <<mainVars, listener, conn, requests, tunnels, tracked,
                   counters>>

(* The peer has connected, or answered.                                     *)
ManagerRests(p) ==
    /\ Running
    /\ manager[p] = "busy"
    /\ manager' = [manager EXCEPT ![p] = "idle"]
    /\ UNCHANGED <<mainVars, listener, conn, requests, tunnels, tracked,
                   counters>>

ManagerEnds(p) ==
    /\ manager' = [manager EXCEPT ![p] = "none"]
    /\ tracked' = tracked \ {Task(p)}
    /\ UNCHANGED <<mainVars, listener, conn, requests, tunnels, counters>>

(* What it waits for failed, or it has been idle for too long.              *)
ManagerReturns(p) ==
    /\ Running
    /\ manager[p] = "busy"
    /\ ManagerEnds(p)

(* The token is only looked at between two requests or pings.               *)
ManagerCancelled(p) ==
    /\ Cancelled
    /\ manager[p] = "idle"
    /\ ManagerEnds(p)

-----------------------------------------------------------------------------
(* Some task goes on as soon as it is polled.  That takes far less than 3   *)
(* s, so the timer of the main task only runs out when none does.           *)
Prompt ==
    \/ tracked = {}
    \/ listener # "over"
    \/ \E c \in Conns : kind \in Hyper /\ conn[c] = "open"
    \/ \E c \in Conns : kind \in Exposing /\ Live(c) /\ requests[c] = 0
    \/ \E p \in Peers : manager[p] = "idle"

(* Mutant: the count is not kept.                                          *)
WaitTimesOut_NotCounted ==
    /\ main = "closing"
    /\ ~Prompt
    /\ ticks' = 1
    /\ main' = IF ticks' > MaxTicks THEN "forced" ELSE main
    /\ UNCHANGED <<kind, info, tasks, counters>>

WaitTimesOut ==
    /\ main = "closing"
    /\ ~Prompt
    /\ ticks' = ticks + 1
    /\ main' = IF ticks' > MaxTicks THEN "forced" ELSE main
    /\ UNCHANGED <<kind, info, tasks, counters>>

Next ==
    \/ FirstCtrlC \/ Disarm \/ SecondCtrlC \/ AllTasksExited \/ WaitTimesOut
    \/ Bind \/ BindExits \/ BindPanics \/ ShowInfo
    \/ StopListening \/ StopExposing \/ EndpointCloses \/ AcceptFails
    \/ \E c \in Conns :
        \/ Accept(c) \/ AcceptTunnel(c) \/ AcceptPeer(c) \/ AcceptControl(c)
        \/ ControlRequest(c) \/ ControlAnswer(c) \/ ControlPanics(c)
        \/ Request(c) \/ ServeStream(c) \/ Answer(c) \/ RequestFails(c)
        \/ Connect(c) \/ Drain(c) \/ ClientLeaves(c) \/ EndpointGone(c)
        \/ \E i \in 1 .. Streams : SpawnTunnel(c, i)
    \/ \E t \in tunnels : TunnelEnds(t)
    \/ \E p \in Peers :
        \/ StartManager(p) \/ ManagerTurns(p) \/ ManagerRests(p)
        \/ ManagerReturns(p) \/ ManagerCancelled(p)

Spec == Init /\ [][Next]_vars

(* The runtime polls every task that can go on, timers fire, and a select!  *)
(* picks among the branches that are ready at random, so it does not pass   *)
(* over one for ever: a manager that comes back to its select! often enough *)
(* sees the token.  The timer of the main task runs out in 3 s even if some *)
(* tasks are woken again and again.  The user, clients, peers and services  *)
(* owe nothing.                                                             *)
Fairness ==
    /\ WF_vars(AllTasksExited) /\ SF_vars(WaitTimesOut)
    /\ WF_vars(Bind \/ BindExits \/ BindPanics) /\ WF_vars(ShowInfo)
    /\ WF_vars(StopListening) /\ WF_vars(StopExposing)
    /\ WF_vars(EndpointCloses)
    /\ \A c \in Conns : WF_vars(Drain(c)) /\ WF_vars(EndpointGone(c))
    /\ \A p \in Peers : SF_vars(ManagerCancelled(p))

FairSpec == Spec /\ Fairness

-----------------------------------------------------------------------------
(* When the main task logs that all tasks have exited, none of malai's is   *)
(* cut short by leaving main: there is no listener, open connection, tunnel *)
(* or manager (graceful.rs:71).  kulfi does not track its connections, and  *)
(* a copy that outlives the tunnel it was spawned for (TcpPipe) counts as   *)
(* no part of it.                                                           *)
CleanExitCutsNothing ==
    main = "clean" /\ kind # "kulfi" =>
        /\ listener = "over"
        /\ tunnels = {}
        /\ \A c \in Conns : ~Live(c)
        /\ \A p \in Peers : manager[p] = "none"

(* The process gives up waiting only on what the other side has not brought *)
(* to an end: a request or a tunnel, or a manager's wait for its peer.      *)
(* Whatever is idle leaves by itself once the token is cancelled            *)
(* (graceful.rs:77).                                                        *)
ForcedOnlyForWork ==
    main = "forced" =>
        \/ \E c \in Conns : Working(c)
        \/ \E p \in Peers : manager[p] = "busy"

(* A process that was told to stop stops, whatever its clients and peers do *)
(* (graceful.rs:68-84).                                                     *)
ShutdownEnds == (main = "closing") ~> Exited

(* A first ctrl-c makes the listener say where it listens and that another  *)
(* one exits, unless the listener is gone by then (graceful.rs:56).         *)
InfoIsShown ==
    (info /\ kind \in ShowsInfo)
        ~> (~info \/ listener # "accepting" \/ Exited)

(* server.rs:28: without pipelining "we will never have IN_FLIGHT_REQUESTS  *)
(* > OPEN_CONNECTION_COUNT".                                                *)
NeverMoreRequestsThanConnections == inFlight <= openCount

=============================================================================
