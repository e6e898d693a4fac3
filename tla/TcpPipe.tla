------------------------------ MODULE TcpPipe ------------------------------
(***************************************************************************)
(* A TCP connection through the tunnel.  At each end of an iroh stream     *)
(* pipe_tcp_stream_over_iroh runs two copies: its own, from the local      *)
(* socket to the stream ("out"), and a spawned one, from the stream to the *)
(* socket ("back").  The near end is tcp_to_peer (or a CONNECT through the *)
(* HTTP proxy), the far end is peer_to_tcp, which first connects to the    *)
(* exposed service.                                                        *)
(*                                                                         *)
(* tokio::io::split shares the socket between the two halves: it is closed *)
(* when both are dropped, and tokio::io::copy never shuts one half down.   *)
(* Bytes are counted in chunks, which TCP and the stream keep in order.    *)
(***************************************************************************)
EXTENDS Naturals

CONSTANTS Chunks        \* chunks an application may write

ASSUME ChunksAssumption == Chunks \in Nat

Ends == {"near", "far"}
Other(e) == IF e = "near" THEN "far" ELSE "near"

VARIABLES
    link,     \* the iroh connection
    app,      \* the application at each end: "open", "shut" (it has shut its
              \* write half down) or "closed"
    wrote,    \* chunks the application wrote to its socket
    sent,     \* of these, the chunks copied to the stream
    got,      \* chunks copied to this end's socket for its application
    finished, \* the SendStream of this end was finished, or dropped
    out,      \* the function: "connecting", "refused", "copying", "awaiting"
              \* the spawned task, or "returned"
    back      \* the spawned task: "none", "copying" or "over"

vars == <<link, app, wrote, sent, got, finished, out, back>>

TypeOK ==
    /\ link \in {"up", "lost"}
    /\ app \in [Ends -> {"open", "shut", "closed"}]
    /\ wrote \in [Ends -> 0 .. Chunks]
    /\ sent \in [Ends -> 0 .. Chunks]
    /\ got \in [Ends -> 0 .. Chunks]
    /\ \A e \in Ends : sent[e] <= wrote[e] /\ got[e] <= sent[Other(e)]
    /\ finished \in [Ends -> BOOLEAN]
    /\ out \in [Ends -> {"connecting", "refused", "copying", "awaiting",
                     "returned"}]
    /\ back \in [Ends -> {"none", "copying", "over"}]

Init ==
    /\ link = "up"
    /\ app = [e \in Ends |-> "open"]
    /\ wrote = [e \in Ends |-> 0]
    /\ sent = [e \in Ends |-> 0]
    /\ got = [e \in Ends |-> 0]
    /\ finished = [e \in Ends |-> FALSE]
    /\ out = [near |-> "copying", far |-> "connecting"]
    /\ back = [near |-> "copying", far |-> "none"]

(* Both halves of the socket were dropped: its application reads an end of *)
(* file once it has read what it got.                                      *)
SocketClosed(e) == out[e] = "returned" /\ back[e] = "over"

(* The RecvStream is owned by the spawned task, or not yet given to it; a  *)
(* write at the other end fails once it is dropped.                        *)
RecvDropped(e) == back[e] = "over"

(* finish(), or dropping a SendStream, sends a FIN if it can be sent.      *)
Finish(e) == [finished EXCEPT ![e] = @ \/ link = "up"]

Connected(e) == out[e] \notin {"connecting", "refused"}

-----------------------------------------------------------------------------
(* The applications.                                                       *)

AppWrites(e) ==
    /\ app[e] = "open"
    /\ Connected(e)
    /\ wrote[e] < Chunks
    /\ wrote' = [wrote EXCEPT ![e] = @ + 1]
    /\ UNCHANGED <<link, app, sent, got, finished, out, back>>

AppShuts(e) ==
    /\ app[e] = "open"
    /\ Connected(e)
    /\ app' = [app EXCEPT ![e] = "shut"]
    /\ UNCHANGED <<link, wrote, sent, got, finished, out, back>>

(* The application closes its socket, or dies.                             *)
AppCloses(e) ==
    /\ app[e] # "closed"
    /\ Connected(e)
    /\ app' = [app EXCEPT ![e] = "closed"]
    /\ UNCHANGED <<link, wrote, sent, got, finished, out, back>>

LinkBreaks ==
    /\ link = "up"
    /\ link' = "lost"
    /\ UNCHANGED <<app, wrote, sent, got, finished, out, back>>

-----------------------------------------------------------------------------
(* peer_to_tcp: connect, or drop both halves of the stream.                *)

CanConnect == out["far"] = "connecting"

Connect ==
    /\ CanConnect
    /\ out' = [out EXCEPT !["far"] = "copying"]
    /\ back' = [back EXCEPT !["far"] = "copying"]
    /\ UNCHANGED <<link, app, wrote, sent, got, finished>>

ConnectFails ==
    /\ CanConnect
    /\ out' = [out EXCEPT !["far"] = "refused"]
    /\ back' = [back EXCEPT !["far"] = "over"]
    /\ finished' = Finish("far")
    /\ UNCHANGED <<link, app, wrote, sent, got>>

(* The copy from the socket to the stream.                                 *)

CanCopyOut(e) ==
    /\ out[e] = "copying"
    /\ sent[e] < wrote[e]
    /\ link = "up"
    /\ ~RecvDropped(Other(e))

CopyOut(e) ==
    /\ CanCopyOut(e)
    /\ sent' = [sent EXCEPT ![e] = @ + 1]
    /\ UNCHANGED <<link, app, wrote, got, finished, out, back>>

(* Mutant: send is dropped without finish(), so that no FIN is sent.       *)
OutEnds_NoFinish(e) ==
    /\ out[e] = "copying"
    /\ app[e] # "open"
    /\ sent[e] = wrote[e]
    /\ out' = [out EXCEPT ![e] = "awaiting"]
    /\ UNCHANGED <<link, app, wrote, sent, got, finished, back>>

(* Mutant: the end of file overtakes what is still to be copied.           *)
OutEnds_Early(e) ==
    /\ out[e] = "copying"
    /\ app[e] # "open"
    /\ finished' = Finish(e)
    /\ out' = [out EXCEPT ![e] = "awaiting"]
    /\ UNCHANGED <<link, app, wrote, sent, got, back>>

(* An end of file from the application: finish the stream, wait for t.     *)
CanOutEnds(e) ==
    /\ out[e] = "copying"
    /\ app[e] # "open"
    /\ sent[e] = wrote[e]

OutEnds(e) ==
    /\ CanOutEnds(e)
    /\ finished' = Finish(e)
    /\ out' = [out EXCEPT ![e] = "awaiting"]
    /\ UNCHANGED <<link, app, wrote, sent, got, back>>

(* Mutant: t is aborted when the own copy has ended, not awaited.          *)
OutReturns_AbortsTask(e) ==
    /\ out[e] = "awaiting"
    /\ out' = [out EXCEPT ![e] = "returned"]
    /\ back' = [back EXCEPT ![e] = "over"]
    /\ UNCHANGED <<link, app, wrote, sent, got, finished>>

CanOutReturns(e) ==
    /\ out[e] = "awaiting"
    /\ back[e] = "over"

OutReturns(e) ==
    /\ CanOutReturns(e)
    /\ out' = [out EXCEPT ![e] = "returned"]
    /\ UNCHANGED <<link, app, wrote, sent, got, finished, back>>

(* The ? of the copy: the application reset its socket, or the stream      *)
(* cannot be written.  SendStream is dropped, which finishes it; the       *)
(* spawned task is left running.                                           *)
CanOutFails(e) ==
    /\ out[e] = "copying"
    /\ \/ app[e] = "closed"
       \/ sent[e] < wrote[e] /\ (link = "lost" \/ RecvDropped(Other(e)))

(* Mutant: a copy that fails is started once more.                         *)
OutFails_Retries(e) ==
    /\ CanOutFails(e)
    /\ finished' = Finish(e)
    /\ UNCHANGED <<link, app, wrote, sent, got, out, back>>

OutFails(e) ==
    /\ CanOutFails(e)
    /\ finished' = Finish(e)
    /\ out' = [out EXCEPT ![e] = "returned"]
    /\ UNCHANGED <<link, app, wrote, sent, got, back>>

(* The copy from the stream to the socket.                                 *)

CanCopyBack(e) ==
    /\ back[e] = "copying"
    /\ got[e] < sent[Other(e)]
    /\ app[e] # "closed"

CopyBack(e) ==
    /\ CanCopyBack(e)
    /\ got' = [got EXCEPT ![e] = @ + 1]
    /\ UNCHANGED <<link, app, wrote, sent, finished, out, back>>

CanBackEnds(e) ==
    /\ back[e] = "copying"
    /\ got[e] = sent[Other(e)]
    /\ finished[Other(e)]

BackEnds(e) ==
    /\ CanBackEnds(e)
    /\ back' = [back EXCEPT ![e] = "over"]
    /\ UNCHANGED <<link, app, wrote, sent, got, finished, out>>

(* Mutant: an error of the local socket does not end the spawned copy.     *)
CanBackFails_LinkOnly(e) ==
    /\ back[e] = "copying"
    /\ link = "lost"

(* The socket cannot be written, or the stream cannot be read.             *)
CanBackFails(e) ==
    /\ back[e] = "copying"
    /\ link = "lost" \/ (app[e] = "closed" /\ got[e] < sent[Other(e)])

BackFails(e) ==
    /\ CanBackFails(e)
    /\ back' = [back EXCEPT ![e] = "over"]
    /\ UNCHANGED <<link, app, wrote, sent, got, finished, out>>

-----------------------------------------------------------------------------
Copies(e) == CopyOut(e) \/ OutEnds(e) \/ OutReturns(e) \/ OutFails(e)
Spawned(e) == CopyBack(e) \/ BackEnds(e) \/ BackFails(e)

Next ==
    \/ \E e \in Ends : \/ AppWrites(e) \/ AppShuts(e) \/ AppCloses(e)
                       \/ Copies(e) \/ Spawned(e)
    \/ Connect
    \/ ConnectFails
    \/ LinkBreaks

Spec == Init /\ [][Next]_vars

(* The runtime polls both copies of both ends, and a connect ends.         *)
Fairness ==
    /\ WF_vars(Connect \/ ConnectFails)
    /\ \A e \in Ends : WF_vars(Copies(e)) /\ WF_vars(Spawned(e))

FairSpec == Spec /\ Fairness

-----------------------------------------------------------------------------
(* What breaks a direct TCP connection as well: the service cannot be      *)
(* reached, an application closes its socket without waiting for the other *)
(* one, or the network fails.                                              *)
Trouble ==
    \/ link = "lost"
    \/ out["far"] = "refused"
    \/ \E e \in Ends : app[e] = "closed"

(* An application that reads an end of file while nothing is wrong has all *)
(* the other one wrote, which has itself shut its socket down: an end of   *)
(* file is never made up, nor early (tcp.rs:46-55).                        *)
EndOfFileIsTrue ==
    \A e \in Ends : SocketClosed(e) /\ ~Trouble =>
        app[Other(e)] = "shut" /\ got[e] = wrote[Other(e)]

(* The tunnel is a TCP connection: while nothing is wrong what arrives at  *)
(* one end is what was written at the other, in full before its end of     *)
(* file, and nothing arrives after that (tcp.rs:28-58).                    *)
Tcp == INSTANCE Duplex
    WITH said <- wrote, heard <- got,
         ended <- [e \in Ends |-> SocketClosed(e)], trouble <- Trouble

ImplementsDuplex == Tcp!Spec

(* The half of the connection that an application still writes to goes on  *)
(* when the other half has ended: a request may end before its reply.      *)
OpenHalfIsNotCut ==
    \A e \in Ends : app[e] = "open" /\ ~Trouble =>
        out[e] \in {"connecting", "copying"} /\ ~RecvDropped(Other(e))

Over == \A e \in Ends : SocketClosed(e) \/ out[e] = "refused"

ApplicationsDone == \A e \in Ends : app[e] # "open" \/ out[e] = "refused"

CopyGoesOn(e) ==
    \/ CanCopyOut(e) \/ CanOutEnds(e) \/ CanOutReturns(e) \/ CanOutFails(e)
    \/ CanCopyBack(e) \/ CanBackEnds(e) \/ CanBackFails(e)

(* The four copies never wait for each other: a chunk under way has a copy *)
(* that can move it, or a connect to wait for, and once the applications   *)
(* are done some copy can end, until all have, whatever failed and in      *)
(* whatever order the functions and the spawned tasks ended (tcp.rs:37-55).*)
NoCopyIsStuck ==
    /\ \A e \in Ends : got[e] < wrote[Other(e)] /\ ~Trouble =>
          CanCopyOut(Other(e)) \/ CanCopyBack(e) \/ CanConnect
    /\ ApplicationsDone /\ ~Over => CanConnect \/ \E e \in Ends : CopyGoesOn(e)

(* How much is left to be done at one end, at most.                        *)
AppSteps(a) == CASE a = "open" -> 2 [] a = "shut" -> 1 [] OTHER -> 0
OutSteps(o) == CASE o = "connecting" -> 3 [] o = "copying" -> 2
                 [] o = "awaiting" -> 1 [] OTHER -> 0
BackSteps(b) == CASE b = "none" -> 2 [] b = "copying" -> 1 [] OTHER -> 0

Left(e) == (Chunks - wrote[e]) + (Chunks - sent[e]) + (Chunks - got[e])
             + AppSteps(app[e]) + OutSteps(out[e]) + BackSteps(back[e])

Remaining == Left("near") + Left("far") + (IF link = "up" THEN 1 ELSE 0)

(* Nor do they go on for ever: every step takes something off what is left,*)
(* so that with NoCopyIsStuck a tunnel ends if its copies are polled.      *)
EveryStepIsProgress == [][Remaining' < Remaining /\ Remaining' \in Nat]_vars

(* What was written arrives, even when it was written before the far end   *)
(* had a socket or after its own direction ended.                          *)
DataArrives ==
    \A e \in Ends :
        wrote[e] = Chunks ~> got[Other(e)] = Chunks \/ Trouble

(* Once both applications are done, both functions and both spawned tasks  *)
(* end and the sockets are closed, whatever failed on the way: the tasks   *)
(* Graceful waits for are not leaked.                                      *)
PipesEnd == ApplicationsDone ~> Over
=============================================================================
