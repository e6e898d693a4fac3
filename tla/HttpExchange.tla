---------------------------- MODULE HttpExchange ----------------------------
(***************************************************************************)
(* One HTTP request through the tunnel: a visitor's request is relayed by  *)
(* http_to_peer over a stream that get_stream granted, and peer_to_http    *)
(* replays it to the exposed service and carries the response back.        *)
(*                                                                         *)
(* Bodies are counted in chunks; the streams deliver them in order, so a   *)
(* count says which chunks have passed each point.  The service, hyper and *)
(* iroh are modelled from how the code uses them: hyper checks a body      *)
(* against its Content-Length, and a dropped SendStream ends in a FIN, not *)
(* in a reset.  What was written before the connection was lost may or may *)
(* not be read after it.                                                   *)
(***************************************************************************)
EXTENDS Naturals

CONSTANTS Chunks,     \* chunks of the request body and of the response body
          Window,     \* chunks a stream holds before its writer must wait
          Exchanges   \* the kinds of exchange that may happen

(* sized: the request has a Content-Length; resSized: so has the response; *)
(* streaming: http_to_peer, not http_to_peer_non_streaming; service: it    *)
(* reads the whole request before it answers, or echoes chunk by chunk, or *)
(* answers from the head alone and closes; trailers, resTrailers: the      *)
(* request, the response is chunked and has trailers after its last chunk, *)
(* which the tunnel does not carry.                                        *)
ExchangeKinds ==
    {k \in [sized : BOOLEAN, resSized : BOOLEAN, streaming : BOOLEAN,
            service : {"whole", "echo", "early"},
            trailers : BOOLEAN, resTrailers : BOOLEAN] :
        /\ k.trailers => k.streaming /\ ~k.sized
        /\ k.resTrailers => ~k.resSized}

ASSUME ChunksAssumption == Chunks \in Nat
ASSUME WindowAssumption == Window \in Nat \ {0}
ASSUME ExchangesAssumption == Exchanges \subseteq ExchangeKinds

VARIABLES
    kind,        \* the kind of this exchange
    client,      \* where http_to_peer is
    server,      \* where peer_to_http is
    service,     \* what the exposed service is doing
    link,        \* the iroh connection
    asked,       \* the request header line is on the stream
    uploaded,    \* chunks hyper received from the visitor
    relayed,     \* chunks written to the request half of the stream
    delivered,   \* chunks that reached the service
    sendEnd,     \* the client's SendStream: "open" or "finished"
    serverRecv,  \* the server's RecvStream: "open" or "stopped"
    seen,        \* how the service saw the request end
    headSent,    \* the response header line is on the stream
    produced,    \* chunks of the response the service produced
    carried,     \* chunks written to the response half of the stream
    received,    \* chunks that reached the visitor
    replyEnd,    \* the server's SendStream
    clientRecv,  \* the client's RecvStream
    got          \* how the visitor saw the response end

up == <<asked, uploaded, relayed, delivered, sendEnd, serverRecv, seen>>
down == <<headSent, produced, carried, received, replyEnd, clientRecv, got>>
vars == <<kind, client, server, service, link, up, down>>

TypeOK ==
    /\ kind \in Exchanges
    /\ client \in {"head", "body", "await", "stream", "done", "failed"}
    /\ server \in {"head", "request", "body", "done"}
    /\ service \in {"idle", "reading", "answering", "ended", "crashed"}
    /\ link \in {"up", "lost"}
    /\ asked \in BOOLEAN
    /\ uploaded \in 0 .. Chunks
    /\ relayed \in 0 .. uploaded
    /\ delivered \in 0 .. relayed
    /\ relayed - delivered <= Window
    /\ produced \in 0 .. Chunks
    /\ carried \in 0 .. produced
    /\ received \in 0 .. carried
    /\ carried - received <= Window
    /\ {sendEnd, replyEnd} \subseteq {"open", "finished"}
    /\ {serverRecv, clientRecv} \subseteq {"open", "stopped"}
    /\ seen \in {"open", "complete", "broken"}
    /\ headSent \in BOOLEAN
    /\ got \in {"waiting", "complete", "broken", "gone"}

Init ==
    /\ kind \in Exchanges
    /\ client = "head" /\ server = "head" /\ service = "idle" /\ link = "up"
    /\ asked = FALSE /\ uploaded = (IF kind.streaming THEN 0 ELSE Chunks)
    /\ relayed = 0 /\ delivered = 0
    /\ sendEnd = "open" /\ serverRecv = "open" /\ seen = "open"
    /\ headSent = FALSE /\ produced = 0 /\ carried = 0 /\ received = 0
    /\ replyEnd = "open" /\ clientRecv = "open" /\ got = "waiting"

ClientOver == client \in {"done", "failed"}

(* finish(), or dropping the SendStream, ends the stream with a FIN while  *)
(* there is a connection to send it on.                                    *)
Fin(end) == IF link = "up" THEN "finished" ELSE end

-----------------------------------------------------------------------------
(* The visitor and the client: http_to_peer.                               *)

CanUpload ==
    /\ got = "waiting"
    /\ uploaded < Chunks

VisitorUploads ==
    /\ CanUpload
    /\ uploaded' = uploaded + 1
    /\ UNCHANGED <<kind, client, server, service, link, asked, relayed,
                   delivered, sendEnd, serverRecv, seen, down>>

(* Mutant: a visitor that leaves does not drop the SendStream.             *)
ClientGivesUp_KeepsSend(outcome) ==
    /\ client' = "failed"
    /\ clientRecv' = "stopped"
    /\ got' = outcome
    /\ UNCHANGED <<kind, server, service, link, up, headSent, produced,
                   carried, received, replyEnd>>

(* http_to_peer returns early or is dropped: both halves of the stream are *)
(* dropped with it.                                                        *)
ClientGivesUp(outcome) ==
    /\ client' = "failed"
    /\ sendEnd' = Fin(sendEnd)
    /\ clientRecv' = "stopped"
    /\ got' = outcome
    /\ UNCHANGED <<kind, server, service, link, asked, uploaded, relayed,
                   delivered, serverRecv, seen, headSent, produced, carried,
                   received, replyEnd>>

(* The visitor hangs up: its body fails, or hyper drops the handler or the *)
(* response body.  The task of http_to_peer_non_streaming is its own.      *)
VisitorLeaves ==
    /\ kind.streaming
    /\ got = "waiting"
    /\ ClientGivesUp("gone")

CanSendHead ==
    /\ client = "head"
    /\ link = "up"

SendHead ==
    /\ CanSendHead
    /\ client' = "body"
    /\ asked' = TRUE
    /\ UNCHANGED <<kind, server, service, link, uploaded, relayed, delivered,
                   sendEnd, serverRecv, seen, down>>

CanRelayChunk ==
    /\ client = "body"
    /\ relayed < uploaded
    /\ relayed - delivered < Window
    /\ link = "up"
    /\ serverRecv = "open"

RelayChunk ==
    /\ CanRelayChunk
    /\ relayed' = relayed + 1
    /\ UNCHANGED <<kind, client, server, service, link, asked, uploaded,
                   delivered, sendEnd, serverRecv, seen, down>>

CanBodySent ==
    /\ client = "body"
    /\ relayed = Chunks
    /\ ~kind.trailers

BodySent ==
    /\ CanBodySent
    /\ client' = "await"
    /\ UNCHANGED <<kind, server, service, link, up, down>>

(* The response header arrived.  http_to_peer returns and its SendStream is*)
(* dropped; http_to_peer_non_streaming keeps it until it has the body.     *)
CanReadHead ==
    /\ client = "await"
    /\ headSent

(* Mutant: http_to_peer keeps its SendStream with the response body.       *)
ReadHead_KeepsSend ==
    /\ CanReadHead
    /\ client' = "stream"
    /\ UNCHANGED <<kind, server, service, link, up, down>>

ReadHead ==
    /\ CanReadHead
    /\ client' = "stream"
    /\ sendEnd' = IF kind.streaming THEN Fin(sendEnd) ELSE sendEnd
    /\ UNCHANGED <<kind, server, service, link, asked, uploaded, relayed,
                   delivered, serverRecv, seen, down>>

CanReadChunk ==
    /\ client = "stream"
    /\ received < carried

ReadChunk ==
    /\ CanReadChunk
    /\ received' = received + 1
    /\ UNCHANGED <<kind, client, server, service, link, up, headSent,
                   produced, carried, replyEnd, clientRecv, got>>

(* The response ends with the stream, or for hyper with its last byte when *)
(* it has a Content-Length; hyper reports one that fell short of it, the   *)
(* non streaming variant just returns what it read.                        *)
CanReadEnd ==
    /\ client = "stream"
    /\ received = carried
    /\ \/ replyEnd = "finished"
       \/ kind.streaming /\ kind.resSized /\ received = Chunks

ReadEnd ==
    /\ CanReadEnd
    /\ client' = "done"
    /\ sendEnd' = Fin(sendEnd)
    /\ clientRecv' = "stopped"
    /\ got' = IF kind.streaming /\ kind.resSized /\ received < Chunks
                THEN "broken" ELSE "complete"
    /\ UNCHANGED <<kind, server, service, link, asked, uploaded, relayed,
                   delivered, serverRecv, seen, headSent, produced, carried,
                   received, replyEnd>>

(* A write finds the stream stopped, the body goes on with a frame that is *)
(* no data, the stream ends before the response header, or the connection  *)
(* is lost.                                                                *)
CanClientFails ==
    /\ ~ClientOver
    /\ \/ link = "lost"
       \/ client = "body" /\ relayed < uploaded /\ serverRecv = "stopped"
       \/ client = "body" /\ relayed = Chunks /\ kind.trailers
       \/ client = "await" /\ replyEnd = "finished" /\ ~headSent

ClientFails ==
    /\ CanClientFails
    /\ ClientGivesUp("broken")

-----------------------------------------------------------------------------
(* The exposed service, behind hyper's HTTP/1 connection to it.            *)

(* Mutant: the request is replayed on another connection.                  *)
ConnectionGone_Replays ==
    /\ service' = IF service = "ended" THEN "ended" ELSE "reading"
    /\ UNCHANGED <<seen, serverRecv>>

(* The connection to the service goes away under the request.              *)
ConnectionGone ==
    /\ service' = IF service = "ended" THEN "ended" ELSE "crashed"
    /\ seen' = IF seen = "open" THEN "broken" ELSE seen
    /\ serverRecv' = "stopped"

CanServiceReads ==
    /\ service \in {"reading", "answering"}
    /\ seen = "open"
    /\ delivered < relayed
    /\ kind.service # "early"
    /\ kind.service = "echo" => produced = delivered

ServiceReads ==
    /\ CanServiceReads
    /\ delivered' = delivered + 1
    /\ UNCHANGED <<kind, client, server, service, link, asked, uploaded,
                   relayed, sendEnd, serverRecv, seen, down>>

(* hyper ends a sized request after its last byte, any other one at the    *)
(* end of the stream.                                                      *)
CanRequestEnds ==
    /\ service \in {"reading", "answering"}
    /\ seen = "open"
    /\ IF kind.sized
         THEN delivered = Chunks
         ELSE sendEnd = "finished" /\ delivered = relayed

RequestEnds ==
    /\ CanRequestEnds
    /\ seen' = "complete"
    /\ UNCHANGED <<kind, client, server, service, link, asked, uploaded,
                   relayed, delivered, sendEnd, serverRecv, down>>

(* The stream ends before a sized request does, or cannot be read.         *)
CanRequestBreaks ==
    /\ service \in {"reading", "answering"}
    /\ seen = "open"
    /\ \/ link = "lost" /\ ~(kind.sized /\ delivered = Chunks)
       \/ kind.sized /\ sendEnd = "finished" /\ delivered = relayed
             /\ relayed < Chunks

RequestBreaks ==
    /\ CanRequestBreaks
    /\ ConnectionGone
    /\ UNCHANGED <<kind, client, server, link, asked, uploaded, relayed,
                   delivered, sendEnd, down>>

CanServiceAnswers ==
    /\ service = "reading"
    /\ kind.service = "whole" => seen = "complete"

ServiceAnswers ==
    /\ CanServiceAnswers
    /\ service' = "answering"
    /\ UNCHANGED <<kind, client, server, link, up, down>>

CanServiceProduces ==
    /\ service = "answering"
    /\ produced < Chunks
    /\ produced = carried
    /\ kind.service = "echo" => produced < delivered

ServiceProduces ==
    /\ CanServiceProduces
    /\ produced' = produced + 1
    /\ UNCHANGED <<kind, client, server, service, link, up, headSent, carried,
                   received, replyEnd, clientRecv, got>>

(* An echo whose request was cut short ends short of its Content-Length.   *)
CanServiceEnds ==
    /\ service = "answering"
    /\ IF kind.service = "echo"
         THEN seen = "complete" /\ produced = delivered
         ELSE produced = Chunks

ServiceEnds ==
    /\ CanServiceEnds
    /\ service' = IF kind.resSized /\ produced < Chunks THEN "crashed"
                                                        ELSE "ended"
    /\ seen' = IF seen = "open" THEN "broken" ELSE seen
    /\ serverRecv' = IF seen = "open" THEN "stopped" ELSE serverRecv
    /\ UNCHANGED <<kind, client, server, link, asked, uploaded, relayed,
                   delivered, sendEnd, down>>

ServiceCrashes ==
    /\ service \in {"reading", "answering"}
    /\ ConnectionGone
    /\ UNCHANGED <<kind, client, server, link, asked, uploaded, relayed,
                   delivered, sendEnd, down>>

-----------------------------------------------------------------------------
(* The server: peer_to_http and the send.finish() of its caller.           *)

CanForwardHead ==
    /\ server = "head"
    /\ asked

ForwardHead ==
    /\ CanForwardHead
    /\ server' = "request"
    /\ service' = "reading"
    /\ UNCHANGED <<kind, client, link, up, down>>

CanCarryHead ==
    /\ server = "request"
    /\ service \in {"answering", "ended"}
    /\ link = "up"
    /\ clientRecv = "open"

CarryHead ==
    /\ CanCarryHead
    /\ server' = "body"
    /\ headSent' = TRUE
    /\ UNCHANGED <<kind, client, service, link, up, produced, carried,
                   received, replyEnd, clientRecv, got>>

CanCarryChunk ==
    /\ server = "body"
    /\ carried < produced
    /\ carried - received < Window
    /\ link = "up"
    /\ clientRecv = "open"

CarryChunk ==
    /\ CanCarryChunk
    /\ carried' = carried + 1
    /\ UNCHANGED <<kind, client, server, service, link, up, headSent,
                   produced, received, replyEnd, clientRecv, got>>

(* Mutant: the chunk in hand is dropped when the service is done.          *)
ServerDone_DropsChunk ==
    /\ server = "body"
    /\ service = "ended"
    /\ ~kind.resTrailers
    /\ server' = "done"
    /\ replyEnd' = Fin(replyEnd)
    /\ UNCHANGED <<kind, client, service, link, up, headSent, produced,
                   carried, received, clientRecv, got>>

(* Mutant: the stream is not finished.                                     *)
ServerDone_NoFinish ==
    /\ server = "body"
    /\ service = "ended"
    /\ carried = produced
    /\ ~kind.resTrailers
    /\ server' = "done"
    /\ UNCHANGED <<kind, client, service, link, up, down>>

CanServerDone ==
    /\ server = "body"
    /\ service = "ended"
    /\ carried = produced
    /\ ~kind.resTrailers

ServerDone ==
    /\ CanServerDone
    /\ server' = "done"
    /\ replyEnd' = Fin(replyEnd)
    /\ UNCHANGED <<kind, client, service, link, up, headSent, produced,
                   carried, received, clientRecv, got>>

(* What makes peer_to_http return an error.                                *)
ServerError ==
    \/ server = "head"   \* no request, or no connection from the pool
    \/ service = "crashed"
    \/ server = "body" /\ service = "ended" /\ carried = produced
          /\ kind.resTrailers
    \/ /\ link = "lost" \/ clientRecv = "stopped"
       /\ \/ server = "request" /\ service \in {"answering", "ended"}
          \/ server = "body" /\ carried < produced

(* The error is logged and the stream is finished as if all were well.     *)
CanServerFails ==
    /\ server # "done"
    /\ ServerError

ServerFails ==
    /\ CanServerFails
    /\ server' = "done"
    /\ replyEnd' = Fin(replyEnd)
    /\ ConnectionGone
    /\ UNCHANGED <<kind, client, link, asked, uploaded, relayed, delivered,
                   sendEnd, headSent, produced, carried, received,
                   clientRecv, got>>

LinkBreaks ==
    /\ link = "up"
    /\ link' = "lost"
    /\ UNCHANGED <<kind, client, server, service, up, down>>

-----------------------------------------------------------------------------
Client == SendHead \/ RelayChunk \/ BodySent \/ ReadHead \/ ReadChunk
              \/ ReadEnd \/ ClientFails
Server == ForwardHead \/ CarryHead \/ CarryChunk \/ ServerDone \/ ServerFails
Service == ServiceReads \/ RequestEnds \/ RequestBreaks \/ ServiceAnswers
               \/ ServiceProduces \/ ServiceEnds

Next ==
    \/ VisitorUploads
    \/ VisitorLeaves
    \/ Client
    \/ Server
    \/ Service
    \/ ServiceCrashes
    \/ LinkBreaks

Spec == Init /\ [][Next]_vars

(* The tasks are polled and the service does what its kind says.  The      *)
(* visitor, while it waits for the response, sends all of its body and     *)
(* reads what arrives: the code has no timeout for one that does neither.  *)
Fairness ==
    /\ WF_vars(VisitorUploads)
    /\ WF_vars(Client)
    /\ WF_vars(Server)
    /\ WF_vars(Service)

FairSpec == Spec /\ Fairness

-----------------------------------------------------------------------------
(* A visitor that is told the response is complete has all of it; what can *)
(* go missing unnoticed is the rest of a response of unknown length, or of *)
(* one read by http_to_peer_non_streaming, when the service or the server  *)
(* failed: peer_to_http's error still ends in a clean FIN                  *)
(* (expose_http.rs:82-89).                                                 *)
CompleteMeansWhole ==
    got = "complete" =>
        \/ received = Chunks
        \/ service = "crashed" /\ ~(kind.streaming /\ kind.resSized)

(* The service takes a request for complete only if all of the visitor's   *)
(* body reached it; what can be cut short unnoticed is a body of unknown   *)
(* length, and then the visitor is not told that all is well               *)
(* (http_to_peer.rs:32-46).                                                *)
NoTruncatedRequest ==
    seen = "complete" =>
        \/ delivered = Chunks
        \/ ~kind.sized /\ got \in {"gone", "broken"}

(* The exchange is one between the visitor and the service, which is asked *)
(* once: what they see of each other is in order, its ends are told once   *)
(* and mean what they say, and an error has a cause (http_to_peer.rs:24-85,*)
(* peer_to_http.rs:1-105).                                                 *)
Answer(s) == CASE s \in {"idle", "reading"} -> "none"
               [] s = "answering" -> "begun"
               [] OTHER -> s

Http == INSTANCE HttpService
    WITH sized <- kind.sized, checked <- kind.streaming /\ kind.resSized,
         trailers <- kind.trailers,
         offered <- uploaded, read <- delivered, request <- seen,
         answer <- Answer(service), written <- produced,
         shown <- received, outcome <- got, lost <- link = "lost"

ImplementsHttp == Http!Spec

(* Nobody waits for what the others send only after him: the service needs *)
(* no end of an upload that the client leaves open, and what it answers    *)
(* before the upload is over fits the streams and the hands it is in.      *)
Settles ==
    \/ kind.service = "whole" /\ kind.sized
    \/ kind.service = "early" /\ Chunks <= Window + 1
    \/ /\ kind.service = "echo" /\ Chunks <= 2 * Window + 2
       /\ kind.sized \/ kind.streaming

(* Somebody who needs nobody else's leave to go on.                        *)
SomebodyGoesOn ==
    \/ CanUpload
    \/ CanSendHead \/ CanRelayChunk \/ CanBodySent \/ CanReadHead
    \/ CanReadChunk \/ CanReadEnd \/ CanClientFails
    \/ CanForwardHead \/ CanCarryHead \/ CanCarryChunk \/ CanServerDone
    \/ CanServerFails
    \/ CanServiceReads \/ CanRequestEnds \/ CanRequestBreaks
    \/ CanServiceAnswers \/ CanServiceProduces \/ CanServiceEnds

(* The client, the server and the service of such an exchange never wait   *)
(* for each other in a circle: full windows and ends of streams that are   *)
(* yet to come never hold all of them up (http_to_peer.rs:24-60,           *)
(* peer_to_http.rs:60-95).                                                 *)
NoCircularWait ==
    Settles /\ ~(ClientOver /\ server = "done") => SomebodyGoesOn

(* How much is left to be done, at most.                                   *)
ClientSteps(c) == CASE c = "head" -> 4 [] c = "body" -> 3 [] c = "await" -> 2
                    [] c = "stream" -> 1 [] OTHER -> 0
ServerSteps(s) == CASE s = "head" -> 3 [] s = "request" -> 2
                    [] s = "body" -> 1 [] OTHER -> 0
ServiceSteps(s) == CASE s = "idle" -> 3 [] s = "reading" -> 2
                     [] s = "answering" -> 1 [] OTHER -> 0
OneMore(x) == IF x THEN 1 ELSE 0

Remaining ==
    (Chunks - uploaded) + (Chunks - relayed) + (Chunks - delivered)
      + (Chunks - produced) + (Chunks - carried) + (Chunks - received)
      + ClientSteps(client) + ServerSteps(server) + ServiceSteps(service)
      + OneMore(seen = "open") + OneMore(link = "up")

(* No step is ever repeated, after a failure either, so an exchange cannot *)
(* go on for ever; together with NoCircularWait this is why it ends.       *)
EveryStepIsProgress == [][Remaining' < Remaining /\ Remaining' \in Nat]_vars

(* Such an exchange ends at the client whatever fails.                     *)
EveryExchangeEnds == Settles => <>ClientOver

(* And it frees the server's task, for which the next request on the       *)
(* connection of a serial acceptor waits.                                  *)
ServerIsFreed == Settles => <>(server = "done")

(* "You can use malai http to expose any HTTP service over kulfi"          *)
(* (malai.sh/doc/about.ftd:29): if nothing fails, the visitor gets a       *)
(* response, whatever the service and the framing of the request.          *)
AnyServiceAnswers == <>(ClientOver \/ service = "crashed" \/ link = "lost")
=============================================================================
