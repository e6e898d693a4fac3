------------------------- MODULE HttpExchangeProofs -------------------------
(***************************************************************************)
(* Proofs about HttpExchange, for any number of chunks, any window and any *)
(* kinds of exchange.  What a reader takes for a complete message depends  *)
(* on why a stream was finished, so the inductive invariant relates the    *)
(* ends of the two halves of the stream to what happened at their writers. *)
(***************************************************************************)
EXTENDS HttpExchange, TLAPS

USE DEF CanUpload, CanSendHead, CanRelayChunk, CanBodySent, CanReadHead,
        CanReadChunk, CanReadEnd, CanClientFails, CanForwardHead,
        CanCarryHead, CanCarryChunk, CanServerDone, CanServerFails,
        CanServiceReads, CanRequestEnds, CanRequestBreaks,
        CanServiceAnswers, CanServiceProduces, CanServiceEnds

(* Where the client is says what it has written and told its visitor.      *)
ClientInv ==
    /\ client \in {"await", "stream", "done"} => relayed = Chunks
    /\ client = "failed" => got \in {"gone", "broken"}
    /\ ~ClientOver => got = "waiting"
    /\ clientRecv = "stopped" => ClientOver
    /\ sendEnd = "finished" => client \in {"stream", "done", "failed"}

(* The service saw the end of the request where the framing puts it.       *)
SeenInv ==
    seen = "complete" =>
        IF kind.sized THEN delivered = Chunks
                      ELSE sendEnd = "finished" /\ delivered = relayed

(* What a response that ended, and a response stream that did, contain.    *)
ReplyInv ==
    /\ server = "head" => service = "idle"
    /\ service = "ended" =>
        \/ produced = Chunks
        \/ /\ kind.service = "echo" /\ ~kind.resSized
           /\ seen = "complete" /\ produced = delivered
    /\ replyEnd = "finished" =>
        /\ server = "done"
        /\ \/ service = "crashed"
           \/ service = "ended" /\ carried = produced
           \/ clientRecv = "stopped"

IInv == TypeOK /\ ClientInv /\ SeenInv /\ ReplyInv /\ CompleteMeansWhole

(* Why nobody waits in vain.  Each place tells what has been sent before   *)
(* it was reached ...                                                      *)
PlaceInv ==
    /\ server = "head" <=> service = "idle"
    /\ server = "done" => service \in {"ended", "crashed"}
    /\ client \in {"body", "await", "stream", "done"} => asked
    /\ client \in {"stream", "done"} => headSent
    /\ headSent => server \in {"body", "done"}
    /\ server = "body" => headSent
    /\ received > 0 => client \in {"stream", "done", "failed"}
    /\ got = "waiting" => ~ClientOver

(* ... whoever has stopped has told the other end, if it can be told ...   *)
EndInv ==
    /\ serverRecv = "stopped" \/ service \in {"ended", "crashed"} => seen # "open"
    /\ seen = "broken" =>
          service \in {"ended", "crashed"} /\ serverRecv = "stopped"
    /\ link = "up" =>
          /\ server = "done" /\ ~headSent =>
                service = "crashed" \/ clientRecv = "stopped"
          /\ server = "done" => replyEnd = "finished"
          /\ ClientOver => sendEnd = "finished" /\ clientRecv = "stopped"
          /\ client = "stream" /\ kind.streaming => sendEnd = "finished"

(* ... and the service has no more than one chunk in hand.                 *)
HandInv ==
    /\ produced <= carried + 1
    /\ kind.service = "echo" =>
          produced <= delivered /\ delivered <= produced + 1
    /\ kind.service = "whole" /\ service \in {"answering", "ended"} =>
          seen = "complete"

WaitInv == PlaceInv /\ EndInv /\ HandInv

-----------------------------------------------------------------------------
LEMMA InitInv == Init => IInv
<1> SUFFICES ASSUME Init PROVE IInv
  OBVIOUS
<1>1. TypeOK
  <2>1. uploaded \in {0, Chunks}
    BY DEF Init
  <2>2. /\ uploaded \in 0 .. Chunks
        /\ relayed \in 0 .. uploaded
        /\ produced \in 0 .. Chunks
    BY <2>1, ChunksAssumption DEF Init
  <2>3. /\ relayed - delivered <= Window /\ carried - received <= Window
        /\ delivered \in 0 .. relayed
        /\ carried \in 0 .. produced /\ received \in 0 .. carried
    BY WindowAssumption DEF Init
  <2> QED
    BY <2>2, <2>3 DEF Init, TypeOK
<1>2. ClientInv /\ SeenInv /\ ReplyInv /\ CompleteMeansWhole
  BY DEF Init, ClientInv, SeenInv, ReplyInv, CompleteMeansWhole, ClientOver
<1> QED
  BY <1>1, <1>2 DEF IInv

(* Counts stay in order, and no stream holds more than its window.         *)
LEMMA TypeStep == TypeOK /\ [Next]_vars => TypeOK'
<1> SUFFICES ASSUME TypeOK, [Next]_vars PROVE TypeOK'
  OBVIOUS
<1> USE ChunksAssumption, WindowAssumption DEF TypeOK
<1>1. CASE VisitorUploads
  BY <1>1 DEF VisitorUploads, up, down
<1>2. CASE VisitorLeaves
  BY <1>2 DEF VisitorLeaves, ClientGivesUp, Fin, up, down
<1>3. CASE SendHead
  BY <1>3 DEF SendHead, up, down
<1>4. CASE RelayChunk
  BY <1>4 DEF RelayChunk, up, down
<1>5. CASE BodySent
  BY <1>5 DEF BodySent, up, down
<1>6. CASE ReadHead
  BY <1>6 DEF ReadHead, Fin, up, down
<1>7. CASE ReadChunk
  BY <1>7 DEF ReadChunk, up, down
<1>8. CASE ReadEnd
  BY <1>8 DEF ReadEnd, Fin, up, down
<1>9. CASE ClientFails
  BY <1>9 DEF ClientFails, ClientGivesUp, Fin, up, down
<1>10. CASE ForwardHead
  BY <1>10 DEF ForwardHead, up, down
<1>11. CASE CarryHead
  BY <1>11 DEF CarryHead, up, down
<1>12. CASE CarryChunk
  BY <1>12 DEF CarryChunk, up, down
<1>13. CASE ServerDone
  BY <1>13 DEF ServerDone, Fin, up, down
<1>14. CASE ServerFails
  BY <1>14 DEF ServerFails, ServerError, ConnectionGone, Fin, up, down
<1>15. CASE ServiceReads
  BY <1>15 DEF ServiceReads, up, down
<1>16. CASE RequestEnds
  BY <1>16 DEF RequestEnds, up, down
<1>17. CASE RequestBreaks
  BY <1>17 DEF RequestBreaks, ConnectionGone, up, down
<1>18. CASE ServiceAnswers
  BY <1>18 DEF ServiceAnswers, up, down
<1>19. CASE ServiceProduces
  BY <1>19 DEF ServiceProduces, up, down
<1>20. CASE ServiceEnds
  BY <1>20 DEF ServiceEnds, up, down
<1>21. CASE ServiceCrashes
  BY <1>21 DEF ServiceCrashes, ConnectionGone, up, down
<1>22. CASE LinkBreaks
  BY <1>22 DEF LinkBreaks, up, down
<1>23. CASE UNCHANGED vars
  BY <1>23 DEF vars, up, down
<1> QED
  BY <1>1, <1>2, <1>3, <1>4, <1>5, <1>6, <1>7, <1>8, <1>9, <1>10,
     <1>11, <1>12, <1>13, <1>14, <1>15, <1>16, <1>17, <1>18, <1>19,
     <1>20, <1>21, <1>22, <1>23
     DEF Next, Client, Server, Service

LEMMA ClientStep == TypeOK /\ ClientInv /\ [Next]_vars => ClientInv'
<1> SUFFICES ASSUME TypeOK, ClientInv, [Next]_vars PROVE ClientInv'
  OBVIOUS
<1> USE ChunksAssumption DEF TypeOK, ClientInv, ClientOver
<1>1. CASE VisitorUploads
  BY <1>1 DEF VisitorUploads, up, down
<1>2. CASE VisitorLeaves
  BY <1>2 DEF VisitorLeaves, ClientGivesUp, Fin, up, down
<1>3. CASE SendHead
  BY <1>3 DEF SendHead, up, down
<1>4. CASE RelayChunk
  BY <1>4 DEF RelayChunk, up, down
<1>5. CASE BodySent
  BY <1>5 DEF BodySent, up, down
<1>6. CASE ReadHead
  BY <1>6 DEF ReadHead, Fin, up, down
<1>7. CASE ReadChunk
  BY <1>7 DEF ReadChunk, up, down
<1>8. CASE ReadEnd
  BY <1>8 DEF ReadEnd, Fin, up, down
<1>9. CASE ClientFails
  BY <1>9 DEF ClientFails, ClientGivesUp, Fin, up, down
<1>10. CASE ForwardHead
  BY <1>10 DEF ForwardHead, up, down
<1>11. CASE CarryHead
  BY <1>11 DEF CarryHead, up, down
<1>12. CASE CarryChunk
  BY <1>12 DEF CarryChunk, up, down
<1>13. CASE ServerDone
  BY <1>13 DEF ServerDone, Fin, up, down
<1>14. CASE ServerFails
  BY <1>14 DEF ServerFails, ServerError, ConnectionGone, Fin, up, down
<1>15. CASE ServiceReads
  BY <1>15 DEF ServiceReads, up, down
<1>16. CASE RequestEnds
  BY <1>16 DEF RequestEnds, up, down
<1>17. CASE RequestBreaks
  BY <1>17 DEF RequestBreaks, ConnectionGone, up, down
<1>18. CASE ServiceAnswers
  BY <1>18 DEF ServiceAnswers, up, down
<1>19. CASE ServiceProduces
  BY <1>19 DEF ServiceProduces, up, down
<1>20. CASE ServiceEnds
  BY <1>20 DEF ServiceEnds, up, down
<1>21. CASE ServiceCrashes
  BY <1>21 DEF ServiceCrashes, ConnectionGone, up, down
<1>22. CASE LinkBreaks
  BY <1>22 DEF LinkBreaks, up, down
<1>23. CASE UNCHANGED vars
  BY <1>23 DEF vars, up, down
<1> QED
  BY <1>1, <1>2, <1>3, <1>4, <1>5, <1>6, <1>7, <1>8, <1>9, <1>10,
     <1>11, <1>12, <1>13, <1>14, <1>15, <1>16, <1>17, <1>18, <1>19,
     <1>20, <1>21, <1>22, <1>23
     DEF Next, Client, Server, Service

LEMMA SeenStep == TypeOK /\ ClientInv /\ SeenInv /\ [Next]_vars => SeenInv'
<1> SUFFICES ASSUME TypeOK, ClientInv, SeenInv, [Next]_vars PROVE SeenInv'
  OBVIOUS
<1> USE ChunksAssumption DEF TypeOK, ClientInv, ClientOver, SeenInv
<1>1. CASE VisitorUploads
  BY <1>1 DEF VisitorUploads, up, down
<1>2. CASE VisitorLeaves
  BY <1>2 DEF VisitorLeaves, ClientGivesUp, Fin, up, down
<1>3. CASE SendHead
  BY <1>3 DEF SendHead, up, down
<1>4. CASE RelayChunk
  BY <1>4 DEF RelayChunk, up, down
<1>5. CASE BodySent
  BY <1>5 DEF BodySent, up, down
<1>6. CASE ReadHead
  BY <1>6 DEF ReadHead, Fin, up, down
<1>7. CASE ReadChunk
  BY <1>7 DEF ReadChunk, up, down
<1>8. CASE ReadEnd
  BY <1>8 DEF ReadEnd, Fin, up, down
<1>9. CASE ClientFails
  BY <1>9 DEF ClientFails, ClientGivesUp, Fin, up, down
<1>10. CASE ForwardHead
  BY <1>10 DEF ForwardHead, up, down
<1>11. CASE CarryHead
  BY <1>11 DEF CarryHead, up, down
<1>12. CASE CarryChunk
  BY <1>12 DEF CarryChunk, up, down
<1>13. CASE ServerDone
  BY <1>13 DEF ServerDone, Fin, up, down
<1>14. CASE ServerFails
  BY <1>14 DEF ServerFails, ServerError, ConnectionGone, Fin, up, down
<1>15. CASE ServiceReads
  BY <1>15 DEF ServiceReads, up, down
<1>16. CASE RequestEnds
  BY <1>16 DEF RequestEnds, up, down
<1>17. CASE RequestBreaks
  BY <1>17 DEF RequestBreaks, ConnectionGone, up, down
<1>18. CASE ServiceAnswers
  BY <1>18 DEF ServiceAnswers, up, down
<1>19. CASE ServiceProduces
  BY <1>19 DEF ServiceProduces, up, down
<1>20. CASE ServiceEnds
  BY <1>20 DEF ServiceEnds, up, down
<1>21. CASE ServiceCrashes
  BY <1>21 DEF ServiceCrashes, ConnectionGone, up, down
<1>22. CASE LinkBreaks
  BY <1>22 DEF LinkBreaks, up, down
<1>23. CASE UNCHANGED vars
  BY <1>23 DEF vars, up, down
<1> QED
  BY <1>1, <1>2, <1>3, <1>4, <1>5, <1>6, <1>7, <1>8, <1>9, <1>10,
     <1>11, <1>12, <1>13, <1>14, <1>15, <1>16, <1>17, <1>18, <1>19,
     <1>20, <1>21, <1>22, <1>23
     DEF Next, Client, Server, Service

LEMMA ReplyStep == TypeOK /\ ReplyInv /\ [Next]_vars => ReplyInv'
<1> SUFFICES ASSUME TypeOK, ReplyInv, [Next]_vars PROVE ReplyInv'
  OBVIOUS
<1> USE ChunksAssumption DEF TypeOK, ReplyInv
<1>1. CASE VisitorUploads
  BY <1>1 DEF VisitorUploads, up, down
<1>2. CASE VisitorLeaves
  BY <1>2 DEF VisitorLeaves, ClientGivesUp, Fin, up, down
<1>3. CASE SendHead
  BY <1>3 DEF SendHead, up, down
<1>4. CASE RelayChunk
  BY <1>4 DEF RelayChunk, up, down
<1>5. CASE BodySent
  BY <1>5 DEF BodySent, up, down
<1>6. CASE ReadHead
  BY <1>6 DEF ReadHead, Fin, up, down
<1>7. CASE ReadChunk
  BY <1>7 DEF ReadChunk, up, down
<1>8. CASE ReadEnd
  BY <1>8 DEF ReadEnd, Fin, up, down
<1>9. CASE ClientFails
  BY <1>9 DEF ClientFails, ClientGivesUp, Fin, up, down
<1>10. CASE ForwardHead
  BY <1>10 DEF ForwardHead, up, down
<1>11. CASE CarryHead
  BY <1>11 DEF CarryHead, up, down
<1>12. CASE CarryChunk
  BY <1>12 DEF CarryChunk, up, down
<1>13. CASE ServerDone
  BY <1>13 DEF ServerDone, Fin, up, down
<1>14. CASE ServerFails
  BY <1>14 DEF ServerFails, ServerError, ConnectionGone, Fin, up, down
<1>15. CASE ServiceReads
  BY <1>15 DEF ServiceReads, up, down
<1>16. CASE RequestEnds
  BY <1>16 DEF RequestEnds, up, down
<1>17. CASE RequestBreaks
  BY <1>17 DEF RequestBreaks, ConnectionGone, up, down
<1>18. CASE ServiceAnswers
  BY <1>18 DEF ServiceAnswers, up, down
<1>19. CASE ServiceProduces
  BY <1>19 DEF ServiceProduces, up, down
<1>20. CASE ServiceEnds
  BY <1>20 DEF ServiceEnds, up, down
<1>21. CASE ServiceCrashes
  BY <1>21 DEF ServiceCrashes, ConnectionGone, up, down
<1>22. CASE LinkBreaks
  BY <1>22 DEF LinkBreaks, up, down
<1>23. CASE UNCHANGED vars
  BY <1>23 DEF vars, up, down
<1> QED
  BY <1>1, <1>2, <1>3, <1>4, <1>5, <1>6, <1>7, <1>8, <1>9, <1>10,
     <1>11, <1>12, <1>13, <1>14, <1>15, <1>16, <1>17, <1>18, <1>19,
     <1>20, <1>21, <1>22, <1>23
     DEF Next, Client, Server, Service

(* The step to prove is ReadEnd: a finished response stream was finished by*)
(* a server that carried all of it, or whose service had crashed.          *)
LEMMA CompleteStep == IInv /\ [Next]_vars => CompleteMeansWhole'
<1> SUFFICES ASSUME IInv, [Next]_vars PROVE CompleteMeansWhole'
  OBVIOUS
<1> USE ChunksAssumption
    DEF IInv, TypeOK, ClientInv, ClientOver, SeenInv, ReplyInv,
        CompleteMeansWhole
<1>1. CASE VisitorUploads
  BY <1>1 DEF VisitorUploads, up, down
<1>2. CASE VisitorLeaves
  BY <1>2 DEF VisitorLeaves, ClientGivesUp, Fin, up, down
<1>3. CASE SendHead
  BY <1>3 DEF SendHead, up, down
<1>4. CASE RelayChunk
  BY <1>4 DEF RelayChunk, up, down
<1>5. CASE BodySent
  BY <1>5 DEF BodySent, up, down
<1>6. CASE ReadHead
  BY <1>6 DEF ReadHead, Fin, up, down
<1>7. CASE ReadChunk
  BY <1>7 DEF ReadChunk, up, down
<1>8. CASE ReadEnd
  BY <1>8 DEF ReadEnd, Fin, up, down
<1>9. CASE ClientFails
  BY <1>9 DEF ClientFails, ClientGivesUp, Fin, up, down
<1>10. CASE ForwardHead
  BY <1>10 DEF ForwardHead, up, down
<1>11. CASE CarryHead
  BY <1>11 DEF CarryHead, up, down
<1>12. CASE CarryChunk
  BY <1>12 DEF CarryChunk, up, down
<1>13. CASE ServerDone
  BY <1>13 DEF ServerDone, Fin, up, down
<1>14. CASE ServerFails
  BY <1>14 DEF ServerFails, ServerError, ConnectionGone, Fin, up, down
<1>15. CASE ServiceReads
  BY <1>15 DEF ServiceReads, up, down
<1>16. CASE RequestEnds
  BY <1>16 DEF RequestEnds, up, down
<1>17. CASE RequestBreaks
  BY <1>17 DEF RequestBreaks, ConnectionGone, up, down
<1>18. CASE ServiceAnswers
  BY <1>18 DEF ServiceAnswers, up, down
<1>19. CASE ServiceProduces
  BY <1>19 DEF ServiceProduces, up, down
<1>20. CASE ServiceEnds
  BY <1>20 DEF ServiceEnds, up, down
<1>21. CASE ServiceCrashes
  BY <1>21 DEF ServiceCrashes, ConnectionGone, up, down
<1>22. CASE LinkBreaks
  BY <1>22 DEF LinkBreaks, up, down
<1>23. CASE UNCHANGED vars
  BY <1>23 DEF vars, up, down
<1> QED
  BY <1>1, <1>2, <1>3, <1>4, <1>5, <1>6, <1>7, <1>8, <1>9, <1>10,
     <1>11, <1>12, <1>13, <1>14, <1>15, <1>16, <1>17, <1>18, <1>19,
     <1>20, <1>21, <1>22, <1>23
     DEF Next, Client, Server, Service

LEMMA InitWait == Init => WaitInv
  BY ChunksAssumption
     DEF Init, WaitInv, PlaceInv, EndInv, HandInv, ClientOver

(* The other half: why nobody is forgotten.                                *)
LEMMA WaitStep == IInv /\ WaitInv /\ [Next]_vars => WaitInv'
<1> SUFFICES ASSUME IInv, WaitInv, [Next]_vars PROVE WaitInv'
  OBVIOUS
<1> USE ChunksAssumption, WindowAssumption
    DEF IInv, TypeOK, ClientInv, ClientOver, SeenInv, ReplyInv,
        WaitInv, PlaceInv, EndInv, HandInv
<1>1. CASE VisitorUploads
  BY <1>1 DEF VisitorUploads, up, down
<1>2. CASE VisitorLeaves
  BY <1>2 DEF VisitorLeaves, ClientGivesUp, Fin, up, down
<1>3. CASE SendHead
  BY <1>3 DEF SendHead, up, down
<1>4. CASE RelayChunk
  BY <1>4 DEF RelayChunk, up, down
<1>5. CASE BodySent
  BY <1>5 DEF BodySent, up, down
<1>6. CASE ReadHead
  BY <1>6 DEF ReadHead, Fin, up, down
<1>7. CASE ReadChunk
  BY <1>7 DEF ReadChunk, up, down
<1>8. CASE ReadEnd
  BY <1>8 DEF ReadEnd, Fin, up, down
<1>9. CASE ClientFails
  BY <1>9 DEF ClientFails, ClientGivesUp, Fin, up, down
<1>10. CASE ForwardHead
  BY <1>10 DEF ForwardHead, up, down
<1>11. CASE CarryHead
  BY <1>11 DEF CarryHead, up, down
<1>12. CASE CarryChunk
  BY <1>12 DEF CarryChunk, up, down
<1>13. CASE ServerDone
  BY <1>13 DEF ServerDone, Fin, up, down
<1>14. CASE ServerFails
  BY <1>14 DEF ServerFails, ServerError, ConnectionGone, Fin, up, down
<1>15. CASE ServiceReads
  BY <1>15 DEF ServiceReads, up, down
<1>16. CASE RequestEnds
  BY <1>16 DEF RequestEnds, up, down
<1>17. CASE RequestBreaks
  BY <1>17 DEF RequestBreaks, ConnectionGone, up, down
<1>18. CASE ServiceAnswers
  BY <1>18 DEF ServiceAnswers, up, down
<1>19. CASE ServiceProduces
  BY <1>19 DEF ServiceProduces, up, down
<1>20. CASE ServiceEnds
  BY <1>20 DEF ServiceEnds, up, down
<1>21. CASE ServiceCrashes
  BY <1>21 DEF ServiceCrashes, ConnectionGone, up, down
<1>22. CASE LinkBreaks
  BY <1>22 DEF LinkBreaks, up, down
<1>23. CASE UNCHANGED vars
  BY <1>23 DEF vars, up, down
<1> QED
  BY <1>1, <1>2, <1>3, <1>4, <1>5, <1>6, <1>7, <1>8, <1>9, <1>10,
     <1>11, <1>12, <1>13, <1>14, <1>15, <1>16, <1>17, <1>18, <1>19,
     <1>20, <1>21, <1>22, <1>23
     DEF Next, Client, Server, Service

LEMMA StepCounts ==
    /\ \A x : ClientSteps(x) \in Nat /\ ServerSteps(x) \in Nat
              /\ ServiceSteps(x) \in Nat
    /\ \A x \in BOOLEAN : OneMore(x) \in Nat
    /\ ClientSteps("head") = 4 /\ ClientSteps("body") = 3
    /\ ClientSteps("await") = 2 /\ ClientSteps("stream") = 1
    /\ ClientSteps("done") = 0 /\ ClientSteps("failed") = 0
    /\ ServerSteps("head") = 3 /\ ServerSteps("request") = 2
    /\ ServerSteps("body") = 1 /\ ServerSteps("done") = 0
    /\ ServiceSteps("idle") = 3 /\ ServiceSteps("reading") = 2
    /\ ServiceSteps("answering") = 1 /\ ServiceSteps("ended") = 0
    /\ ServiceSteps("crashed") = 0
  BY DEF ClientSteps, ServerSteps, ServiceSteps, OneMore

(* Every step takes something off what is left to be done.                 *)
LEMMA ProgressStep ==
    ASSUME TypeOK, ClientInv, PlaceInv, Next
    PROVE  Remaining' < Remaining
<1> USE ChunksAssumption, WindowAssumption, StepCounts
    DEF TypeOK, ClientInv, ClientOver, PlaceInv, Remaining, OneMore
<1>1. CASE VisitorUploads
  BY <1>1 DEF VisitorUploads, up, down
<1>2. CASE VisitorLeaves
  BY <1>2 DEF VisitorLeaves, ClientGivesUp, Fin, up, down
<1>3. CASE SendHead
  BY <1>3 DEF SendHead, up, down
<1>4. CASE RelayChunk
  BY <1>4 DEF RelayChunk, up, down
<1>5. CASE BodySent
  BY <1>5 DEF BodySent, up, down
<1>6. CASE ReadHead
  BY <1>6 DEF ReadHead, Fin, up, down
<1>7. CASE ReadChunk
  BY <1>7 DEF ReadChunk, up, down
<1>8. CASE ReadEnd
  BY <1>8 DEF ReadEnd, Fin, up, down
<1>9. CASE ClientFails
  BY <1>9 DEF ClientFails, ClientGivesUp, Fin, up, down
<1>10. CASE ForwardHead
  BY <1>10 DEF ForwardHead, up, down
<1>11. CASE CarryHead
  BY <1>11 DEF CarryHead, up, down
<1>12. CASE CarryChunk
  BY <1>12 DEF CarryChunk, up, down
<1>13. CASE ServerDone
  BY <1>13 DEF ServerDone, Fin, up, down
<1>14. CASE ServerFails
  BY <1>14 DEF ServerFails, ServerError, ConnectionGone, Fin, up, down
<1>15. CASE ServiceReads
  BY <1>15 DEF ServiceReads, up, down
<1>16. CASE RequestEnds
  BY <1>16 DEF RequestEnds, up, down
<1>17. CASE RequestBreaks
  BY <1>17 DEF RequestBreaks, ConnectionGone, up, down
<1>18. CASE ServiceAnswers
  BY <1>18 DEF ServiceAnswers, up, down
<1>19. CASE ServiceProduces
  BY <1>19 DEF ServiceProduces, up, down
<1>20. CASE ServiceEnds
  BY <1>20 DEF ServiceEnds, up, down
<1>21. CASE ServiceCrashes
  BY <1>21 DEF ServiceCrashes, ConnectionGone, up, down
<1>22. CASE LinkBreaks
  BY <1>22 DEF LinkBreaks, up, down
<1> QED
  BY <1>1, <1>2, <1>3, <1>4, <1>5, <1>6, <1>7, <1>8, <1>9, <1>10,
     <1>11, <1>12, <1>13, <1>14, <1>15, <1>16, <1>17, <1>18, <1>19,
     <1>20, <1>21, <1>22
     DEF Next, Client, Server, Service

(* Without the connection both tasks fail at their next operation.         *)
LEMMA GoesOnWhenLost ==
    ASSUME IInv, WaitInv, link = "lost", ~(ClientOver /\ server = "done")
    PROVE  SomebodyGoesOn
<1> USE ChunksAssumption, WindowAssumption
    DEF IInv, TypeOK, ClientInv, ClientOver, SeenInv, ReplyInv,
        WaitInv, PlaceInv, EndInv, HandInv, SomebodyGoesOn, ServerError
<1>1. CASE ~ClientOver
  BY <1>1
<1>2. CASE ClientOver /\ server = "head"
  BY <1>2
<1>3. CASE ClientOver /\ service \in {"ended", "crashed"}
  BY <1>3
<1>4. CASE ClientOver /\ service = "reading"
  BY <1>4
<1>5. CASE ClientOver /\ service = "answering"
  BY <1>5
<1> QED
  BY <1>1, <1>2, <1>3, <1>4, <1>5

(* A server that is done has finished the stream: the client hears of it.  *)
LEMMA GoesOnAfterServer ==
    ASSUME IInv, WaitInv, link = "up", server = "done", ~ClientOver
    PROVE  SomebodyGoesOn
<1> USE ChunksAssumption, WindowAssumption
    DEF IInv, TypeOK, ClientInv, ClientOver, SeenInv, ReplyInv,
        WaitInv, PlaceInv, EndInv, HandInv, SomebodyGoesOn
<1>1. CASE client = "head"
  BY <1>1
<1>2. CASE client = "body"
  BY <1>2
<1>3. CASE client = "await"
  BY <1>3
<1>4. CASE client = "stream"
  BY <1>4
<1> QED
  BY <1>1, <1>2, <1>3, <1>4

(* A service that is done leaves the server nothing to wait for but room.  *)
LEMMA GoesOnAfterService ==
    ASSUME IInv, WaitInv, link = "up", server # "done",
           service \in {"ended", "crashed"}
    PROVE  SomebodyGoesOn
<1> USE ChunksAssumption, WindowAssumption
    DEF IInv, TypeOK, ClientInv, ClientOver, SeenInv, ReplyInv,
        WaitInv, PlaceInv, EndInv, HandInv, SomebodyGoesOn, ServerError
<1>1. CASE service = "crashed" \/ server = "request" \/ clientRecv = "stopped"
  BY <1>1
<1>2. CASE service = "ended" /\ server = "body" /\ client \in {"head", "body"}
  BY <1>2
<1>3. CASE service = "ended" /\ server = "body" /\ client \in {"await", "stream"}
  BY <1>3
<1> QED
  BY <1>1, <1>2, <1>3

(* A running service waits for its request, for the end of it or for room  *)
(* for its answer; an exchange that settles leaves it none of these for    *)
(* ever.                                                                   *)
LEMMA GoesOnDuringService ==
    ASSUME IInv, WaitInv, link = "up", server # "done",
           service \in {"reading", "answering"}, Settles
    PROVE  SomebodyGoesOn
<1> USE ChunksAssumption, WindowAssumption
    DEF IInv, TypeOK, ClientInv, ClientOver, SeenInv, ReplyInv,
        WaitInv, PlaceInv, EndInv, HandInv, SomebodyGoesOn
<1>1. CASE kind.service = "early"
  <2>1. CASE service = "reading"
    BY <1>1, <2>1
  <2>2. CASE service = "answering" /\ server = "request"
    BY <1>1, <2>2 DEF ServerError
  <2>3. CASE service = "answering" /\ server = "body"
    BY <1>1, <2>3 DEF ServerError, Settles
  <2> QED
    BY <2>1, <2>2, <2>3
<1>2. CASE kind.service = "whole" /\ kind.sized
  <2>1. CASE seen = "complete"
    BY <1>2, <2>1 DEF ServerError
  <2>2. CASE seen = "open"
    BY <1>2, <2>2
  <2> QED
    BY <2>1, <2>2
<1>3. CASE kind.service = "echo" /\ service = "reading"
  BY <1>3
<1>4. CASE kind.service = "echo" /\ service = "answering" /\ server = "request"
  BY <1>4 DEF ServerError
<1>5. CASE kind.service = "echo" /\ service = "answering" /\ server = "body"
  <2>1. CASE seen = "complete"
    BY <1>5, <2>1 DEF ServerError
  <2>2. CASE seen = "open"
    BY <1>5, <2>2 DEF ServerError, Settles
  <2> QED
    BY <2>1, <2>2
<1> QED
  BY <1>1, <1>2, <1>3, <1>4, <1>5 DEF Settles

LEMMA NobodyIsStuck == IInv /\ WaitInv => NoCircularWait
<1> SUFFICES ASSUME IInv, WaitInv, Settles, ~(ClientOver /\ server = "done")
             PROVE  SomebodyGoesOn
  BY DEF NoCircularWait
<1>1. CASE link = "lost"
  BY <1>1, GoesOnWhenLost
<1>2. CASE link = "up" /\ server = "done"
  BY <1>2, GoesOnAfterServer
<1>3. CASE link = "up" /\ server = "head"
  BY <1>3 DEF SomebodyGoesOn, ServerError
<1>4. CASE link = "up" /\ server \in {"request", "body"}
  BY <1>4, GoesOnAfterService, GoesOnDuringService
     DEF IInv, TypeOK, WaitInv, PlaceInv
<1> QED
  BY <1>1, <1>2, <1>3, <1>4 DEF IInv, TypeOK

-----------------------------------------------------------------------------
LEMMA Invariant == Spec => [](IInv /\ WaitInv)
<1>1. Init => IInv /\ WaitInv
  BY InitInv, InitWait
<1>2. IInv /\ WaitInv /\ [Next]_vars => (IInv /\ WaitInv)'
  BY TypeStep, ClientStep, SeenStep, ReplyStep, CompleteStep, WaitStep
     DEF IInv
<1> QED
  BY <1>1, <1>2, PTL DEF Spec

(* HttpExchange is type correct: in particular no chunk is read before it  *)
(* is written, and flow control bounds what a stream holds.                *)
THEOREM TypeCorrect == Spec => []TypeOK
  BY Invariant, PTL DEF IInv

(* A response the visitor takes for complete is whole, unless the service  *)
(* failed under a response of unknown length (expose_http.rs:82-89).       *)
THEOREM CompleteIsWhole == Spec => []CompleteMeansWhole
  BY Invariant, PTL DEF IInv

(* A request the service takes for complete is whole, unless it is of      *)
(* unknown length and its visitor or client gave up.                       *)
THEOREM RequestIsWhole == Spec => []NoTruncatedRequest
<1>1. IInv => NoTruncatedRequest
  BY DEF IInv, TypeOK, ClientInv, SeenInv, NoTruncatedRequest, ClientOver
<1> QED
  BY Invariant, <1>1, PTL

(* In an exchange whose service does not wait for what only its answer     *)
(* would bring, somebody can always go on until both tasks are over: full  *)
(* windows, unfinished streams and failures never stop all three parties   *)
(* (http_to_peer.rs:24-60, peer_to_http.rs:60-95).                         *)
THEOREM NobodyWaitsInACircle == Spec => []NoCircularWait
  BY Invariant, NobodyIsStuck, PTL

(* And no step undoes another: what is left to be done shrinks at every    *)
(* step, failures included, so nothing is ever retried for ever.           *)
THEOREM ExchangeWindsDown == Spec => EveryStepIsProgress
<1>1. IInv /\ WaitInv /\ [Next]_vars =>
          [Remaining' < Remaining /\ Remaining' \in Nat]_vars
  <2> SUFFICES ASSUME IInv, WaitInv, Next
               PROVE  Remaining' < Remaining /\ Remaining' \in Nat
    OBVIOUS
  <2>1. Remaining' < Remaining
    BY ProgressStep DEF IInv, WaitInv
  <2>2. TypeOK'
    BY TypeStep DEF IInv
  <2>3. Remaining' \in Nat
    BY <2>2, StepCounts, ChunksAssumption, WindowAssumption
       DEF TypeOK, Remaining, OneMore
  <2> QED
    BY <2>1, <2>3
<1> QED
  BY Invariant, <1>1, PTL DEF Spec, EveryStepIsProgress

-----------------------------------------------------------------------------
(* The refinement of HttpService.                                          *)

LEMMA Answers ==
    /\ Answer("idle") = "none" /\ Answer("reading") = "none"
    /\ Answer("answering") = "begun"
    /\ Answer("ended") = "ended" /\ Answer("crashed") = "crashed"
  BY DEF Answer

(* Whatever moves data or a task along the way is no step of the exchange. *)
LEMMA StutterRefines ==
    ASSUME UNCHANGED <<kind, uploaded, delivered, seen, headSent, produced,
                       received, got, link>>,
           Answer(service)' = Answer(service)
    PROVE  UNCHANGED Http!vars
<1>1. (kind.streaming /\ kind.resSized)' = (kind.streaming /\ kind.resSized)
  OBVIOUS
<1>2. (link = "lost")' = (link = "lost")
  OBVIOUS
<1> QED
  BY <1>1, <1>2 DEF Http!vars, Http!asking, Http!seen, Http!answering, Http!showing

(* Why a request that is taken for complete, and an answer that ends, may  *)
(* be short: the visitor is not there, or is going to be told.             *)
LEMMA ShortForCause ==
    ASSUME IInv
    PROVE  /\ sendEnd = "finished" /\ delivered = relayed =>
                 delivered = Chunks \/ got \in {"gone", "broken"}
           /\ seen = "complete" =>
                 delivered = Chunks \/ got \in {"gone", "broken"}
  BY ChunksAssumption DEF IInv, TypeOK, ClientInv, SeenInv

LEMMA ClientRefines ==
    ASSUME IInv, WaitInv, CompleteMeansWhole',
           VisitorUploads \/ VisitorLeaves \/ Client
    PROVE  [Http!Next]_(Http!vars)
<1> USE ChunksAssumption, Answers
    DEF IInv, TypeOK, ClientInv, ClientOver, Http!Next, Http!asking, Http!seen,
        Http!answering, Http!showing
<1>1. CASE VisitorUploads
  <2>1. Http!Offer
    BY <1>1 DEF VisitorUploads, Http!Offer, down
  <2> QED
    BY <2>1
<1>2. CASE VisitorLeaves
  <2>1. Http!Leave
    BY <1>2 DEF VisitorLeaves, ClientGivesUp, Http!Leave
  <2> QED
    BY <2>1
<1>3. CASE SendHead \/ RelayChunk \/ BodySent \/ ReadHead
  BY <1>3, StutterRefines
     DEF SendHead, RelayChunk, BodySent, ReadHead, up, down
<1>4. CASE ReadChunk
  <2>1. Http!Show
    BY <1>4 DEF ReadChunk, Http!Show, up, WaitInv, PlaceInv
  <2> QED
    BY <2>1
<1>5. CASE ReadEnd /\ got' = "complete"
  <2>1. headSent /\ got = "waiting"
    BY <1>5 DEF ReadEnd, WaitInv, PlaceInv
  <2>2. \/ received = Chunks
        \/ Answer(service) = "crashed" /\ ~(kind.streaming /\ kind.resSized)
    BY <1>5 DEF ReadEnd, CompleteMeansWhole
  <2>3. Http!Succeed
    BY <1>5, <2>1, <2>2 DEF ReadEnd, Http!Succeed
  <2> QED
    BY <2>3
<1>6. CASE ReadEnd /\ got' = "broken"
  <2>1. /\ kind.streaming /\ kind.resSized /\ received < Chunks
        /\ received = carried /\ replyEnd = "finished"
    BY <1>6 DEF ReadEnd
  <2>2. service = "crashed"
    BY <1>6, <2>1 DEF ReadEnd, ReplyInv
  <2>3. Http!Fail
    BY <1>6, <2>2 DEF ReadEnd, Http!Fail
  <2> QED
    BY <2>3
<1>7. CASE ClientFails
  <2>1. \/ link = "lost" \/ service = "crashed" \/ seen = "broken"
        \/ kind.trailers /\ uploaded = Chunks
    BY <1>7 DEF ClientFails, SeenInv, ReplyInv, WaitInv, PlaceInv, EndInv
  <2>2. \/ link = "lost" \/ Answer(service) = "crashed" \/ seen = "broken"
        \/ kind.trailers /\ uploaded = Chunks
    BY <2>1
  <2>3. Http!Fail
    BY <1>7, <2>2 DEF ClientFails, ClientGivesUp, Http!Fail
  <2> QED
    BY <2>3
<1> QED
  BY <1>1, <1>2, <1>3, <1>4, <1>5, <1>6, <1>7 DEF Client, ReadEnd

LEMMA ServiceRefines ==
    ASSUME IInv, WaitInv, Service \/ ServiceCrashes
    PROVE  [Http!Next]_(Http!vars)
<1> USE ChunksAssumption, Answers
    DEF IInv, TypeOK, Http!Next, Http!asking, Http!seen,
        Http!answering, Http!showing
<1>1. CASE ServiceReads
  <2>1. delivered < uploaded
    BY <1>1 DEF ServiceReads
  <2>2. Http!Read
    BY <1>1, <2>1 DEF ServiceReads, Http!Read, down
  <2> QED
    BY <2>2
<1>2. CASE RequestEnds
  <2>1. delivered = Chunks \/ (~kind.sized /\ got \in {"gone", "broken"})
    BY <1>2, ShortForCause DEF RequestEnds
  <2>2. Http!Complete
    BY <1>2, <2>1 DEF RequestEnds, Http!Complete, Http!Unserved, down
  <2> QED
    BY <2>2
<1>3. CASE RequestBreaks \/ ServiceCrashes
  <2>1. Http!Crash
    BY <1>3
       DEF RequestBreaks, ServiceCrashes, ConnectionGone, Http!Crash,
           Http!LeftUnread, down
  <2> QED
    BY <2>1
<1>4. CASE ServiceAnswers
  <2>1. Http!Begin
    BY <1>4 DEF ServiceAnswers, Http!Begin, up, down
  <2> QED
    BY <2>1
<1>5. CASE ServiceProduces
  <2>1. Http!Write
    BY <1>5 DEF ServiceProduces, Http!Write, up
  <2> QED
    BY <2>1
<1>6. CASE ServiceEnds /\ service' = "crashed"
  <2>1. Http!Crash
    BY <1>6 DEF ServiceEnds, Http!Crash, Http!LeftUnread, down
  <2> QED
    BY <2>1
<1>7. CASE ServiceEnds /\ service' = "ended"
  <2>1. produced = Chunks \/ got \in {"gone", "broken"}
    BY <1>7, ShortForCause DEF ServiceEnds
  <2>2. Http!End
    BY <1>7, <2>1
       DEF ServiceEnds, Http!End, Http!Unserved, Http!LeftUnread, down
  <2> QED
    BY <2>2
<1> QED
  BY <1>1, <1>2, <1>3, <1>4, <1>5, <1>6, <1>7 DEF Service, ServiceEnds

LEMMA ServerRefines ==
    ASSUME IInv, WaitInv, Server
    PROVE  [Http!Next]_(Http!vars)
<1> USE Answers
    DEF IInv, TypeOK, Http!Next, Http!asking, Http!seen,
        Http!answering, Http!showing, WaitInv, PlaceInv
<1>1. CASE ForwardHead
  BY <1>1, StutterRefines DEF ForwardHead, up, down
<1>2. CASE CarryHead
  <2>1. Http!SendHead
    BY <1>2 DEF CarryHead, Http!SendHead, up
  <2> QED
    BY <2>1
<1>3. CASE CarryChunk \/ ServerDone
  BY <1>3, StutterRefines DEF CarryChunk, ServerDone, up, down
<1>4. CASE ServerFails /\ service \in {"ended", "crashed"}
  BY <1>4, StutterRefines
     DEF ServerFails, ConnectionGone, EndInv, up, down
<1>5. CASE ServerFails /\ service \notin {"ended", "crashed"}
  <2>1. Http!Crash
    BY <1>5 DEF ServerFails, ConnectionGone, Http!Crash, Http!LeftUnread
  <2> QED
    BY <2>1
<1> QED
  BY <1>1, <1>2, <1>3, <1>4, <1>5 DEF Server

(* What the visitor and the service see of an exchange through the tunnel  *)
(* is an exchange between the two of them (http_to_peer.rs:24-85,          *)
(* peer_to_http.rs:1-105).                                                 *)
THEOREM Refinement == Spec => ImplementsHttp
<1>1. Init => Http!Init
  BY Answers, ExchangesAssumption DEF Init, ExchangeKinds, Http!Init
<1>2. ASSUME IInv, WaitInv, IInv', [Next]_vars
      PROVE  [Http!Next]_(Http!vars)
  <2>1. CASE LinkBreaks
    <3>1. Http!Lose
      BY <2>1
         DEF LinkBreaks, Http!Lose, Http!asking, Http!seen, Http!answering,
             Http!showing, up, down
    <3> QED
      BY <3>1 DEF Http!Next
  <2>2. CASE UNCHANGED vars
    BY <2>2, StutterRefines DEF vars, up, down
  <2>3. CompleteMeansWhole'
    BY <1>2 DEF IInv
  <2> QED
    BY <1>2, <2>1, <2>2, <2>3, ClientRefines, ServiceRefines, ServerRefines
       DEF Next
<1> QED
  BY Invariant, <1>1, <1>2, PTL DEF Spec, ImplementsHttp, Http!Spec
=============================================================================
