--------------------------- MODULE TcpPipeProofs ---------------------------
(***************************************************************************)
(* Proofs about TcpPipe, for any number of chunks.  While nothing is wrong *)
(* each copy that has ended tells why: an end of file goes from one        *)
(* application's socket over the function at its end and the FIN to the    *)
(* spawned task at the other end, and the invariant is that chain.         *)
(***************************************************************************)
EXTENDS TcpPipe, TLAPS

USE DEF CanConnect, CanCopyOut, CanOutEnds, CanOutReturns, CanOutFails,
        CanCopyBack, CanBackEnds, CanBackFails

(* The function at e has read an end of file, and copied all before it.    *)
Done(e) == app[e] = "shut" /\ sent[e] = wrote[e]

Chain ==
    \A e \in Ends :
        /\ out[e] = "refused" => e = "far"
        /\ out[e] = "awaiting" \/ out[e] = "returned" => Done(e)
        /\ finished[e] => Done(e)
        /\ back[e] = "over" => finished[Other(e)] /\ got[e] = sent[Other(e)]

(* In trouble too, a function that has left its copy has told the other    *)
(* end so, if it can be told, and only a connect keeps a copy waiting.     *)
EndsTell ==
    \A e \in Ends :
        /\ out[e] \in {"connecting", "refused"} => e = "far"
        /\ back[e] = "none" <=> out[e] = "connecting"
        /\ link = "up" /\ out[e] \in {"awaiting", "returned", "refused"} =>
              finished[e]

IInv == TypeOK /\ EndsTell /\ (Trouble \/ Chain)

-----------------------------------------------------------------------------
LEMMA OtherEnd ==
    \A e \in Ends : /\ Other(e) \in Ends /\ Other(e) # e
                    /\ Other(Other(e)) = e
                    /\ \A f \in Ends : f = e \/ f = Other(e)
  BY DEF Ends, Other

(* What is wrong stays wrong.                                              *)
LEMMA TroubleStays == TypeOK /\ [Next]_vars /\ Trouble => Trouble'
<1> SUFFICES ASSUME TypeOK, [Next]_vars, Trouble PROVE Trouble'
  OBVIOUS
<1>1. "far" \in Ends
  BY DEF Ends
<1> QED
  BY <1>1 DEF TypeOK, Trouble, Next, vars, Copies, Spawned, AppWrites, AppShuts,
         AppCloses, CopyOut, OutEnds, OutReturns, OutFails, CopyBack,
         BackEnds, BackFails, Connect, ConnectFails, LinkBreaks

LEMMA InitInv == Init => IInv
<1> SUFFICES ASSUME Init PROVE IInv
  OBVIOUS
<1>1. 0 \in 0 .. Chunks
  BY ChunksAssumption
<1>2. TypeOK
  BY <1>1, OtherEnd DEF Init, TypeOK, Ends
<1>3. Chain
  BY OtherEnd DEF Init, Chain, Ends
<1>4. EndsTell
  BY DEF Init, EndsTell, Ends
<1> QED
  BY <1>2, <1>3, <1>4 DEF IInv

LEMMA TypeStep == TypeOK /\ [Next]_vars => TypeOK'
<1> SUFFICES ASSUME TypeOK, [Next]_vars PROVE TypeOK'
  OBVIOUS
<1> USE ChunksAssumption, OtherEnd DEF TypeOK
<1>1. ASSUME NEW e \in Ends, AppWrites(e) PROVE TypeOK'
  BY <1>1 DEF AppWrites
<1>2. ASSUME NEW e \in Ends, AppShuts(e) PROVE TypeOK'
  BY <1>2 DEF AppShuts
<1>3. ASSUME NEW e \in Ends, AppCloses(e) PROVE TypeOK'
  BY <1>3 DEF AppCloses
<1>4. ASSUME NEW e \in Ends, CopyOut(e) PROVE TypeOK'
  BY <1>4 DEF CopyOut
<1>5. ASSUME NEW e \in Ends, OutEnds(e) PROVE TypeOK'
  BY <1>5 DEF OutEnds, Finish
<1>6. ASSUME NEW e \in Ends, OutReturns(e) PROVE TypeOK'
  BY <1>6 DEF OutReturns
<1>7. ASSUME NEW e \in Ends, OutFails(e) PROVE TypeOK'
  BY <1>7 DEF OutFails, Finish
<1>8. ASSUME NEW e \in Ends, CopyBack(e) PROVE TypeOK'
  BY <1>8 DEF CopyBack
<1>9. ASSUME NEW e \in Ends, BackEnds(e) PROVE TypeOK'
  BY <1>9 DEF BackEnds
<1>10. ASSUME NEW e \in Ends, BackFails(e) PROVE TypeOK'
  BY <1>10 DEF BackFails
<1>11. CASE Connect
  BY <1>11 DEF Connect
<1>12. CASE ConnectFails
  BY <1>12 DEF ConnectFails, Finish
<1>13. CASE LinkBreaks
  BY <1>13 DEF LinkBreaks
<1>14. CASE UNCHANGED vars
  BY <1>14 DEF vars
<1> QED
  BY <1>1, <1>2, <1>3, <1>4, <1>5, <1>6, <1>7, <1>8, <1>9, <1>10, <1>11,
     <1>12, <1>13, <1>14 DEF Next, Copies, Spawned

(* Without trouble no copy fails: OutFails needs a RecvStream that was     *)
(* dropped early, which the chain excludes.                                *)
LEMMA ChainStep == TypeOK /\ Chain /\ [Next]_vars => Chain' \/ Trouble'
<1> SUFFICES ASSUME TypeOK, Chain, [Next]_vars, ~Trouble' PROVE Chain'
  OBVIOUS
<1> USE OtherEnd DEF TypeOK, Chain, Done, Trouble
<1>1. ASSUME NEW e \in Ends, AppWrites(e) PROVE Chain'
  BY <1>1 DEF AppWrites
<1>2. ASSUME NEW e \in Ends, AppShuts(e) PROVE Chain'
  BY <1>2 DEF AppShuts
<1>3. ASSUME NEW e \in Ends, AppCloses(e) PROVE Chain'
  BY <1>3 DEF AppCloses
<1>4. ASSUME NEW e \in Ends, CopyOut(e) PROVE Chain'
  BY <1>4 DEF CopyOut, RecvDropped
<1>5. ASSUME NEW e \in Ends, OutEnds(e) PROVE Chain'
  BY <1>5 DEF OutEnds, Finish
<1>6. ASSUME NEW e \in Ends, OutReturns(e) PROVE Chain'
  BY <1>6 DEF OutReturns
<1>7. ASSUME NEW e \in Ends, OutFails(e) PROVE Chain'
  BY <1>7 DEF OutFails, RecvDropped
<1>8. ASSUME NEW e \in Ends, CopyBack(e) PROVE Chain'
  BY <1>8 DEF CopyBack
<1>9. ASSUME NEW e \in Ends, BackEnds(e) PROVE Chain'
  BY <1>9 DEF BackEnds
<1>10. ASSUME NEW e \in Ends, BackFails(e) PROVE Chain'
  BY <1>10 DEF BackFails
<1>11. CASE Connect
  BY <1>11 DEF Connect
<1>12. CASE ConnectFails
  BY <1>12 DEF ConnectFails, Ends
<1>13. CASE LinkBreaks
  BY <1>13 DEF LinkBreaks
<1>14. CASE UNCHANGED vars
  BY <1>14 DEF vars
<1> QED
  BY <1>1, <1>2, <1>3, <1>4, <1>5, <1>6, <1>7, <1>8, <1>9, <1>10, <1>11,
     <1>12, <1>13, <1>14 DEF Next, Copies, Spawned

(* No trouble is needed for this part.                                     *)
LEMMA TellStep == TypeOK /\ EndsTell /\ [Next]_vars => EndsTell'
<1> SUFFICES ASSUME TypeOK, EndsTell, [Next]_vars PROVE EndsTell'
  OBVIOUS
<1> USE OtherEnd DEF TypeOK, EndsTell
<1>1. ASSUME NEW e \in Ends, AppWrites(e) PROVE EndsTell'
  BY <1>1 DEF AppWrites
<1>2. ASSUME NEW e \in Ends, AppShuts(e) PROVE EndsTell'
  BY <1>2 DEF AppShuts
<1>3. ASSUME NEW e \in Ends, AppCloses(e) PROVE EndsTell'
  BY <1>3 DEF AppCloses
<1>4. ASSUME NEW e \in Ends, CopyOut(e) PROVE EndsTell'
  BY <1>4 DEF CopyOut
<1>5. ASSUME NEW e \in Ends, OutEnds(e) PROVE EndsTell'
  <2>1. /\ link = "up" => finished'[e]
        /\ \A f \in Ends : finished[f] => finished'[f]
    BY <1>5 DEF OutEnds, Finish
  <2> QED
    BY <1>5, <2>1 DEF OutEnds
<1>6. ASSUME NEW e \in Ends, OutReturns(e) PROVE EndsTell'
  BY <1>6 DEF OutReturns
<1>7. ASSUME NEW e \in Ends, OutFails(e) PROVE EndsTell'
  <2>1. /\ link = "up" => finished'[e]
        /\ \A f \in Ends : finished[f] => finished'[f]
    BY <1>7 DEF OutFails, Finish
  <2> QED
    BY <1>7, <2>1 DEF OutFails
<1>8. ASSUME NEW e \in Ends, CopyBack(e) PROVE EndsTell'
  BY <1>8 DEF CopyBack
<1>9. ASSUME NEW e \in Ends, BackEnds(e) PROVE EndsTell'
  BY <1>9 DEF BackEnds
<1>10. ASSUME NEW e \in Ends, BackFails(e) PROVE EndsTell'
  BY <1>10 DEF BackFails
<1>11. CASE Connect
  BY <1>11 DEF Connect, Ends
<1>12. CASE ConnectFails
  BY <1>12 DEF ConnectFails, Finish, Ends
<1>13. CASE LinkBreaks
  BY <1>13 DEF LinkBreaks
<1>14. CASE UNCHANGED vars
  BY <1>14 DEF vars
<1> QED
  BY <1>1, <1>2, <1>3, <1>4, <1>5, <1>6, <1>7, <1>8, <1>9, <1>10, <1>11,
     <1>12, <1>13, <1>14 DEF Next, Copies, Spawned

(* Every step takes something off what is left at one of the ends.         *)
LEMMA StepCounts ==
    /\ \A x : AppSteps(x) \in Nat /\ OutSteps(x) \in Nat /\ BackSteps(x) \in Nat
    /\ AppSteps("open") = 2 /\ AppSteps("shut") = 1 /\ AppSteps("closed") = 0
    /\ OutSteps("connecting") = 3 /\ OutSteps("copying") = 2
    /\ OutSteps("awaiting") = 1 /\ OutSteps("returned") = 0
    /\ OutSteps("refused") = 0
    /\ BackSteps("none") = 2 /\ BackSteps("copying") = 1 /\ BackSteps("over") = 0
  BY DEF AppSteps, OutSteps, BackSteps

LEMMA LeftIsNat == TypeOK => \A e \in Ends : Left(e) \in Nat
  BY ChunksAssumption, StepCounts DEF TypeOK, Left

(* At the end e something is done, and at the other end nothing.           *)
DoneAt(e) == Left(e)' < Left(e) /\ Left(Other(e))' = Left(Other(e))

LEMMA ProgressStep ==
    ASSUME TypeOK, TypeOK', EndsTell, Next
    PROVE  Remaining' < Remaining
<1> USE ChunksAssumption, OtherEnd, StepCounts DEF TypeOK, EndsTell
<1>1. ASSUME link' = link, NEW e \in Ends, DoneAt(e)
      PROVE  Remaining' < Remaining
  <2>1. Left(e) \in Nat /\ Left(Other(e)) \in Nat
    BY LeftIsNat
  <2>2. Left(e)' \in Nat /\ Left(Other(e))' \in Nat
    BY DEF Left
  <2> QED
    BY <1>1, <2>1, <2>2 DEF DoneAt, Remaining, Ends, Other
<1>2. ASSUME NEW e \in Ends, AppWrites(e) PROVE DoneAt(e)
  BY <1>2 DEF AppWrites, DoneAt, Left
<1>3. ASSUME NEW e \in Ends, AppShuts(e) PROVE DoneAt(e)
  BY <1>3 DEF AppShuts, DoneAt, Left
<1>4. ASSUME NEW e \in Ends, AppCloses(e) PROVE DoneAt(e)
  BY <1>4 DEF AppCloses, DoneAt, Left
<1>5. ASSUME NEW e \in Ends, CopyOut(e) PROVE DoneAt(e)
  BY <1>5 DEF CopyOut, DoneAt, Left
<1>6. ASSUME NEW e \in Ends, OutEnds(e) PROVE DoneAt(e)
  BY <1>6 DEF OutEnds, DoneAt, Left
<1>7. ASSUME NEW e \in Ends, OutReturns(e) PROVE DoneAt(e)
  BY <1>7 DEF OutReturns, DoneAt, Left
<1>8. ASSUME NEW e \in Ends, OutFails(e) PROVE DoneAt(e)
  BY <1>8 DEF OutFails, DoneAt, Left
<1>9. ASSUME NEW e \in Ends, CopyBack(e) PROVE DoneAt(e)
  BY <1>9 DEF CopyBack, DoneAt, Left
<1>10. ASSUME NEW e \in Ends, BackEnds(e) PROVE DoneAt(e)
  BY <1>10 DEF BackEnds, DoneAt, Left
<1>11. ASSUME NEW e \in Ends, BackFails(e) PROVE DoneAt(e)
  BY <1>11 DEF BackFails, DoneAt, Left
<1>12. CASE Connect
  <2>1. DoneAt("far")
    BY <1>12 DEF Connect, DoneAt, Left, Ends
  <2> QED
    BY <1>1, <1>12, <2>1 DEF Connect, Ends
<1>13. CASE ConnectFails
  <2>1. DoneAt("far")
    BY <1>13 DEF ConnectFails, DoneAt, Left, Ends
  <2> QED
    BY <1>1, <1>13, <2>1 DEF ConnectFails, Ends
<1>14. CASE LinkBreaks
  <2>1. Left("near")' = Left("near") /\ Left("far")' = Left("far")
    BY <1>14 DEF LinkBreaks, Left
  <2>2. Left("near") \in Nat /\ Left("far") \in Nat
    BY LeftIsNat DEF Ends
  <2> QED
    BY <1>14, <2>1, <2>2 DEF LinkBreaks, Remaining
<1>15. ASSUME NEW e \in Ends, AppWrites(e) \/ AppShuts(e) \/ AppCloses(e)
                              \/ Copies(e) \/ Spawned(e)
       PROVE  Remaining' < Remaining
  <2>1. link' = link
    BY <1>15 DEF Copies, Spawned, AppWrites, AppShuts, AppCloses, CopyOut,
                 OutEnds, OutReturns, OutFails, CopyBack, BackEnds, BackFails
  <2>2. DoneAt(e)
    BY <1>2, <1>3, <1>4, <1>5, <1>6, <1>7, <1>8, <1>9, <1>10, <1>11, <1>15
       DEF Copies, Spawned
  <2> QED
    BY <1>1, <2>1, <2>2
<1> QED
  BY <1>12, <1>13, <1>14, <1>15 DEF Next

(* A chunk under way has a copy that can move it.                          *)
LEMMA DataMoves ==
    ASSUME TypeOK, EndsTell, Chain, ~Trouble, NEW e \in Ends,
           got[e] < wrote[Other(e)]
    PROVE  CanCopyOut(Other(e)) \/ CanCopyBack(e) \/ CanConnect
<1> USE OtherEnd DEF TypeOK, EndsTell, Chain, Done, Trouble, RecvDropped
<1>1. CASE sent[Other(e)] < wrote[Other(e)]
  BY <1>1
<1>2. CASE sent[Other(e)] = wrote[Other(e)]
  BY <1>2
<1> QED
  BY <1>1, <1>2, ChunksAssumption

(* Once the applications are done a function that still copies can go on,  *)
(* and so can a spawned task that still copies from one that does not.     *)
LEMMA CopiesEnd ==
    ASSUME TypeOK, EndsTell, ApplicationsDone, ~Over, ~CanConnect
    PROVE  \E e \in Ends : CopyGoesOn(e)
<1> USE OtherEnd, ChunksAssumption DEF TypeOK, EndsTell, RecvDropped
<1>1. ASSUME NEW e \in Ends, out[e] = "copying" PROVE CopyGoesOn(e)
  BY <1>1 DEF ApplicationsDone, CopyGoesOn
<1>2. ASSUME NEW e \in Ends, out[e] # "copying", out[Other(e)] # "copying",
             back[e] = "copying"
      PROVE  CopyGoesOn(e)
  BY <1>2 DEF CopyGoesOn
<1>3. PICK e \in Ends : ~SocketClosed(e) /\ out[e] # "refused"
  BY DEF Over
<1>4. CASE out[e] = "copying" \/ out[Other(e)] = "copying"
  BY <1>1, <1>4
<1>5. CASE out[e] # "copying" /\ out[Other(e)] # "copying"
  <2>1. CASE back[e] = "copying"
    BY <1>2, <1>5, <2>1
  <2>2. CASE back[e] = "over"
    BY <1>3, <1>5, <2>2 DEF SocketClosed, CopyGoesOn
  <2> QED
    BY <1>3, <1>5, <2>1, <2>2
<1> QED
  BY <1>4, <1>5

LEMMA Invariant == Spec => []IInv
<1>1. IInv /\ [Next]_vars => IInv'
  BY TypeStep, TellStep, ChainStep, TroubleStays DEF IInv
<1> QED
  BY InitInv, <1>1, PTL DEF Spec

-----------------------------------------------------------------------------
(* TcpPipe is type correct: nothing is read that was not written.          *)
THEOREM TypeCorrect == Spec => []TypeOK
  BY Invariant, PTL DEF IInv

(* An end of file is never made up, nor early.                             *)
THEOREM EndOfFileMeansAll == Spec => []EndOfFileIsTrue
<1>1. IInv => EndOfFileIsTrue
  BY OtherEnd DEF IInv, TypeOK, Chain, Done, EndOfFileIsTrue, SocketClosed
<1> QED
  BY Invariant, <1>1, PTL

(* Neither direction of a tunnel cuts the other one by ending.             *)
THEOREM HalvesAreIndependent == Spec => []OpenHalfIsNotCut
<1>1. IInv => OpenHalfIsNotCut
  BY OtherEnd DEF IInv, TypeOK, Chain, Done, OpenHalfIsNotCut, RecvDropped,
                  Trouble, Ends
<1> QED
  BY Invariant, <1>1, PTL

(* No copy is stuck: what is under way can move, and once the applications *)
(* are done the copies can end, whatever failed.                           *)
THEOREM CopiesAreNeverStuck == Spec => []NoCopyIsStuck
<1>1. IInv => NoCopyIsStuck
  BY DataMoves, CopiesEnd DEF IInv, NoCopyIsStuck
<1> QED
  BY Invariant, <1>1, PTL

(* And every step takes something off what is left to be done.             *)
THEOREM TunnelWindsDown == Spec => EveryStepIsProgress
<1>1. IInv /\ [Next]_vars =>
          [Remaining' < Remaining /\ Remaining' \in Nat]_vars
  <2> SUFFICES ASSUME IInv, Next
               PROVE  Remaining' < Remaining /\ Remaining' \in Nat
    OBVIOUS
  <2>1. TypeOK'
    BY TypeStep DEF IInv
  <2>2. Remaining' < Remaining
    BY <2>1, ProgressStep DEF IInv
  <2>3. \A e \in Ends : Left(e)' \in Nat
    BY <2>1, ChunksAssumption, StepCounts DEF TypeOK, Left
  <2>4. Remaining' \in Nat
    BY <2>3 DEF Remaining, Ends
  <2> QED
    BY <2>2, <2>4
<1> QED
  BY Invariant, <1>1, PTL DEF Spec, EveryStepIsProgress

-----------------------------------------------------------------------------
(* The tunnel is a TCP connection.                                         *)

(* The part of Duplex that TcpPipe does not name the same.                 *)
Ended(e) == SocketClosed(e)
SameEnds == \A e \in Ends : Ended(e)' = Ended(e)

LEMMA DuplexEnds == Tcp!Ends = Ends /\ \A e \in Ends : Tcp!Other(e) = Other(e)
  BY DEF Tcp!Ends, Ends, Tcp!Other, Other

(* A socket that is closed without trouble is at its end of file.          *)
LEMMA EndIsDue ==
    ASSUME IInv, NEW e \in Ends, back[e] = "over"
    PROVE  Trouble \/ (app[Other(e)] = "shut" /\ got[e] = wrote[Other(e)])
  BY OtherEnd DEF IInv, TypeOK, Chain, Done

LEMMA StutterRefines ==
    ASSUME UNCHANGED <<app, wrote, got>>, SameEnds, Trouble' = Trouble
    PROVE  UNCHANGED Tcp!vars
  BY DEF Tcp!vars, SameEnds, Ended

LEMMA EndRefines ==
    ASSUME IInv, NEW e \in Ends, UNCHANGED <<link, app, wrote, got>>,
           Trouble' = Trouble, ~SocketClosed(e), SocketClosed(e)',
           \A f \in Ends : f # e => Ended(f)' = Ended(f),
           Trouble \/ (app[Other(e)] = "shut" /\ got[e] = wrote[Other(e)])
    PROVE  Tcp!Next
<1>1. Tcp!End(e)
  BY DuplexEnds DEF Tcp!End, Ended, SocketClosed
<1> QED
  BY <1>1, DuplexEnds DEF Tcp!Next

LEMMA StepRefines ==
    ASSUME IInv, IInv', [Next]_vars
    PROVE  [Tcp!Next]_(Tcp!vars)
<1> USE OtherEnd, DuplexEnds DEF IInv, TypeOK
<1>1. ASSUME NEW e \in Ends, AppWrites(e) PROVE Tcp!Next
  <2>1. Trouble' = Trouble /\ SameEnds
    BY <1>1 DEF AppWrites, Trouble, SameEnds, Ended, SocketClosed
  <2>2. Tcp!Say(e)
    BY <1>1, <2>1 DEF AppWrites, Tcp!Say, SameEnds, Ended
  <2> QED
    BY <2>2 DEF Tcp!Next
<1>2. ASSUME NEW e \in Ends, AppShuts(e) PROVE Tcp!Next
  <2>1. Trouble' = Trouble /\ SameEnds
    BY <1>2 DEF AppShuts, Trouble, SameEnds, Ended, SocketClosed
  <2>2. Tcp!Shut(e)
    BY <1>2, <2>1 DEF AppShuts, Tcp!Shut, SameEnds, Ended
  <2> QED
    BY <2>2 DEF Tcp!Next
<1>3. ASSUME NEW e \in Ends, AppCloses(e) PROVE Tcp!Next
  <2>1. Trouble' /\ SameEnds
    BY <1>3 DEF AppCloses, Trouble, SameEnds, Ended, SocketClosed
  <2>2. Tcp!Close(e)
    BY <1>3, <2>1 DEF AppCloses, Tcp!Close, SameEnds, Ended
  <2> QED
    BY <2>2 DEF Tcp!Next
<1>4. ASSUME NEW e \in Ends, CopyOut(e) \/ OutEnds(e)
      PROVE  UNCHANGED Tcp!vars
  <2>1. SameEnds
    BY <1>4 DEF CopyOut, OutEnds, SameEnds, Ended, SocketClosed
  <2>2. Trouble' = Trouble /\ UNCHANGED <<app, wrote, got>>
    BY <1>4 DEF CopyOut, OutEnds, Trouble, Ends
  <2> QED
    BY <2>1, <2>2, StutterRefines
<1>5. ASSUME NEW e \in Ends, OutReturns(e) PROVE Tcp!Next
  <2>1. UNCHANGED <<link, app, wrote, got>> /\ Trouble' = Trouble
    BY <1>5 DEF OutReturns, Trouble
  <2>2. /\ ~SocketClosed(e) /\ SocketClosed(e)'
        /\ \A f \in Ends : f # e => Ended(f)' = Ended(f)
    BY <1>5 DEF OutReturns, SocketClosed, Ended
  <2>3. Trouble \/ (app[Other(e)] = "shut" /\ got[e] = wrote[Other(e)])
    BY <1>5, EndIsDue DEF OutReturns
  <2> QED
    BY <2>1, <2>2, <2>3, EndRefines
<1>6. ASSUME NEW e \in Ends, OutFails(e) PROVE [Tcp!Next]_(Tcp!vars)
  <2>1. UNCHANGED <<link, app, wrote, got>> /\ Trouble' = Trouble
    BY <1>6 DEF OutFails, Trouble
  <2>2. \A f \in Ends : f # e => Ended(f)' = Ended(f)
    BY <1>6 DEF OutFails, SocketClosed, Ended
  <2>3. CASE back[e] = "over"
    <3>1. ~SocketClosed(e) /\ SocketClosed(e)'
      BY <1>6, <2>3 DEF OutFails, SocketClosed
    <3> QED
      BY <2>1, <2>2, <2>3, <3>1, EndIsDue, EndRefines
  <2>4. CASE back[e] # "over"
    <3>1. SameEnds
      BY <1>6, <2>2, <2>4 DEF OutFails, SameEnds, Ended, SocketClosed
    <3> QED
      BY <2>1, <3>1, StutterRefines
  <2> QED
    BY <2>3, <2>4
<1>7. ASSUME NEW e \in Ends, CopyBack(e) PROVE Tcp!Next
  <2>1. Trouble' = Trouble /\ SameEnds
    BY <1>7 DEF CopyBack, Trouble, SameEnds, Ended, SocketClosed
  <2>2. got[e] < wrote[Other(e)]
    BY <1>7, ChunksAssumption DEF CopyBack
  <2>3. Tcp!Hear(e)
    BY <1>7, <2>1, <2>2 DEF CopyBack, Tcp!Hear, SameEnds, Ended, SocketClosed
  <2> QED
    BY <2>3 DEF Tcp!Next
<1>8. ASSUME NEW e \in Ends, BackEnds(e) \/ BackFails(e)
      PROVE  [Tcp!Next]_(Tcp!vars)
  <2>1. UNCHANGED <<link, app, wrote, got>> /\ Trouble' = Trouble
    BY <1>8 DEF BackEnds, BackFails, Trouble
  <2>2. \A f \in Ends : f # e => Ended(f)' = Ended(f)
    BY <1>8 DEF BackEnds, BackFails, SocketClosed, Ended
  <2>3. CASE out[e] = "returned"
    <3>1. ~SocketClosed(e) /\ SocketClosed(e)'
      BY <1>8, <2>3 DEF BackEnds, BackFails, SocketClosed
    <3>2. Trouble \/ (app[Other(e)] = "shut" /\ got[e] = wrote[Other(e)])
      BY <1>8 DEF BackEnds, BackFails, Chain, Done, Trouble
    <3> QED
      BY <2>1, <2>2, <3>1, <3>2, EndRefines
  <2>4. CASE out[e] # "returned"
    <3>1. SameEnds
      BY <1>8, <2>2, <2>4 DEF BackEnds, BackFails, SameEnds, Ended,
                              SocketClosed
    <3> QED
      BY <2>1, <3>1, StutterRefines
  <2> QED
    BY <2>3, <2>4
<1>9. CASE Connect
  <2>1. SameEnds
    BY <1>9 DEF Connect, SameEnds, Ended, SocketClosed
  <2>2. Trouble' = Trouble /\ UNCHANGED <<app, wrote, got>>
    BY <1>9 DEF Connect, Trouble, Ends
  <2> QED
    BY <2>1, <2>2, StutterRefines
<1>10. CASE ConnectFails \/ LinkBreaks
  <2>1. Trouble' /\ SameEnds
    BY <1>10 DEF ConnectFails, LinkBreaks, Trouble, SameEnds, Ended,
                 SocketClosed, Ends
  <2>2. Tcp!Fail
    BY <1>10, <2>1 DEF ConnectFails, LinkBreaks, Tcp!Fail, SameEnds, Ended
  <2> QED
    BY <2>2 DEF Tcp!Next
<1>11. CASE UNCHANGED vars
  <2>1. SameEnds /\ Trouble' = Trouble /\ UNCHANGED <<app, wrote, got>>
    BY <1>11 DEF vars, SameEnds, Ended, SocketClosed, Trouble
  <2> QED
    BY <2>1, StutterRefines
<1> QED
  BY <1>1, <1>2, <1>3, <1>4, <1>5, <1>6, <1>7, <1>8, <1>9, <1>10, <1>11
     DEF Next, Copies, Spawned

(* Whatever the four copies do and whatever fails, the applications see a  *)
(* TCP connection.                                                         *)
THEOREM Refinement == Spec => ImplementsDuplex
<1>1. ASSUME Init PROVE Tcp!Init
  <2>1. Trouble = FALSE
    BY <1>1 DEF Init, Trouble, Ends
  <2>2. \A e \in Ends : SocketClosed(e) = FALSE
    BY <1>1 DEF Init, SocketClosed, Ends
  <2> QED
    BY <1>1, <2>1, <2>2, DuplexEnds DEF Init, Tcp!Init
<1>2. IInv /\ IInv' /\ [Next]_vars => [Tcp!Next]_(Tcp!vars)
  BY StepRefines
<1> QED
  BY Invariant, <1>1, <1>2, PTL DEF Spec, ImplementsDuplex, Tcp!Spec
=============================================================================
