--------------------------- MODULE GracefulProofs ---------------------------
(***************************************************************************)
(* Proofs about Graceful, for any commands, connections and bounds.  The   *)
(* inductive invariant is what makes waiting for the tracker enough: a      *)
(* task that can start another one is itself tracked, so the tracker is not *)
(* empty between two tasks of which one starts the other.                   *)
(***************************************************************************)
EXTENDS Graceful, TLAPS

(* Every task of malai that runs is tracked.                               *)
TrackerKnows ==
    /\ listener # "over" => Listener \in tracked
    /\ kind # "kulfi" => \A c \in Conns : Live(c) => Task(c) \in tracked
    /\ \A p \in Peers : manager[p] # "none" => Task(p) \in tracked
    /\ tunnels \subseteq tracked

CountIsKept == Running => ticks <= MaxTicks

IInv == TypeOK /\ TrackerKnows /\ CountIsKept

-----------------------------------------------------------------------------
LEMMA TasksDiffer ==
    /\ Listener \in Tasks
    /\ \A c \in Conns \union Peers :
          /\ Task(c) \in Tasks
          /\ Task(c) # Listener
          /\ \A d \in Conns \union Peers : Task(c) = Task(d) => c = d
    /\ \A t \in Tunnels : /\ t \in Tasks
                          /\ t # Listener
                          /\ \A c \in Conns \union Peers : t # Task(c)
    /\ \A c \in Conns, p \in Peers : Task(c) # Task(p)
<1>1. \A i \in 1 .. Streams : i # 0
  BY BoundsAssumption
<1> QED
  BY <1>1, ConnsAssumption DEF Tasks, Listener, Task, Tunnels

LEMMA InitInv == Init => IInv
<1> SUFFICES ASSUME Init PROVE IInv
  OBVIOUS
<1>1. 0 \in 0 .. (MaxTicks + 1) /\ 0 \in 0 .. Streams /\ 0 \in 0 .. MaxRequests
  BY BoundsAssumption
<1>2. TypeOK
  BY <1>1, TasksDiffer DEF Init, TypeOK
<1>3. TrackerKnows
  BY DEF Init, TrackerKnows, Live
<1>4. CountIsKept
  BY BoundsAssumption DEF Init, CountIsKept
<1> QED
  BY <1>2, <1>3, <1>4 DEF IInv

(* The main task.                                                          *)
LEMMA MainStep ==
    ASSUME IInv,
           \/ FirstCtrlC \/ Disarm \/ SecondCtrlC \/ AllTasksExited
           \/ WaitTimesOut
    PROVE  IInv'
<1> USE BoundsAssumption DEF IInv, TypeOK, TrackerKnows, CountIsKept, Running,
        Exited, Live, tasks, counters
<1>1. CASE FirstCtrlC
  BY <1>1 DEF FirstCtrlC
<1>2. CASE Disarm
  BY <1>2 DEF Disarm
<1>3. CASE SecondCtrlC
  BY <1>3 DEF SecondCtrlC
<1>4. CASE AllTasksExited
  BY <1>4 DEF AllTasksExited
<1>5. CASE WaitTimesOut
  BY <1>5 DEF WaitTimesOut
<1> QED
  BY <1>1, <1>2, <1>3, <1>4, <1>5

(* The listener.                                                           *)
LEMMA ListenerStep ==
    ASSUME IInv,
           \/ Bind \/ BindExits \/ BindPanics \/ ShowInfo \/ StopListening
           \/ StopExposing \/ EndpointCloses \/ AcceptFails
    PROVE  IInv'
<1> USE TasksDiffer DEF IInv, TypeOK, TrackerKnows, CountIsKept, Running,
        Exited, Live, mainVars, tasks, counters
<1>1. CASE Bind
  BY <1>1 DEF Bind
<1>2. CASE BindExits
  BY <1>2 DEF BindExits, ListenerEnds
<1>3. CASE BindPanics
  BY <1>3 DEF BindPanics, ListenerEnds
<1>4. CASE ShowInfo
  BY <1>4 DEF ShowInfo
<1>5. CASE StopListening
  BY <1>5 DEF StopListening, ListenerEnds
<1>6. CASE StopExposing
  BY <1>6 DEF StopExposing
<1>7. CASE EndpointCloses
  BY <1>7 DEF EndpointCloses, ListenerEnds
<1>8. CASE AcceptFails
  BY <1>8 DEF AcceptFails, ListenerEnds
<1> QED
  BY <1>1, <1>2, <1>3, <1>4, <1>5, <1>6, <1>7, <1>8

LEMMA AcceptStep ==
    ASSUME IInv, NEW c \in Conns,
           \/ Accept(c) \/ AcceptTunnel(c) \/ AcceptPeer(c) \/ AcceptControl(c)
    PROVE  IInv'
<1> USE BoundsAssumption, TasksDiffer DEF IInv, TypeOK, TrackerKnows,
        CountIsKept, CanAccept, Running, Exited, Live, mainVars, counters
<1>1. CASE Accept(c)
  BY <1>1 DEF Accept
<1>2. CASE AcceptTunnel(c)
  BY <1>2 DEF AcceptTunnel
<1>3. CASE AcceptPeer(c)
  BY <1>3 DEF AcceptPeer
<1>4. CASE AcceptControl(c)
  BY <1>4 DEF AcceptControl, incr
<1> QED
  BY <1>1, <1>2, <1>3, <1>4

(* A connection that ends leaves the others, and the tunnels, tracked.     *)
LEMMA EndKeepsInv ==
    ASSUME IInv, NEW c \in Conns, ConnEnds(c),
           UNCHANGED <<mainVars, listener, tunnels, manager, served>>,
           inFlight' \in Nat
    PROVE  IInv'
<1> USE BoundsAssumption, TasksDiffer DEF IInv, mainVars
<1>1. TypeOK'
  BY DEF TypeOK, ConnEnds, decr
<1>2. TrackerKnows'
  BY DEF TypeOK, TrackerKnows, ConnEnds, Live
<1>3. CountIsKept'
  BY DEF CountIsKept, Running, Exited
<1> QED
  BY <1>1, <1>2, <1>3

LEMMA AnsweredKeepsInv ==
    ASSUME IInv, NEW c \in Conns, Answered(c), requests[c] > 0,
           UNCHANGED <<mainVars, listener, tunnels, manager, served>>,
           inFlight' \in Nat
    PROVE  IInv'
<1>1. CASE conn[c] = "draining" /\ requests[c] = 1
  BY <1>1, EndKeepsInv DEF Answered
<1>2. CASE ~(conn[c] = "draining" /\ requests[c] = 1)
  <2>1. requests[c] - 1 \in 0 .. Streams
    BY BoundsAssumption DEF IInv, TypeOK
  <2> QED
    BY <1>2, <2>1 DEF Answered, IInv, TypeOK, TrackerKnows, CountIsKept, Live,
       Running, Exited, mainVars
<1> QED
  BY <1>1, <1>2

(* The requests of a connection.                                           *)
LEMMA RequestStep ==
    ASSUME IInv, NEW c \in Conns,
           \/ ControlRequest(c) \/ ControlAnswer(c) \/ ControlPanics(c)
           \/ Request(c) \/ ServeStream(c) \/ Answer(c) \/ RequestFails(c)
    PROVE  IInv'
<1>0. inFlight \in Nat
  BY DEF IInv, TypeOK
<1> USE BoundsAssumption DEF Running, Exited, Live, mainVars, counters
<1>1. CASE ControlRequest(c)
  BY <1>1 DEF ControlRequest, incr, IInv, TypeOK, TrackerKnows, CountIsKept
<1>2. CASE ControlAnswer(c)
  BY <1>0, <1>2, AnsweredKeepsInv DEF ControlAnswer, decr
<1>3. CASE ControlPanics(c)
  BY <1>3 DEF ControlPanics, IInv, TypeOK, TrackerKnows, CountIsKept
<1>4. CASE Request(c)
  <2>1. requests[c] + 1 \in 0 .. Streams
    BY <1>4 DEF Request, IInv, TypeOK
  <2> QED
    BY <1>4, <2>1 DEF Request, IInv, TypeOK, TrackerKnows, CountIsKept
<1>5. CASE ServeStream(c)
  BY <1>5 DEF ServeStream, IInv, TypeOK, TrackerKnows, CountIsKept
<1>6. CASE Answer(c)
  BY <1>0, <1>6, AnsweredKeepsInv DEF Answer
<1>7. CASE RequestFails(c)
  BY <1>0, <1>7, EndKeepsInv DEF RequestFails
<1> QED
  BY <1>1, <1>2, <1>3, <1>4, <1>5, <1>6, <1>7

(* The ends of a connection.                                               *)
LEMMA EndStep ==
    ASSUME IInv, NEW c \in Conns,
           Drain(c) \/ ClientLeaves(c) \/ EndpointGone(c)
    PROVE  IInv'
<1>0. inFlight \in Nat
  BY DEF IInv, TypeOK
<1>1. CASE Drain(c) /\ requests[c] = 0
  BY <1>0, <1>1, EndKeepsInv DEF Drain
<1>2. CASE Drain(c) /\ requests[c] # 0
  BY <1>2 DEF IInv, TypeOK, TrackerKnows, CountIsKept, Drain, Live, Running,
     Exited, mainVars
<1>3. CASE ClientLeaves(c)
  BY <1>0, <1>3, EndKeepsInv DEF ClientLeaves
<1>4. CASE EndpointGone(c)
  BY <1>0, <1>4, EndKeepsInv DEF EndpointGone
<1> QED
  BY <1>1, <1>2, <1>3, <1>4

(* A tunnel is tracked before the connection that spawned it ends.         *)
LEMMA TunnelStep ==
    ASSUME IInv,
           \/ \E c \in Conns : Connect(c) \/ \E i \in 1 .. Streams : SpawnTunnel(c, i)
           \/ \E t \in tunnels : TunnelEnds(t)
    PROVE  IInv'
<1> USE TasksDiffer DEF IInv, TypeOK, TrackerKnows, CountIsKept, Running,
        Exited, Live, mainVars, counters
<1>1. ASSUME NEW c \in Conns, NEW i \in 1 .. Streams, SpawnTunnel(c, i)
      PROVE  IInv'
  <2>1. <<c, i>> \in Tunnels
    BY DEF Tunnels
  <2> QED
    BY <1>1, <2>1 DEF SpawnTunnel
<1>2. ASSUME NEW c \in Conns, Connect(c) PROVE IInv'
  <2>1. <<c, 1>> \in Tunnels
    BY BoundsAssumption DEF Tunnels
  <2> QED
    BY <1>2, <2>1 DEF Connect
<1>3. ASSUME NEW t \in tunnels, TunnelEnds(t) PROVE IInv'
  BY <1>3 DEF TunnelEnds
<1> QED
  BY <1>1, <1>2, <1>3

(* A manager is tracked from its spawn to its return.                      *)
LEMMA ManagerStep ==
    ASSUME IInv, NEW p \in Peers,
           \/ StartManager(p) \/ ManagerTurns(p) \/ ManagerRests(p)
           \/ ManagerReturns(p) \/ ManagerCancelled(p)
    PROVE  IInv'
<1> USE TasksDiffer DEF IInv, TypeOK, TrackerKnows, CountIsKept, Running,
        Exited, Live, mainVars, counters
<1>1. CASE StartManager(p)
  BY <1>1 DEF StartManager
<1>2. CASE ManagerTurns(p)
  BY <1>2 DEF ManagerTurns
<1>3. CASE ManagerRests(p)
  BY <1>3 DEF ManagerRests
<1>4. CASE ManagerEnds(p)
  BY <1>4 DEF ManagerEnds
<1> QED
  BY <1>1, <1>2, <1>3, <1>4 DEF ManagerReturns, ManagerCancelled

LEMMA StepInv == IInv /\ [Next]_vars => IInv'
<1> SUFFICES ASSUME IInv, [Next]_vars PROVE IInv'
  OBVIOUS
<1>1. CASE UNCHANGED vars
  BY <1>1 DEF IInv, TypeOK, TrackerKnows, CountIsKept, Running, Exited, Live,
     vars, mainVars, tasks, counters
<1>2. CASE Next
  BY <1>2, MainStep, ListenerStep, AcceptStep, RequestStep, EndStep, TunnelStep,
     ManagerStep DEF Next
<1> QED
  BY <1>1, <1>2

LEMMA Inductive == Spec => []IInv
  BY InitInv, StepInv, PTL DEF Spec

-----------------------------------------------------------------------------
(* Type correctness, for all constants: the counts of shutdown and of the  *)
(* control server stay in range (graceful.rs:76, counters.rs:15).          *)
THEOREM TypeCorrect == Spec => []TypeOK
<1>1. IInv => TypeOK
  BY DEF IInv
<1> QED
  BY <1>1, Inductive, PTL

(* The tracker is empty only when the listener and every connection, tunnel *)
(* and manager are over, whichever of them ends first: a clean exit cuts    *)
(* nothing (graceful.rs:71).                                                *)
LEMMA CleanStep ==
    IInv /\ CleanExitCutsNothing /\ [Next]_vars => CleanExitCutsNothing'
<1> SUFFICES ASSUME IInv, CleanExitCutsNothing, [Next]_vars
             PROVE  CleanExitCutsNothing'
  OBVIOUS
<1>1. CASE AllTasksExited
  BY <1>1 DEF AllTasksExited, IInv, TrackerKnows, CleanExitCutsNothing, tasks,
     Live
<1>2. CASE UNCHANGED vars
  BY <1>2 DEF CleanExitCutsNothing, vars, mainVars, tasks, Live
<1>3. CASE Next /\ ~AllTasksExited
  <2>1. main' # "clean"
    BY <1>3 DEF Next, FirstCtrlC, Disarm, SecondCtrlC, WaitTimesOut, Bind,
       BindExits, BindPanics, ShowInfo, StopListening, StopExposing,
       EndpointCloses, AcceptFails, CanAccept, Accept, AcceptTunnel, AcceptPeer,
       AcceptControl, ControlRequest, ControlAnswer, ControlPanics, Request,
       ServeStream, Answer, RequestFails, Connect, Drain, ClientLeaves,
       EndpointGone, SpawnTunnel, TunnelEnds, StartManager, ManagerTurns,
       ManagerRests, ManagerReturns, ManagerCancelled, ManagerEnds, Running,
       Exited, Cancelled, mainVars
  <2> QED
    BY <2>1 DEF CleanExitCutsNothing
<1> QED
  BY <1>1, <1>2, <1>3

THEOREM CleanExit == Spec => []CleanExitCutsNothing
<1>1. Init => CleanExitCutsNothing
  BY DEF Init, CleanExitCutsNothing
<1> QED
  BY <1>1, CleanStep, Inductive, PTL DEF Spec

-----------------------------------------------------------------------------
(* The other way round: what is tracked has not ended, and what is left of  *)
(* a connection that drains, or of a tunnel of the tcp bridge, is work.     *)
TrackedRuns ==
    /\ Listener \in tracked => listener # "over"
    /\ \A c \in Conns : Task(c) \in tracked => Live(c)
    /\ \A p \in Peers : Task(p) \in tracked => manager[p] # "none"
    /\ tracked \intersect Tunnels \subseteq tunnels
    /\ kind = "kulfi" => \A c \in Conns : Task(c) \notin tracked

LeftIsWork ==
    /\ \A c \in Conns : conn[c] = "draining" => requests[c] > 0
    /\ kind = "tcp-bridge" => \A c \in Conns : Live(c) => requests[c] = 1

RInv == TrackedRuns /\ LeftIsWork

LEMMA InitRuns == Init => RInv
<1> SUFFICES ASSUME Init PROVE RInv
  OBVIOUS
<1>1. TrackedRuns
  BY TasksDiffer, ConnsAssumption DEF Init, TrackedRuns
<1>2. LeftIsWork
  BY DEF Init, LeftIsWork, Live
<1> QED
  BY <1>1, <1>2 DEF RInv

LEMMA RunsMainListener ==
    ASSUME IInv, RInv,
           \/ FirstCtrlC \/ Disarm \/ SecondCtrlC \/ AllTasksExited
           \/ WaitTimesOut \/ Bind \/ BindExits \/ BindPanics \/ ShowInfo
           \/ StopListening \/ StopExposing \/ EndpointCloses \/ AcceptFails
    PROVE  RInv'
<1> USE TasksDiffer DEF IInv, TypeOK, RInv, TrackedRuns, LeftIsWork, Live,
        mainVars, tasks
<1>1. CASE FirstCtrlC \/ Disarm \/ SecondCtrlC \/ AllTasksExited \/ WaitTimesOut
  BY <1>1 DEF FirstCtrlC, Disarm, SecondCtrlC, AllTasksExited, WaitTimesOut
<1>2. CASE Bind \/ ShowInfo \/ StopExposing
  BY <1>2 DEF Bind, ShowInfo, StopExposing
<1>3. CASE BindExits \/ BindPanics \/ StopListening \/ EndpointCloses \/ AcceptFails
  BY <1>3 DEF BindExits, BindPanics, StopListening, EndpointCloses, AcceptFails,
     ListenerEnds
<1> QED
  BY <1>1, <1>2, <1>3

LEMMA RunsAccept ==
    ASSUME IInv, RInv, NEW c \in Conns,
           \/ Accept(c) \/ AcceptTunnel(c) \/ AcceptPeer(c) \/ AcceptControl(c)
    PROVE  RInv'
<1> USE TasksDiffer DEF IInv, TypeOK, RInv, TrackedRuns, LeftIsWork, Live,
        CanAccept, mainVars, Exposing
<1>1. CASE Accept(c)
  BY <1>1 DEF Accept
<1>2. CASE AcceptTunnel(c)
  BY <1>2 DEF AcceptTunnel
<1>3. CASE AcceptPeer(c)
  BY <1>3 DEF AcceptPeer
<1>4. CASE AcceptControl(c)
  BY <1>4 DEF AcceptControl
<1> QED
  BY <1>1, <1>2, <1>3, <1>4

LEMMA EndKeepsRuns ==
    ASSUME IInv, RInv, NEW c \in Conns, ConnEnds(c),
           UNCHANGED <<mainVars, listener, tunnels, manager>>
    PROVE  RInv'
BY TasksDiffer DEF IInv, TypeOK, RInv, TrackedRuns, LeftIsWork, Live, ConnEnds,
   mainVars

LEMMA AnsweredKeepsRuns ==
    ASSUME IInv, RInv, NEW c \in Conns, Answered(c), requests[c] > 0,
           kind # "tcp-bridge",
           UNCHANGED <<mainVars, listener, tunnels, manager>>
    PROVE  RInv'
<1>1. CASE conn[c] = "draining" /\ requests[c] = 1
  BY <1>1, EndKeepsRuns DEF Answered
<1>2. CASE ~(conn[c] = "draining" /\ requests[c] = 1)
  <2>1. /\ requests' = [requests EXCEPT ![c] = requests[c] - 1]
        /\ UNCHANGED <<conn, tracked>>
    BY <1>2 DEF Answered
  <2>2. conn[c] = "draining" => requests[c] - 1 > 0
    BY <1>2 DEF IInv, TypeOK
  <2>3. LeftIsWork'
    BY <2>1, <2>2 DEF IInv, TypeOK, RInv, LeftIsWork, mainVars
  <2>4. TrackedRuns'
    BY <2>1 DEF RInv, TrackedRuns, Live, mainVars
  <2> QED
    BY <2>3, <2>4 DEF RInv
<1> QED
  BY <1>1, <1>2

LEMMA RunsRequest ==
    ASSUME IInv, RInv, NEW c \in Conns,
           \/ ControlRequest(c) \/ ControlAnswer(c) \/ ControlPanics(c)
           \/ Request(c) \/ ServeStream(c) \/ Answer(c) \/ RequestFails(c)
    PROVE  RInv'
<1>1. CASE ControlRequest(c)
  BY <1>1 DEF ControlRequest, IInv, TypeOK, RInv, TrackedRuns, LeftIsWork, Live,
     mainVars
<1>2. CASE ControlAnswer(c)
  BY <1>2, AnsweredKeepsRuns DEF ControlAnswer
<1>3. CASE ControlPanics(c)
  BY <1>3 DEF ControlPanics, IInv, TypeOK, RInv, TrackedRuns, LeftIsWork, Live,
     mainVars
<1>4. CASE Request(c)
  BY <1>4 DEF Request, IInv, TypeOK, RInv, TrackedRuns, LeftIsWork, Live,
     mainVars
<1>5. CASE ServeStream(c)
  BY <1>5 DEF ServeStream, IInv, TypeOK, RInv, TrackedRuns, LeftIsWork, Live,
     mainVars
<1>6. CASE Answer(c)
  BY <1>6, AnsweredKeepsRuns DEF Answer
<1>7. CASE RequestFails(c)
  BY <1>7, EndKeepsRuns DEF RequestFails
<1> QED
  BY <1>1, <1>2, <1>3, <1>4, <1>5, <1>6, <1>7

LEMMA RunsEnds ==
    ASSUME IInv, RInv, NEW c \in Conns,
           Drain(c) \/ ClientLeaves(c) \/ EndpointGone(c)
    PROVE  RInv'
<1>1. CASE Drain(c) /\ requests[c] = 0
  BY <1>1, EndKeepsRuns DEF Drain
<1>2. CASE Drain(c) /\ requests[c] # 0
  BY <1>2 DEF Drain, IInv, TypeOK, RInv, TrackedRuns, LeftIsWork, Live,
     mainVars, Hyper
<1>3. CASE ClientLeaves(c) \/ EndpointGone(c)
  BY <1>3, EndKeepsRuns DEF ClientLeaves, EndpointGone
<1> QED
  BY <1>1, <1>2, <1>3

LEMMA RunsTunnel ==
    ASSUME IInv, RInv,
           \/ \E c \in Conns : Connect(c) \/ \E i \in 1 .. Streams : SpawnTunnel(c, i)
           \/ \E t \in tunnels : TunnelEnds(t)
    PROVE  RInv'
<1> USE TasksDiffer DEF IInv, TypeOK, RInv, TrackedRuns, LeftIsWork, Live,
        mainVars
<1>1. ASSUME NEW c \in Conns, NEW i \in 1 .. Streams, SpawnTunnel(c, i)
      PROVE  RInv'
  <2>1. <<c, i>> \in Tunnels
    BY DEF Tunnels
  <2> QED
    BY <1>1, <2>1 DEF SpawnTunnel
<1>2. ASSUME NEW c \in Conns, Connect(c) PROVE RInv'
  <2>1. <<c, 1>> \in Tunnels
    BY BoundsAssumption DEF Tunnels
  <2> QED
    BY <1>2, <2>1 DEF Connect
<1>3. ASSUME NEW t \in tunnels, TunnelEnds(t) PROVE RInv'
  BY <1>3 DEF TunnelEnds
<1> QED
  BY <1>1, <1>2, <1>3

LEMMA RunsManager ==
    ASSUME IInv, RInv, NEW p \in Peers,
           \/ StartManager(p) \/ ManagerTurns(p) \/ ManagerRests(p)
           \/ ManagerReturns(p) \/ ManagerCancelled(p)
    PROVE  RInv'
<1> USE TasksDiffer DEF IInv, TypeOK, RInv, TrackedRuns, LeftIsWork, Live,
        mainVars
<1>1. CASE StartManager(p)
  BY <1>1 DEF StartManager
<1>2. CASE ManagerTurns(p) \/ ManagerRests(p)
  BY <1>2 DEF ManagerTurns, ManagerRests
<1>3. CASE ManagerEnds(p)
  BY <1>3 DEF ManagerEnds
<1> QED
  BY <1>1, <1>2, <1>3 DEF ManagerReturns, ManagerCancelled

LEMMA StepRuns == IInv /\ RInv /\ [Next]_vars => RInv'
<1> SUFFICES ASSUME IInv, RInv, [Next]_vars PROVE RInv'
  OBVIOUS
<1>1. CASE UNCHANGED vars
  BY <1>1 DEF RInv, TrackedRuns, LeftIsWork, Live, vars, mainVars, tasks
<1>2. CASE Next
  BY <1>2, RunsMainListener, RunsAccept, RunsRequest, RunsEnds, RunsTunnel,
     RunsManager DEF Next
<1> QED
  BY <1>1, <1>2

(* When nothing can go on by itself and a task is tracked, it works.       *)
LEMMA WhatIsLeft ==
    ASSUME IInv, RInv, ~Prompt
    PROVE  \/ \E c \in Conns : Working(c)
           \/ \E p \in Peers : manager[p] = "busy"
<1>1. PICK t \in Tasks : t \in tracked
  BY DEF Prompt, IInv, TypeOK
<1>2. t # Listener
  BY <1>1 DEF Prompt, RInv, TrackedRuns
<1>3. ASSUME NEW p \in Peers, t = Task(p) PROVE manager[p] = "busy"
  BY <1>1, <1>3 DEF Prompt, IInv, TypeOK, RInv, TrackedRuns
<1>4. ASSUME t \in Tunnels PROVE \E c \in Conns : Working(c)
  <2>1. PICK c \in Conns, i \in 1 .. Streams : t = <<c, i>>
    BY <1>4 DEF Tunnels
  <2> QED
    BY <1>1, <1>4, <2>1 DEF RInv, TrackedRuns, Working
<1>5. ASSUME NEW c \in Conns, t = Task(c) PROVE Working(c)
  <2>1. Live(c) /\ kind # "kulfi"
    BY <1>1, <1>5 DEF RInv, TrackedRuns
  <2>2. requests[c] \in Nat
    BY DEF IInv, TypeOK
  <2>3. kind \in Commands
    BY KindsAssumption DEF IInv, TypeOK
  <2>4. requests[c] > 0
    BY <2>1, <2>2, <2>3
       DEF Prompt, RInv, LeftIsWork, Live, Commands, Hyper, Exposing
  <2> QED
    BY <2>4 DEF Working
<1> QED
  BY <1>1, <1>2, <1>3, <1>4, <1>5 DEF Tasks

LEMMA ForcedStep ==
    IInv /\ RInv /\ ForcedOnlyForWork /\ [Next]_vars => ForcedOnlyForWork'
<1> SUFFICES ASSUME IInv, RInv, ForcedOnlyForWork, [Next]_vars
             PROVE  ForcedOnlyForWork'
  OBVIOUS
<1>1. CASE WaitTimesOut
  BY <1>1, WhatIsLeft DEF WaitTimesOut, ForcedOnlyForWork, Working, tasks
<1>2. CASE UNCHANGED vars
  BY <1>2 DEF ForcedOnlyForWork, Working, vars, mainVars, tasks
<1>3. CASE Next /\ ~WaitTimesOut
  <2>1. main' # "forced"
    BY <1>3 DEF Next, FirstCtrlC, Disarm, SecondCtrlC, AllTasksExited, Bind,
       BindExits, BindPanics, ShowInfo, StopListening, StopExposing,
       EndpointCloses, AcceptFails, CanAccept, Accept, AcceptTunnel, AcceptPeer,
       AcceptControl, ControlRequest, ControlAnswer, ControlPanics, Request,
       ServeStream, Answer, RequestFails, Connect, Drain, ClientLeaves,
       EndpointGone, SpawnTunnel, TunnelEnds, StartManager, ManagerTurns,
       ManagerRests, ManagerReturns, ManagerCancelled, ManagerEnds, Running,
       Exited, Cancelled, mainVars
  <2> QED
    BY <2>1 DEF ForcedOnlyForWork
<1> QED
  BY <1>1, <1>2, <1>3

(* The process gives up waiting only on requests, tunnels and managers that *)
(* the other side keeps busy, for any commands and bounds                   *)
(* (graceful.rs:77).                                                        *)
THEOREM ForcedForWork == Spec => []ForcedOnlyForWork
<1>1. Init => ForcedOnlyForWork
  BY DEF Init, ForcedOnlyForWork
<1> QED
  BY <1>1, InitRuns, StepRuns, ForcedStep, Inductive, PTL DEF Spec
=============================================================================
