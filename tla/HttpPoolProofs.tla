--------------------------- MODULE HttpPoolProofs ---------------------------
(* What holds of the pooled connections to a service, for any requests,    *)
(* pools, connections and limits: the types, that no answer goes astray,   *)
(* that no connection is lost, and how many there are.                     *)
EXTENDS HttpPool, FiniteSetTheorems, TLAPS

(* The exchange of a connection: whose it is, and who has the connection.  *)
Carries ==
    \A c \in Conns :
        IF exchange[c] = None
          THEN st[c] \notin {"head", "body"}
          ELSE /\ st[c] \in {"head", "body"}
               /\ pc[exchange[c]] = st[c]
               /\ reply[exchange[c]] \in Replies[exchange[c]]
               /\ st[c] = "body" => ~reply[exchange[c]].refused
               /\ \A d \in Conns : exchange[d] = exchange[c] => d = c
               /\ conn[exchange[c]] =
                     IF st[c] = "body" /\ kind[exchange[c]] = "proxy"
                       THEN None ELSE c

(* A request that waits has an exchange, one about to send a connection,   *)
(* and no other has either.                                                *)
Waits ==
    \A u \in Users :
        /\ pc[u] \in {"head", "body"} => \E c \in Conns : exchange[c] = u
        /\ pc[u] = "send" => conn[u] # None
        /\ conn[u] # None => pc[u] \in {"send", "head", "body"}

(* A connection is idle or in one request's hands, and none is either that *)
(* does not exist.                                                         *)
Kept ==
    \A c \in Conns :
        /\ st[c] # "none" => (c \in idle <=> \A u \in Users : conn[u] # c)
        /\ st[c] = "none" => c \notin idle /\ \A u \in Users : conn[u] # c
        /\ \A u, v \in Users : conn[u] = c /\ conn[v] = c => u = v

Inv == TypeOK /\ Carries /\ Waits /\ Kept

Statuses == {"none", "ready", "head", "body", "resting", "doomed", "closed"}

USE NoneAssumption DEF users, Goto, Statuses

LEMMA InvInit == Init => Inv
BY DEF Init, Inv, TypeOK, Carries, Waits, Kept

(* What giving a connection back does: a request that has none changes     *)
(* nothing; else its connection is idle, or has ended.                     *)
LEMMA GivenBack ==
    ASSUME Inv, NEW u \in Users, NEW status \in [Conns -> Statuses],
           GiveBack(u, status),
           \A c \in Conns : status[c] = "none" <=> st[c] = "none"
    PROVE  /\ st' \in [Conns -> Statuses]
           /\ idle' \in SUBSET Conns
           /\ \A d \in Conns : d # conn[u] =>
                 st'[d] = status[d] /\ (d \in idle' <=> d \in idle)
           /\ conn[u] # None =>
                 IF status[conn[u]] = "closed"
                   THEN st'[conn[u]] = "none" /\ conn[u] \notin idle'
                   ELSE /\ st'[conn[u]] = status[conn[u]]
                        /\ conn[u] \in idle'
<1> USE DEF Inv, TypeOK, Kept, GiveBack
<1>1. CASE conn[u] = None
    BY <1>1
<1>2. CASE conn[u] # None
    <2>1. conn[u] \in Conns /\ conn[u] \notin idle
        BY <1>2
    <2> QED
        BY <1>2, <2>1
<1> QED
    BY <1>1, <1>2

(* The map of pools and the wait for a connection touch no exchange.       *)
LEMMA LookupKeeps ==
    ASSUME Inv, NEW u \in Users,
           Arrive(u) \/ GetPool(u) \/ FindPool(u) \/ BuildPool(u)
             \/ InsertPool(u)
    PROVE  Inv'
<1> USE DEF Inv, Arrive, GetPool, FindPool, BuildPool, InsertPool
<1>1. TypeOK'
    BY DEF TypeOK
<1>2. pc'[u] \notin {"send", "head", "body"} /\ pc[u] \notin {"send", "head", "body"}
    BY DEF TypeOK
<1>3. Carries'
    BY <1>2 DEF TypeOK, Carries
<1>4. Waits'
    BY <1>2 DEF TypeOK, Waits
<1>5. Kept'
    BY DEF TypeOK, Kept
<1> QED
    BY <1>1, <1>3, <1>4, <1>5

LEMMA GetKeeps ==
    ASSUME Inv, NEW c \in Conns,
           Connect(c) \/ \E u \in Users : DiscardClosed(u, c) \/ CheckOut(u, c)
    PROVE  Inv'
<1> USE DEF Inv
<1>1. CASE Connect(c)
    <2>1. TypeOK'
        BY <1>1 DEF Connect, TypeOK
    <2>2. Carries'
        BY <1>1 DEF Connect, TypeOK, Carries
    <2>3. Waits'
        BY <1>1 DEF Connect, TypeOK, Waits
    <2>4. Kept'
        BY <1>1 DEF Connect, TypeOK, Kept
    <2> QED
        BY <2>1, <2>2, <2>3, <2>4
<1>2. ASSUME NEW u \in Users, DiscardClosed(u, c) PROVE Inv'
    <2>1. TypeOK'
        BY <1>2 DEF DiscardClosed, TypeOK
    <2>2. Carries'
        BY <1>2 DEF DiscardClosed, TypeOK, Carries
    <2>3. Waits'
        BY <1>2 DEF DiscardClosed, TypeOK, Waits
    <2>4. Kept'
        BY <1>2 DEF DiscardClosed, TypeOK, Kept
    <2> QED
        BY <2>1, <2>2, <2>3, <2>4
<1>3. ASSUME NEW u \in Users, CheckOut(u, c) PROVE Inv'
    <2>1. TypeOK'
        BY <1>3 DEF CheckOut, TypeOK
    <2>2. conn[u] = None /\ \A d \in Conns : exchange[d] # u
        BY <1>3 DEF CheckOut, TypeOK, Carries, Waits
    <2>3. Carries'
        BY <1>3, <2>2 DEF CheckOut, TypeOK, Carries
    <2>4. Waits'
        BY <1>3 DEF CheckOut, TypeOK, Waits
    <2>5. Kept'
        BY <1>3, <2>2 DEF CheckOut, TypeOK, Kept
    <2> QED
        BY <2>1, <2>3, <2>4, <2>5
<1> QED
    BY <1>1, <1>2, <1>3

LEMMA SomeReply == \A u \in Users : Replies[u] \subseteq AnyReply
BY DEF AnyReply

LEMMA SendKeeps ==
    ASSUME Inv, NEW u \in Users, Send(u)
    PROVE  Inv'
<1> USE DEF Inv, Send
<1>1. /\ conn[u] \in Conns
      /\ exchange[conn[u]] = None
      /\ \A d \in Conns : exchange[d] # u
    BY DEF TypeOK, Carries, Waits
<1>2. TypeOK'
    BY <1>1, SomeReply DEF TypeOK
<1>3. Carries'
    BY <1>1 DEF TypeOK, Carries, Kept
<1>4. Waits'
    BY <1>1 DEF TypeOK, Waits
<1>5. Kept'
    BY <1>1 DEF TypeOK, Kept
<1> QED
    BY <1>2, <1>3, <1>4, <1>5

(* A request that is over leaves its connection as GiveBack does: what     *)
(* makes no exchange out of nothing and ends the request's own keeps all.  *)
LEMMA OverKeeps ==
    ASSUME Inv, NEW u \in Users, NEW status \in [Conns -> Statuses],
           Finish(u), GiveBack(u, status), UNCHANGED <<registered, owner>>,
           exchange' = [c \in Conns |-> IF exchange[c] = u THEN None
                                                          ELSE exchange[c]],
           \A c \in Conns : exchange[c] # u => status[c] = st[c],
           \A c \in Conns : exchange[c] = u =>
                              status[c] \in {"resting", "doomed"}
    PROVE  Inv'
<1> USE DEF Inv
<1>1. \A c \in Conns : status[c] = "none" <=> st[c] = "none"
    BY DEF Carries
<1>2. /\ st' \in [Conns -> Statuses]
      /\ idle' \in SUBSET Conns
      /\ \A d \in Conns : d # conn[u] =>
            st'[d] = status[d] /\ (d \in idle' <=> d \in idle)
      /\ conn[u] # None =>
            IF status[conn[u]] = "closed"
              THEN st'[conn[u]] = "none" /\ conn[u] \notin idle'
              ELSE /\ st'[conn[u]] = status[conn[u]]
                   /\ conn[u] \in idle'
    BY <1>1, GivenBack
<1>3. TypeOK'
    BY <1>2 DEF TypeOK, Finish
<1>4. \A c \in Conns : exchange[c] \notin {u, None} => st'[c] = st[c]
    BY <1>2 DEF Carries
<1>5. Carries'
    <2> SUFFICES ASSUME NEW c \in Conns
                 PROVE  IF exchange'[c] = None
                          THEN st'[c] \notin {"head", "body"}
                          ELSE /\ st'[c] \in {"head", "body"}
                               /\ pc'[exchange'[c]] = st'[c]
                               /\ reply'[exchange'[c]]
                                     \in Replies[exchange'[c]]
                               /\ st'[c] = "body" =>
                                     ~reply'[exchange'[c]].refused
                               /\ \A d \in Conns :
                                     exchange'[d] = exchange'[c] => d = c
                               /\ conn'[exchange'[c]] =
                                     IF /\ st'[c] = "body"
                                        /\ kind'[exchange'[c]] = "proxy"
                                       THEN None ELSE c
        BY DEF Carries
    <2>1. CASE exchange[c] \in {u, None}
        <3>1. exchange'[c] = None /\ status[c] \notin {"head", "body"}
            BY <2>1 DEF Carries
        <3>2. st'[c] \in {status[c], "none"}
            BY <1>2
        <3> QED
            BY <3>1, <3>2
    <2>2. CASE exchange[c] \notin {u, None}
        <3>1. exchange'[c] = exchange[c] /\ st'[c] = st[c]
            BY <1>4, <2>2
        <3>2. /\ exchange[c] \in Users
              /\ pc'[exchange[c]] = pc[exchange[c]]
              /\ conn'[exchange[c]] = conn[exchange[c]]
              /\ reply'[exchange[c]] = reply[exchange[c]]
              /\ kind' = kind
            BY <2>2 DEF Finish, TypeOK
        <3>3. \A d \in Conns : exchange'[d] = exchange[c] => d = c
            BY <2>2 DEF Carries
        <3> QED
            BY <2>2, <3>1, <3>2, <3>3 DEF Carries
    <2> QED
        BY <2>1, <2>2
<1>6. Waits'
    BY DEF TypeOK, Waits, Finish
<1>7. Kept'
    <2> SUFFICES ASSUME NEW c \in Conns
                 PROVE  /\ st'[c] # "none" =>
                            (c \in idle' <=> \A v \in Users : conn'[v] # c)
                        /\ st'[c] = "none" =>
                            c \notin idle' /\ \A v \in Users : conn'[v] # c
                        /\ \A v, w \in Users :
                              conn'[v] = c /\ conn'[w] = c => v = w
        BY DEF Kept
    <2>1. \A v \in Users : conn'[v] = IF v = u THEN None ELSE conn[v]
        BY DEF Finish, TypeOK
    <2>2. CASE c = conn[u]
        <3>1. \A v \in Users : conn'[v] # c
            BY <2>1, <2>2 DEF Kept, TypeOK
        <3>2. conn[u] # None
            BY <2>2
        <3>3. st[c] # "none"
            BY <2>2 DEF Kept
        <3>4. status[c] # "none"
            BY <1>1, <3>3
        <3> QED
            BY <1>2, <2>2, <3>1, <3>2, <3>4
    <2>3. CASE c # conn[u]
        <3>1. st'[c] = status[c] /\ (c \in idle' <=> c \in idle)
            BY <1>2, <2>3
        <3>2. \A v \in Users : conn'[v] = c <=> conn[v] = c
            BY <2>1, <2>3
        <3> QED
            BY <1>1, <3>1, <3>2 DEF Kept
    <2> QED
        BY <2>2, <2>3
<1> QED
    BY <1>3, <1>5, <1>6, <1>7

LEMMA EndsKeep ==
    ASSUME Inv, NEW u \in Users, SendFails(u) \/ Leave(u)
    PROVE  Inv'
<1> USE DEF Inv
<1>1. CASE SendFails(u)
    <2>1. \A c \in Conns : exchange[c] # u
        BY <1>1 DEF SendFails, TypeOK, Carries
    <2>2. exchange' = [c \in Conns |-> IF exchange[c] = u THEN None
                                                        ELSE exchange[c]]
        BY <1>1, <2>1 DEF SendFails, TypeOK
    <2>3. st \in [Conns -> Statuses]
        BY DEF TypeOK
    <2> QED
        BY <1>1, <2>1, <2>2, <2>3, OverKeeps DEF SendFails
<1>2. CASE Leave(u)
    <2> DEFINE left == {c \in Conns : exchange[c] = u}
               status == [c \in Conns |-> IF c \in left THEN "doomed"
                                                       ELSE st[c]]
    <2>1. status \in [Conns -> Statuses]
        BY DEF TypeOK
    <2>2. exchange' = [c \in Conns |-> IF exchange[c] = u THEN None
                                                        ELSE exchange[c]]
        BY <1>2 DEF Leave
    <2>3. \A c \in Conns : exchange[c] # u => status[c] = st[c]
        OBVIOUS
    <2>4. \A c \in Conns : exchange[c] = u => status[c] = "doomed"
        OBVIOUS
    <2>5. Finish(u) /\ GiveBack(u, status) /\ UNCHANGED <<registered, owner>>
        BY <1>2 DEF Leave
    <2> HIDE DEF status
    <2> QED
        BY <2>1, <2>2, <2>3, <2>4, <2>5, OverKeeps
<1> QED
    BY <1>1, <1>2

(* The end of an exchange, told by its connection.                         *)
LEMMA ExchangeEnds ==
    ASSUME Inv, NEW c \in Conns, BodyEnds(c) \/ Cut(c)
    PROVE  Inv'
<1> USE DEF Inv
<1> DEFINE u == exchange[c]
           to == IF BodyEnds(c) THEN "resting" ELSE "doomed"
           status(s) == [st EXCEPT ![c] = s]
<1>1. u \in Users /\ \A d \in Conns : exchange[d] = u => d = c
    BY DEF BodyEnds, Cut, TypeOK, Carries
<1>2. exchange' = [d \in Conns |-> IF exchange[d] = u THEN None
                                                    ELSE exchange[d]]
    <2>1. exchange' = [exchange EXCEPT ![c] = None]
        BY DEF BodyEnds, Cut
    <2> QED
        BY <1>1, <2>1 DEF TypeOK
<1>3. PICK s \in {"resting", "doomed"} :
        /\ Finish(u) /\ GiveBack(u, status(s))
        /\ UNCHANGED <<registered, owner>>
    BY DEF BodyEnds, Cut
<1>4. status(s) \in [Conns -> Statuses]
    BY DEF TypeOK
<1>5. \A d \in Conns : exchange[d] # u => status(s)[d] = st[d]
    BY DEF TypeOK
<1>6. \A d \in Conns : exchange[d] = u => status(s)[d] = s
    BY <1>1 DEF TypeOK
<1> HIDE DEF u, status
<1> QED
    BY <1>1, <1>2, <1>3, <1>4, <1>5, <1>6, OverKeeps

LEMMA HeadKeeps ==
    ASSUME Inv, NEW c \in Conns, Head(c)
    PROVE  Inv'
<1> USE DEF Inv
<1> DEFINE u == exchange[c]
           on == [st EXCEPT ![c] = "body"]
<1>1. /\ u \in Users /\ conn[u] = c /\ pc[u] = "head" /\ st[c] = "head"
      /\ reply[u] \in Replies[u] /\ ~reply[u].refused
      /\ \A d \in Conns : exchange[d] = u => d = c
    BY DEF Head, TypeOK, Carries
<1>2. on \in [Conns -> Statuses]
    BY DEF TypeOK
<1>3. CASE kind[u] = "tunnel"
    <2>1. /\ st' = on /\ pc' = [pc EXCEPT ![u] = "body"]
          /\ UNCHANGED <<kind, pool, conn, reply, registered, owner,
                         exchange, idle>>
        BY <1>3 DEF Head
    <2>2. TypeOK'
        BY <1>2, <2>1 DEF TypeOK
    <2>3. Carries'
        BY <1>1, <1>3, <2>1 DEF TypeOK, Carries
    <2>4. Waits'
        BY <1>1, <2>1 DEF TypeOK, Waits
    <2>5. Kept'
        BY <1>1, <2>1 DEF TypeOK, Kept
    <2> QED
        BY <2>2, <2>3, <2>4, <2>5
<1>4. CASE kind[u] = "proxy"
    <2>1. /\ GiveBack(u, on) /\ pc' = [pc EXCEPT ![u] = "body"]
          /\ conn' = [conn EXCEPT ![u] = None]
          /\ pool' = [pool EXCEPT ![u] = None]
          /\ UNCHANGED <<kind, reply, registered, owner, exchange>>
        BY <1>4 DEF Head
    <2>2. \A d \in Conns : on[d] = IF d = c THEN "body" ELSE st[d]
        BY DEF TypeOK
    <2>3. st' = on /\ idle' = idle \cup {c}
        BY <1>1, <2>1, <2>2 DEF GiveBack
    <2> HIDE DEF on
    <2>4. TypeOK'
        BY <1>1, <1>2, <2>1, <2>3 DEF TypeOK
    <2>5. Carries'
        BY <1>1, <1>4, <2>1, <2>2, <2>3 DEF TypeOK, Carries
    <2>6. Waits'
        BY <1>1, <2>1 DEF TypeOK, Waits
    <2>7. Kept'
        BY <1>1, <2>1, <2>2, <2>3 DEF TypeOK, Kept
    <2> QED
        BY <2>4, <2>5, <2>6, <2>7
<1> QED
    BY <1>1, <1>3, <1>4 DEF TypeOK

(* What a connection's task, bb8 or the service does to one that carries   *)
(* nothing.                                                                *)
LEMMA TasksKeep ==
    ASSUME Inv, NEW c \in Conns,
           Rests(c) \/ Closes(c) \/ ServiceCloses(c) \/ Orphaned(c)
             \/ Reaped(c)
    PROVE  Inv'
<1> USE DEF Inv, Rests, Closes, ServiceCloses, Becomes, Orphaned, Reaped
<1>1. st[c] \notin {"head", "body"} /\ exchange[c] = None
    BY DEF Carries
<1>2. TypeOK'
    BY DEF TypeOK
<1>3. Carries'
    BY <1>1 DEF TypeOK, Carries
<1>4. Waits'
    BY DEF TypeOK, Waits
<1>5. Kept'
    BY DEF TypeOK, Kept
<1> QED
    BY <1>2, <1>3, <1>4, <1>5

LEMMA InvNext == Inv /\ [Next]_vars => Inv'
<1> SUFFICES ASSUME Inv, [Next]_vars PROVE Inv'
    OBVIOUS
<1>1. ASSUME NEW u \in Users, Arrive(u) \/ Task(u) \/ GetTimesOut(u) \/ Leave(u)
      PROVE  Inv'
    <2>1. CASE GetTimesOut(u)
        <3>1. conn[u] = None /\ \A c \in Conns : exchange[c] # u
            BY <2>1 DEF GetTimesOut, Inv, TypeOK, Carries, Waits
        <3>2. conn' = conn
            BY <2>1, <3>1 DEF GetTimesOut, Finish, Inv, TypeOK
        <3>3. TypeOK'
            BY <2>1 DEF GetTimesOut, Finish, Inv, TypeOK
        <3>4. Carries'
            BY <2>1, <3>1, <3>2 DEF GetTimesOut, Finish, Inv, TypeOK, Carries
        <3>5. Waits'
            BY <2>1, <3>1, <3>2 DEF GetTimesOut, Finish, Inv, TypeOK, Waits
        <3>6. Kept'
            BY <2>1, <3>2 DEF GetTimesOut, Inv, Kept
        <3> QED
            BY <3>3, <3>4, <3>5, <3>6 DEF Inv
    <2> QED
        BY <1>1, <2>1, LookupKeeps, GetKeeps, SendKeeps, EndsKeep DEF Task
<1>2. ASSUME NEW c \in Conns, Connect(c) \/ Conn(c) \/ Cut(c)
                               \/ ServiceCloses(c) \/ Reaped(c)
      PROVE  Inv'
    BY <1>2, GetKeeps, HeadKeeps, ExchangeEnds, TasksKeep DEF Conn, CutShort
<1>3. CASE UNCHANGED vars
    BY <1>3 DEF vars, Inv, TypeOK, Carries, Waits, Kept
<1> QED
    BY <1>1, <1>2, <1>3 DEF Next

LEMMA Invariance == Spec => []Inv
BY InvInit, InvNext, PTL DEF Spec

(* The types, for any number of requests, pools and connections.           *)
THEOREM PoolTypes == Spec => []TypeOK
BY Invariance, PTL DEF Inv

(* No answer reaches a request it was not meant for, however many requests *)
(* find a connection that still carries one (proxy_pass.rs:32-47).         *)
THEOREM NoStrayAnswer == Spec => []AnswerIsForItsRequest
<1>1. Inv => AnswerIsForItsRequest
    BY DEF Inv, TypeOK, Carries, Waits, AnswerIsForItsRequest
<1> QED
    BY <1>1, Invariance, PTL

(* A connection that is idle and carries an answer was lent by proxy_pass  *)
(* (peer_to_http.rs:44-95).                                                *)
THEOREM ProxiesLend == Spec => []OnlyProxiesLendBusyConnections
<1>1. Inv => OnlyProxiesLendBusyConnections
    BY DEF Inv, TypeOK, Carries, Kept, OnlyProxiesLendBusyConnections
<1> QED
    BY <1>1, Invariance, PTL

(* However exchanges fail, a connection is idle in its pool or in one      *)
(* request's hands (http_connection_manager.rs:44-66).                     *)
THEOREM NoConnectionLost == Spec => []ConnectionsAreAccountedFor
<1>1. Inv => ConnectionsAreAccountedFor
    BY DEF Inv, Kept, ConnectionsAreAccountedFor
<1> QED
    BY <1>1, Invariance, PTL

-----------------------------------------------------------------------------
(* How many connections there are, and of which pools.                     *)

Alive == {c \in Conns : st[c] # "none"}
OfPool(p) == {c \in Conns : st[c] # "none" /\ owner[c] = p}
Tunnels == \A u \in Users : kind[u] = "tunnel"

(* A request uses connections of its own pool, and a pool's limit holds of *)
(* all that belong to it, lent ones included.                              *)
Pooled ==
    /\ \A u \in Users :
          /\ conn[u] # None => pool[u] = owner[conn[u]]
          /\ pc[u] \in {"insert", "get"} => pool[u] \in Pools
    /\ \A c \in Conns : st[c] # "none" => owner[c] \in Pools
    /\ \A p \in Pools : Size(p) <= MaxSize

(* Without find_pool all that is in use is of the pool in the map.         *)
Shared ==
    Tunnels =>
        /\ \A u \in Users : pc[u] \notin {"build", "insert"}
                              /\ pool[u] \in {None, registered}
        /\ \A c \in Conns : st[c] # "none" => owner[c] = registered

LEMMA SizeIs == \A p : Size(p) = Cardinality(OfPool(p))
BY DEF Size, OfPool

LEMMA Finiteness ==
    \A S \in SUBSET Conns : IsFiniteSet(S) /\ Cardinality(S) \in Nat
BY FiniteAssumption, FS_Subset, FS_CardinalityType

LEMMA PooledInit == Init => Pooled /\ Shared
<1> SUFFICES ASSUME Init PROVE Pooled /\ Shared
    OBVIOUS
<1>1. \A p \in Pools : OfPool(p) = {}
    BY DEF Init, OfPool
<1>2. \A p \in Pools : Size(p) <= MaxSize
    BY <1>1, SizeIs, FS_EmptySet, MaxSizeAssumption
<1> QED
    BY <1>2 DEF Init, Pooled, Shared, Tunnels

(* A step that neither opens a connection nor hands one to another pool    *)
(* makes no pool larger.                                                   *)
LEMMA NoneOpened ==
    ASSUME Pooled, UNCHANGED owner,
           \A c \in Conns : st'[c] # "none" => st[c] # "none"
    PROVE  /\ \A c \in Conns : st'[c] # "none" => owner'[c] \in Pools
           /\ \A p \in Pools : Size(p)' <= MaxSize
<1>1. ASSUME NEW p \in Pools PROVE Size(p)' <= MaxSize
    <2>1. OfPool(p)' \subseteq OfPool(p)
        BY DEF OfPool
    <2>2. OfPool(p) \in SUBSET Conns /\ OfPool(p)' \in SUBSET Conns
        BY DEF OfPool
    <2>3. Cardinality(OfPool(p)') <= Cardinality(OfPool(p))
        BY <2>1, <2>2, Finiteness, FS_Subset
    <2>4. Size(p) = Cardinality(OfPool(p)) /\ Size(p)' = Cardinality(OfPool(p)')
        BY DEF Size, OfPool
    <2> QED
        BY <2>2, <2>3, <2>4, Finiteness, MaxSizeAssumption DEF Pooled
<1> QED
    BY <1>1 DEF Pooled

LEMMA PooledConnect ==
    ASSUME Inv, Pooled, Shared, NEW c \in Conns, Connect(c)
    PROVE  Pooled' /\ Shared'
<1> USE DEF Inv, TypeOK
<1>1. PICK u \in Users :
        /\ pc[u] = "get" /\ Size(pool[u]) < MaxSize
        /\ owner' = [owner EXCEPT ![c] = pool[u]]
    BY DEF Connect
<1>2. /\ st[c] = "none" /\ st' = [st EXCEPT ![c] = "ready"]
      /\ UNCHANGED <<users, registered>>
    BY DEF Connect
<1>3. pool[u] \in Pools
    BY <1>1 DEF Pooled
<1>4. \A v \in Users : conn[v] # c
    BY <1>2 DEF Kept
<1>5. \A v \in Users : conn'[v] # None => pool'[v] = owner'[conn'[v]]
    BY <1>1, <1>2, <1>4 DEF Pooled
<1>6. \A d \in Conns : st'[d] # "none" => owner'[d] \in Pools
    BY <1>1, <1>2, <1>3 DEF Pooled
<1>7. ASSUME NEW p \in Pools PROVE Size(p)' <= MaxSize
    <2>1. Size(p) = Cardinality(OfPool(p)) /\ Size(p)' = Cardinality(OfPool(p)')
        BY DEF Size, OfPool
    <2>2. OfPool(p) \in SUBSET Conns /\ c \notin OfPool(p)
        BY <1>2 DEF OfPool
    <2>3. CASE p = pool[u]
        <3>1. OfPool(p)' = OfPool(p) \cup {c}
            BY <1>1, <1>2, <2>3 DEF OfPool
        <3>2. Cardinality(OfPool(p) \cup {c}) = Cardinality(OfPool(p)) + 1
            BY <2>2, Finiteness, FS_AddElement
        <3>3. Cardinality(OfPool(p)) < MaxSize
            BY <1>1, <2>1, <2>3
        <3> QED
            BY <2>1, <2>2, <3>1, <3>2, <3>3, Finiteness, MaxSizeAssumption
    <2>4. CASE p # pool[u]
        <3>1. OfPool(p)' = OfPool(p)
            BY <1>1, <1>2, <2>4 DEF OfPool
        <3> QED
            BY <2>1, <3>1 DEF Pooled
    <2> QED
        BY <2>3, <2>4
<1>8. Pooled'
    BY <1>2, <1>5, <1>6, <1>7 DEF Pooled
<1>9. Shared'
    <2> SUFFICES ASSUME Tunnels'
                 PROVE  /\ \A v \in Users :
                              pc'[v] \notin {"build", "insert"}
                              /\ pool'[v] \in {None, registered'}
                        /\ \A d \in Conns :
                              st'[d] # "none" => owner'[d] = registered'
        BY DEF Shared
    <2>1. Tunnels
        BY <1>2 DEF Tunnels
    <2>2. pool[u] = registered
        BY <1>3, <2>1 DEF Shared
    <2> QED
        BY <1>1, <1>2, <2>1, <2>2 DEF Shared
<1> QED
    BY <1>8, <1>9

LEMMA PooledLookup ==
    ASSUME Inv, Pooled, Shared, NEW u \in Users,
           Arrive(u) \/ GetPool(u) \/ FindPool(u) \/ BuildPool(u)
             \/ InsertPool(u)
    PROVE  Pooled' /\ Shared'
<1> USE DEF Inv, TypeOK, Arrive, GetPool, FindPool, BuildPool, InsertPool
<1>1. UNCHANGED <<kind, conn, st, owner>> /\ conn[u] = None
    BY DEF Waits
<1>2. /\ \A c \in Conns : st'[c] # "none" => owner'[c] \in Pools
      /\ \A p \in Pools : Size(p)' <= MaxSize
    BY <1>1, NoneOpened
<1>3. \A v \in Users : v # u => pc'[v] = pc[v] /\ pool'[v] = pool[v]
    OBVIOUS
<1>4. pc'[u] \in {"insert", "get"} => pool'[u] \in Pools
    BY DEF Pooled
<1>5. Pooled'
    BY <1>1, <1>2, <1>3, <1>4 DEF Pooled
<1>6. Shared'
    <2> SUFFICES ASSUME Tunnels'
                 PROVE  /\ \A v \in Users :
                              pc'[v] \notin {"build", "insert"}
                              /\ pool'[v] \in {None, registered'}
                        /\ \A c \in Conns :
                              st'[c] # "none" => owner'[c] = registered'
        BY DEF Shared
    <2>1. Tunnels /\ kind[u] = "tunnel"
        BY <1>1 DEF Tunnels
    <2>2. CASE Arrive(u)
        BY <2>1, <2>2 DEF Shared
    <2>3. CASE GetPool(u) /\ registered # None
        BY <2>1, <2>3 DEF Shared
    <2>4. CASE GetPool(u) /\ registered = None
        <3>1. \A c \in Conns : st[c] = "none"
            BY <2>1, <2>4 DEF Shared, Pooled
        <3> QED
            BY <1>1, <2>1, <2>4, <3>1 DEF Shared
    <2>5. pc[u] \notin {"build", "insert"} /\ ~FindPool(u)
        BY <2>1 DEF Shared
    <2> QED
        BY <2>2, <2>3, <2>4, <2>5
<1> QED
    BY <1>5, <1>6

(* Any other step keeps what a request has, or takes it away.              *)
LEMMA PooledKeeps ==
    ASSUME Inv, Pooled, Shared, UNCHANGED <<kind, registered, owner>>,
           \A c \in Conns : st'[c] # "none" => st[c] # "none",
           \A u \in Users :
              /\ pc'[u] \in {"build", "insert", "get"} => pc'[u] = pc[u]
              /\ \/ pool'[u] = pool[u] /\ conn'[u] = conn[u]
                 \/ pool'[u] = None /\ conn'[u] = None
                                     /\ pc'[u] \notin {"insert", "get"}
    PROVE  Pooled' /\ Shared'
<1>1. /\ \A c \in Conns : st'[c] # "none" => owner'[c] \in Pools
      /\ \A p \in Pools : Size(p)' <= MaxSize
    BY NoneOpened
<1>2. Pooled'
    BY <1>1 DEF Pooled
<1>3. Shared'
    BY DEF Shared, Tunnels
<1> QED
    BY <1>2, <1>3

LEMMA PooledCheckOut ==
    ASSUME Inv, Pooled, Shared, NEW u \in Users, NEW c \in Conns,
           CheckOut(u, c)
    PROVE  Pooled' /\ Shared'
<1> USE DEF Inv, TypeOK, CheckOut
<1>1. /\ \A d \in Conns : st'[d] # "none" => owner'[d] \in Pools
      /\ \A p \in Pools : Size(p)' <= MaxSize
    BY NoneOpened
<1>2. Pooled'
    BY <1>1 DEF Pooled
<1>3. Shared'
    BY DEF Shared, Tunnels
<1> QED
    BY <1>2, <1>3

(* How a request ends, and what it may do with its connection before.      *)
LEMMA PooledFinish ==
    ASSUME Inv, Pooled, Shared, NEW u \in Users, Finish(u),
           UNCHANGED <<registered, owner>>,
           \A c \in Conns : st'[c] # "none" => st[c] # "none"
    PROVE  Pooled' /\ Shared'
<1>1. \A v \in Users :
        /\ pc'[v] \in {"build", "insert", "get"} => pc'[v] = pc[v]
        /\ \/ pool'[v] = pool[v] /\ conn'[v] = conn[v]
           \/ pool'[v] = None /\ conn'[v] = None
                               /\ pc'[v] \notin {"insert", "get"}
    BY DEF Finish, Inv, TypeOK
<1> QED
    BY <1>1, PooledKeeps DEF Finish

(* Giving a connection back opens none.                                    *)
LEMMA BackOpensNone ==
    ASSUME Inv, NEW u \in Users, NEW status \in [Conns -> Statuses],
           GiveBack(u, status),
           \A c \in Conns : status[c] # "none" => st[c] # "none"
    PROVE  \A c \in Conns : st'[c] # "none" => st[c] # "none"
BY DEF GiveBack, Inv, TypeOK

LEMMA PooledTask ==
    ASSUME Inv, Pooled, Shared, NEW u \in Users,
           Task(u) \/ GetTimesOut(u) \/ Leave(u)
    PROVE  Pooled' /\ Shared'
<1> USE DEF Inv, TypeOK
<1>1. ASSUME NEW c \in Conns, DiscardClosed(u, c) PROVE Pooled' /\ Shared'
    <2>1. \A d \in Conns : st'[d] # "none" => st[d] # "none"
        BY <1>1 DEF DiscardClosed
    <2> QED
        BY <1>1, <2>1, PooledKeeps DEF DiscardClosed
<1>2. CASE Send(u)
    <2>1. \A d \in Conns : st'[d] # "none" => st[d] # "none"
        BY <1>2 DEF Send
    <2>2. /\ UNCHANGED <<kind, pool, conn, registered, owner>>
          /\ \A v \in Users :
                pc'[v] \in {"build", "insert", "get"} => pc'[v] = pc[v]
        BY <1>2 DEF Send
    <2> QED
        BY <2>1, <2>2, PooledKeeps
<1>3. CASE SendFails(u)
    <2>1. st \in [Conns -> Statuses]
        OBVIOUS
    <2>2. \A d \in Conns : st'[d] # "none" => st[d] # "none"
        BY <1>3, <2>1, BackOpensNone DEF SendFails
    <2> QED
        BY <1>3, <2>2, PooledFinish DEF SendFails
<1>4. CASE GetTimesOut(u)
    BY <1>4, PooledFinish DEF GetTimesOut
<1>5. CASE Leave(u)
    <2> DEFINE status == [c \in Conns |-> IF c \in {d \in Conns : exchange[d] = u}
                                            THEN "doomed" ELSE st[c]]
    <2>1. status \in [Conns -> Statuses]
        OBVIOUS
    <2>2. \A c \in Conns : status[c] # "none" => st[c] # "none"
        BY DEF Carries
    <2>3. Finish(u) /\ GiveBack(u, status) /\ UNCHANGED <<registered, owner>>
        BY <1>5 DEF Leave
    <2> HIDE DEF status
    <2>4. \A d \in Conns : st'[d] # "none" => st[d] # "none"
        BY <2>1, <2>2, <2>3, BackOpensNone
    <2> QED
        BY <2>3, <2>4, PooledFinish
<1> QED
    BY <1>1, <1>2, <1>3, <1>4, <1>5, PooledLookup, PooledCheckOut DEF Task

LEMMA PooledConn ==
    ASSUME Inv, Pooled, Shared, NEW c \in Conns,
           Conn(c) \/ Cut(c) \/ ServiceCloses(c) \/ Reaped(c)
    PROVE  Pooled' /\ Shared'
<1> USE DEF Inv, TypeOK
<1> DEFINE u == exchange[c]
<1>1. CASE BodyEnds(c) \/ Cut(c)
    <2>1. u \in Users /\ st[c] # "none"
        BY <1>1 DEF BodyEnds, Cut, Carries
    <2>2. PICK s \in {"resting", "doomed"} :
            /\ Finish(u) /\ GiveBack(u, [st EXCEPT ![c] = s])
            /\ UNCHANGED <<registered, owner>>
        BY <1>1 DEF BodyEnds, Cut
    <2> DEFINE status == [st EXCEPT ![c] = s]
    <2>3. /\ status \in [Conns -> Statuses]
          /\ \A d \in Conns : status[d] # "none" => st[d] # "none"
        BY <2>1
    <2> HIDE DEF u, status
    <2>4. GiveBack(u, status)
        BY <2>2 DEF status
    <2>5. \A d \in Conns : st'[d] # "none" => st[d] # "none"
        BY <2>1, <2>3, <2>4, BackOpensNone
    <2> QED
        BY <2>1, <2>2, <2>5, PooledFinish
<1>2. CASE Head(c)
    <2> DEFINE on == [st EXCEPT ![c] = "body"]
    <2>1. u \in Users /\ st[c] = "head" /\ pc[u] = "head"
        BY <1>2 DEF Head, Carries
    <2>2. /\ on \in [Conns -> Statuses]
          /\ \A d \in Conns : on[d] # "none" => st[d] # "none"
        BY <2>1
    <2>3. /\ pc' = [pc EXCEPT ![u] = "body"]
          /\ UNCHANGED <<kind, registered, owner>>
          /\ \/ st' = on /\ UNCHANGED <<pool, conn>>
             \/ /\ GiveBack(u, on)
                /\ conn' = [conn EXCEPT ![u] = None]
                /\ pool' = [pool EXCEPT ![u] = None]
        BY <1>2 DEF Head
    <2> HIDE DEF u, on
    <2>4. \A d \in Conns : st'[d] # "none" => st[d] # "none"
        BY <2>1, <2>2, <2>3, BackOpensNone
    <2>5. \A v \in Users :
            /\ pc'[v] \in {"build", "insert", "get"} => pc'[v] = pc[v]
            /\ \/ pool'[v] = pool[v] /\ conn'[v] = conn[v]
               \/ pool'[v] = None /\ conn'[v] = None
                                   /\ pc'[v] \notin {"insert", "get"}
        BY <2>1, <2>3
    <2> QED
        BY <2>3, <2>4, <2>5, PooledKeeps
<1>3. CASE Rests(c) \/ Closes(c) \/ ServiceCloses(c) \/ Orphaned(c) \/ Reaped(c)
    <2>1. \A d \in Conns : st'[d] # "none" => st[d] # "none"
        BY <1>3 DEF Rests, Closes, ServiceCloses, Becomes, Orphaned, Reaped
    <2>2. UNCHANGED <<users, registered, owner>>
        BY <1>3 DEF Rests, Closes, ServiceCloses, Orphaned, Reaped
    <2> QED
        BY <2>1, <2>2, PooledKeeps
<1> QED
    BY <1>1, <1>2, <1>3 DEF Conn, CutShort

LEMMA PooledInvariance == Spec => [](Inv /\ Pooled /\ Shared)
<1>1. Init => Inv /\ Pooled /\ Shared
    BY InvInit, PooledInit
<1>2. ASSUME Inv, Pooled, Shared, [Next]_vars PROVE Inv' /\ Pooled' /\ Shared'
    <2>1. Inv'
        BY <1>2, InvNext
    <2>2. ASSUME NEW u \in Users,
                 Arrive(u) \/ Task(u) \/ GetTimesOut(u) \/ Leave(u)
          PROVE  Pooled' /\ Shared'
        BY <1>2, <2>2, PooledLookup, PooledTask
    <2>3. ASSUME NEW c \in Conns,
                 Connect(c) \/ Conn(c) \/ Cut(c) \/ ServiceCloses(c)
                   \/ Reaped(c)
          PROVE  Pooled' /\ Shared'
        BY <1>2, <2>3, PooledConnect, PooledConn
    <2>4. CASE UNCHANGED vars
        BY <1>2, <2>1, <2>4, PooledKeeps DEF vars
    <2>5. CASE Next
        BY <2>1, <2>2, <2>3, <2>5 DEF Next
    <2> QED
        BY <1>2, <2>4, <2>5
<1> QED
    BY <1>1, <1>2, PTL DEF Spec

(* However many first requests race, without find_pool the service has no  *)
(* more connections than one pool may have (peer_to_http.rs:113-136).      *)
THEOREM TunnelsAreBounded == Spec => []TunnelsShareOnePool
<1>1. ASSUME Inv, Pooled, Shared, Tunnels
      PROVE  Cardinality(Alive) <= MaxSize
    <2>1. CASE Alive = {}
        BY <2>1, FS_EmptySet, MaxSizeAssumption
    <2>2. CASE Alive # {}
        <3>1. registered \in Pools
            BY <1>1, <2>2 DEF Alive, Shared, Pooled
        <3>2. Alive = OfPool(registered)
            BY <1>1 DEF Alive, OfPool, Shared
        <3> QED
            BY <1>1, <3>1, <3>2, SizeIs DEF Pooled
    <2> QED
        BY <2>1, <2>2
<1>2. Inv /\ Pooled /\ Shared => TunnelsShareOnePool
    BY <1>1 DEF TunnelsShareOnePool, Tunnels, Alive
<1> QED
    BY <1>2, PooledInvariance, PTL

(* The connections of a pool that is gone are in nobody's hands, and carry *)
(* at most the body of a proxied answer (proxy_pass.rs:37-47).             *)
THEOREM OrphansRest == Spec => []OrphansAreIdle
<1>1. ASSUME Inv, Pooled, NEW c \in Conns, st[c] # "none", ~Lives(owner[c])
      PROVE  /\ c \in idle
             /\ exchange[c] # None =>
                   kind[exchange[c]] = "proxy" /\ pc[exchange[c]] = "body"
    <2>1. \A u \in Users : conn[u] # c
        BY <1>1 DEF Pooled, Lives
    <2> QED
        BY <1>1, <2>1 DEF Inv, TypeOK, Kept, Carries
<1>2. Inv /\ Pooled => OrphansAreIdle
    BY <1>1 DEF OrphansAreIdle
<1> QED
    BY <1>2, PooledInvariance, PTL
=============================================================================
