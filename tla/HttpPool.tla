------------------------------ MODULE HttpPool ------------------------------
(***************************************************************************)
(* The connections to a local HTTP service that the requests of a process  *)
(* share: the map of pools, one bb8 pool per address, and the two ways a   *)
(* request uses a connection of it.  peer_to_http ("tunnel") keeps the     *)
(* connection until it has carried the body; proxy_pass ("proxy") gives it *)
(* back with the head of the response, while the body still comes over it. *)
(* kulfi does both with one map, once its identities are registered (which *)
(* get_secret_key's todo!() still prevents); malai does only the first.    *)
(* One address is modelled: nothing is shared between two.                 *)
(*                                                                         *)
(* bb8 and hyper are modelled from how the code uses them: bb8 hands out   *)
(* any idle connection that is not closed, opens up to MaxSize, and gives  *)
(* up after its timeout; hyper refuses a request while the connection is   *)
(* not at rest, and closes it when a message on it is cut short.  A        *)
(* connection's own task notices each end a little later than the request. *)
(***************************************************************************)
EXTENDS Naturals, FiniteSets

CONSTANTS Users,     \* requests in progress
          Pools,     \* pools that may exist at once
          Conns,     \* connections that may exist at once
          MaxSize,   \* connections of one pool (bb8's max_size)
          Replies,   \* Replies[u]: what the service may answer to u
          None

ASSUME NoneAssumption == None \notin Users \cup Pools \cup Conns
ASSUME MaxSizeAssumption == MaxSize \in Nat \ {0}
ASSUME FiniteAssumption == IsFiniteSet(Users) /\ IsFiniteSet(Conns)
(* An answer has a body announced by its Content-Length, of which the      *)
(* service sends as much as it has; or there is none and it hangs up.      *)
ASSUME RepliesAssumption ==
    \A u \in Users : \A r \in Replies[u] :
        r.refused \in BOOLEAN /\ r.announced \in Nat /\ r.sent \in Nat

VARIABLES
    pc,          \* where a request is
    kind,        \* "tunnel" or "proxy"
    pool,        \* the pool it has
    conn,        \* the connection it has out of that pool
    reply,       \* the service's answer
    registered,  \* the pool in the map
    st,          \* what a connection is doing
    owner,       \* the pool a connection belongs to
    exchange,    \* the request a connection carries
    idle         \* connections given back to their pool

users == <<pc, kind, pool, conn, reply>>
vars == <<users, registered, st, owner, exchange, idle>>

AnyReply == UNION {Replies[u] : u \in Users}

TypeOK ==
    /\ pc \in [Users -> {"idle", "lookup", "build", "insert", "get", "send",
                         "head", "body"}]
    /\ kind \in [Users -> {"tunnel", "proxy"}]
    /\ pool \in [Users -> Pools \cup {None}]
    /\ conn \in [Users -> Conns \cup {None}]
    /\ reply \in [Users -> AnyReply \cup {None}]
    /\ registered \in Pools \cup {None}
    /\ st \in [Conns -> {"none", "ready", "head", "body", "resting",
                         "doomed", "closed"}]
    /\ owner \in [Conns -> Pools \cup {None}]
    /\ exchange \in [Conns -> Users \cup {None}]
    /\ idle \in SUBSET Conns

Init ==
    /\ pc = [u \in Users |-> "idle"]
    /\ kind \in [Users -> {"tunnel", "proxy"}]
    /\ pool = [u \in Users |-> None]
    /\ conn = [u \in Users |-> None]
    /\ reply = [u \in Users |-> None]
    /\ registered = None
    /\ st = [c \in Conns |-> "none"]
    /\ owner = [c \in Conns |-> None]
    /\ exchange = [c \in Conns |-> None]
    /\ idle = {}

(* A pool lives as long as the map or a request has it; its connections    *)
(* are those that are not closed and forgotten.                            *)
Lives(p) == p = registered \/ \E u \in Users : pool[u] = p
Size(p) == Cardinality({c \in Conns : st[c] # "none" /\ owner[c] = p})
NewPool(p) == ~Lives(p) /\ Size(p) = 0

Goto(u, from, to) == pc[u] = from /\ pc' = [pc EXCEPT ![u] = to]

-----------------------------------------------------------------------------
(* The map of pools.                                                       *)

Arrive(u) ==
    /\ Goto(u, "idle", "lookup")
    /\ UNCHANGED <<kind, pool, conn, reply, registered, st, owner, exchange,
                   idle>>

(* Mutant: a pool is built and never put into the map.                     *)
GetPool_KeepsNone(u) ==
    /\ kind[u] = "tunnel"
    /\ Goto(u, "lookup", "get")
    /\ \E p \in Pools : NewPool(p) /\ pool' = [pool EXCEPT ![u] = p]
    /\ UNCHANGED <<kind, conn, reply, registered, st, owner, exchange, idle>>

(* peer_to_http's get_pool holds the map's lock while it builds.           *)
GetPool(u) ==
    /\ kind[u] = "tunnel"
    /\ Goto(u, "lookup", "get")
    /\ \/ registered # None /\ UNCHANGED registered
       \/ registered = None /\ \E p \in Pools : NewPool(p) /\ registered' = p
    /\ pool' = [pool EXCEPT ![u] = registered']
    /\ UNCHANGED <<kind, conn, reply, st, owner, exchange, idle>>

(* The control server's find_pool looks up, builds and inserts each under  *)
(* a lock of its own, or none.                                             *)
FindPool(u) ==
    /\ kind[u] = "proxy"
    /\ \/ registered # None /\ Goto(u, "lookup", "get")
                            /\ pool' = [pool EXCEPT ![u] = registered]
       \/ registered = None /\ Goto(u, "lookup", "build") /\ UNCHANGED pool
    /\ UNCHANGED <<kind, conn, reply, registered, st, owner, exchange,
                   idle>>

BuildPool(u) ==
    /\ Goto(u, "build", "insert")
    /\ \E p \in Pools : NewPool(p) /\ pool' = [pool EXCEPT ![u] = p]
    /\ UNCHANGED <<kind, conn, reply, registered, st, owner, exchange,
                   idle>>

InsertPool(u) ==
    /\ Goto(u, "insert", "get")
    /\ registered' = pool[u]
    /\ UNCHANGED <<kind, pool, conn, reply, st, owner, exchange, idle>>

-----------------------------------------------------------------------------
(* Getting a connection: pool.get().                                       *)

(* HttpConnectionManager::connect, for a request that waits.               *)
Connect(c) ==
    /\ st[c] = "none"
    /\ \E u \in Users :
        /\ pc[u] = "get"
        /\ \A d \in idle : owner[d] # pool[u]
        /\ Size(pool[u]) < MaxSize
        /\ owner' = [owner EXCEPT ![c] = pool[u]]
    /\ st' = [st EXCEPT ![c] = "ready"]
    /\ idle' = idle \cup {c}
    /\ UNCHANGED <<users, registered, exchange>>

(* is_valid: a closed connection is forgotten, and another one tried.      *)
DiscardClosed(u, c) ==
    /\ pc[u] = "get"
    /\ c \in idle /\ owner[c] = pool[u] /\ st[c] = "closed"
    /\ st' = [st EXCEPT ![c] = "none"]
    /\ idle' = idle \ {c}
    /\ UNCHANGED <<users, registered, owner, exchange>>

CheckOut(u, c) ==
    /\ c \in idle /\ owner[c] = pool[u] /\ st[c] # "closed"
    /\ Goto(u, "get", "send")
    /\ conn' = [conn EXCEPT ![u] = c]
    /\ idle' = idle \ {c}
    /\ UNCHANGED <<kind, pool, reply, registered, st, owner, exchange>>

(* The request of u is over, well or badly.                                *)
Finish(u) ==
    /\ pc' = [pc EXCEPT ![u] = "idle"]
    /\ pool' = [pool EXCEPT ![u] = None]
    /\ conn' = [conn EXCEPT ![u] = None]
    /\ reply' = [reply EXCEPT ![u] = None]
    /\ UNCHANGED kind

(* Mutant: no timeout on the wait for a connection.                        *)
GetTimesOut_Never(u) ==
    /\ pc[u] = "gone"
    /\ Finish(u)
    /\ UNCHANGED <<registered, st, owner, exchange, idle>>

GetTimesOut(u) ==
    /\ pc[u] = "get"
    /\ Finish(u)
    /\ UNCHANGED <<registered, st, owner, exchange, idle>>

-----------------------------------------------------------------------------
(* The exchange over the connection.                                       *)

(* u's connection, if it has one, goes back to its pool; has_broken lets   *)
(* a closed one go.                                                        *)
GiveBack(u, status) ==
    LET c == conn[u]
    IN  IF c = None
          THEN st' = status /\ UNCHANGED idle
          ELSE IF status[c] = "closed"
                 THEN st' = [status EXCEPT ![c] = "none"] /\ UNCHANGED idle
                 ELSE st' = status /\ idle' = idle \cup {c}

(* Mutant: the request is sent whatever the connection is doing.           *)
Send_Anyhow(u) ==
    /\ Goto(u, "send", "head")
    /\ st[conn[u]] # "closed"
    /\ \E r \in Replies[u] : reply' = [reply EXCEPT ![u] = r]
    /\ st' = [st EXCEPT ![conn[u]] = "head"]
    /\ exchange' = [exchange EXCEPT ![conn[u]] = u]
    /\ UNCHANGED <<kind, pool, conn, registered, owner, idle>>

Send(u) ==
    /\ Goto(u, "send", "head")
    /\ st[conn[u]] = "ready"
    /\ \E r \in Replies[u] : reply' = [reply EXCEPT ![u] = r]
    /\ st' = [st EXCEPT ![conn[u]] = "head"]
    /\ exchange' = [exchange EXCEPT ![conn[u]] = u]
    /\ UNCHANGED <<kind, pool, conn, registered, owner, idle>>

(* Mutant: the connection of a request that was not sent is not given back.*)
SendFails_Leaks(u) ==
    /\ pc[u] = "send"
    /\ Finish(u)
    /\ UNCHANGED <<registered, st, owner, exchange, idle>>

(* hyper refuses the request, or there is none to give to it: what the     *)
(* peer sent (peer_to_http.rs:54), or the URI made for proxy_pass          *)
(* (proxy_pass.rs:25), is not valid.                                       *)
SendFails(u) ==
    /\ pc[u] = "send"
    /\ Finish(u)
    /\ GiveBack(u, st)
    /\ UNCHANGED <<registered, owner, exchange>>

(* The head of the response; proxy_pass returns.                           *)
Head(c) ==
    LET u == exchange[c]
        on == [st EXCEPT ![c] = "body"]
    IN  /\ st[c] = "head" /\ ~reply[u].refused
        /\ Goto(u, "head", "body")
        /\ \/ /\ kind[u] = "tunnel"
              /\ st' = on
              /\ UNCHANGED <<pool, conn, idle>>
           \/ /\ kind[u] = "proxy"
              /\ GiveBack(u, on)
              /\ conn' = [conn EXCEPT ![u] = None]
              /\ pool' = [pool EXCEPT ![u] = None]
        /\ UNCHANGED <<kind, reply, registered, owner, exchange>>

(* Mutant: a body that falls short is taken for a whole one.               *)
BodyEnds_Short(c) ==
    LET u == exchange[c]
    IN  /\ st[c] = "body"
        /\ Finish(u)
        /\ GiveBack(u, [st EXCEPT ![c] = "resting"])
        /\ exchange' = [exchange EXCEPT ![c] = None]
        /\ UNCHANGED <<registered, owner>>

(* The service has sent what it announced, and hyper nothing beyond it.    *)
BodyEnds(c) ==
    LET u == exchange[c]
    IN  /\ st[c] = "body" /\ reply[u].announced <= reply[u].sent
        /\ Finish(u)
        /\ GiveBack(u, [st EXCEPT ![c] = "resting"])
        /\ exchange' = [exchange EXCEPT ![c] = None]
        /\ UNCHANGED <<registered, owner>>

(* The service hangs up before it has answered: it panicked or returned an *)
(* error, it has less than it announced, or it is gone.                    *)
Cut(c) ==
    LET u == exchange[c]
    IN  /\ st[c] \in {"head", "body"}
        /\ Finish(u)
        /\ GiveBack(u, [st EXCEPT ![c] = "doomed"])
        /\ exchange' = [exchange EXCEPT ![c] = None]
        /\ UNCHANGED <<registered, owner>>

(* What ends in such a hang-up whatever the service's luck.                *)
CutShort(c) ==
    /\ st[c] \in {"head", "body"}
    /\ \/ st[c] = "head" /\ reply[exchange[c]].refused
       \/ st[c] = "body" /\ reply[exchange[c]].sent
                              < reply[exchange[c]].announced
    /\ Cut(c)

(* Mutant: a connection whose exchange was left is taken for one at rest.  *)
Leave_Rests(u) ==
    /\ \/ kind[u] = "proxy" /\ pc[u] # "idle"
       \/ kind[u] = "tunnel" /\ pc[u] = "body"
    /\ Finish(u)
    /\ LET left == {c \in Conns : exchange[c] = u}
       IN  /\ GiveBack(u, [c \in Conns |-> IF c \in left THEN "ready"
                                                         ELSE st[c]])
           /\ UNCHANGED exchange
    /\ UNCHANGED <<registered, owner>>

(* Who waits for the answer leaves: hyper drops proxy_pass or its body,    *)
(* and peer_to_http finds that it cannot write to the peer.                *)
Leave(u) ==
    /\ \/ kind[u] = "proxy" /\ pc[u] # "idle"
       \/ kind[u] = "tunnel" /\ pc[u] = "body"
    /\ Finish(u)
    /\ LET left == {c \in Conns : exchange[c] = u}
       IN  /\ GiveBack(u, [c \in Conns |-> IF c \in left THEN "doomed"
                                                         ELSE st[c]])
           /\ exchange' = [c \in Conns |-> IF c \in left THEN None
                                                         ELSE exchange[c]]
    /\ UNCHANGED <<registered, owner>>

-----------------------------------------------------------------------------
(* The connection's own task.                                              *)

Becomes(c, from, to) == st[c] \in from /\ st' = [st EXCEPT ![c] = to]

Rests(c) ==
    /\ Becomes(c, {"resting"}, "ready")
    /\ UNCHANGED <<users, registered, owner, exchange, idle>>

Closes(c) ==
    /\ Becomes(c, {"doomed"}, "closed")
    /\ UNCHANGED <<users, registered, owner, exchange, idle>>

(* The service closes a connection that carries nothing.                   *)
ServiceCloses(c) ==
    /\ Becomes(c, {"ready", "resting"}, "closed")
    /\ UNCHANGED <<users, registered, owner, exchange, idle>>

(* Mutant: the connections of a pool that is gone stay.                    *)
Orphaned_Stays(c) ==
    /\ c \in idle /\ ~Lives(owner[c])
    /\ st[c] = "closed"
    /\ st' = [st EXCEPT ![c] = "none"]
    /\ idle' = idle \ {c}
    /\ UNCHANGED <<users, registered, owner, exchange>>

(* The pool is gone and its connection with it, once it carries nothing.   *)
Orphaned(c) ==
    /\ c \in idle /\ ~Lives(owner[c])
    /\ st[c] \notin {"head", "body"}
    /\ st' = [st EXCEPT ![c] = "none"]
    /\ idle' = idle \ {c}
    /\ UNCHANGED <<users, registered, owner, exchange>>

(* bb8's reaper lets an old connection go.                                 *)
Reaped(c) ==
    /\ c \in idle
    /\ st[c] \notin {"head", "body"}
    /\ st' = [st EXCEPT ![c] = "none"]
    /\ idle' = idle \ {c}
    /\ UNCHANGED <<users, registered, owner, exchange>>

Task(u) ==
    \/ GetPool(u)
    \/ FindPool(u)
    \/ BuildPool(u)
    \/ InsertPool(u)
    \/ \E c \in Conns : DiscardClosed(u, c) \/ CheckOut(u, c)
    \/ Send(u)
    \/ SendFails(u)

Conn(c) ==
    \/ Head(c)
    \/ BodyEnds(c)
    \/ CutShort(c)
    \/ Rests(c)
    \/ Closes(c)
    \/ Orphaned(c)

Next ==
    \/ \E u \in Users : Arrive(u) \/ Task(u) \/ GetTimesOut(u) \/ Leave(u)
    \/ \E c \in Conns :
          Connect(c) \/ Conn(c) \/ Cut(c) \/ ServiceCloses(c) \/ Reaped(c)

Spec == Init /\ [][Next]_vars

(* The tasks are polled, a wait for a connection has a timeout, and a      *)
(* service that was asked answers or hangs up.  A body ends, so whoever    *)
(* waits for it is assumed to read it or to leave: peer_to_http has no     *)
(* timeout on its writes to the peer.  That the service accepts a          *)
(* connection is not assumed.                                              *)
Fairness ==
    /\ \A u \in Users : WF_vars(Task(u)) /\ WF_vars(GetTimesOut(u))
    /\ \A c \in Conns : WF_vars(Conn(c))

FairSpec == Spec /\ Fairness

-----------------------------------------------------------------------------
(* A request that waits for its answer is the only one on its connection,  *)
(* so no answer reaches another request although connections go back to    *)
(* the pool in use (proxy_pass.rs:32-47, http_connection_manager.rs:56-66).*)
AnswerIsForItsRequest ==
    \A u \in Users :
        pc[u] \in {"head", "body"} <=> \E c \in Conns :
            /\ exchange[c] = u /\ st[c] = pc[u]
            /\ \A d \in Conns \ {c} : exchange[d] # u

(* Only proxy_pass leaves a connection in the pool that still carries an   *)
(* answer: malai's own requests never find one taken by another of them    *)
(* (peer_to_http.rs:44-95).                                                *)
OnlyProxiesLendBusyConnections ==
    \A c \in idle : exchange[c] # None => kind[exchange[c]] = "proxy"

(* No connection is lost to its pool: it is idle there or in the hands of  *)
(* one request, however exchanges fail; so MaxSize failures do not use the *)
(* pool up (http_connection_manager.rs:44-66).                             *)
ConnectionsAreAccountedFor ==
    \A c \in Conns :
        /\ st[c] # "none" => (c \in idle <=> \A u \in Users : conn[u] # c)
        /\ \A u, v \in Users : conn[u] = c /\ conn[v] = c => u = v

(* While no proxy builds pools of its own, first requests that race share  *)
(* one pool all the same, and the service never has more than its MaxSize  *)
(* connections, closed and not yet forgotten ones included                 *)
(* (peer_to_http.rs:113-136).                                              *)
TunnelsShareOnePool ==
    (\A u \in Users : kind[u] = "tunnel") =>
        Cardinality({c \in Conns : st[c] # "none"}) <= MaxSize

(* A connection whose pool is gone is in nobody's hands; if it still       *)
(* carries an answer, that is the body of a proxied one                    *)
(* (proxy_pass.rs:37-47).                                                  *)
OrphansAreIdle ==
    \A c \in Conns : st[c] # "none" /\ ~Lives(owner[c]) =>
        /\ c \in idle
        /\ exchange[c] # None =>
              kind[exchange[c]] = "proxy" /\ pc[exchange[c]] = "body"

(* Every request ends, with an answer or without, even when the service    *)
(* accepts no connection and the pool is in use (proxy_pass.rs:9-15).      *)
EveryRequestEnds == \A u \in Users : pc[u] # "idle" ~> pc[u] = "idle"

(* Two first requests at once build a pool each; the connections of the    *)
(* one that the map does not keep go away when its requests have ended,    *)
(* so the service is not held to more than one pool's connections          *)
(* (server.rs:131-154).                                                    *)
OrphansGo ==
    \A c \in Conns :
        (st[c] # "none" /\ ~Lives(owner[c])) ~> (st[c] = "none" \/ Lives(owner[c]))
=============================================================================
