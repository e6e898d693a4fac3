--------------------------- MODULE StreamService ---------------------------
(***************************************************************************)
(* What kulfi_utils::get_stream promises its callers, with the task, the   *)
(* channels and the pings that keep the promise left out.                  *)
(*                                                                         *)
(* A call names a peer and joins the session (the iroh connection) that is *)
(* current for that peer, starting one if there is none.  It is granted a  *)
(* stream only while the session it joined is up, and it is refused only   *)
(* once that very session is closed; a caller may also walk away.          *)
(***************************************************************************)

CONSTANTS Calls,     \* the calls of get_stream
          Peers,     \* remote_node_id52 values
          Sessions,  \* the identities a session may have
          None

VARIABLES target,    \* target[c]: the peer call c asked for
          outcome,   \* outcome[c]: what became of call c
          joined,    \* joined[c]: the session call c depends on
          status,    \* status[s]: the life of session s
          current    \* current[p]: the session new calls to p will join

vars == <<target, outcome, joined, status, current>>

Outcomes == {"idle", "asked", "granted", "refused", "withdrawn"}
Statuses == {"unused", "opening", "up", "closed"}

TypeOK ==
    /\ target \in [Calls -> Peers \cup {None}]
    /\ outcome \in [Calls -> Outcomes]
    /\ joined \in [Calls -> Sessions \cup {None}]
    /\ status \in [Sessions -> Statuses]
    /\ current \in [Peers -> Sessions \cup {None}]

Init ==
    /\ target = [c \in Calls |-> None]
    /\ outcome = [c \in Calls |-> "idle"]
    /\ joined = [c \in Calls |-> None]
    /\ status = [s \in Sessions |-> "unused"]
    /\ current = [p \in Peers |-> None]

(* A new call joins the current session of its peer.                       *)
Join(c, p) ==
    /\ outcome[c] = "idle"
    /\ current[p] # None
    /\ outcome' = [outcome EXCEPT ![c] = "asked"]
    /\ target' = [target EXCEPT ![c] = p]
    /\ joined' = [joined EXCEPT ![c] = current[p]]
    /\ UNCHANGED <<status, current>>

(* A new call finds no session for its peer and begins a fresh one.        *)
Begin(c, p, s) ==
    /\ outcome[c] = "idle"
    /\ current[p] = None
    /\ status[s] = "unused"
    /\ outcome' = [outcome EXCEPT ![c] = "asked"]
    /\ target' = [target EXCEPT ![c] = p]
    /\ joined' = [joined EXCEPT ![c] = s]
    /\ status' = [status EXCEPT ![s] = "opening"]
    /\ current' = [current EXCEPT ![p] = s]

Establish(s) ==
    /\ status[s] = "opening"
    /\ status' = [status EXCEPT ![s] = "up"]
    /\ UNCHANGED <<target, outcome, joined, current>>

(* The session ends, and the calls of R that were counting on it with it.  *)
Close(s, R) ==
    /\ status[s] \in {"opening", "up"}
    /\ R \subseteq {c \in Calls : outcome[c] = "asked" /\ joined[c] = s}
    /\ status' = [status EXCEPT ![s] = "closed"]
    /\ outcome' = [c \in Calls |-> IF c \in R THEN "refused" ELSE outcome[c]]
    /\ UNCHANGED <<target, joined, current>>

Grant(c) ==
    /\ outcome[c] = "asked"
    /\ joined[c] # None
    /\ status[joined[c]] = "up"
    /\ outcome' = [outcome EXCEPT ![c] = "granted"]
    /\ UNCHANGED <<target, joined, status, current>>

Refuse(c) ==
    /\ outcome[c] = "asked"
    /\ joined[c] # None
    /\ status[joined[c]] = "closed"
    /\ outcome' = [outcome EXCEPT ![c] = "refused"]
    /\ UNCHANGED <<target, joined, status, current>>

Withdraw(c) ==
    /\ outcome[c] \in {"asked", "granted", "refused"}
    /\ outcome' = [outcome EXCEPT ![c] = "withdrawn"]
    /\ UNCHANGED <<target, joined, status, current>>

(* A closed session is forgotten; only then can another one replace it.    *)
Forget(p) ==
    /\ current[p] # None
    /\ status[current[p]] = "closed"
    /\ current' = [current EXCEPT ![p] = None]
    /\ UNCHANGED <<target, outcome, joined, status>>

Next ==
    \/ \E c \in Calls, p \in Peers : Join(c, p)
    \/ \E c \in Calls, p \in Peers, s \in Sessions : Begin(c, p, s)
    \/ \E s \in Sessions : Establish(s)
    \/ \E s \in Sessions : \E R \in SUBSET Calls : Close(s, R)
    \/ \E c \in Calls : Grant(c) \/ Refuse(c) \/ Withdraw(c)
    \/ \E p \in Peers : Forget(p)

Spec == Init /\ [][Next]_vars

(* No caller is left waiting for ever.                                     *)
Answered == \A c \in Calls : outcome[c] = "asked" ~> outcome[c] # "asked"
=============================================================================
