---------------------------- MODULE HttpService ----------------------------
(***************************************************************************)
(* What an exchange through the tunnel promises the visitor and the        *)
(* exposed service, and what module HttpExchange therefore has to: the     *)
(* service is asked once and sees the visitor's chunks in order; the       *)
(* visitor sees the service's, and is told how it ended, once and for a    *)
(* reason.                                                                 *)
(***************************************************************************)
EXTENDS Naturals

CONSTANT Chunks      \* chunks of the request body and of the response body

VARIABLES
    sized,     \* the request has a Content-Length
    trailers,  \* it has trailers, which are not carried
    checked,   \* the visitor's hyper checks the response against its own
    offered,   \* chunks of the request that the visitor gave away
    read,      \* of these, the chunks the service read
    request,   \* how the service saw it end: "open", "complete" or "broken"
    answer,    \* the service: "none", "begun", "ended" or "crashed"
    headSent,  \* the head of the response is on its way
    written,   \* chunks of the response that the service wrote
    shown,     \* of these, the chunks the visitor received
    outcome,   \* for the visitor: "waiting", "complete", "broken" or "gone"
    lost       \* the network has failed

asking == <<sized, trailers, checked, offered, read>>
seen == <<request, answer>>
answering == <<headSent, written>>
showing == <<shown, outcome>>
vars == <<asking, seen, answering, showing, lost>>

Init ==
    /\ sized \in BOOLEAN /\ trailers \in BOOLEAN /\ checked \in BOOLEAN
    /\ offered \in {0, Chunks} /\ read = 0
    /\ request = "open" /\ answer = "none"
    /\ headSent = FALSE /\ written = 0
    /\ shown = 0 /\ outcome = "waiting"
    /\ lost = FALSE

Unserved == outcome \in {"gone", "broken"}

Offer ==
    /\ outcome = "waiting"
    /\ offered < Chunks
    /\ offered' = offered + 1
    /\ UNCHANGED <<sized, trailers, checked, read, seen, answering, showing,
                   lost>>

Read ==
    /\ request = "open"
    /\ answer \in {"none", "begun"}
    /\ read < offered
    /\ read' = read + 1
    /\ UNCHANGED <<sized, trailers, checked, offered, seen, answering,
                   showing, lost>>

(* A request of unknown length may be cut short behind the service's back, *)
(* when its visitor is not going to be told that all is well.              *)
Complete ==
    /\ request = "open"
    /\ answer \in {"none", "begun"}
    /\ read = Chunks \/ (~sized /\ Unserved)
    /\ request' = "complete"
    /\ UNCHANGED <<asking, answer, answering, showing, lost>>

Begin ==
    /\ answer = "none"
    /\ answer' = "begun"
    /\ UNCHANGED <<asking, request, answering, showing, lost>>

SendHead ==
    /\ answer \in {"begun", "ended"}
    /\ ~headSent
    /\ headSent' = TRUE
    /\ UNCHANGED <<asking, seen, written, showing, lost>>

Write ==
    /\ answer = "begun"
    /\ written < Chunks
    /\ written' = written + 1
    /\ UNCHANGED <<asking, seen, headSent, showing, lost>>

LeftUnread == IF request = "open" THEN "broken" ELSE request

(* What the service ends itself is whole, or nobody is there to miss it.   *)
End ==
    /\ answer = "begun"
    /\ written = Chunks \/ Unserved
    /\ answer' = "ended"
    /\ request' = LeftUnread
    /\ UNCHANGED <<asking, answering, showing, lost>>

(* It crashes, cannot be reached, or has its connection cut.               *)
Crash ==
    /\ answer \in {"none", "begun"}
    /\ answer' = "crashed"
    /\ request' = LeftUnread
    /\ UNCHANGED <<asking, answering, showing, lost>>

Show ==
    /\ outcome = "waiting"
    /\ headSent
    /\ shown < written
    /\ shown' = shown + 1
    /\ UNCHANGED <<asking, seen, answering, outcome, lost>>

(* The visitor has all of the response; only a response whose length he    *)
(* cannot check may end where its service crashed.                         *)
Succeed ==
    /\ outcome = "waiting"
    /\ headSent
    /\ shown = Chunks \/ (answer = "crashed" /\ ~checked)
    /\ outcome' = "complete"
    /\ UNCHANGED <<asking, seen, answering, shown, lost>>

(* An error has a cause: the network, a service that crashed or did not    *)
(* read its request to the end, or trailers after a request that the       *)
(* visitor gave away to the last chunk.                                    *)
Fail ==
    /\ outcome = "waiting"
    /\ \/ lost \/ answer = "crashed" \/ request = "broken"
       \/ trailers /\ offered = Chunks
    /\ outcome' = "broken"
    /\ UNCHANGED <<asking, seen, answering, shown, lost>>

Leave ==
    /\ outcome = "waiting"
    /\ outcome' = "gone"
    /\ UNCHANGED <<asking, seen, answering, shown, lost>>

Lose ==
    /\ lost' = TRUE
    /\ UNCHANGED <<asking, seen, answering, showing>>

Next ==
    \/ Offer \/ Read \/ Complete
    \/ Begin \/ SendHead \/ Write \/ End \/ Crash
    \/ Show \/ Succeed \/ Fail \/ Leave
    \/ Lose

Spec == Init /\ [][Next]_vars
=============================================================================
