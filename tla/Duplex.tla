------------------------------- MODULE Duplex -------------------------------
(***************************************************************************)
(* What a TCP connection promises the two applications that use it, and    *)
(* what the tunnel of module TcpPipe therefore has to.  Each direction     *)
(* carries what was said, in order and once; the one who listens is told   *)
(* of its end after the last chunk of it, and before that only if          *)
(* something has gone wrong.                                               *)
(***************************************************************************)
EXTENDS Naturals

CONSTANT Chunks      \* chunks an application may write

Ends == {"near", "far"}
Other(e) == IF e = "near" THEN "far" ELSE "near"

VARIABLES
    app,      \* app[e]: the application at e: "open", "shut" or "closed"
    said,     \* said[e]: chunks it wrote
    heard,    \* heard[e]: chunks that reached it
    ended,    \* ended[e]: it was told that no more will come
    trouble   \* the network failed, the other end is not there or has closed

vars == <<app, said, heard, ended, trouble>>

Init ==
    /\ app = [e \in Ends |-> "open"]
    /\ said = [e \in Ends |-> 0]
    /\ heard = [e \in Ends |-> 0]
    /\ ended = [e \in Ends |-> FALSE]
    /\ trouble = FALSE

Say(e) ==
    /\ app[e] = "open"
    /\ said[e] < Chunks
    /\ said' = [said EXCEPT ![e] = @ + 1]
    /\ UNCHANGED <<app, heard, ended, trouble>>

Shut(e) ==
    /\ app[e] = "open"
    /\ app' = [app EXCEPT ![e] = "shut"]
    /\ UNCHANGED <<said, heard, ended, trouble>>

(* The rest of what was said may be lost, in both directions.              *)
Close(e) ==
    /\ app[e] # "closed"
    /\ app' = [app EXCEPT ![e] = "closed"]
    /\ trouble' = TRUE
    /\ UNCHANGED <<said, heard, ended>>

Fail ==
    /\ trouble' = TRUE
    /\ UNCHANGED <<app, said, heard, ended>>

Hear(e) ==
    /\ ~ended[e]
    /\ app[e] # "closed"
    /\ heard[e] < said[Other(e)]
    /\ heard' = [heard EXCEPT ![e] = @ + 1]
    /\ UNCHANGED <<app, said, ended, trouble>>

End(e) ==
    /\ ~ended[e]
    /\ \/ app[Other(e)] = "shut" /\ heard[e] = said[Other(e)]
       \/ trouble
    /\ ended' = [ended EXCEPT ![e] = TRUE]
    /\ UNCHANGED <<app, said, heard, trouble>>

Next == \/ \E e \in Ends : Say(e) \/ Shut(e) \/ Close(e) \/ Hear(e) \/ End(e)
        \/ Fail

Spec == Init /\ [][Next]_vars
=============================================================================
