--------------------------- MODULE MCHttpExchange ---------------------------
(* Sets of exchanges for the runs of HttpExchange.                         *)
EXTENDS HttpExchange

All == ExchangeKinds

(* A visitor of malai http-bridge whose service reads a chunked request to *)
(* its end, or answers a sized one while it reads it.                      *)
Demanding == {k \in ExchangeKinds :
                 /\ k.streaming /\ ~k.trailers /\ ~k.resTrailers
                 /\ \/ ~k.sized /\ k.service = "whole"
                    \/ k.sized /\ k.service = "echo"}
=============================================================================
