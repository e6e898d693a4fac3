----------------------------- MODULE FolderPool -----------------------------
(***************************************************************************)
(* The pool of HttpPool in front of the folder server of FolderServer, as  *)
(* malai folder runs the two in one process; the visitors beside the one   *)
(* that asks for every range ask for a small file, or one that is not      *)
(* there.                                                                  *)
(***************************************************************************)
EXTENDS HttpPool, FolderServer

CONSTANT Explorer     \* the request that asks for every range

(* The files' lengths are one byte, and the file may lose it.              *)
Plain ==
    {handle_request(Whole, 1, now, FALSE) : now \in {0, 1}} \cup {Refusal}

FolderReplies == [u \in Users |-> IF u = Explorer THEN Answers ELSE Plain]

(* This service is the one the pool is for.                                *)
ASSUME ServiceAssumption == Replies = FolderReplies

(* The requests that were sent: what they will be told is known.           *)
Told == {u \in Users : reply[u] # None}

(* An answer that ends well brings all the bytes that the range named when *)
(* the file was opened, and no byte that it does not name: wrapped lengths,*)
(* ranges beyond the end and files that change while they are sent never   *)
(* make a response that looks whole and is not (folder/mod.rs:183-206).    *)
CompleteIsExact ==
    [][\A c \in Conns : st[c] = "body" /\ st'[c] = "resting" =>
           LET r == reply[exchange[c]]
           IN  r.wanted \subseteq Brought(r) /\ Brought(r) \subseteq r.there]_vars

(* A range with a byte in the file is answered, in every build, with a     *)
(* length that the file has unless it shrinks (folder/mod.rs:183-188).     *)
WantedBytesAreOffered ==
    \A u \in Told :
        reply[u].wanted # {} /\ reply[u].kept =>
            /\ ~reply[u].refused
            /\ reply[u].announced = Cardinality(reply[u].wanted)
            /\ reply[u].announced <= reply[u].sent
=============================================================================
