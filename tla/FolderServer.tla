---------------------------- MODULE FolderServer ----------------------------
(***************************************************************************)
(* What malai folder answers to one request: the arithmetic of its range   *)
(* requests, which is done in u64, and how many bytes of the file it then  *)
(* has for the length it announced.  The file's length is read before the  *)
(* body is, and the file may change in between.                            *)
(***************************************************************************)
EXTENDS Integers, FiniteSets

CONSTANTS Half,       \* signed integers go to Half - 1: 2^63 for an i64
          Lengths,    \* lengths a file may have
          Offsets     \* numbers a Range header may hold

ASSUME HalfAssumption == Half \in Nat \ {0}
ASSUME LengthsAssumption == Lengths \subseteq 0 .. Half - 1
ASSUME OffsetsAssumption == Offsets \subseteq 0 .. 2 * Half - 1

Unset == -1
Wrap(n) == n % (2 * Half)
Lesser(a, b) == IF a <= b THEN a ELSE b

(* A Range header: "bytes=from-to", "bytes=from-", "bytes=from" without a  *)
(* dash, or anything else: a suffix, several ranges, no number, no header. *)
Headers == [form : {"closed", "open", "bare", "other"}, from : Offsets,
            to : Offsets]

Whole == [start |-> Unset, end |-> Unset]

(* What the handler makes of it; Unset stands for None.                    *)
parse_range(h) ==
    CASE h.form = "closed" -> [start |-> h.from, end |-> h.to]
      [] h.form \in {"open", "bare"} -> [start |-> h.from, end |-> Unset]
      [] OTHER -> Whole

(* The bytes of a file that a range names.                                 *)
Wanted(range, total) ==
    IF range = Whole
      THEN 0 .. total - 1
      ELSE {i \in 0 .. total - 1 : /\ range.start <= i
                                   /\ range.end = Unset \/ i <= range.end}

Last(range, total) ==
    Lesser(IF range.end = Unset THEN Wrap(total - 1) ELSE range.end,
           Wrap(total - 1))

(* Mutant: the last byte is left out.                                      *)
Length_Exclusive(range, total) ==
    IF range = Whole THEN total
                     ELSE Wrap(Last(range, total) - range.start)

Length(range, total) ==
    IF range = Whole THEN total
                     ELSE Wrap(Last(range, total) - range.start + 1)

(* A subtraction or addition leaves the range of u64: a debug build panics.*)
Overflows(range, total) ==
    /\ range # Whole
    /\ \/ total = 0
       \/ Last(range, total) < range.start

(* tokio takes no offset beyond an i64: seek(..).await.unwrap() panics.    *)
SeekFails(range) == range # Whole /\ range.start >= Half

(* The bytes there are from the start of the range to the end of the file, *)
(* when it is read; a range request's body is not cut at its length.       *)
Available(range, now) ==
    IF range = Whole THEN now
                     ELSE IF range.start <= now THEN now - range.start ELSE 0

(* A request that is answered with an error, or not at all, as hyper sees  *)
(* it: nothing follows.                                                    *)
Refusal == [refused |-> TRUE, announced |-> 0, sent |-> 0, first |-> 0,
            wanted |-> {}, there |-> {}, kept |-> TRUE]

(* handle_request for a file of length total, of length now when its body  *)
(* is read, in a build that checks for overflow or one that wraps around.  *)
handle_request(range, total, now, checked) ==
    IF SeekFails(range) \/ (checked /\ Overflows(range, total))
      THEN [Refusal EXCEPT !.wanted = Wanted(range, total)]
      ELSE [refused |-> FALSE,
            announced |-> Length(range, total),
            sent |-> Available(range, now),
            first |-> IF range = Whole THEN 0 ELSE range.start,
            wanted |-> Wanted(range, total),
            there |-> Wanted(range, now),
            kept |-> now >= total]

(* Everything it may answer; a path that is outside the folder or is not   *)
(* there is refused.                                                       *)
Answers ==
    {handle_request(parse_range(h), total, now, checked) :
        h \in Headers, total \in Lengths, now \in Lengths, checked \in BOOLEAN}
        \cup {Refusal}

(* The bytes a complete answer brings.                                     *)
Brought(r) == r.first .. r.first + r.announced - 1
=============================================================================
