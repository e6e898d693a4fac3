-------------------------- MODULE FolderPoolProofs --------------------------
(* What a folder's answers promise, for every width of its integers, every *)
(* range and every length of a file: the arithmetic that wraps around      *)
(* never makes an answer that ends well and is not the one asked for.      *)
EXTENDS FolderPool, HttpPoolProofs, FiniteSetTheorems

(* What parse_range makes of a Range header that it understands.           *)
Ranges == [start : Offsets, end : Offsets \cup {Unset}]

USE HalfAssumption DEF Unset, Whole

(* Arithmetic modulo 2 * Half, on the numbers that the code's differences  *)
(* can be.                                                                 *)
LEMMA WrapIn == \A n \in 0 .. 2 * Half - 1 : Wrap(n) = n
BY DEF Wrap

LEMMA WrapBelow == \A n \in -2 * Half .. -1 : Wrap(n) = n + 2 * Half
BY DEF Wrap

LEMMA WrapRange == \A n \in Int : Wrap(n) \in 0 .. 2 * Half - 1
BY DEF Wrap

LEMMA RangeNumbers ==
    \A range \in Ranges :
        /\ range.start \in 0 .. 2 * Half - 1
        /\ range.end \in (0 .. 2 * Half - 1) \cup {Unset}
        /\ range # Whole
<1> SUFFICES ASSUME NEW range \in Ranges
             PROVE  /\ range.start \in 0 .. 2 * Half - 1
                    /\ range.end \in (0 .. 2 * Half - 1) \cup {Unset}
                    /\ range # Whole
    OBVIOUS
<1>1. range.start \in Offsets /\ range.end \in Offsets \cup {Unset}
    BY DEF Ranges
<1>2. range.start \in 0 .. 2 * Half - 1
    BY <1>1, OffsetsAssumption
<1>3. range.end \in (0 .. 2 * Half - 1) \cup {Unset}
    BY <1>1, OffsetsAssumption
<1>4. range.start # Whole.start
    BY <1>2
<1> QED
    BY <1>2, <1>3, <1>4

(* The bytes a range names are an interval, and Length their number.       *)
LEMMA WantedBytes ==
    ASSUME NEW range \in Ranges, NEW total \in 0 .. Half - 1,
           Wanted(range, total) # {}
    PROVE  /\ total > 0
           /\ Last(range, total) \in range.start .. total - 1
           /\ Wanted(range, total) = range.start .. Last(range, total)
           /\ Length(range, total) = Last(range, total) - range.start + 1
           /\ Length(range, total) = Cardinality(Wanted(range, total))
<1>1. /\ range.start \in 0 .. 2 * Half - 1
      /\ range.end \in (0 .. 2 * Half - 1) \cup {Unset}
      /\ range # Whole
    BY RangeNumbers
<1>2. PICK i \in 0 .. total - 1 :
        range.start <= i /\ (range.end = Unset \/ i <= range.end)
    BY DEF Wanted
<1>3. total > 0 /\ Wrap(total - 1) = total - 1
    BY <1>2, WrapIn
<1>4. /\ Last(range, total) \in range.start .. total - 1
      /\ range.end # Unset => Last(range, total) <= range.end
      /\ range.end = Unset => Last(range, total) = total - 1
      /\ Last(range, total) = total - 1 \/ Last(range, total) = range.end
    BY <1>1, <1>2, <1>3 DEF Last, Lesser
<1>5. Wanted(range, total) = range.start .. Last(range, total)
    <2>1. \A j : j \in Wanted(range, total) <=>
              /\ j \in 0 .. total - 1 /\ range.start <= j
              /\ range.end = Unset \/ j <= range.end
        BY <1>1 DEF Wanted
    <2>2. \A j : j \in Wanted(range, total) <=>
                 j \in range.start .. Last(range, total)
        BY <1>1, <1>4, <2>1
    <2> QED
        BY <2>2
<1>6. Length(range, total) = Last(range, total) - range.start + 1
    BY <1>1, <1>4, WrapIn DEF Length
<1>7. Cardinality(range.start .. Last(range, total))
        = Last(range, total) - range.start + 1
    <2>1. range.start \in Int /\ Last(range, total) \in Int
        BY <1>1, <1>4
    <2>2. ~(range.start > Last(range, total))
        BY <1>1, <1>4
    <2> QED
        BY <2>1, <2>2, FS_Interval
<1> QED
    BY <1>3, <1>4, <1>5, <1>6, <1>7

(* A range that names no byte gets an empty answer, one that is longer     *)
(* than any file, or the announcement of an empty file.                    *)
LEMMA NoBytes ==
    ASSUME NEW range \in Ranges, NEW total \in 0 .. Half - 1,
           Wanted(range, total) = {}, range.start < Half
    PROVE  \/ Length(range, total) = 0
           \/ Length(range, total) >= Half
           \/ /\ range.end # Unset
              /\ Length(range, total) = range.end - range.start + 1
<1>1. /\ range.start \in 0 .. Half - 1
      /\ range.end \in (0 .. 2 * Half - 1) \cup {Unset}
      /\ range # Whole
    BY RangeNumbers
<1> DEFINE last == Last(range, total)
           n == last - range.start + 1
<1>2. Length(range, total) = Wrap(n)
    BY <1>1 DEF Length
<1>3. Wrap(total - 1) = IF total = 0 THEN 2 * Half - 1 ELSE total - 1
    BY WrapIn, WrapBelow
<1>4. last \in 0 .. 2 * Half - 1
    BY <1>1, <1>3 DEF Last, Lesser
<1>5. CASE last < range.start
    <2>1. n \in -Half .. 0
        BY <1>1, <1>4, <1>5
    <2>2. CASE n = 0
        BY <1>2, <2>2, WrapIn
    <2>3. CASE n # 0
        BY <1>2, <2>1, <2>3, WrapBelow
    <2> QED
        BY <2>2, <2>3
<1>6. CASE range.start <= last
    <2>1. total = 0
        <3>1. SUFFICES ASSUME total # 0 PROVE FALSE
            OBVIOUS
        <3>2. last <= total - 1 /\ (range.end = Unset \/ last <= range.end)
            BY <1>1, <1>3, <3>1 DEF Last, Lesser
        <3>3. last \in Wanted(range, total)
            BY <1>1, <1>4, <1>6, <3>1, <3>2 DEF Wanted
        <3> QED
            BY <3>3
    <2>2. last = IF range.end = Unset THEN 2 * Half - 1 ELSE range.end
        BY <1>1, <1>3, <2>1 DEF Last, Lesser
    <2>3. CASE n = 2 * Half
        <3>1. Wrap(2 * Half) = 0
            BY DEF Wrap
        <3> QED
            BY <1>2, <2>3, <3>1
    <2>4. CASE n # 2 * Half
        <3>1. Wrap(n) = n
            BY <1>1, <1>4, <1>6, <2>4, WrapIn
        <3> QED
            BY <1>1, <1>2, <2>2, <3>1
    <2> QED
        BY <2>3, <2>4
<1> QED
    BY <1>1, <1>4, <1>5, <1>6

-----------------------------------------------------------------------------
(* What an answer says and brings.                                         *)
Honest(r) ==
    r.wanted # {} /\ r.kept =>
        /\ ~r.refused
        /\ r.announced = Cardinality(r.wanted)
        /\ r.announced <= r.sent

Exact(r) ==
    ~r.refused /\ r.announced <= r.sent =>
        r.wanted \subseteq Brought(r) /\ Brought(r) \subseteq r.there

LEMMA RangeAnswers ==
    ASSUME NEW range \in Ranges, NEW total \in 0 .. Half - 1,
           NEW now \in 0 .. Half - 1, NEW checked \in BOOLEAN
    PROVE  /\ Honest(handle_request(range, total, now, checked))
           /\ Exact(handle_request(range, total, now, checked))
<1> DEFINE r == handle_request(range, total, now, checked)
           fails == SeekFails(range) \/ (checked /\ Overflows(range, total))
           last == Last(range, total)
<1>1. /\ range.start \in 0 .. 2 * Half - 1
      /\ range.end \in (0 .. 2 * Half - 1) \cup {Unset}
      /\ range # Whole
    BY RangeNumbers
<1>2. r.wanted = Wanted(range, total) /\ r.refused = fails
    BY DEF handle_request, Refusal
<1>3. ~fails => /\ r.announced = Length(range, total)
                /\ r.sent = IF range.start <= now THEN now - range.start
                                                 ELSE 0
                /\ r.first = range.start
                /\ r.there = Wanted(range, now)
                /\ r.kept = (now >= total)
    BY <1>1 DEF handle_request, Available
<1> HIDE DEF r
<1>4. ASSUME Wanted(range, total) # {} PROVE Honest(r) /\ Exact(r)
    <2>1. /\ total > 0
          /\ last \in range.start .. total - 1
          /\ Wanted(range, total) = range.start .. last
          /\ Length(range, total) = last - range.start + 1
          /\ Length(range, total) = Cardinality(Wanted(range, total))
        BY <1>4, WantedBytes
    <2>2. ~fails
        BY <1>1, <2>1 DEF SeekFails, Overflows
    <2>3. range.end = Unset \/ last <= range.end
        <3>1. last \in Wanted(range, total)
            BY <1>1, <2>1
        <3> QED
            BY <3>1 DEF Wanted
    <2>4. Honest(r)
        <3>1. r.announced = last - range.start + 1
            BY <1>3, <2>1, <2>2
        <3>2. r.sent = IF range.start <= now THEN now - range.start ELSE 0
            BY <1>3, <2>2
        <3>3. r.kept => now >= total
            BY <1>3, <2>2
        <3>4. r.kept => r.announced <= r.sent
            BY <1>1, <2>1, <3>1, <3>2, <3>3
        <3>5. r.announced = Cardinality(r.wanted)
            BY <1>2, <1>3, <2>1, <2>2
        <3> QED
            BY <1>2, <2>2, <3>4, <3>5 DEF Honest
    <2>5. Exact(r)
        <3>1. SUFFICES ASSUME r.announced <= r.sent
                       PROVE  /\ r.wanted \subseteq Brought(r)
                              /\ Brought(r) \subseteq r.there
            BY DEF Exact
        <3>2. Brought(r) = range.start .. last
            BY <1>1, <1>3, <2>1, <2>2 DEF Brought
        <3>3. last < now
            BY <1>1, <1>3, <2>1, <2>2, <3>1
        <3>4. range.start .. last \subseteq Wanted(range, now)
            BY <1>1, <2>1, <2>3, <3>3 DEF Wanted
        <3> QED
            BY <1>2, <1>3, <2>1, <2>2, <3>2, <3>4
    <2> QED
        BY <2>4, <2>5
<1>5. ASSUME Wanted(range, total) = {} PROVE Honest(r) /\ Exact(r)
    <2>1. Honest(r)
        BY <1>2, <1>5 DEF Honest
    <2>2. Exact(r)
        <3>1. SUFFICES ASSUME ~fails, r.announced <= r.sent
                       PROVE  Brought(r) \subseteq Wanted(range, now)
            BY <1>2, <1>3, <1>5 DEF Exact
        <3>2. range.start < Half
            BY <1>1, <3>1 DEF SeekFails
        <3>3. r.sent < Half
            BY <1>1, <1>3, <3>1
        <3>4. CASE Length(range, total) = 0
            BY <1>1, <1>3, <3>1, <3>4 DEF Brought
        <3>5. CASE Length(range, total) >= Half
            <4>1. Length(range, total) \in Int
                BY <1>1, WrapRange DEF Length, Last, Lesser
            <4> QED
                BY <1>1, <1>3, <3>1, <3>3, <3>5, <4>1
        <3>6. CASE /\ range.end # Unset
                   /\ Length(range, total) = range.end - range.start + 1
            <4>1. Brought(r) = range.start .. range.end
                BY <1>1, <1>3, <3>1, <3>6 DEF Brought
            <4>2. Brought(r) # {} => range.end < now
                BY <1>1, <1>3, <3>1, <3>6, <4>1
            <4> QED
                BY <1>1, <3>6, <4>1, <4>2 DEF Wanted
        <3> QED
            BY <1>5, <3>2, <3>4, <3>5, <3>6, NoBytes
    <2> QED
        BY <2>1, <2>2
<1> QED
    BY <1>4, <1>5 DEF r

LEMMA WholeAnswers ==
    ASSUME NEW total \in Nat, NEW now \in Nat, NEW checked \in BOOLEAN
    PROVE  /\ Honest(handle_request(Whole, total, now, checked))
           /\ Exact(handle_request(Whole, total, now, checked))
<1> DEFINE r == handle_request(Whole, total, now, checked)
<1>1. /\ r.refused = FALSE /\ r.announced = total /\ r.sent = now
      /\ r.first = 0 /\ r.wanted = 0 .. total - 1 /\ r.there = 0 .. now - 1
      /\ r.kept = (now >= total)
    BY DEF handle_request, SeekFails, Overflows, Length, Available, Wanted
<1> HIDE DEF r
<1>2. Cardinality(0 .. total - 1) = total
    <2>1. Cardinality(0 .. total - 1)
            = IF 0 > total - 1 THEN 0 ELSE total - 1 - 0 + 1
        BY FS_Interval
    <2> QED
        BY <2>1
<1>3. Honest(r)
    BY <1>1, <1>2 DEF Honest
<1>4. Exact(r)
    BY <1>1 DEF Exact, Brought
<1> QED
    BY <1>3, <1>4 DEF r

(* Whatever a service of the pool answers is honest and exact.             *)
LEMMA AnswersAreExact == \A r \in AnyReply : Honest(r) /\ Exact(r)
<1>1. Honest(Refusal) /\ Exact(Refusal)
    BY DEF Refusal, Honest, Exact
<1>2. \A r \in Plain : Honest(r) /\ Exact(r)
    BY <1>1, WholeAnswers DEF Plain
<1>3. ASSUME NEW h \in Headers, NEW total \in Lengths, NEW now \in Lengths,
             NEW checked \in BOOLEAN
      PROVE  /\ Honest(handle_request(parse_range(h), total, now, checked))
             /\ Exact(handle_request(parse_range(h), total, now, checked))
    <2>1. total \in 0 .. Half - 1 /\ now \in 0 .. Half - 1
        BY LengthsAssumption
    <2>2. parse_range(h) \in Ranges \/ parse_range(h) = Whole
        BY DEF Headers, parse_range, Ranges
    <2> QED
        BY <2>1, <2>2, RangeAnswers, WholeAnswers
<1>4. \A r \in Answers : Honest(r) /\ Exact(r)
    BY <1>1, <1>3 DEF Answers
<1> QED
    BY <1>2, <1>4, ServiceAssumption DEF AnyReply, FolderReplies

-----------------------------------------------------------------------------
(* A range with a byte in the file is answered with a length that the file *)
(* has, whatever the width of the integers (folder/mod.rs:183-188).        *)
THEOREM BytesOffered == Spec => []WantedBytesAreOffered
<1>1. TypeOK => WantedBytesAreOffered
    BY AnswersAreExact DEF TypeOK, WantedBytesAreOffered, Told, Honest
<1> QED
    BY <1>1, PoolTypes, PTL

(* Only the end of a body that has what was announced puts a connection to *)
(* rest.                                                                   *)
LEMMA RestsAfterBody ==
    ASSUME Inv, Next, NEW c \in Conns, st[c] = "body", st'[c] = "resting"
    PROVE  BodyEnds(c)
<1> USE DEF Inv
<1>1. ASSUME NEW u \in Users,
             Arrive(u) \/ Task(u) \/ GetTimesOut(u) \/ Leave(u)
      PROVE  FALSE
    BY <1>1 DEF Arrive, Task, GetTimesOut, Leave, GetPool, FindPool,
                BuildPool, InsertPool, DiscardClosed, CheckOut, Send,
                SendFails, GiveBack, TypeOK, Carries
<1>2. ASSUME NEW d \in Conns,
             Connect(d) \/ Head(d) \/ Cut(d) \/ Rests(d) \/ Closes(d)
               \/ Orphaned(d) \/ ServiceCloses(d) \/ Reaped(d)
      PROVE  FALSE
    BY <1>2 DEF Connect, Head, Cut, Rests, Closes, Orphaned, ServiceCloses,
                Reaped, Becomes, GiveBack, TypeOK, Carries
<1>3. ASSUME NEW d \in Conns, BodyEnds(d), d # c PROVE FALSE
    BY <1>3 DEF BodyEnds, GiveBack, TypeOK, Carries
<1> QED
    BY <1>1, <1>2, <1>3 DEF Next, Conn, CutShort

(* An answer that ends well is the one asked for: however the numbers wrap *)
(* around and however the file changes (folder/mod.rs:183-206).            *)
THEOREM CompleteIsRight == Spec => CompleteIsExact
<1>1. ASSUME Inv, Next, NEW c \in Conns, st[c] = "body", st'[c] = "resting"
      PROVE  LET r == reply[exchange[c]]
             IN  r.wanted \subseteq Brought(r) /\ Brought(r) \subseteq r.there
    <2>1. reply[exchange[c]].announced <= reply[exchange[c]].sent
        BY <1>1, RestsAfterBody DEF BodyEnds
    <2>2. /\ reply[exchange[c]] \in AnyReply
          /\ ~reply[exchange[c]].refused
        BY <1>1, SomeReply DEF Inv, TypeOK, Carries
    <2> QED
        BY <2>1, <2>2, AnswersAreExact DEF Exact
<1>2. Inv /\ [Next]_vars =>
        [\A c \in Conns : st[c] = "body" /\ st'[c] = "resting" =>
            LET r == reply[exchange[c]]
            IN  r.wanted \subseteq Brought(r) /\ Brought(r) \subseteq r.there]_vars
    BY <1>1
<1> QED
    BY <1>2, Invariance, PTL DEF Spec, CompleteIsExact
=============================================================================
