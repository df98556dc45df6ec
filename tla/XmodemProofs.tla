---------------------------- MODULE XmodemProofs ----------------------------
(***************************************************************************)
(* Proofs about XMODEM, for every length of the data, every number of      *)
(* faults and time-outs, and packet numbers that wrap round as soon as     *)
(* those allow: what the callback gets, and what both ends make of it.     *)
(***************************************************************************)
EXTENDS Xmodem, Arithmetic, SequenceTheorems, FiniteSetTheorems

-----------------------------------------------------------------------------
(* Sequences that get longer or shorter at either end.                     *)

LEMMA Longer ==
    ASSUME NEW S, NEW q \in Seq(S), NEW e \in S, NEW p, p = Append(q, e)
    PROVE  /\ p \in Seq(S) /\ Len(p) = Len(q) + 1 /\ Len(q) \in Nat
           /\ \A i \in 1 .. Len(q) : p[i] = q[i]
           /\ p[Len(q) + 1] = e
BY AppendProperties, LenProperties

LEMMA Shorter ==
    ASSUME NEW S, NEW q \in Seq(S), q # << >>, NEW p, p = Tail(q)
    PROVE  /\ p \in Seq(S) /\ Len(p) = Len(q) - 1 /\ Len(q) \in Nat \ {0}
           /\ \A i \in 1 .. Len(p) : p[i] = q[i + 1]
           /\ Head(q) = q[1] /\ Head(q) \in S
BY HeadTailProperties, EmptySeq, LenProperties

LEMMA LastLost ==
    ASSUME NEW S, NEW q \in Seq(S), q # << >>, NEW p, p = SubSeq(q, 1, Len(q) - 1)
    PROVE  /\ p \in Seq(S) /\ Len(p) = Len(q) - 1 /\ Len(q) \in Nat \ {0}
           /\ \A i \in 1 .. Len(p) : p[i] = q[i]
<1>1. Len(q) \in Nat \ {0}
  BY EmptySeq
<1>2. PICK m \in Nat : m = Len(q) - 1
  BY <1>1
<1>3. \A i \in 1 .. m : q[i] \in S
  BY <1>1, <1>2, ElementOfSeq
<1>4. /\ SubSeq(q, 1, m) \in Seq(S) /\ Len(SubSeq(q, 1, m)) = IF 1 <= m THEN m - 1 + 1 ELSE 0
      /\ \A i \in 1 .. m - 1 + 1 : SubSeq(q, 1, m)[i] = q[1 + i - 1]
  BY <1>2, <1>3, SubSeqProperties
<1>5. /\ Len(SubSeq(q, 1, m)) = m
      /\ \A i \in 1 .. m : SubSeq(q, 1, m)[i] = q[i]
  BY <1>2, <1>4
<1> QED
  BY <1>1, <1>2, <1>4, <1>5

LEMMA LastChanged ==
    ASSUME NEW S, NEW q \in Seq(S), q # << >>, NEW e \in S, NEW p, p = [q EXCEPT ![Len(q)] = e]
    PROVE  /\ p \in Seq(S) /\ Len(p) = Len(q) /\ Len(q) \in Nat \ {0}
           /\ \A i \in 1 .. Len(q) - 1 : p[i] = q[i]
           /\ p[Len(q)] = e
<1>1. Len(q) \in Nat \ {0}
  BY EmptySeq
<1>2. Len(q) \in 1 .. Len(q)
  BY <1>1
<1>3. /\ p \in Seq(S) /\ Len(p) = Len(q)
      /\ \A j \in 1 .. Len(q) : p[j] = IF j = Len(q) THEN e ELSE q[j]
  BY <1>2, ExceptSeq
<1>4. \A i \in 1 .. Len(q) - 1 : i \in 1 .. Len(q) /\ i # Len(q)
  BY <1>1
<1> QED
  BY <1>1, <1>2, <1>3, <1>4

-----------------------------------------------------------------------------
(* How many ACKs a sequence of answers has.                                *)

AckPlaces(q) == {i \in 1 .. Len(q) : q[i] = "ACK"}
Acks(q) == Cardinality(AckPlaces(q))

LEMMA AcksAreFew ==
    ASSUME NEW S, NEW q \in Seq(S)
    PROVE  /\ IsFiniteSet(AckPlaces(q))
           /\ Acks(q) \in Nat /\ Acks(q) <= Len(q)
<1>1. Len(q) \in Nat
  BY LenProperties
<1>2. IsFiniteSet(1 .. Len(q)) /\ Cardinality(1 .. Len(q)) = Len(q)
  <2>1. 1 <= Len(q) \/ Len(q) = 0
    BY <1>1
  <2> QED
    BY <1>1, <2>1, FS_Interval
<1>3. AckPlaces(q) \in SUBSET (1 .. Len(q))
  BY DEF AckPlaces
<1> QED
  BY <1>2, <1>3, FS_Subset, FS_CardinalityType DEF Acks

LEMMA AcksOfNone == Acks(<< >>) = 0
<1>1. AckPlaces(<< >>) = {}
  BY EmptySeq DEF AckPlaces
<1> QED
  BY <1>1, FS_EmptySet DEF Acks

\* Places that hold the same hold as many ACKs.
LEMMA AcksMonotone ==
    ASSUME NEW S, NEW q \in Seq(S), NEW p \in Seq(S), AckPlaces(p) \subseteq AckPlaces(q)
    PROVE  Acks(p) <= Acks(q)
BY AcksAreFew, FS_Subset DEF Acks

LEMMA AcksWithOneMore ==
    ASSUME NEW S, NEW q \in Seq(S), NEW p \in Seq(S), NEW x,
           AckPlaces(p) \subseteq AckPlaces(q) \cup {x}
    PROVE  Acks(p) <= Acks(q) + 1
<1> DEFINE T == AckPlaces(q) \cup {x}
<1>1. IsFiniteSet(AckPlaces(q)) /\ Cardinality(AckPlaces(q)) \in Nat
  BY AcksAreFew DEF Acks
<1>2. IsFiniteSet(T) /\ Cardinality(T) <= Cardinality(AckPlaces(q)) + 1 /\ Cardinality(T) \in Nat
  <2>1. PICK A : A = AckPlaces(q)
    OBVIOUS
  <2>2. /\ IsFiniteSet(A \cup {x})
        /\ Cardinality(A \cup {x}) = IF x \in A THEN Cardinality(A) ELSE Cardinality(A) + 1
    BY <1>1, <2>1, FS_AddElement
  <2> QED
    BY <1>1, <2>1, <2>2
<1>3. Cardinality(AckPlaces(p)) <= Cardinality(T)
  BY <1>2, FS_Subset
<1>4. Cardinality(AckPlaces(p)) \in Nat
  BY AcksAreFew DEF Acks
<1> QED
  BY <1>1, <1>2, <1>3, <1>4 DEF Acks

LEMMA AcksLonger ==
    ASSUME NEW S, NEW q \in Seq(S), NEW e \in S, NEW p, p = Append(q, e)
    PROVE  /\ Acks(p) <= Acks(q) + 1
           /\ e # "ACK" => Acks(p) <= Acks(q)
<1>1. /\ p \in Seq(S) /\ Len(p) = Len(q) + 1 /\ Len(q) \in Nat
      /\ \A i \in 1 .. Len(q) : p[i] = q[i]
      /\ p[Len(q) + 1] = e
  BY Longer
<1>2. PICK l \in Nat : l = Len(q)
  BY <1>1
<1>3. AckPlaces(p) \subseteq AckPlaces(q) \cup {l + 1}
  BY <1>1, <1>2 DEF AckPlaces
<1>4. e # "ACK" => AckPlaces(p) \subseteq AckPlaces(q)
  BY <1>1, <1>2 DEF AckPlaces
<1> QED
  BY <1>1, <1>3, <1>4, AcksMonotone, AcksWithOneMore

LEMMA AcksLastLost ==
    ASSUME NEW S, NEW q \in Seq(S), q # << >>, NEW p, p = SubSeq(q, 1, Len(q) - 1)
    PROVE  Acks(p) <= Acks(q)
<1>1. AckPlaces(p) \subseteq AckPlaces(q)
  BY LastLost DEF AckPlaces
<1> QED
  BY <1>1, LastLost, AcksMonotone

LEMMA AcksLastChanged ==
    ASSUME NEW S, NEW q \in Seq(S), q # << >>, NEW e \in S, NEW p, p = [q EXCEPT ![Len(q)] = e]
    PROVE  Acks(p) <= Acks(q) + 1
<1>1. AckPlaces(p) \subseteq AckPlaces(q) \cup {Len(q)}
  BY LastChanged DEF AckPlaces
<1> QED
  BY <1>1, LastChanged, AcksWithOneMore

LEMMA AcksShorter ==
    ASSUME NEW S, NEW q \in Seq(S), q # << >>, NEW p, p = Tail(q)
    PROVE  /\ Acks(p) <= Acks(q)
           /\ Head(q) = "ACK" => Acks(p) + 1 <= Acks(q)
<1>1. /\ p \in Seq(S) /\ Len(p) = Len(q) - 1 /\ Len(q) \in Nat \ {0}
      /\ \A i \in 1 .. Len(p) : p[i] = q[i + 1]
      /\ Head(q) = q[1]
  BY Shorter
<1> DEFINE P == AckPlaces(p)
           Q == AckPlaces(q) \ {1}
           f == [i \in P |-> i + 1]
<1>2. IsFiniteSet(AckPlaces(q)) /\ IsFiniteSet(P) /\ Acks(q) \in Nat /\ Acks(p) \in Nat
  BY <1>1, AcksAreFew
<1>3. /\ IsFiniteSet(Q) /\ Cardinality(Q) \in Nat /\ Cardinality(Q) <= Acks(q)
      /\ q[1] = "ACK" => Cardinality(Q) + 1 = Acks(q)
  <2>1. /\ IsFiniteSet(Q)
        /\ Cardinality(Q) = IF 1 \in AckPlaces(q) THEN Acks(q) - 1 ELSE Acks(q)
    BY <1>2, FS_RemoveElement DEF Acks
  <2>2. q[1] = "ACK" => 1 \in AckPlaces(q)
    BY <1>1 DEF AckPlaces
  <2> QED
    BY <1>2, <2>1, <2>2, FS_CardinalityType
<1>4. f \in Injection(P, Q)
  <2>1. \A i \in P : i + 1 \in Q
    BY <1>1 DEF AckPlaces
  <2>2. \A i, j \in P : i + 1 = j + 1 => i = j
    BY <1>1 DEF AckPlaces
  <2>3. f \in [P -> Q] /\ DOMAIN f = P
    BY <2>1
  <2>4. IsInjective(f)
    BY <2>2, <2>3 DEF IsInjective
  <2> QED
    BY <2>3, <2>4 DEF Injection
<1>5. Cardinality(P) <= Cardinality(Q)
  BY <1>3, <1>4, FS_Injection
<1> QED
  BY <1>1, <1>2, <1>3, <1>5 DEF Acks

-----------------------------------------------------------------------------
(***************************************************************************)
(* What the steps do, field by field.                                      *)
(***************************************************************************)
ReceiverLocals == [at : {"ask", "wait", "flush", "end"}, response : {"C", "ACK", "NAK", "none"},
                   seqnum : 0 .. SeqMod - 1, retry : 0 .. RetryLimit, res : Result]

SenderLocals == [at : {"sync", "send", "wait", "eot", "eotwait", "end"}, crc : BOOLEAN,
                 blk : 1 .. Blocks, retry : Nat, res : Result, who : Sender]

\* The receiver only waits while it has attempts left, and only flushes for a NAK.
Typed ==
    /\ TypeOK
    /\ r.at = "wait" => r.retry > 0
    /\ r.at = "flush" => r.response = "NAK"

LEMMA Sizes ==
    /\ SeqMod \in Nat /\ SeqMod > MaxFaults + MaxLate + 1 /\ MaxFaults \in Nat /\ MaxLate \in Nat
    /\ RetryLimit \in Nat \ {0} /\ Blocks \in Nat \ {0}
<1>1. Size \div BlockSize \in Nat
  BY XmodemAssumption
<1> QED
  BY <1>1, XmodemAssumption DEF Blocks

\* The receiver goes to `at', with an answer to give and a packet to expect.
Turns(at, response, seqnum) ==
    /\ r' \in ReceiverLocals
    /\ r'.at = at /\ r'.response = response /\ r'.seqnum = seqnum
    /\ at = "wait" => r'.retry > 0

Asks ==
    /\ r.at = "ask" /\ Turns("wait", r.response, r.seqnum)
    /\ rev' = IF r.response = "none" THEN rev ELSE Append(rev, r.response)
    /\ UNCHANGED <<fwd, s, received, faults, late>>

Returns ==
    /\ r.at # "end" /\ Turns("end", r.response, r.seqnum) /\ fwd' = << >>
    /\ \E a \in Answer : rev' = Append(rev, a)
    /\ UNCHANGED <<s, received, faults, late>>

HearsNothing ==
    /\ r.at = "wait" /\ fwd = << >>
    /\ Turns("ask", IF r.response = "C" THEN "C" ELSE "none", r.seqnum)
    /\ late' \in 0 .. MaxLate
    /\ (ReceiverTurn /\ late' = late) \/ late' = late + 1
    /\ UNCHANGED <<fwd, rev, s, received, faults>>

\* A packet comes, and is delivered, acknowledged once more, or not intact.
Takes ==
    /\ r.at = "wait" /\ fwd # << >> /\ Head(fwd).k = "pkt" /\ fwd' = Tail(fwd)
    /\ \/ /\ Head(fwd).ok /\ Expected(Head(fwd))
          /\ received' = Append(received, Head(fwd).blk)
          /\ Turns("ask", "ACK", NextNumber(r.seqnum))
       \/ /\ Head(fwd).ok /\ Repeats(Head(fwd))
          /\ received' = received
          /\ Turns("ask", "ACK", r.seqnum)
       \/ received' = received /\ Turns("flush", "NAK", r.seqnum)
    /\ UNCHANGED <<rev, s, faults, late>>

Flushes ==
    /\ r.at = "flush"
    /\ \/ fwd # << >> /\ fwd' = Tail(fwd) /\ r' = r
       \/ fwd = << >> /\ fwd' = fwd /\ Turns("ask", r.response, r.seqnum)
    /\ UNCHANGED <<rev, s, received, faults, late>>

LEMMA RetryCounts ==
    ASSUME NEW x \in 1 .. RetryLimit
    PROVE  Spent(x) \in 0 .. RetryLimit
BY Sizes DEF Spent

LEMMA ReceiverDoes ==
    ASSUME Typed, Receiver
    PROVE  Asks \/ Returns \/ HearsNothing \/ Takes \/ Flushes
<1>0. /\ r \in ReceiverLocals /\ late \in 0 .. MaxLate /\ fwd \in Seq(Item)
      /\ RetryLimit \in Nat \ {0} /\ MaxLate \in Nat
      /\ r.at \in {"ask", "wait", "flush", "end"} /\ r.retry \in 0 .. RetryLimit
      /\ r.response \in {"C", "ACK", "NAK", "none"} /\ r.seqnum \in 0 .. SeqMod - 1
      /\ r.at = "wait" => r.retry \in 1 .. RetryLimit
  BY Sizes DEF Typed, TypeOK, ReceiverLocals
<1>1. CASE Ask
  <2>1. r' = [r EXCEPT !.at = "wait"] /\ r.retry > 0
    BY <1>1 DEF Ask
  <2>2. Turns("wait", r.response, r.seqnum)
    BY <1>0, <2>1 DEF Turns, ReceiverLocals
  <2> QED
    BY <1>1, <2>2 DEF Ask, Asks, OnTime, Quiet
<1>2. ASSUME NEW result \in Result, NEW a \in Answer, Return(result, a), r.at # "end"
      PROVE  Returns
  <2>1. r' = [r EXCEPT !.at = "end", !.res = result]
    BY <1>2 DEF Return
  <2>2. Turns("end", r.response, r.seqnum)
    BY <1>0, <1>2, <2>1 DEF Turns, ReceiverLocals
  <2> QED
    BY <1>2, <2>2 DEF Return, Returns, OnTime, Quiet
<1>3. CASE GiveUp \/ EndOfText \/ Cancelled \/ OutOfSync
  BY <1>2, <1>3 DEF GiveUp, EndOfText, Cancelled, OutOfSync, Hears, Result, Answer
<1>4. CASE HearNothing
  <2>1. PICK x \in 0 .. RetryLimit : x = Spent(r.retry)
    BY <1>0, <1>4, RetryCounts DEF HearNothing
  <2>2. PICK a \in {"C", "none"} : a = IF r.response = "C" THEN "C" ELSE "none"
    OBVIOUS
  <2>3. r' = [r EXCEPT !.at = "ask", !.retry = x, !.response = a]
    BY <1>4, <2>1, <2>2 DEF HearNothing
  <2>4. Turns("ask", a, r.seqnum)
    BY <1>0, <2>3 DEF Turns, ReceiverLocals
  <2> QED
    BY <1>0, <1>4, <2>2, <2>4 DEF HearNothing, HearsNothing, Patience, Quiet
<1>5. CASE Deliver
  <2>1. PICK m \in 0 .. SeqMod - 1 : m = NextNumber(r.seqnum)
    BY <1>0, Sizes DEF NextNumber
  <2>0. PICK x \in 0 .. RetryLimit : x = RetryLimit
    BY <1>0
  <2>2. r' = [r EXCEPT !.at = "ask", !.response = "ACK", !.retry = x, !.seqnum = m]
    BY <1>5, <2>0, <2>1 DEF Deliver
  <2>3. Turns("ask", "ACK", m)
    BY <1>0, <2>2 DEF Turns, ReceiverLocals
  <2> QED
    BY <1>5, <2>1, <2>3 DEF Deliver, Takes, Hears, Intact, OnTime, Quiet
<1>6. CASE Duplicate
  <2>1. r' = [r EXCEPT !.at = "ask", !.response = "ACK"]
    BY <1>6 DEF Duplicate
  <2>2. Turns("ask", "ACK", r.seqnum)
    BY <1>0, <2>1 DEF Turns, ReceiverLocals
  <2> QED
    BY <1>6, <2>2 DEF Duplicate, Takes, Hears, Intact, OnTime, Quiet
<1>7. CASE BadPacket
  <2>1. PICK x \in 0 .. RetryLimit : x = Spent(r.retry)
    BY <1>0, <1>7, RetryCounts DEF BadPacket, Hears
  <2>2. r' = [r EXCEPT !.at = "flush", !.response = "NAK", !.retry = x]
    BY <1>7, <2>1 DEF BadPacket
  <2>3. Turns("flush", "NAK", r.seqnum)
    BY <1>0, <2>2 DEF Turns, ReceiverLocals
  <2> QED
    BY <1>7, <2>3 DEF BadPacket, Takes, Hears, OnTime, Quiet
<1>8. CASE Flush
  <2>1. CASE fwd # << >>
    BY <1>8, <2>1 DEF Flush, Flushes, OnTime, Quiet
  <2>2. CASE fwd = << >>
    <3>1. r' = [r EXCEPT !.at = "ask"]
      BY <1>8, <2>2 DEF Flush
    <3>2. Turns("ask", r.response, r.seqnum)
      BY <1>0, <3>1 DEF Turns, ReceiverLocals
    <3> QED
      BY <1>8, <2>2, <3>2 DEF Flush, Flushes, OnTime, Quiet
  <2> QED
    BY <2>1, <2>2
<1> QED
  BY <1>1, <1>3, <1>4, <1>5, <1>6, <1>7, <1>8 DEF Receiver

\* The sender goes to `at', with block b.
Moves(at, b) ==
    /\ s' \in SenderLocals
    /\ s'.at = at /\ s'.blk = b

Packet(e) ==
    /\ e \in Item /\ e.k = "pkt"
    /\ e.blk = s.blk /\ e.seq = s.blk % SeqMod

Sends ==
    /\ s.at = "send" /\ Moves("wait", s.blk)
    /\ \E e \in Item : Packet(e) /\ fwd' = Append(fwd, e)
    /\ UNCHANGED <<rev, r, received, faults, late>>

SendsEot ==
    /\ s.at = "eot" /\ Moves("eotwait", s.blk)
    /\ \E e \in Item : e.k = "EOT" /\ fwd' = Append(fwd, e)
    /\ UNCHANGED <<rev, r, received, faults, late>>

Quits ==
    /\ s.at # "end" /\ Moves("end", s.blk) /\ rev' = << >>
    /\ fwd' = fwd \/ \E e \in Item : e.k = "CAN" /\ fwd' = Append(fwd, e)
    /\ late' \in late .. MaxLate
    /\ UNCHANGED <<r, received, faults>>

HearsSilence ==
    /\ s.at \in {"sync", "wait", "eotwait"} /\ rev = << >>
    /\ \/ s.at = "sync" /\ Moves("sync", s.blk)
       \/ s.at = "wait" /\ Moves("send", s.blk)
       \/ s.at = "eotwait" /\ Moves("eot", s.blk)
    /\ late' \in 0 .. MaxLate
    /\ (SenderTurn /\ late' = late) \/ late' = late + 1
    /\ UNCHANGED <<fwd, rev, r, received, faults>>

\* An answer takes the sender on to the next block only if it is an ACK.
HearsAnswer ==
    /\ s.at \in {"sync", "wait", "eotwait"} /\ rev # << >> /\ rev' = Tail(rev)
    /\ \/ \E at \in {"sync", "send", "eot"} : Moves(at, s.blk)
       \/ Head(rev) = "ACK" /\ Moves("send", s.blk + 1)
    /\ UNCHANGED <<fwd, r, received, faults, late>>

LEMMA Listened ==
    ASSUME Typed, NEW c, NEW l,
           \/ rev = << >> /\ c = "none" /\ Patience(SenderTurn)
           \/ rev # << >> /\ c = Head(rev) /\ UNCHANGED late,
           UNCHANGED faults, l = late'
    PROVE  /\ l \in late .. MaxLate
           /\ rev = << >> => (SenderTurn /\ l = late) \/ l = late + 1
<1>1. late \in 0 .. MaxLate /\ MaxLate \in Nat
  BY Sizes DEF Typed, TypeOK
<1>2. CASE rev = << >>
  <2>1. (SenderTurn /\ l = late) \/ (late < MaxLate /\ l = late + 1)
    BY <1>2 DEF Patience
  <2> QED
    BY <1>1, <2>1
<1>3. CASE rev # << >>
  BY <1>1, <1>3
<1> QED
  BY <1>2, <1>3

LEMMA WordsAreItems ==
    ASSUME Typed, NEW words \in {<< >>, Abort}, fwd' = fwd \o words
    PROVE  fwd' = fwd \/ \E e \in Item : e.k = "CAN" /\ fwd' = Append(fwd, e)
<1>1. fwd \in Seq(Item)
  BY DEF Typed, TypeOK
<1>2. CASE words = << >>
  BY <1>1, <1>2, ConcatEmptySeq
<1>3. CASE words = Abort
  <2>1. PICK e \in Item : e = [k |-> "CAN"]
    BY DEF Item
  <2>2. e.k = "CAN" /\ Abort = <<e>>
    BY <2>1 DEF Abort
  <2>3. fwd \o <<e>> = Append(fwd, e)
    BY <1>1, <2>1, AppendIsConcat
  <2> QED
    BY <1>3, <2>2, <2>3
<1> QED
  BY <1>2, <1>3

LEMMA SenderDoes ==
    ASSUME Typed, SenderStep
    PROVE  Sends \/ SendsEot \/ Quits \/ HearsSilence \/ HearsAnswer
<1>0. /\ s \in SenderLocals /\ late \in 0 .. MaxLate /\ MaxLate \in Nat /\ Blocks \in Nat \ {0}
      /\ fwd \in Seq(Item)
      /\ s.at \in {"sync", "send", "wait", "eot", "eotwait", "end"} /\ s.crc \in BOOLEAN
      /\ s.blk \in 1 .. Blocks /\ s.retry \in Nat /\ s.who \in Sender
  BY Sizes DEF Typed, TypeOK, SenderLocals
<1>1. CASE Send
  <2>1. s.at = "send" /\ s' = [s EXCEPT !.at = "wait"]
    BY <1>1 DEF Send
  <2>2. Moves("wait", s.blk)
    BY <1>0, <2>1 DEF Moves, SenderLocals
  <2>a. CrcIsRight \in BOOLEAN
    BY DEF CrcIsRight
  <2>b. s.blk % SeqMod \in 0 .. SeqMod - 1
    BY <1>0, Sizes
  <2>3. PICK q \in 0 .. SeqMod - 1, o \in BOOLEAN, b \in 1 .. Blocks :
            q = s.blk % SeqMod /\ b = s.blk /\ o = CrcIsRight
    BY <1>0, <2>a, <2>b
  <2>4. PICK e : e = [k |-> "pkt", seq |-> q, blk |-> b, ok |-> o]
    OBVIOUS
  <2>5. e \in Item /\ e.k = "pkt" /\ e.seq = q /\ e.blk = b
    BY <2>4 DEF Item
  <2>6. fwd' = Append(fwd, e)
    BY <1>1, <2>3, <2>4 DEF Send
  <2> QED
    BY <1>1, <2>1, <2>2, <2>3, <2>5, <2>6 DEF Send, Sends, Packet, OnTime, Quiet
<1>2. CASE SendEot
  <2>1. s.at = "eot" /\ s' = [s EXCEPT !.at = "eotwait"]
    BY <1>2 DEF SendEot
  <2>2. Moves("eotwait", s.blk)
    BY <1>0, <2>1 DEF Moves, SenderLocals
  <2>3. PICK e \in Item : e = [k |-> "EOT"]
    BY DEF Item
  <2>4. e.k = "EOT"
    BY <2>3
  <2> QED
    BY <1>2, <2>1, <2>2, <2>3, <2>4 DEF SendEot, SendsEot, OnTime, Quiet
<1>3. ASSUME NEW result \in Result, NEW words \in {<< >>, Abort}, Quit(result, words),
             s.at # "end", UNCHANGED faults, late' \in late .. MaxLate
      PROVE  Quits
  <2>1. s' = [s EXCEPT !.at = "end", !.res = result]
    BY <1>3 DEF Quit
  <2>2. Moves("end", s.blk)
    BY <1>0, <2>1 DEF Moves, SenderLocals
  <2>3. fwd' = fwd \/ \E e \in Item : e.k = "CAN" /\ fwd' = Append(fwd, e)
    BY <1>3, WordsAreItems DEF Quit
  <2> QED
    BY <1>3, <2>2, <2>3 DEF Quit, Quits
<1>4. ASSUME NEW c,
             \/ rev = << >> /\ c = "none" /\ Patience(SenderTurn)
             \/ rev # << >> /\ c = Head(rev) /\ UNCHANGED late,
             UNCHANGED faults, Hushed,
             \/ s.at = "sync" /\ Moves("sync", s.blk)
             \/ s.at = "wait" /\ Moves("send", s.blk)
             \/ s.at = "eotwait" /\ Moves("eot", s.blk)
      PROVE  HearsSilence \/ HearsAnswer
  <2>1. /\ late' \in late .. MaxLate
        /\ rev = << >> => (SenderTurn /\ late' = late) \/ late' = late + 1
    BY <1>4, Listened
  <2>2. CASE rev = << >>
    BY <1>0, <1>4, <2>1, <2>2 DEF HearsSilence, Hushed
  <2>3. CASE rev # << >>
    BY <1>4, <2>3 DEF HearsAnswer, Hushed
  <2> QED
    BY <2>2, <2>3
<1>5. ASSUME NEW c,
             \/ rev = << >> /\ c = "none" /\ Patience(SenderTurn)
             \/ rev # << >> /\ c = Head(rev) /\ UNCHANGED late,
             UNCHANGED faults, Hushed, c # "none", s.at \in {"sync", "wait", "eotwait"},
             \/ \E at \in {"sync", "send", "eot"} : Moves(at, s.blk)
             \/ c = "ACK" /\ Moves("send", s.blk + 1)
      PROVE  HearsAnswer
  BY <1>5 DEF HearsAnswer, Hushed
<1>6. ASSUME NEW c,
             \/ rev = << >> /\ c = "none" /\ Patience(SenderTurn)
             \/ rev # << >> /\ c = Head(rev) /\ UNCHANGED late,
             UNCHANGED faults, s.at = "sync", SyncStep(c)
      PROVE  Quits \/ HearsSilence \/ HearsAnswer
  <2>1. CASE c \in {"C", "NAK"} /\ s' = [s EXCEPT !.at = "send", !.crc = (c = "C"), !.retry = 0] /\ Hushed
    <3>1. PICK o \in BOOLEAN : o = (c = "C")
      OBVIOUS
    <3>2. s' = [s EXCEPT !.at = "send", !.crc = o, !.retry = 0]
      BY <2>1, <3>1
    <3>3. Moves("send", s.blk)
      BY <1>0, <3>2 DEF Moves, SenderLocals
    <3> QED
      BY <1>5, <1>6, <2>1, <3>3
  <2>2. CASE c \notin {"C", "NAK", "CAN"} /\ s' = [s EXCEPT !.retry = @ + 1] /\ Hushed
    <3>1. Moves("sync", s.blk)
      BY <1>0, <1>6, <2>2 DEF Moves, SenderLocals
    <3> QED
      BY <1>4, <1>6, <2>2, <3>1
  <2>3. ASSUME NEW result \in {"canceled", "nosync"}, NEW words \in {<< >>, Abort}, Quit(result, words)
        PROVE  Quits
    BY <1>3, <1>6, <2>3, Listened DEF Result
  <2> QED
    BY <1>6, <2>1, <2>2, <2>3 DEF SyncStep
<1>7. ASSUME NEW c,
             \/ rev = << >> /\ c = "none" /\ Patience(SenderTurn)
             \/ rev # << >> /\ c = Head(rev) /\ UNCHANGED late,
             UNCHANGED faults, s.at = "wait", BlockStep(c)
      PROVE  Quits \/ HearsSilence \/ HearsAnswer
  <2>1. CASE c = "ACK" /\ Hushed /\ s.blk < Blocks /\ s' = [s EXCEPT !.at = "send", !.blk = @ + 1, !.retry = 0]
    <3>1. PICK b \in 1 .. Blocks : b = s.blk + 1
      BY <1>0, <2>1
    <3>2. s' = [s EXCEPT !.at = "send", !.blk = b, !.retry = 0]
      BY <2>1, <3>1
    <3>3. Moves("send", b)
      BY <1>0, <3>2 DEF Moves, SenderLocals
    <3> QED
      BY <1>5, <1>7, <2>1, <3>1, <3>3
  <2>2. CASE c = "ACK" /\ Hushed /\ s' = [s EXCEPT !.at = "eot", !.retry = 0]
    <3>1. Moves("eot", s.blk)
      BY <1>0, <2>2 DEF Moves, SenderLocals
    <3> QED
      BY <1>5, <1>7, <2>2, <3>1
  <2>3. CASE s' = [s EXCEPT !.at = "send", !.retry = @ + 1] /\ Hushed
    <3>0. PICK x \in Nat : x = s.retry + 1
      BY <1>0
    <3>1. Moves("send", s.blk)
      BY <1>0, <2>3, <3>0 DEF Moves, SenderLocals
    <3> QED
      BY <1>4, <1>7, <2>3, <3>1
  <2>4. ASSUME NEW result \in {"canceled", "xmit"}, NEW words \in {<< >>, Abort}, Quit(result, words)
        PROVE  Quits
    BY <1>3, <1>7, <2>4, Listened DEF Result
  <2> QED
    BY <1>7, <2>1, <2>2, <2>3, <2>4 DEF BlockStep, Acknowledged
<1>8. ASSUME NEW c,
             \/ rev = << >> /\ c = "none" /\ Patience(SenderTurn)
             \/ rev # << >> /\ c = Head(rev) /\ UNCHANGED late,
             UNCHANGED faults, s.at = "eotwait", EotStep(c)
      PROVE  Quits \/ HearsSilence \/ HearsAnswer
  <2>1. CASE s' = [s EXCEPT !.at = "eot", !.retry = @ + 1] /\ Hushed
    <3>0. PICK x \in Nat : x = s.retry + 1
      BY <1>0
    <3>1. Moves("eot", s.blk)
      BY <1>0, <2>1, <3>0 DEF Moves, SenderLocals
    <3> QED
      BY <1>4, <1>8, <2>1, <3>1
  <2>2. ASSUME NEW result \in {"ok", "noack"}, NEW words \in {<< >>, Abort}, Quit(result, words)
        PROVE  Quits
    BY <1>3, <1>8, <2>2, Listened DEF Result
  <2> QED
    BY <1>8, <2>1, <2>2 DEF EotStep
<1>9. CASE Sync
  BY <1>6, <1>9 DEF Sync, Listen, OnTime, Quiet
<1>10. CASE AwaitAck
  BY <1>7, <1>10 DEF AwaitAck, Listen, OnTime, Quiet
<1>11. CASE AwaitEotAck
  BY <1>8, <1>11 DEF AwaitEotAck, Listen, OnTime, Quiet
<1> QED
  BY <1>1, <1>2, <1>9, <1>10, <1>11 DEF SenderStep

\* A damaged packet is not intact, or is none.
Damaged(e, p) == e.k = "EOT" \/ (e.k = "pkt" /\ ~e.ok /\ e.seq = p.seq /\ e.blk = p.blk)

Strikes ==
    /\ faults < MaxFaults /\ faults' = faults + 1
    /\ \/ fwd # << >> /\ fwd' = SubSeq(fwd, 1, Len(fwd) - 1) /\ UNCHANGED rev
       \/ rev # << >> /\ rev' = SubSeq(rev, 1, Len(rev) - 1) /\ UNCHANGED fwd
       \/ /\ fwd # << >> /\ fwd[Len(fwd)].k = "pkt" /\ UNCHANGED rev
          /\ \E e \in Item : Damaged(e, fwd[Len(fwd)]) /\ fwd' = [fwd EXCEPT ![Len(fwd)] = e]
       \/ /\ rev # << >> /\ UNCHANGED fwd
          /\ \E a \in Answer : rev' = [rev EXCEPT ![Len(rev)] = a]
    /\ UNCHANGED <<r, s, received, late>>

LEMMA LineDoes ==
    ASSUME Typed, Line
    PROVE  Strikes
<1>0. fwd \in Seq(Item) /\ rev \in Seq(Answer)
  BY DEF Typed, TypeOK
<1>1. CASE Lose
  BY <1>1 DEF Lose, Strike, Strikes
<1>2. CASE Garble
  <2>1. faults < MaxFaults /\ faults' = faults + 1 /\ UNCHANGED <<r, s, received, late>>
    BY <1>2 DEF Garble, Strike
  <2>2. CASE rev # << >> /\ UNCHANGED fwd /\ \E a \in {"noise", "ACK", "NAK"} : rev' = [rev EXCEPT ![Len(rev)] = a]
    BY <2>1, <2>2 DEF Strikes, Answer
  <2>3. CASE /\ fwd # << >> /\ UNCHANGED rev /\ fwd[Len(fwd)].k = "pkt"
             /\ \/ fwd' = [fwd EXCEPT ![Len(fwd)].ok = FALSE]
                \/ fwd' = [fwd EXCEPT ![Len(fwd)] = [k |-> "EOT"]]
    <3>1. PICK l \in 1 .. Len(fwd), p \in Item : l = Len(fwd) /\ p = fwd[l] /\ p.k = "pkt"
      <4>1. Len(fwd) \in 1 .. Len(fwd)
        BY <1>0, <2>3, EmptySeq
      <4> QED
        BY <1>0, <2>3, <4>1, ElementOfSeq
    <3>2. p \in [k : {"pkt"}, seq : 0 .. SeqMod - 1, blk : 1 .. Blocks, ok : BOOLEAN]
      BY <3>1 DEF Item
    <3>3. CASE fwd' = [fwd EXCEPT ![Len(fwd)].ok = FALSE]
      <4>1. PICK e : e = [p EXCEPT !.ok = FALSE]
        OBVIOUS
      <4>2. e \in Item /\ e.k = "pkt" /\ e.ok = FALSE /\ e.seq = p.seq /\ e.blk = p.blk
        BY <3>1, <3>2, <4>1 DEF Item
      <4>3. fwd' = [fwd EXCEPT ![Len(fwd)] = e]
        BY <3>1, <3>3, <4>1
      <4> QED
        BY <2>1, <2>3, <3>1, <4>2, <4>3 DEF Strikes, Damaged
    <3>4. CASE fwd' = [fwd EXCEPT ![Len(fwd)] = [k |-> "EOT"]]
      <4>1. PICK e \in Item : e = [k |-> "EOT"]
        BY DEF Item
      <4>2. e.k = "EOT"
        BY <4>1
      <4> QED
        BY <2>1, <2>3, <3>4, <4>1, <4>2 DEF Strikes, Damaged
    <3> QED
      BY <2>3, <3>3, <3>4
  <2> QED
    BY <1>2, <2>2, <2>3 DEF Garble
<1> QED
  BY <1>1, <1>2 DEF Line

\* Every step is one of these.
LEMMA StepKinds ==
    ASSUME Typed, [Next]_vars
    PROVE  \/ Asks \/ Returns \/ HearsNothing \/ Takes \/ Flushes
           \/ Sends \/ SendsEot \/ Quits \/ HearsSilence \/ HearsAnswer
           \/ Strikes \/ UNCHANGED vars
BY ReceiverDoes, SenderDoes, LineDoes DEF Next

-----------------------------------------------------------------------------
(* Types.                                                                  *)

LEMMA ForgedIsBoolean ==
    ASSUME forged \in BOOLEAN, Next
    PROVE  forged' \in BOOLEAN
<1>1. CASE Receiver
  BY <1>1 DEF Receiver, Ask, GiveUp, HearNothing, EndOfText, Cancelled, Deliver, Duplicate,
     OutOfSync, BadPacket, Flush, Return, OnTime, Quiet
<1>2. CASE SenderStep
  BY <1>2 DEF SenderStep, Sync, Send, AwaitAck, SendEot, AwaitEotAck, Listen, OnTime, Quiet
<1>3. CASE Line
  BY <1>3 DEF Line, Lose, Garble
<1> QED
  BY <1>1, <1>2, <1>3 DEF Next

LEMMA QueuesKeepTypes ==
    ASSUME Typed, [Next]_vars
    PROVE  fwd' \in Seq(Item) /\ rev' \in Seq(Answer)
<1>0. fwd \in Seq(Item) /\ rev \in Seq(Answer) /\ r.response \in {"C", "ACK", "NAK", "none"}
  BY DEF Typed, TypeOK
<1>1. CASE Asks
  BY <1>0, <1>1, Longer DEF Asks, Answer
<1>2. CASE Returns
  BY <1>0, <1>2, Longer, EmptySeq DEF Returns
<1>3. CASE HearsNothing \/ UNCHANGED vars
  BY <1>0, <1>3 DEF HearsNothing, vars
<1>4. CASE Takes \/ Flushes
  BY <1>0, <1>4, Shorter DEF Takes, Flushes
<1>5. CASE Sends \/ SendsEot
  BY <1>0, <1>5, Longer DEF Sends, SendsEot
<1>6. CASE Quits
  BY <1>0, <1>6, Longer, EmptySeq DEF Quits
<1>7. CASE HearsSilence \/ HearsAnswer
  BY <1>0, <1>7, Shorter DEF HearsSilence, HearsAnswer
<1>8. CASE Strikes
  BY <1>0, <1>8, LastLost, LastChanged DEF Strikes
<1> QED
  BY <1>1, <1>2, <1>3, <1>4, <1>5, <1>6, <1>7, <1>8, StepKinds

LEMMA StepsKeepTypes ==
    ASSUME Typed, [Next]_vars
    PROVE  Typed'
<1>0. /\ r \in ReceiverLocals /\ s \in SenderLocals /\ received \in Seq(1 .. Blocks)
      /\ faults \in 0 .. MaxFaults /\ late \in 0 .. MaxLate /\ forged \in BOOLEAN
      /\ MaxFaults \in Nat /\ MaxLate \in Nat /\ fwd \in Seq(Item)
      /\ r.at = "wait" => r.retry > 0
      /\ r.at = "flush" => r.response = "NAK"
  BY Sizes DEF Typed, TypeOK, ReceiverLocals, SenderLocals
<1>1. fwd' \in Seq(Item) /\ rev' \in Seq(Answer)
  BY QueuesKeepTypes
<1>2. forged' \in BOOLEAN
  BY <1>0, ForgedIsBoolean DEF vars
<1>3. /\ r' \in ReceiverLocals /\ (r'.at = "wait" => r'.retry > 0)
      /\ r'.at = "flush" => r'.response = "NAK"
  BY <1>0, StepKinds DEF Asks, Returns, HearsNothing, Takes, Flushes, Turns,
     Sends, SendsEot, Quits, HearsSilence, HearsAnswer, Strikes, vars
<1>4. s' \in SenderLocals
  BY <1>0, StepKinds DEF Asks, Returns, HearsNothing, Takes, Flushes, Moves,
     Sends, SendsEot, Quits, HearsSilence, HearsAnswer, Strikes, vars
<1>5. received' \in Seq(1 .. Blocks)
  <2>1. CASE Takes /\ received' = Append(received, Head(fwd).blk)
    <3>1. PICK p \in Item : p = Head(fwd) /\ p.k = "pkt"
      BY <1>0, <2>1, Shorter DEF Takes
    <3>2. p.blk \in 1 .. Blocks
      BY <3>1 DEF Item
    <3> QED
      BY <1>0, <2>1, <3>1, <3>2, Longer
  <2>2. received' = received \/ (Takes /\ received' = Append(received, Head(fwd).blk))
    BY StepKinds DEF Asks, Returns, HearsNothing, Takes, Flushes,
       Sends, SendsEot, Quits, HearsSilence, HearsAnswer, Strikes, vars
  <2> QED
    BY <1>0, <2>1, <2>2
<1>6. faults' \in 0 .. MaxFaults
  <2>1. faults' = faults \/ (faults < MaxFaults /\ faults' = faults + 1)
    BY StepKinds DEF Asks, Returns, HearsNothing, Takes, Flushes,
       Sends, SendsEot, Quits, HearsSilence, HearsAnswer, Strikes, vars
  <2> QED
    BY <1>0, <2>1
<1>7. late' \in 0 .. MaxLate
  <2>1. late' = late \/ late' \in 0 .. MaxLate \/ late' \in late .. MaxLate
    BY StepKinds DEF Asks, Returns, HearsNothing, Takes, Flushes,
       Sends, SendsEot, Quits, HearsSilence, HearsAnswer, Strikes, vars
  <2> QED
    BY <1>0, <2>1
<1> QED
  BY <1>1, <1>2, <1>3, <1>4, <1>5, <1>6, <1>7 DEF Typed, TypeOK, ReceiverLocals, SenderLocals

LEMMA TypedInit == Init => Typed
<1> SUFFICES ASSUME Init PROVE Typed
  OBVIOUS
<1>1. PICK m \in 0 .. SeqMod - 1, b \in 1 .. Blocks, x \in 0 .. RetryLimit :
          m = 1 % SeqMod /\ b = 1 /\ x = RetryLimit
  BY Sizes
<1>2. r = [at |-> "ask", response |-> "C", seqnum |-> m, retry |-> x, res |-> "none"]
  BY <1>1 DEF Init
<1>3. r \in ReceiverLocals /\ r.at = "ask"
  BY <1>2 DEF ReceiverLocals, Result
<1>4. s \in SenderLocals
  <2>1. PICK w \in Sender : s = [at |-> "sync", crc |-> TRUE, blk |-> b, retry |-> 0,
                                 res |-> "none", who |-> w]
    BY <1>1 DEF Init
  <2> QED
    BY <2>1 DEF SenderLocals, Result
<1>5. faults \in 0 .. MaxFaults /\ late \in 0 .. MaxLate
  BY Sizes DEF Init
<1>6. fwd \in Seq(Item) /\ rev \in Seq(Answer) /\ received \in Seq(1 .. Blocks)
  BY EmptySeq DEF Init
<1>7. forged \in BOOLEAN
  BY DEF Init
<1> QED
  BY <1>3, <1>4, <1>5, <1>6, <1>7 DEF Typed, TypeOK, ReceiverLocals, SenderLocals

\* Both ends and the line keep to their types: no count of attempts goes below nothing.
THEOREM TransfersKeepTypes == Spec => []TypeOK
<1>1. Typed /\ [Next]_vars => Typed'
  BY StepsKeepTypes
<1>2. Typed => TypeOK
  BY DEF Typed
<1> QED
  BY <1>1, <1>2, TypedInit, PTL DEF Spec

-----------------------------------------------------------------------------
(***************************************************************************)
(* How much is under way at once.  An answer is given for a packet, and a  *)
(* packet sent for an answer; only a time-out while something is due makes *)
(* one more of them.                                                       *)
(***************************************************************************)
Held    == IF r.at = "flush" \/ (r.at = "ask" /\ r.response # "none") THEN 1 ELSE 0
Sending == IF s.at \in {"send", "eot"} THEN 1 ELSE 0

UnderWay ==
    r.at # "end" /\ s.at # "end" => Len(fwd) + Len(rev) + Held + Sending <= 1 + late

LEMMA UnderWayIsInductive ==
    ASSUME Typed, UnderWay, [Next]_vars
    PROVE  UnderWay'
<1>0. /\ fwd \in Seq(Item) /\ rev \in Seq(Answer) /\ Len(fwd) \in Nat /\ Len(rev) \in Nat
      /\ late \in Nat /\ MaxLate \in Nat /\ r.response \in {"C", "ACK", "NAK", "none"}
      /\ r.at = "flush" => r.response = "NAK"
      /\ Len(fwd)' \in Nat /\ Len(rev)' \in Nat
  BY QueuesKeepTypes, LenProperties, Sizes DEF Typed, TypeOK
<1>e. Len(<< >>) = 0
  BY EmptySeq
<1>1. CASE Asks
  <2>1. r.response # "none" => Len(rev') = Len(rev) + 1
    BY <1>0, <1>1, Longer DEF Asks, Answer
  <2>2. r.response = "none" => rev' = rev
    BY <1>1 DEF Asks
  <2>3. Held = (IF r.response # "none" THEN 1 ELSE 0) /\ Held' = 0 /\ r.at # "end"
    BY <1>1 DEF Asks, Turns, Held
  <2>4. Len(rev') = Len(rev) + Held /\ Held \in Nat
    BY <1>0, <2>1, <2>2, <2>3
  <2>5. fwd' = fwd /\ s' = s /\ late' = late /\ Sending' = Sending /\ Sending \in Nat
    BY <1>1 DEF Asks, Sending
  <2> QED
    BY <1>0, <2>3, <2>4, <2>5 DEF UnderWay
<1>2. CASE Returns \/ Quits
  BY <1>2 DEF Returns, Quits, Turns, Moves, UnderWay
<1>3. CASE HearsNothing
  <2>1. SUFFICES ASSUME s.at # "end"
                 PROVE  Len(fwd') + Len(rev') + Held' + Sending' <= 1 + late'
    BY <1>3 DEF HearsNothing, UnderWay
  <2>2. Len(fwd) = 0 /\ Held = 0 /\ Held' <= 1 /\ Held' \in Nat /\ Sending' = Sending /\ Sending \in Nat
    BY <1>3, <1>e DEF HearsNothing, Held, Sending
  <2>3. Len(fwd) + Len(rev) + Held + Sending <= 1 + late
    BY <1>3, <2>1 DEF HearsNothing, UnderWay
  <2>4. CASE late' = late + 1
    BY <1>0, <1>3, <2>2, <2>3, <2>4 DEF HearsNothing
  <2>5. CASE ReceiverTurn /\ late' = late
    <3>0. Sending = 0
      BY <2>1, <2>5 DEF ReceiverTurn, SenderWaits, Sending
    <3>1. rev = << >>
      BY <2>1, <2>5 DEF ReceiverTurn, SenderWaits
    <3>2. fwd' = << >> /\ rev' = << >>
      BY <1>3, <3>1 DEF HearsNothing
    <3>3. Len(fwd') = 0 /\ Len(rev') = 0
      BY <1>e, <3>2
    <3>a. PICK g \in 0 .. 1 : g = Held'
      BY <2>2
    <3>4. Sending' = 0
      BY <1>3, <3>0 DEF HearsNothing, Sending
    <3>5. late' \in Nat
      BY <1>0, <2>5
    <3>6. PICK n \in {0}, m \in {0} : n = Len(fwd') /\ m = Len(rev')
      BY <3>3
    <3>7. PICK l \in Nat : l = late'
      BY <3>5
    <3>8. n + m + g + 0 <= 1 + l /\ n + m + 0 + g <= 1 + l
      OBVIOUS
    <3> QED
      BY <3>4, <3>6, <3>7, <3>8, <3>a
  <2> QED
    BY <1>3, <2>4, <2>5 DEF HearsNothing
<1>4. CASE Takes
  <2>1. Len(fwd') = Len(fwd) - 1
    BY <1>0, <1>4, Shorter DEF Takes
  <2>2. Held = 0 /\ Held' <= 1 /\ Held' \in Nat /\ r.at # "end"
    BY <1>4 DEF Takes, Held
  <2> QED
    BY <1>0, <1>4, <2>1, <2>2 DEF Takes, UnderWay, Sending
<1>5. CASE Flushes
  <2>1. Len(fwd') <= Len(fwd)
    BY <1>0, <1>5, Shorter DEF Flushes
  <2>2. Held = 1 /\ Held' <= 1 /\ Held' \in Nat /\ r.at # "end"
    BY <1>5 DEF Flushes, Held
  <2> QED
    BY <1>0, <1>5, <2>1, <2>2 DEF Flushes, UnderWay, Sending
<1>6. CASE Sends \/ SendsEot
  <2>1. Len(fwd') = Len(fwd) + 1
    BY <1>0, <1>6, Longer DEF Sends, SendsEot
  <2>2. Sending = 1 /\ Sending' = 0 /\ s.at # "end"
    BY <1>6 DEF Sends, SendsEot, Moves, Sending
  <2>3. Held' = Held /\ Held \in Nat
    BY <1>6 DEF Sends, SendsEot, Held
  <2> QED
    BY <1>0, <1>6, <2>1, <2>2, <2>3 DEF Sends, SendsEot, UnderWay
<1>7. CASE HearsSilence
  <2>1. SUFFICES ASSUME r.at # "end"
                 PROVE  Len(fwd') + Len(rev') + Held' + Sending' <= 1 + late'
    BY <1>7 DEF HearsSilence, UnderWay
  <2>2. Len(rev) = 0 /\ Sending = 0 /\ Sending' <= 1 /\ Sending' \in Nat /\ Held' = Held /\ Held \in Nat
    BY <1>7, <1>e DEF HearsSilence, Held, Sending
  <2>3. Len(fwd) + Len(rev) + Held + Sending <= 1 + late
    BY <1>7, <2>1 DEF HearsSilence, UnderWay
  <2>4. CASE late' = late + 1
    BY <1>0, <1>7, <2>2, <2>3, <2>4 DEF HearsSilence
  <2>5. CASE SenderTurn /\ late' = late
    <3>0. Held = 0
      BY <2>1, <2>5 DEF SenderTurn, ReceiverWaits, Held
    <3>1. fwd = << >>
      BY <2>1, <2>5 DEF SenderTurn, ReceiverWaits
    <3>2. fwd' = << >> /\ rev' = << >>
      BY <1>7, <3>1 DEF HearsSilence
    <3>3. Len(fwd') = 0 /\ Len(rev') = 0
      BY <1>e, <3>2
    <3>a. PICK g \in 0 .. 1 : g = Sending'
      BY <2>2
    <3>4. Held' = 0
      BY <1>7, <3>0 DEF HearsSilence, Held
    <3>5. late' \in Nat
      BY <1>0, <2>5
    <3>6. PICK n \in {0}, m \in {0} : n = Len(fwd') /\ m = Len(rev')
      BY <3>3
    <3>7. PICK l \in Nat : l = late'
      BY <3>5
    <3>8. n + m + g + 0 <= 1 + l /\ n + m + 0 + g <= 1 + l
      OBVIOUS
    <3> QED
      BY <3>4, <3>6, <3>7, <3>8, <3>a
  <2> QED
    BY <1>7, <2>4, <2>5 DEF HearsSilence
<1>8. CASE HearsAnswer
  <2>1. Len(rev') = Len(rev) - 1
    BY <1>0, <1>8, Shorter DEF HearsAnswer
  <2>2. Sending = 0 /\ Sending' <= 1 /\ Sending' \in Nat /\ s.at # "end" /\ Held' = Held /\ Held \in Nat
    BY <1>8 DEF HearsAnswer, Sending, Held
  <2> QED
    BY <1>0, <1>8, <2>1, <2>2 DEF HearsAnswer, UnderWay
<1>9. CASE Strikes
  <2>1. Len(fwd') <= Len(fwd) /\ Len(rev') <= Len(rev)
    BY <1>0, <1>9, LastLost, LastChanged DEF Strikes
  <2>2. Held' = Held /\ Held \in Nat /\ Sending' = Sending /\ Sending \in Nat
    BY <1>9 DEF Strikes, Held, Sending
  <2> QED
    BY <1>0, <1>9, <2>1, <2>2 DEF Strikes, UnderWay
<1>10. CASE UNCHANGED vars
  BY <1>10 DEF vars, UnderWay, Held, Sending
<1> QED
  BY <1>1, <1>2, <1>3, <1>4, <1>5, <1>6, <1>7, <1>8, <1>9, <1>10, StepKinds

-----------------------------------------------------------------------------
(***************************************************************************)
(* The packets under way are the block that the receiver had last, the one *)
(* the sender is at, or one between them, and in this order.               *)
(***************************************************************************)
Got == Len(received)
Number(b) == b % SeqMod
IsPacket(e) == e.k = "pkt"

InFlow(q, lo, hi) ==
    /\ \A i \in 1 .. Len(q) : IsPacket(q[i]) =>
            q[i].seq = Number(q[i].blk) /\ lo <= q[i].blk /\ q[i].blk <= hi
    /\ \A i, j \in 1 .. Len(q) :
            i < j /\ IsPacket(q[i]) /\ IsPacket(q[j]) => q[i].blk <= q[j].blk

Ordered ==
    /\ r.seqnum = Number(Got + 1)
    /\ \A i \in 1 .. Got : received[i] = i
    /\ Got <= s.blk
    /\ InFlow(fwd, Got, s.blk)

LEMMA PacketFields ==
    ASSUME NEW e \in Item, IsPacket(e)
    PROVE  /\ e.blk \in 1 .. Blocks /\ e.blk \in Nat /\ e.seq \in 0 .. SeqMod - 1
           /\ e.ok \in BOOLEAN
BY Sizes DEF Item, IsPacket

LEMMA ItemsOfQueue ==
    ASSUME NEW q \in Seq(Item), NEW i \in 1 .. Len(q)
    PROVE  /\ q[i] \in Item
           /\ IsPacket(q[i]) => q[i].blk \in Nat
<1>1. q[i] \in Item
  BY ElementOfSeq
<1> QED
  BY <1>1, PacketFields

LEMMA FlowWider ==
    ASSUME NEW q \in Seq(Item), NEW lo, NEW hi \in Nat, NEW h \in Nat, InFlow(q, lo, hi), hi <= h
    PROVE  InFlow(q, lo, h)
<1>1. \A i \in 1 .. Len(q) : IsPacket(q[i]) => q[i].blk \in Nat
  BY ItemsOfQueue
<1> QED
  BY <1>1 DEF InFlow

LEMMA FlowOfNone == \A lo, hi : InFlow(<< >>, lo, hi)
BY EmptySeq DEF InFlow

\* Whatever is taken from the head leaves nothing older behind.
LEMMA FlowShorter ==
    ASSUME NEW q \in Seq(Item), NEW lo \in Nat, NEW hi \in Nat, InFlow(q, lo, hi), q # << >>,
           NEW p, p = Tail(q)
    PROVE  /\ InFlow(p, lo, hi)
           /\ IsPacket(Head(q)) => InFlow(p, Head(q).blk, hi)
<1>1. /\ p \in Seq(Item) /\ Len(p) = Len(q) - 1 /\ Len(q) \in Nat \ {0}
      /\ \A i \in 1 .. Len(p) : p[i] = q[i + 1]
      /\ Head(q) = q[1]
  BY Shorter
<1>2. \A i \in 1 .. Len(p) : i + 1 \in 1 .. Len(q) /\ 1 < i + 1
  BY <1>1
<1>3. 1 \in 1 .. Len(q)
  BY <1>1
<1>4. InFlow(p, lo, hi)
  <2>1. \A i \in 1 .. Len(p) : IsPacket(p[i]) =>
            p[i].seq = Number(p[i].blk) /\ lo <= p[i].blk /\ p[i].blk <= hi
    BY <1>1, <1>2 DEF InFlow
  <2>2. ASSUME NEW i \in 1 .. Len(p), NEW j \in 1 .. Len(p), i < j, IsPacket(p[i]), IsPacket(p[j])
        PROVE  p[i].blk <= p[j].blk
    <3>1. i + 1 \in 1 .. Len(q) /\ j + 1 \in 1 .. Len(q) /\ i + 1 < j + 1
      BY <1>1, <1>2, <2>2
    <3>2. p[i] = q[i + 1] /\ p[j] = q[j + 1]
      BY <1>1
    <3> QED
      BY <2>2, <3>1, <3>2 DEF InFlow
  <2> QED
    BY <2>1, <2>2 DEF InFlow
<1>5. ASSUME IsPacket(Head(q))
      PROVE  InFlow(p, Head(q).blk, hi)
  <2>1. \A i \in 1 .. Len(p) : IsPacket(p[i]) => Head(q).blk <= p[i].blk
    BY <1>1, <1>2, <1>3, <1>5 DEF InFlow
  <2> QED
    BY <1>4, <2>1 DEF InFlow
<1> QED
  BY <1>4, <1>5

\* What is sent comes after everything that was.
LEMMA FlowLonger ==
    ASSUME NEW q \in Seq(Item), NEW lo \in Nat, NEW hi \in Nat, InFlow(q, lo, hi), lo <= hi,
           NEW e \in Item, IsPacket(e) => e.blk = hi /\ e.seq = Number(hi),
           NEW p, p = Append(q, e)
    PROVE  InFlow(p, lo, hi)
<1>1. /\ p \in Seq(Item) /\ Len(p) = Len(q) + 1 /\ Len(q) \in Nat
      /\ \A i \in 1 .. Len(q) : p[i] = q[i]
      /\ p[Len(q) + 1] = e
  BY Longer
<1>2. PICK l \in Nat : l = Len(q)
  BY <1>1
<1>3. \A i \in 1 .. Len(p) : i \in 1 .. l \/ i = l + 1
  BY <1>1, <1>2
<1>4. \A i \in 1 .. Len(p) : IsPacket(p[i]) =>
          p[i].seq = Number(p[i].blk) /\ lo <= p[i].blk /\ p[i].blk <= hi
  BY <1>1, <1>2, <1>3 DEF InFlow
<1>5. ASSUME NEW i \in 1 .. Len(p), NEW j \in 1 .. Len(p), i < j, IsPacket(p[i]), IsPacket(p[j])
      PROVE  p[i].blk <= p[j].blk
  <2>1. i \in 1 .. l
    BY <1>1, <1>2, <1>5
  <2>2. CASE j \in 1 .. l
    <3>1. p[i] = q[i] /\ p[j] = q[j] /\ i \in 1 .. Len(q) /\ j \in 1 .. Len(q)
      BY <1>1, <1>2, <2>1, <2>2
    <3> QED
      BY <1>5, <3>1 DEF InFlow
  <2>3. CASE j = l + 1
    BY <1>1, <1>2, <1>4, <1>5, <2>3
  <2> QED
    BY <1>3, <2>2, <2>3
<1> QED
  BY <1>4, <1>5 DEF InFlow

\* A fault takes packets away but makes no new one.
LEMMA FlowStruck ==
    ASSUME NEW q \in Seq(Item), NEW lo \in Nat, NEW hi \in Nat, InFlow(q, lo, hi),
           NEW p \in Seq(Item), Len(p) <= Len(q),
           \A i \in 1 .. Len(p) : IsPacket(p[i]) =>
                /\ IsPacket(q[i]) /\ p[i].seq = q[i].seq /\ p[i].blk = q[i].blk
    PROVE  InFlow(p, lo, hi)
<1>1. \A i \in 1 .. Len(p) : i \in 1 .. Len(q)
  BY LenProperties
<1> QED
  BY <1>1 DEF InFlow

LEMMA FlowLastLost ==
    ASSUME NEW q \in Seq(Item), NEW lo \in Nat, NEW hi \in Nat, InFlow(q, lo, hi), q # << >>,
           NEW p, p = SubSeq(q, 1, Len(q) - 1)
    PROVE  InFlow(p, lo, hi)
<1>1. /\ p \in Seq(Item) /\ Len(p) = Len(q) - 1 /\ Len(q) \in Nat
      /\ \A i \in 1 .. Len(p) : p[i] = q[i]
  BY LastLost
<1>2. Len(p) <= Len(q)
  BY <1>1
<1> QED
  BY <1>1, <1>2, FlowStruck

LEMMA FlowLastDamaged ==
    ASSUME NEW q \in Seq(Item), NEW lo \in Nat, NEW hi \in Nat, InFlow(q, lo, hi), q # << >>,
           NEW e \in Item, q[Len(q)].k = "pkt", Damaged(e, q[Len(q)]),
           NEW p, p = [q EXCEPT ![Len(q)] = e]
    PROVE  InFlow(p, lo, hi)
<1>1. /\ p \in Seq(Item) /\ Len(p) = Len(q) /\ Len(q) \in Nat \ {0}
      /\ \A i \in 1 .. Len(q) - 1 : p[i] = q[i]
      /\ p[Len(q)] = e
  BY LastChanged
<1>l. PICK l \in Nat \ {0} : l = Len(q) /\ l = Len(p)
  BY <1>1
<1>i. /\ \A i \in 1 .. l : i = l \/ i \in 1 .. l - 1
      /\ l <= l
  OBVIOUS
<1>2. \A i \in 1 .. Len(p) : i = Len(q) \/ i \in 1 .. Len(q) - 1
  BY <1>l, <1>i
<1>3. IsPacket(e) => e.seq = q[Len(q)].seq /\ e.blk = q[Len(q)].blk
  BY DEF Damaged, IsPacket
<1>4. ASSUME NEW i \in 1 .. Len(p), IsPacket(p[i])
      PROVE  IsPacket(q[i]) /\ p[i].seq = q[i].seq /\ p[i].blk = q[i].blk
  <2>1. CASE i = Len(q)
    BY <1>1, <1>3, <1>4, <2>1 DEF IsPacket
  <2>2. CASE i \in 1 .. Len(q) - 1
    BY <1>1, <1>4, <2>2
  <2> QED
    BY <1>2, <2>1, <2>2
<1>5. Len(p) <= Len(q)
  BY <1>l, <1>i
<1> QED
  BY <1>1, <1>4, <1>5, FlowStruck

-----------------------------------------------------------------------------
(***************************************************************************)
(* How far ahead of the receiver the sender can be.  An intact packet that *)
(* follows on what the receiver will have had by then will get an ACK, an  *)
(* ACK on its way will take the sender to the next block.  Each time-out   *)
(* that cut an exchange short, and each fault, allows one block more.      *)
(***************************************************************************)
Good(e) == IsPacket(e) /\ e.ok

\* The block that the receiver will have after the first j items.
Top(q, lo, j) == IF j = 0 THEN lo ELSE q[j].blk

Follows(q, lo, i) == Good(q[i]) /\ q[i].blk \in {Top(q, lo, i - 1), Top(q, lo, i - 1) + 1}

Chain(q, lo, j) == \A i \in 1 .. j : Follows(q, lo, i)

InReach(q, lo, x, b) == \A j \in 0 .. Len(q) : Chain(q, lo, j) => x + j <= Top(q, lo, j) + b

AckDue == IF r.at = "ask" /\ r.response = "ACK" THEN 1 ELSE 0
Weight == s.blk + Acks(rev) + AckDue
Slack  == 1 + late + faults

Ahead ==
    r.at # "end" =>
        IF r.at = "flush" THEN Weight <= Got + Slack ELSE InReach(fwd, Got, Weight, Slack)

LEMMA TopIsNatural ==
    ASSUME NEW q \in Seq(Item), NEW lo \in Nat, NEW j \in 0 .. Len(q), Chain(q, lo, j)
    PROVE  Top(q, lo, j) \in Nat
<1>1. CASE j = 0
  BY <1>1 DEF Top
<1>2. CASE j # 0
  <2>1. j \in 1 .. Len(q) /\ j \in 1 .. j
    BY <1>2, LenProperties
  <2>2. IsPacket(q[j])
    BY <2>1 DEF Chain, Follows, Good
  <2> QED
    BY <1>2, <2>1, <2>2, ItemsOfQueue DEF Top
<1> QED
  BY <1>1, <1>2

LEMMA ReachIsNear ==
    ASSUME NEW q \in Seq(Item), NEW lo \in Nat, NEW x \in Nat, NEW b \in Nat, InReach(q, lo, x, b)
    PROVE  x <= lo + b
<1>1. 0 \in 0 .. Len(q)
  BY LenProperties
<1>2. Chain(q, lo, 0) /\ Top(q, lo, 0) = lo
  BY DEF Chain, Top
<1>3. x + 0 <= lo + b
  BY <1>1, <1>2 DEF InReach
<1> QED
  BY <1>3

LEMMA ReachOfNone ==
    ASSUME NEW lo \in Nat, NEW x \in Nat, NEW b \in Nat, x <= lo + b
    PROVE  InReach(<< >>, lo, x, b)
<1>1. \A j \in 0 .. Len(<< >>) : j = 0
  BY EmptySeq
<1>2. x + 0 <= Top(<< >>, lo, 0) + b
  BY DEF Top
<1> QED
  BY <1>1, <1>2 DEF InReach

LEMMA ReachWider ==
    ASSUME NEW q \in Seq(Item), NEW lo \in Nat, NEW x \in Nat, NEW b \in Nat, InReach(q, lo, x, b),
           NEW y \in Nat, NEW c \in Nat, y + b <= x + c
    PROVE  InReach(q, lo, y, c)
<1> SUFFICES ASSUME NEW j \in 0 .. Len(q), Chain(q, lo, j)
             PROVE  y + j <= Top(q, lo, j) + c
  BY DEF InReach
<1>1. PICK t \in Nat : t = Top(q, lo, j)
  BY TopIsNatural
<1>2. x + j <= t + b
  BY <1>1 DEF InReach
<1>3. j \in Nat
  BY LenProperties
<1> QED
  BY <1>1, <1>2, <1>3

\* Faults make no good packets.
LEMMA ReachStruck ==
    ASSUME NEW q \in Seq(Item), NEW lo \in Nat, NEW x \in Nat, NEW b \in Nat, InReach(q, lo, x, b),
           NEW p \in Seq(Item), Len(p) <= Len(q),
           \A i \in 1 .. Len(p) : Good(p[i]) => p[i] = q[i]
    PROVE  InReach(p, lo, x, b)
<1> SUFFICES ASSUME NEW j \in 0 .. Len(p), Chain(p, lo, j)
             PROVE  x + j <= Top(p, lo, j) + b
  BY DEF InReach
<1>0. Len(p) \in Nat /\ Len(q) \in Nat /\ j \in Nat
  BY LenProperties
<1>1. \A i \in 1 .. j : p[i] = q[i]
  <2>1. \A i \in 1 .. j : i \in 1 .. Len(p)
    BY <1>0
  <2> QED
    BY <2>1 DEF Chain, Follows
<1>2. \A i \in 0 .. j : Top(p, lo, i) = Top(q, lo, i)
  <2>1. \A i \in 0 .. j : i = 0 \/ i \in 1 .. j
    BY <1>0
  <2> QED
    BY <1>1, <2>1 DEF Top
<1>3. Chain(q, lo, j)
  <2> SUFFICES ASSUME NEW i \in 1 .. j
               PROVE  Follows(q, lo, i)
    BY DEF Chain
  <2>1. PICK k \in 0 .. j : k = i - 1
    BY <1>0
  <2>2. Follows(p, lo, i)
    BY DEF Chain
  <2> QED
    BY <1>1, <1>2, <2>1, <2>2 DEF Follows
<1>4. j \in 0 .. Len(q) /\ j \in 0 .. j
  BY <1>0
<1>5. x + j <= Top(q, lo, j) + b
  BY <1>3, <1>4 DEF InReach
<1> QED
  BY <1>2, <1>4, <1>5

\* The receiver takes a good packet and will acknowledge it.
LEMMA ReachShorter ==
    ASSUME NEW q \in Seq(Item), NEW lo \in Nat, NEW x \in Nat, NEW b \in Nat, InReach(q, lo, x, b),
           q # << >>, NEW h \in {lo, lo + 1}, Good(Head(q)), Head(q).blk = h,
           NEW p, p = Tail(q)
    PROVE  InReach(p, h, x + 1, b)
<1>0. /\ p \in Seq(Item) /\ Len(p) = Len(q) - 1 /\ Len(q) \in Nat \ {0}
      /\ \A i \in 1 .. Len(p) : p[i] = q[i + 1]
      /\ Head(q) = q[1]
  BY Shorter
<1> SUFFICES ASSUME NEW j \in 0 .. Len(p), Chain(p, h, j)
             PROVE  (x + 1) + j <= Top(p, h, j) + b
  BY DEF InReach
<1>1. j \in Nat /\ j + 1 \in 0 .. Len(q) /\ \A i \in 1 .. j : i \in 1 .. Len(p)
  BY <1>0
<1>2. \A i \in 0 .. j : Top(p, h, i) = Top(q, lo, i + 1)
  <2>1. \A i \in 0 .. j : (i = 0 \/ i \in 1 .. j) /\ i + 1 # 0
    BY <1>1
  <2>2. Top(p, h, 0) = Top(q, lo, 0 + 1)
    BY <1>0 DEF Top
  <2>3. \A i \in 1 .. j : Top(p, h, i) = Top(q, lo, i + 1)
    BY <1>0, <1>1 DEF Top
  <2> QED
    BY <2>1, <2>2, <2>3
<1>3. Chain(q, lo, j + 1)
  <2> SUFFICES ASSUME NEW i \in 1 .. j + 1
               PROVE  Follows(q, lo, i)
    BY DEF Chain
  <2>1. CASE i = 1
    <3>1. Top(q, lo, 0) = lo
      BY DEF Top
    <3>2. q[1].blk \in {Top(q, lo, 0), Top(q, lo, 0) + 1} /\ Good(q[1])
      BY <1>0, <3>1
    <3>3. i - 1 = 0
      BY <2>1
    <3> QED
      BY <2>1, <3>2, <3>3 DEF Follows
  <2>2. CASE i # 1
    <3>1. PICK k \in 1 .. j, l \in 0 .. j : i = k + 1 /\ l = k - 1 /\ l + 1 = i - 1
      <4>1. i - 1 \in 1 .. j /\ i = (i - 1) + 1 /\ (i - 1) - 1 \in 0 .. j /\ ((i - 1) - 1) + 1 = i - 1
        BY <1>1, <2>2
      <4> QED
        BY <4>1
    <3>2. Follows(p, h, k)
      BY DEF Chain
    <3>3. p[k] = q[i] /\ Top(p, h, k - 1) = Top(q, lo, i - 1)
      BY <1>0, <1>1, <1>2, <3>1
    <3> QED
      BY <3>2, <3>3 DEF Follows
  <2> QED
    BY <2>1, <2>2
<1>4. PICK t \in Nat : t = Top(q, lo, j + 1)
  BY <1>1, <1>3, TopIsNatural
<1>5. x + (j + 1) <= t + b
  BY <1>1, <1>3, <1>4 DEF InReach
<1>6. Top(p, h, j) = t
  <2>1. j \in 0 .. j
    BY <1>1
  <2> QED
    BY <1>2, <1>4, <2>1
<1> QED
  BY <1>1, <1>5, <1>6

\* A packet sent may be the one more that will be acknowledged.
LEMMA ReachLonger ==
    ASSUME NEW q \in Seq(Item), NEW lo \in Nat, NEW x \in Nat, NEW b \in Nat, InReach(q, lo, x, b),
           NEW e \in Item, IsPacket(e) => x + Len(q) + 1 <= e.blk + b,
           NEW p, p = Append(q, e)
    PROVE  InReach(p, lo, x, b)
<1>0. /\ p \in Seq(Item) /\ Len(p) = Len(q) + 1 /\ Len(q) \in Nat
      /\ \A i \in 1 .. Len(q) : p[i] = q[i]
      /\ p[Len(q) + 1] = e
  BY Longer
<1>l. PICK l \in Nat : l = Len(q) /\ Len(p) = l + 1
  BY <1>0
<1> SUFFICES ASSUME NEW j \in 0 .. Len(p), Chain(p, lo, j)
             PROVE  x + j <= Top(p, lo, j) + b
  BY DEF InReach
<1>1. j \in 0 .. l \/ j = l + 1
  BY <1>l
<1>2. CASE j = l + 1
  <2>1. j \in 1 .. j /\ j # 0
    BY <1>l, <1>2
  <2>2. IsPacket(p[j])
    BY <2>1 DEF Chain, Follows, Good
  <2>3. p[j] = e
    BY <1>0, <1>l, <1>2
  <2>4. Top(p, lo, j) = e.blk
    BY <2>1, <2>3 DEF Top
  <2>5. PICK t \in Nat : t = e.blk
    BY <2>2, <2>3, PacketFields
  <2>6. x + l + 1 <= t + b
    BY <1>l, <2>2, <2>3, <2>5
  <2> QED
    BY <1>2, <2>4, <2>5, <2>6
<1>3. CASE j \in 0 .. l
  <2>1. \A i \in 1 .. j : i \in 1 .. l /\ i - 1 \in 0 .. j /\ i \in 0 .. j
    BY <1>3
  <2>2. \A i \in 1 .. j : p[i] = q[i]
    BY <1>0, <1>l, <2>1
  <2>3. \A i \in 0 .. j : i = 0 \/ i \in 1 .. j
    BY <1>3
  <2>4. \A i \in 0 .. j : Top(p, lo, i) = Top(q, lo, i)
    BY <2>2, <2>3 DEF Top
  <2>5. Chain(q, lo, j)
    <3> SUFFICES ASSUME NEW i \in 1 .. j
                 PROVE  Follows(q, lo, i)
      BY DEF Chain
    <3>1. Follows(p, lo, i)
      BY DEF Chain
    <3>2. p[i] = q[i] /\ Top(p, lo, i - 1) = Top(q, lo, i - 1)
      BY <2>1, <2>2, <2>4
    <3> QED
      BY <3>1, <3>2 DEF Follows
  <2>6. j \in 0 .. Len(q) /\ j \in 0 .. j
    BY <1>l, <1>3
  <2>7. x + j <= Top(q, lo, j) + b
    BY <2>5, <2>6 DEF InReach
  <2> QED
    BY <2>4, <2>6, <2>7
<1> QED
  BY <1>1, <1>2, <1>3

LEMMA StateRanges ==
    ASSUME Typed
    PROVE  /\ fwd \in Seq(Item) /\ rev \in Seq(Answer) /\ received \in Seq(1 .. Blocks)
           /\ Len(fwd) \in Nat /\ Len(rev) \in Nat /\ Got \in Nat
           /\ s.blk \in 1 .. Blocks /\ s.blk \in Nat /\ r.seqnum \in 0 .. SeqMod - 1
           /\ Acks(rev) \in Nat /\ Acks(rev) <= Len(rev)
           /\ AckDue \in 0 .. 1 /\ AckDue <= Held /\ Held \in 0 .. 1
           /\ faults \in Nat /\ late \in Nat /\ late \in 0 .. MaxLate
           /\ Weight \in Nat /\ Slack \in Nat /\ Slack < SeqMod
           /\ r.at \in {"ask", "wait", "flush", "end"}
           /\ r.response \in {"C", "ACK", "NAK", "none"}
<1>1. /\ fwd \in Seq(Item) /\ rev \in Seq(Answer) /\ received \in Seq(1 .. Blocks)
      /\ s.blk \in 1 .. Blocks /\ r.seqnum \in 0 .. SeqMod - 1
      /\ r.at \in {"ask", "wait", "flush", "end"}
      /\ r.response \in {"C", "ACK", "NAK", "none"}
  BY DEF Typed, TypeOK
<1>2. faults \in 0 .. MaxFaults /\ late \in 0 .. MaxLate /\ MaxFaults \in Nat /\ MaxLate \in Nat
  BY Sizes DEF Typed, TypeOK
<1>3. Len(fwd) \in Nat /\ Len(rev) \in Nat /\ Got \in Nat
  BY <1>1, LenProperties DEF Got
<1>4. s.blk \in Nat
  BY <1>1, Sizes
<1>5. Acks(rev) \in Nat /\ Acks(rev) <= Len(rev)
  BY <1>1, AcksAreFew
<1>6. AckDue \in 0 .. 1 /\ AckDue <= Held /\ Held \in 0 .. 1
  BY DEF AckDue, Held
<1>7. Weight \in Nat
  BY <1>4, <1>5, <1>6 DEF Weight
<1>8. Slack \in Nat /\ Slack < SeqMod
  BY <1>2, Sizes DEF Slack
<1> QED
  BY <1>1, <1>2, <1>3, <1>4, <1>5, <1>6, <1>7, <1>8

\* The sender never gets so far ahead that a packet could be taken for another.
LEMMA NeverFarAhead ==
    ASSUME Typed, Ahead, r.at # "end"
    PROVE  s.blk <= Got + Slack
<1>0. fwd \in Seq(Item) /\ Got \in Nat /\ Weight \in Nat /\ Slack \in Nat
  BY StateRanges
<1>1. Weight <= Got + Slack
  <2>1. CASE r.at = "flush"
    BY <2>1 DEF Ahead
  <2>2. CASE r.at # "flush"
    BY <1>0, <2>2, ReachIsNear DEF Ahead
  <2> QED
    BY <2>1, <2>2
<1>2. s.blk <= Weight
  <2>1. s.blk \in Nat /\ Acks(rev) \in Nat /\ AckDue \in 0 .. 1
    BY StateRanges
  <2> QED
    BY <2>1 DEF Weight
<1>3. s.blk \in Nat
  BY StateRanges
<1> QED
  BY <1>0, <1>1, <1>2, <1>3

LEMMA SameNumber ==
    ASSUME NEW a \in Nat, NEW b \in Nat, NEW g \in Nat, Number(a) = Number(b),
           g <= a, g <= b, a < g + SeqMod, b < g + SeqMod
    PROVE  a = b
<1>0. SeqMod \in Nat \ {0}
  BY Sizes
<1>1. a % SeqMod = b % SeqMod
  BY DEF Number
<1>2. CASE a <= b
  <2>1. b < a + SeqMod
    BY <1>0
  <2> QED
    BY <1>0, <1>1, <1>2, <2>1, ModWindow
<1>3. CASE b <= a
  <2>1. a < b + SeqMod
    BY <1>0
  <2> QED
    BY <1>0, <1>1, <1>3, <2>1, ModWindow
<1> QED
  BY <1>2, <1>3

LEMMA NumbersFollow ==
    ASSUME NEW a \in Nat
    PROVE  NextNumber(Number(a)) = Number(a + 1)
<1>0. SeqMod \in Nat \ {0}
  BY Sizes
<1> QED
  BY <1>0, ModSucc DEF NextNumber, Number

\* What the receiver takes for the next block is the next, what it takes for a repeated
\* one is the last.
LEMMA TakenPacket ==
    ASSUME Typed, Ordered, Ahead, r.at = "wait", fwd # << >>, IsPacket(Head(fwd))
    PROVE  /\ Head(fwd) \in Item /\ Head(fwd).blk \in 1 .. Blocks
           /\ Got <= Head(fwd).blk /\ Head(fwd).blk <= s.blk
           /\ Expected(Head(fwd)) => Head(fwd).blk = Got + 1
           /\ Repeats(Head(fwd)) => Head(fwd).blk = Got
<1>0. /\ fwd \in Seq(Item) /\ Got \in Nat /\ s.blk \in Nat /\ Slack \in Nat /\ Slack < SeqMod
      /\ SeqMod \in Nat \ {0} /\ SeqMod > 1
  BY StateRanges, Sizes
<1>1. /\ Head(fwd) \in Item /\ Head(fwd) = fwd[1] /\ 1 \in 1 .. Len(fwd)
  BY <1>0, Shorter
<1>2. PICK p \in Item : p = Head(fwd) /\ p = fwd[1] /\ IsPacket(p)
  BY <1>1
<1>3. PICK b \in 1 .. Blocks : b = p.blk
  BY <1>2, PacketFields
<1>4. /\ b \in Nat /\ p.seq = Number(b) /\ Got <= b /\ b <= s.blk
  BY <1>1, <1>2, <1>3, Sizes DEF Ordered, InFlow
<1>5. b < Got + SeqMod
  <2>1. s.blk <= Got + Slack
    BY NeverFarAhead
  <2> QED
    BY <1>0, <1>4, <2>1
<1>6. r.seqnum = Number(Got + 1)
  BY DEF Ordered
<1>7. ASSUME Expected(p)
      PROVE  b = Got + 1
  <2>1. Number(b) = Number(Got + 1)
    BY <1>4, <1>6, <1>7 DEF Expected
  <2>2. Got + 1 \in Nat /\ Got <= Got + 1 /\ Got + 1 < Got + SeqMod
    BY <1>0
  <2> QED
    BY <1>0, <1>4, <1>5, <2>1, <2>2, SameNumber
<1>8. ASSUME Repeats(p)
      PROVE  b = Got
  <2>1. Number(b + 1) = Number(Got + 1)
    BY <1>4, <1>6, <1>8, NumbersFollow DEF Repeats
  <2>2. PICK g \in Nat, c \in Nat : g = Got + 1 /\ c = b + 1
    BY <1>0, <1>4
  <2>3. g <= c /\ g <= g /\ c < g + SeqMod /\ g < g + SeqMod
    BY <1>0, <1>4, <1>5, <2>2
  <2>4. c = g
    BY <2>1, <2>2, <2>3, SameNumber
  <2> QED
    BY <1>0, <1>4, <2>2, <2>4
<1> QED
  BY <1>2, <1>3, <1>4, <1>7, <1>8

\* What a packet taken does to the count of blocks and to the queue.
LEMMA TakesDo ==
    ASSUME Typed, Ordered, Ahead, Takes
    PROVE  \/ /\ Good(Head(fwd)) /\ Head(fwd).blk = Got + 1 /\ Got + 1 \in 1 .. Blocks
              /\ received' = Append(received, Got + 1) /\ Got' = Got + 1 /\ Got + 1 <= s.blk
              /\ r'.at = "ask" /\ r'.response = "ACK" /\ r'.seqnum = Number(Got + 2)
           \/ /\ Good(Head(fwd)) /\ Head(fwd).blk = Got
              /\ received' = received /\ Got' = Got
              /\ r'.at = "ask" /\ r'.response = "ACK" /\ r'.seqnum = r.seqnum
           \/ /\ received' = received /\ Got' = Got
              /\ r'.at = "flush" /\ r'.response = "NAK" /\ r'.seqnum = r.seqnum
<1>0. /\ received \in Seq(1 .. Blocks) /\ Got \in Nat
      /\ r.at = "wait" /\ fwd # << >> /\ IsPacket(Head(fwd))
  BY StateRanges DEF Takes, IsPacket
<1>1. /\ Head(fwd).blk \in 1 .. Blocks /\ Head(fwd).blk <= s.blk
      /\ Expected(Head(fwd)) => Head(fwd).blk = Got + 1
      /\ Repeats(Head(fwd)) => Head(fwd).blk = Got
  BY <1>0, TakenPacket
<1>2. CASE /\ Head(fwd).ok /\ Expected(Head(fwd))
           /\ received' = Append(received, Head(fwd).blk)
           /\ Turns("ask", "ACK", NextNumber(r.seqnum))
  <2>1. PICK b \in 1 .. Blocks : b = Head(fwd).blk /\ b = Got + 1
    BY <1>1, <1>2
  <2>2. received' = Append(received, b) /\ Got' = Got + 1
    BY <1>0, <1>2, <2>1, Longer DEF Got
  <2>3. r.seqnum = Number(Got + 1)
    BY DEF Ordered
  <2>4. PICK g \in Nat : g = Got + 1 /\ g + 1 = Got + 2
    BY <1>0
  <2>5. NextNumber(r.seqnum) = Number(Got + 2)
    BY <2>3, <2>4, NumbersFollow
  <2> QED
    BY <1>0, <1>1, <1>2, <2>1, <2>2, <2>5 DEF Turns, Good
<1>3. CASE /\ Head(fwd).ok /\ Repeats(Head(fwd))
           /\ received' = received
           /\ Turns("ask", "ACK", r.seqnum)
  BY <1>0, <1>1, <1>3 DEF Turns, Good, Got
<1>4. CASE received' = received /\ Turns("flush", "NAK", r.seqnum)
  BY <1>4 DEF Turns, Got
<1> QED
  BY <1>2, <1>3, <1>4 DEF Takes

LEMMA OrderedIsInductive ==
    ASSUME Typed, Ordered, Ahead, [Next]_vars
    PROVE  Ordered'
<1>0. /\ fwd \in Seq(Item) /\ Got \in Nat /\ s.blk \in Nat /\ Got <= s.blk
      /\ received \in Seq(1 .. Blocks)
      /\ r.seqnum = Number(Got + 1) /\ \A i \in 1 .. Got : received[i] = i
      /\ InFlow(fwd, Got, s.blk)
  BY StateRanges DEF Ordered
\* Steps that give the receiver no block.
<1>a. ASSUME r'.seqnum = r.seqnum, received' = received,
             s'.blk \in Nat, s.blk <= s'.blk, InFlow(fwd', Got, s'.blk)
      PROVE  Ordered'
  <2>1. Got' = Got
    BY <1>a DEF Got
  <2>2. Got <= s'.blk
    BY <1>0, <1>a
  <2> QED
    BY <1>0, <1>a, <2>1, <2>2 DEF Ordered
<1>1. CASE Asks \/ HearsNothing \/ UNCHANGED vars
  BY <1>0, <1>1, <1>a DEF Asks, HearsNothing, vars, Turns
<1>2. CASE Returns
  <2>1. InFlow(fwd', Got, s.blk)
    BY <1>2, FlowOfNone DEF Returns
  <2> QED
    BY <1>0, <1>2, <1>a, <2>1 DEF Returns, Turns
<1>3. CASE Takes
  <2>1. fwd # << >> /\ fwd' = Tail(fwd) /\ IsPacket(Head(fwd)) /\ s' = s
    BY <1>3 DEF Takes, IsPacket
  <2>2. InFlow(fwd', Got, s.blk) /\ InFlow(fwd', Head(fwd).blk, s.blk)
    BY <1>0, <2>1, FlowShorter
  <2>3. CASE /\ Head(fwd).blk = Got + 1 /\ Got + 1 \in 1 .. Blocks
             /\ received' = Append(received, Got + 1) /\ Got' = Got + 1 /\ Got + 1 <= s.blk
             /\ r'.seqnum = Number(Got + 2)
    <3>1. PICK g \in 1 .. Blocks : g = Got + 1
      BY <2>3
    <3>2. \A i \in 1 .. Got : received'[i] = i
      BY <1>0, <2>3, <3>1, Longer DEF Got
    <3>3. received'[g] = g
      BY <1>0, <2>3, <3>1, Longer DEF Got
    <3>4. \A i \in 1 .. g : i \in 1 .. Got \/ i = g
      BY <1>0, <3>1
    <3>5. \A i \in 1 .. Got' : received'[i] = i
      BY <2>3, <3>1, <3>2, <3>3, <3>4
    <3>6. Got' = g /\ r'.seqnum = Number(g + 1)
      <4>1. Got + 2 = g + 1
        BY <1>0, <3>1
      <4> QED
        BY <2>3, <3>1, <4>1
    <3>7. g <= s'.blk /\ InFlow(fwd', g, s'.blk)
      BY <2>1, <2>2, <2>3, <3>1
    <3> QED
      BY <3>5, <3>6, <3>7 DEF Ordered
  <2>4. CASE received' = received /\ r'.seqnum = r.seqnum
    BY <1>0, <1>a, <2>1, <2>2, <2>4
  <2> QED
    BY <1>3, <2>3, <2>4, TakesDo
<1>4. CASE Flushes
  <2>1. InFlow(fwd', Got, s.blk)
    BY <1>0, <1>4, FlowShorter DEF Flushes
  <2>2. r'.seqnum = r.seqnum /\ received' = received /\ s' = s
    BY <1>4 DEF Flushes, Turns
  <2> QED
    BY <1>0, <1>a, <2>1, <2>2
<1>5. CASE Sends
  <2>1. PICK e \in Item : Packet(e) /\ fwd' = Append(fwd, e)
    BY <1>5 DEF Sends
  <2>2. IsPacket(e) => e.blk = s.blk /\ e.seq = Number(s.blk)
    BY <2>1 DEF Packet, Number
  <2>3. InFlow(fwd', Got, s.blk)
    BY <1>0, <2>1, <2>2, FlowLonger
  <2> QED
    BY <1>0, <1>5, <1>a, <2>3 DEF Sends, Moves
<1>6. CASE SendsEot \/ Quits
  <2>1. fwd' = fwd \/ \E e \in Item : ~IsPacket(e) /\ fwd' = Append(fwd, e)
    BY <1>6 DEF SendsEot, Quits, IsPacket
  <2>2. InFlow(fwd', Got, s.blk)
    BY <1>0, <2>1, FlowLonger
  <2>3. r' = r /\ received' = received /\ s'.blk = s.blk
    BY <1>6 DEF SendsEot, Quits, Moves
  <2> QED
    BY <1>0, <1>a, <2>2, <2>3
<1>7. CASE HearsSilence \/ HearsAnswer
  <2>1. r' = r /\ received' = received /\ fwd' = fwd /\ (s'.blk = s.blk \/ s'.blk = s.blk + 1)
    BY <1>7 DEF HearsSilence, HearsAnswer, Moves
  <2>2. s'.blk \in Nat /\ s.blk <= s'.blk
    BY <1>0, <2>1
  <2>3. InFlow(fwd', Got, s'.blk)
    BY <1>0, <2>1, <2>2, FlowWider
  <2> QED
    BY <1>a, <2>1, <2>2, <2>3
<1>8. CASE Strikes
  <2>1. InFlow(fwd', Got, s.blk)
    BY <1>0, <1>8, FlowLastLost, FlowLastDamaged DEF Strikes
  <2> QED
    BY <1>0, <1>8, <1>a, <2>1 DEF Strikes
<1> QED
  BY <1>1, <1>2, <1>3, <1>4, <1>5, <1>6, <1>7, <1>8, StepKinds

LEMMA AheadIsInductive ==
    ASSUME Typed, Typed', UnderWay, Ordered, Ahead, [Next]_vars
    PROVE  Ahead'
<1>0. /\ fwd \in Seq(Item) /\ rev \in Seq(Answer) /\ Len(fwd) \in Nat /\ Len(rev) \in Nat
      /\ Got \in Nat /\ s.blk \in Nat /\ Acks(rev) \in Nat /\ Acks(rev) <= Len(rev)
      /\ AckDue \in 0 .. 1 /\ AckDue <= Held /\ Held \in 0 .. 1
      /\ faults \in Nat /\ late \in Nat /\ Weight \in Nat /\ Slack \in Nat
      /\ r.response \in {"C", "ACK", "NAK", "none"}
  BY StateRanges
<1>1. /\ fwd' \in Seq(Item) /\ rev' \in Seq(Answer) /\ Got' \in Nat /\ s'.blk \in Nat
      /\ faults' \in Nat /\ late' \in Nat
  <2>1. fwd' \in Seq(Item) /\ rev' \in Seq(Answer) /\ s'.blk \in 1 .. Blocks
    BY DEF Typed, TypeOK
  <2>2. received' \in Seq(1 .. Blocks) /\ faults' \in 0 .. MaxFaults /\ late' \in 0 .. MaxLate
    BY DEF Typed, TypeOK
  <2> QED
    BY <2>1, <2>2, Sizes, LenProperties DEF Got
<1>2. Acks(rev') \in Nat
  BY <1>1, AcksAreFew
<1>3. AckDue' \in 0 .. 1
  BY DEF AckDue
<1>4. /\ Weight = s.blk + Acks(rev) + AckDue /\ Slack = 1 + late + faults
      /\ Weight' = s'.blk + Acks(rev') + AckDue' /\ Slack' = 1 + late' + faults'
  BY DEF Weight, Slack
<1>5. PICK W \in Nat, V \in Nat, B \in Nat, C \in Nat :
          W = Weight /\ V = Weight' /\ B = Slack /\ C = Slack'
  <2>1. PICK x \in Nat, a \in Nat, d \in Nat : x = s'.blk /\ a = Acks(rev') /\ d = AckDue'
    BY <1>1, <1>2, <1>3
  <2>2. PICK l \in Nat, f \in Nat : l = late' /\ f = faults'
    BY <1>1
  <2>3. x + a + d \in Nat /\ 1 + l + f \in Nat
    OBVIOUS
  <2>4. Weight' \in Nat /\ Slack' \in Nat
    BY <1>4, <2>1, <2>2, <2>3
  <2> QED
    BY <1>0, <2>4
<1>v. ASSUME \/ Weight' = Weight /\ Slack' = Slack
             \/ Weight' <= Weight /\ Slack' = Slack
             \/ Weight' = Weight /\ Slack <= Slack'
             \/ Weight' <= Weight /\ Slack <= Slack'
             \/ Weight' <= Weight + 1 /\ Slack' = Slack + 1
      PROVE  V + B <= W + C
  <2>1. \/ V = W /\ C = B
        \/ V <= W /\ C = B
        \/ V = W /\ B <= C
        \/ V <= W /\ B <= C
        \/ V <= W + 1 /\ C = B + 1
    BY <1>5, <1>v
  <2> QED
    BY <2>1
<1>6. r.at \notin {"end", "flush"} => InReach(fwd, Got, Weight, Slack)
  BY DEF Ahead
<1>7. r.at # "end" => Weight <= Got + Slack
  <2>1. r.at = "flush" => Weight <= Got + Slack
    BY DEF Ahead
  <2>2. r.at \notin {"end", "flush"} => Weight <= Got + Slack
    BY <1>0, <1>6, ReachIsNear
  <2> QED
    BY <2>1, <2>2
\* Steps that leave the receiver where it is, or not flushing, and its queue alone or with
\* no more good packets in it.
<1>a. ASSUME r'.at # "end", r.at # "end", r'.at = "flush" <=> r.at = "flush", Got' = Got,
             \/ fwd' = fwd
             \/ InReach(fwd, Got, Weight, Slack) => InReach(fwd', Got, Weight, Slack),
             V + B <= W + C
      PROVE  Ahead'
  <2>1. CASE r'.at = "flush"
    <3>1. W <= Got + B
      BY <1>5, <1>7, <1>a
    <3>2. V <= Got + C
      BY <1>0, <1>a, <3>1
    <3> QED
      BY <1>5, <1>a, <2>1, <3>2 DEF Ahead
  <2>2. CASE r'.at # "flush"
    <3>1. InReach(fwd', Got, Weight, Slack)
      BY <1>6, <1>a, <2>2
    <3>2. InReach(fwd', Got, W, B)
      BY <1>5, <3>1
    <3>3. InReach(fwd', Got, V, C)
      BY <1>0, <1>1, <1>a, <3>2, ReachWider
    <3> QED
      BY <1>5, <1>a, <2>2, <3>3 DEF Ahead
  <2> QED
    BY <2>1, <2>2
<1>11. CASE Asks
  <2>1. /\ r.at = "ask" /\ r'.at = "wait" /\ fwd' = fwd /\ s' = s /\ Got' = Got
        /\ late' = late /\ faults' = faults
    BY <1>11 DEF Asks, Turns, Got
  <2>2. AckDue' = 0
    BY <2>1 DEF AckDue
  <2>3. Acks(rev') <= Acks(rev) + AckDue
    <3>1. CASE r.response = "none"
      <4>1. rev' = rev
        BY <1>11, <3>1 DEF Asks
      <4> QED
        BY <1>0, <4>1
    <3>2. CASE r.response # "none"
      <4>1. r.response \in Answer /\ rev' = Append(rev, r.response)
        BY <1>0, <1>11, <3>2 DEF Asks, Answer
      <4>2. /\ Acks(rev') <= Acks(rev) + 1
            /\ r.response # "ACK" => Acks(rev') <= Acks(rev)
        BY <1>0, <4>1, AcksLonger
      <4>3. r.response = "ACK" => AckDue = 1
        BY <2>1 DEF AckDue
      <4> QED
        BY <1>0, <1>2, <4>2, <4>3
    <3> QED
      BY <3>1, <3>2
  <2>4. Weight' <= Weight /\ Slack' = Slack
    BY <1>0, <1>2, <1>4, <2>1, <2>2, <2>3
  <2>5. V + B <= W + C
    BY <1>v, <2>4
  <2> QED
    BY <1>a, <2>1, <2>5
<1>12. CASE Returns
  BY <1>12 DEF Returns, Turns, Ahead
<1>13. CASE HearsNothing
  <2>1. /\ r.at = "wait" /\ r'.at = "ask" /\ fwd' = fwd /\ rev' = rev /\ s' = s /\ Got' = Got
        /\ r'.response # "ACK" /\ (late' = late \/ late' = late + 1) /\ faults' = faults
    BY <1>13 DEF HearsNothing, Turns, Got
  <2>2. AckDue' = 0 /\ AckDue = 0
    BY <2>1 DEF AckDue
  <2>3. Weight' = Weight /\ Slack <= Slack'
    BY <1>0, <1>4, <2>1, <2>2
  <2>4. V + B <= W + C
    BY <1>v, <2>3
  <2> QED
    BY <1>a, <2>1, <2>4
<1>14. CASE Takes
  <2>1. /\ r.at = "wait" /\ fwd # << >> /\ fwd' = Tail(fwd)
        /\ rev' = rev /\ s' = s /\ faults' = faults /\ late' = late
    BY <1>14 DEF Takes
  <2>2. AckDue = 0 /\ Slack' = Slack
    BY <1>4, <2>1 DEF AckDue
  <2>3. CASE r'.at = "flush"
    <3>1. AckDue' = 0
      BY <2>3 DEF AckDue
    <3>2. Weight' = Weight
      BY <1>4, <2>1, <2>2, <3>1
    <3>3. Got' = Got
      BY <1>14, <2>3, TakesDo
    <3>4. Weight' <= Got' + Slack'
      BY <1>7, <2>1, <2>2, <3>2, <3>3
    <3> QED
      BY <2>3, <3>4 DEF Ahead
  <2>4. CASE r'.at # "flush"
    <3>1. /\ Good(Head(fwd)) /\ Head(fwd).blk = Got' /\ Got' \in {Got, Got + 1}
          /\ r'.at = "ask" /\ r'.response = "ACK"
      BY <1>14, <2>4, TakesDo
    <3>2. AckDue' = 1
      BY <3>1 DEF AckDue
    <3>3. Weight' = Weight + 1
      BY <1>0, <1>4, <2>1, <2>2, <3>2
    <3>4. InReach(fwd', Got', Weight + 1, Slack)
      BY <1>0, <1>6, <2>1, <3>1, ReachShorter
    <3> QED
      BY <2>2, <2>4, <3>3, <3>4 DEF Ahead
  <2> QED
    BY <2>3, <2>4
<1>15. CASE Flushes
  <2>1. /\ r.at = "flush" /\ rev' = rev /\ s' = s /\ Got' = Got /\ late' = late /\ faults' = faults
        /\ r.response = "NAK" /\ r'.response = "NAK"
    BY <1>15 DEF Flushes, Turns, Got, Typed
  <2>2. AckDue' = 0 /\ AckDue = 0
    BY <2>1 DEF AckDue
  <2>3. Weight' = Weight /\ Slack' = Slack
    BY <1>4, <2>1, <2>2
  <2>4. Weight' <= Got' + Slack'
    BY <1>7, <2>1, <2>3
  <2>5. CASE r' = r
    BY <2>1, <2>4, <2>5 DEF Ahead
  <2>6. CASE r'.at = "ask" /\ fwd' = << >>
    <3>1. InReach(<< >>, Got', Weight', Slack')
      BY <1>1, <1>5, <2>4, ReachOfNone
    <3> QED
      BY <2>6, <3>1 DEF Ahead
  <2> QED
    BY <1>15, <2>5, <2>6 DEF Flushes, Turns
<1>16. CASE Sends
  <2>1. /\ s.at = "send" /\ r' = r /\ rev' = rev /\ s'.blk = s.blk /\ Got' = Got
        /\ late' = late /\ faults' = faults
    BY <1>16 DEF Sends, Moves, Got
  <2>2. AckDue' = AckDue
    BY <2>1 DEF AckDue
  <2>3. Weight' = Weight /\ Slack' = Slack
    BY <1>4, <2>1, <2>2
  <2>4. V + B <= W + C
    BY <1>v, <2>3
  <2>5. CASE r.at = "end"
    BY <2>1, <2>5 DEF Ahead
  <2>6. CASE r.at # "end"
    <3>1. Len(fwd) + Len(rev) + Held + 1 <= 1 + late
      BY <2>1, <2>6 DEF UnderWay, Sending
    <3>2. Weight + Len(fwd) + 1 <= s.blk + Slack
      BY <1>0, <1>4, <3>1, SMTT(20)
    <3>3. PICK e \in Item : Packet(e) /\ fwd' = Append(fwd, e)
      BY <1>16 DEF Sends
    <3>4. Weight + Len(fwd) + 1 <= e.blk + Slack
      BY <3>2, <3>3 DEF Packet
    <3>5. InReach(fwd, Got, Weight, Slack) => InReach(fwd', Got, Weight, Slack)
      BY <1>0, <3>3, <3>4, ReachLonger
    <3> QED
      BY <1>a, <2>1, <2>4, <2>6, <3>5
  <2> QED
    BY <2>5, <2>6
<1>17. CASE SendsEot \/ Quits
  <2>1. /\ r' = r /\ s'.blk = s.blk /\ Got' = Got /\ faults' = faults
        /\ rev' = rev \/ rev' = << >>
    BY <1>17 DEF SendsEot, Quits, Moves, Got
  <2>l. late <= late'
    <3>1. late' = late \/ late' \in late .. MaxLate
      BY <1>17 DEF SendsEot, Quits
    <3> QED
      BY <1>0, <1>1, <3>1
  <2>2. AckDue' = AckDue
    BY <2>1 DEF AckDue
  <2>3. Acks(rev') <= Acks(rev)
    <3>1. rev' = << >> => Acks(rev') = 0
      BY AcksOfNone
    <3>2. rev' = rev => Acks(rev') = Acks(rev)
      OBVIOUS
    <3> QED
      BY <1>0, <2>1, <3>1, <3>2
  <2>4. Weight' <= Weight /\ Slack <= Slack'
    <3>1. Weight' <= Weight
      BY <1>0, <1>2, <1>4, <2>1, <2>2, <2>3
    <3>2. Slack <= Slack'
      <4>1. PICK l \in Nat, m \in Nat, f \in Nat : l = late /\ m = late' /\ f = faults
        BY <1>0, <1>1
      <4>2. l <= m => 1 + l + f <= 1 + m + f
        OBVIOUS
      <4> QED
        BY <1>4, <2>1, <2>l, <4>1, <4>2
    <3> QED
      BY <3>1, <3>2
  <2>5. V + B <= W + C
    BY <1>v, <2>4
  <2>6. fwd' = fwd \/ \E e \in Item : ~IsPacket(e) /\ fwd' = Append(fwd, e)
    BY <1>17 DEF SendsEot, Quits, IsPacket
  <2>7. InReach(fwd, Got, Weight, Slack) => InReach(fwd', Got, Weight, Slack)
    BY <1>0, <2>6, ReachLonger
  <2>8. CASE r.at = "end"
    BY <2>1, <2>8 DEF Ahead
  <2>9. CASE r.at # "end"
    BY <1>a, <2>1, <2>5, <2>7, <2>9
  <2> QED
    BY <2>8, <2>9
<1>18. CASE HearsSilence
  <2>1. /\ r' = r /\ s'.blk = s.blk /\ Got' = Got /\ faults' = faults /\ rev' = rev /\ fwd' = fwd
        /\ late' = late \/ late' = late + 1
    BY <1>18 DEF HearsSilence, Moves, Got
  <2>2. AckDue' = AckDue
    BY <2>1 DEF AckDue
  <2>3. Weight' = Weight /\ Slack <= Slack'
    BY <1>0, <1>4, <2>1, <2>2
  <2>4. V + B <= W + C
    BY <1>v, <2>3
  <2>5. CASE r.at = "end"
    BY <2>1, <2>5 DEF Ahead
  <2>6. CASE r.at # "end"
    BY <1>a, <2>1, <2>4, <2>6
  <2> QED
    BY <2>5, <2>6
<1>19. CASE HearsAnswer
  <2>1. /\ r' = r /\ Got' = Got /\ faults' = faults /\ fwd' = fwd /\ late' = late
        /\ rev # << >> /\ rev' = Tail(rev)
        /\ s'.blk = s.blk \/ (Head(rev) = "ACK" /\ s'.blk = s.blk + 1)
    BY <1>19 DEF HearsAnswer, Moves, Got
  <2>2. AckDue' = AckDue
    BY <2>1 DEF AckDue
  <2>3. s'.blk + Acks(rev') <= s.blk + Acks(rev)
    <3>1. /\ Acks(rev') <= Acks(rev)
          /\ Head(rev) = "ACK" => Acks(rev') + 1 <= Acks(rev)
      BY <1>0, <2>1, AcksShorter
    <3> QED
      BY <1>0, <1>2, <2>1, <3>1
  <2>4. Weight' <= Weight /\ Slack' = Slack
    BY <1>0, <1>1, <1>2, <1>4, <2>1, <2>2, <2>3, SMTT(20)
  <2>5. V + B <= W + C
    BY <1>v, <2>4
  <2>6. CASE r.at = "end"
    BY <2>1, <2>6 DEF Ahead
  <2>7. CASE r.at # "end"
    BY <1>a, <2>1, <2>5, <2>7
  <2> QED
    BY <2>6, <2>7
<1>20. CASE Strikes
  <2>1. /\ r' = r /\ s' = s /\ Got' = Got /\ faults' = faults + 1 /\ late' = late
    BY <1>20 DEF Strikes, Got
  <2>2. AckDue' = AckDue
    BY <2>1 DEF AckDue
  <2>3. Acks(rev') <= Acks(rev) + 1
    <3>1. Acks(rev') <= Acks(rev) \/ Acks(rev') <= Acks(rev) + 1
      BY <1>0, <1>20, AcksLastLost, AcksLastChanged DEF Strikes
    <3> QED
      BY <1>0, <1>2, <3>1
  <2>4. Weight' <= Weight + 1 /\ Slack' = Slack + 1
    BY <1>0, <1>2, <1>4, <2>1, <2>2, <2>3, SMTT(20)
  <2>5. V + B <= W + C
    BY <1>v, <2>4
  <2>6. Len(fwd') <= Len(fwd) /\ \A i \in 1 .. Len(fwd') : Good(fwd'[i]) => fwd'[i] = fwd[i]
    <3>1. CASE fwd' = fwd
      BY <1>0, <3>1
    <3>2. CASE fwd # << >> /\ fwd' = SubSeq(fwd, 1, Len(fwd) - 1)
      <4>1. Len(fwd') = Len(fwd) - 1 /\ \A i \in 1 .. Len(fwd') : fwd'[i] = fwd[i]
        BY <1>0, <3>2, LastLost, ZenonT(30)
      <4> QED
        BY <1>0, <4>1
    <3>3. CASE fwd # << >> /\ \E e \in Item : Damaged(e, fwd[Len(fwd)]) /\ fwd' = [fwd EXCEPT ![Len(fwd)] = e]
      <4>1. PICK e \in Item : Damaged(e, fwd[Len(fwd)]) /\ fwd' = [fwd EXCEPT ![Len(fwd)] = e]
        BY <3>3
      <4>2. ~Good(e)
        BY <4>1 DEF Good, IsPacket, Damaged
      <4>3. PICK l \in Nat \ {0} : l = Len(fwd)
        BY <1>0, <3>3, LastChanged
      <4>4. Len(fwd') = l /\ fwd'[l] = e /\ \A i \in 1 .. l - 1 : fwd'[i] = fwd[i]
        BY <1>0, <3>3, <4>1, <4>3, LastChanged
      <4>5. \A i \in 1 .. l : i = l \/ i \in 1 .. l - 1
        BY <4>3
      <4>6. l <= l
        OBVIOUS
      <4>7. \A i \in 1 .. l : Good(fwd'[i]) => fwd'[i] = fwd[i]
        BY <4>2, <4>4, <4>5
      <4> QED
        BY <4>3, <4>4, <4>6, <4>7
    <3> QED
      BY <1>20, <3>1, <3>2, <3>3 DEF Strikes
  <2>7. InReach(fwd, Got, Weight, Slack) => InReach(fwd', Got, Weight, Slack)
    BY <1>0, <1>1, <2>6, ReachStruck
  <2>8. CASE r.at = "end"
    BY <2>1, <2>8 DEF Ahead
  <2>9. CASE r.at # "end"
    BY <1>a, <2>1, <2>5, <2>7, <2>9
  <2> QED
    BY <2>8, <2>9
<1>21. CASE UNCHANGED vars
  BY <1>21 DEF vars, Ahead, Weight, Slack, AckDue, Got
<1> QED
  BY <1>11, <1>12, <1>13, <1>14, <1>15, <1>16, <1>17, <1>18, <1>19, <1>20, <1>21, StepKinds

-----------------------------------------------------------------------------
(* The receiver is a receiver as XmodemSpec has it.                        *)

Transfers == Typed /\ UnderWay /\ Ordered /\ Ahead

LEMMA TransfersInit == Init => Transfers
<1> SUFFICES ASSUME Init PROVE Transfers
  OBVIOUS
<1>1. Typed
  BY TypedInit
<1>2. /\ fwd = << >> /\ rev = << >> /\ received = << >> /\ faults = 0 /\ late = 0
      /\ r.at = "ask" /\ r.response = "C" /\ r.seqnum = 1 % SeqMod
      /\ s.at = "sync" /\ s.blk = 1
  BY DEF Init
<1>3. Len(fwd) = 0 /\ Len(rev) = 0 /\ Got = 0 /\ Acks(rev) = 0
  BY <1>2, EmptySeq, AcksOfNone DEF Got
<1>4. AckDue = 0 /\ Held = 1 /\ Sending = 0
  BY <1>2 DEF AckDue, Held, Sending
<1>5. UnderWay
  <2>1. Len(fwd) + Len(rev) + Held + Sending = 1 /\ 1 + late = 1
    BY <1>2, <1>3, <1>4
  <2> QED
    BY <2>1 DEF UnderWay
<1>6. Ordered
  <2>1. r.seqnum = Number(Got + 1)
    BY <1>2, <1>3 DEF Number
  <2>2. \A i \in 1 .. Got : received[i] = i
    BY <1>3
  <2>3. Got <= s.blk
    BY <1>2, <1>3
  <2> QED
    BY <1>2, <2>1, <2>2, <2>3, FlowOfNone DEF Ordered
<1>7. Ahead
  <2>1. Weight = 1 /\ Slack = 1
    BY <1>2, <1>3, <1>4 DEF Weight, Slack
  <2>2. InReach(<< >>, 0, 1, 1)
    BY ReachOfNone
  <2> QED
    BY <1>2, <1>3, <2>1, <2>2 DEF Ahead
<1> QED
  BY <1>1, <1>5, <1>6, <1>7 DEF Transfers

LEMMA TransfersStep == Transfers /\ [Next]_vars => Transfers'
<1> SUFFICES ASSUME Transfers, [Next]_vars PROVE Transfers'
  OBVIOUS
<1>1. Typed /\ UnderWay /\ Ordered /\ Ahead
  BY DEF Transfers
<1>2. Typed'
  BY <1>1, StepsKeepTypes
<1> QED
  BY <1>1, <1>2, UnderWayIsInductive, OrderedIsInductive, AheadIsInductive DEF Transfers

LEMMA TransferStep ==
    Transfers /\ [Next]_vars => [Abstract!Next]_<<received, r.at = "end">>
<1> SUFFICES ASSUME Transfers, [Next]_vars
             PROVE  Abstract!Next \/ UNCHANGED <<received, r.at = "end">>
  OBVIOUS
<1>1. Typed /\ UnderWay /\ Ordered /\ Ahead
  BY DEF Transfers
<1>2. CASE Takes
  <2>1. r.at = "wait" /\ (r'.at = "ask" \/ r'.at = "flush")
    BY <1>2 DEF Takes, Turns
  <2>2. CASE received' = received
    BY <2>1, <2>2
  <2>3. CASE received' = Append(received, Got + 1) /\ Got + 1 \in 1 .. Blocks
    <3>1. Len(received) < Blocks
      <4>1. Got \in Nat /\ Blocks \in Nat
        BY <1>1, StateRanges, Sizes
      <4> QED
        BY <2>3, <4>1 DEF Got
    <3>2. Abstract!Store
      BY <2>1, <2>3, <3>1 DEF Abstract!Store, Got
    <3> QED
      BY <3>2 DEF Abstract!Next
  <2> QED
    BY <1>1, <1>2, <2>2, <2>3, TakesDo
<1>3. CASE Returns
  <2>1. r.at # "end" /\ r'.at = "end" /\ received' = received
    BY <1>3 DEF Returns, Turns
  <2>2. Abstract!Finish
    BY <2>1 DEF Abstract!Finish
  <2> QED
    BY <2>2 DEF Abstract!Next
<1>4. CASE Asks \/ HearsNothing \/ Flushes
  <2>1. r.at # "end" /\ r'.at # "end" /\ received' = received
    BY <1>4 DEF Asks, HearsNothing, Flushes, Turns
  <2> QED
    BY <2>1
<1>5. CASE Sends \/ SendsEot \/ Quits \/ HearsSilence \/ HearsAnswer \/ Strikes \/ UNCHANGED vars
  <2>1. r' = r /\ received' = received
    BY <1>5 DEF Sends, SendsEot, Quits, HearsSilence, HearsAnswer, Strikes, vars
  <2> QED
    BY <2>1
<1> QED
  BY <1>1, <1>2, <1>3, <1>4, <1>5, StepKinds

\* Whatever the line loses or garbles and however late either end is, the callback gets
\* the blocks in order, each once, and none after the return: xmodem_get_async()
\* implements the receiver of XmodemSpec.
THEOREM TransferIsInOrder == Spec => IsTransfer
<1>1. Init => Abstract!Init
  BY DEF Init, Abstract!Init
<1> QED
  BY <1>1, TransfersInit, TransfersStep, TransferStep, PTL DEF Spec, IsTransfer, Abstract!Spec

-----------------------------------------------------------------------------
(***************************************************************************)
(* What the steps do to the counts of attempts and to the results, where   *)
(* nothing is forged and the sender is the host.                           *)
(***************************************************************************)
Becomes(at, response, retry, res) ==
    /\ r'.at = at /\ r'.response = response /\ r'.retry = retry /\ r'.res = res

AsksNow ==
    /\ r.at = "ask" /\ Becomes("wait", r.response, r.retry, r.res)
    /\ rev' = IF r.response = "none" THEN rev ELSE Append(rev, r.response)
    /\ UNCHANGED <<fwd, received, s, faults, forged, late>>

\* The four ways to return.
ReturnsNow ==
    /\ \/ r.at = "ask" /\ r.retry = 0 /\ rev' = Append(rev, "CAN")
       \/ /\ r.at = "wait" /\ fwd # << >> /\ IsPacket(Head(fwd))
          /\ ~Expected(Head(fwd)) /\ ~Repeats(Head(fwd))
          /\ rev' = Append(rev, "CAN")
       \/ r.at = "wait" /\ fwd # << >> /\ Head(fwd).k = "CAN"
       \/ r.at = "wait" /\ fwd # << >> /\ Head(fwd).k = "EOT" /\ r'.res = "ok"
    /\ r'.at = "end" /\ r'.response = r.response /\ fwd' = << >>
    /\ UNCHANGED <<received, s, faults, forged, late>>

TimesOut ==
    /\ r.at = "wait" /\ fwd = << >>
    /\ Becomes("ask", IF r.response = "C" THEN "C" ELSE "none", r.retry - 1, r.res)
    /\ (ReceiverTurn /\ late' = late) \/ late' = late + 1
    /\ UNCHANGED <<fwd, rev, received, s, faults, forged>>

TakesNow ==
    /\ r.at = "wait" /\ fwd # << >> /\ IsPacket(Head(fwd)) /\ fwd' = Tail(fwd)
    /\ \/ /\ Good(Head(fwd)) /\ Expected(Head(fwd))
          /\ received' = Append(received, Head(fwd).blk)
          /\ Becomes("ask", "ACK", RetryLimit, r.res)
       \/ /\ Good(Head(fwd)) /\ ~Expected(Head(fwd)) /\ Repeats(Head(fwd))
          /\ received' = received
          /\ Becomes("ask", "ACK", r.retry, r.res)
       \/ /\ ~Head(fwd).ok
          /\ received' = received
          /\ Becomes("flush", "NAK", r.retry - 1, r.res)
    /\ UNCHANGED <<rev, s, faults, forged, late>>

FlushesNow ==
    /\ r.at = "flush"
    /\ \/ fwd # << >> /\ fwd' = Tail(fwd) /\ r' = r
       \/ fwd = << >> /\ fwd' = fwd /\ Becomes("ask", r.response, r.retry, r.res)
    /\ UNCHANGED <<rev, received, s, faults, forged, late>>

LEMMA ReceiverExactly ==
    ASSUME Typed, Receiver
    PROVE  AsksNow \/ ReturnsNow \/ TimesOut \/ TakesNow \/ FlushesNow
<1>0. r \in ReceiverLocals /\ rev \in Seq(Answer)
  BY DEF Typed, TypeOK, ReceiverLocals
<1>1. CASE Ask
  <2>1. r' = [r EXCEPT !.at = "wait"]
    BY <1>1 DEF Ask
  <2>2. Becomes("wait", r.response, r.retry, r.res)
    BY <1>0, <2>1 DEF Becomes, ReceiverLocals
  <2> QED
    BY <1>1, <2>2 DEF Ask, AsksNow, OnTime, Quiet
<1>2. ASSUME NEW result, NEW a \in Answer, Return(result, a)
      PROVE  /\ r'.at = "end" /\ r'.res = result /\ r'.response = r.response
             /\ fwd' = << >> /\ rev' = Append(rev, a)
             /\ UNCHANGED <<received, s, faults, forged, late>>
  <2>1. r' = [r EXCEPT !.at = "end", !.res = result]
    BY <1>2 DEF Return
  <2>2. r'.at = "end" /\ r'.res = result /\ r'.response = r.response
    BY <1>0, <2>1 DEF ReceiverLocals
  <2> QED
    BY <1>2, <2>2 DEF Return, OnTime, Quiet
<1>3. CASE GiveUp
  BY <1>2, <1>3 DEF GiveUp, ReturnsNow, Answer
<1>4. CASE EndOfText
  BY <1>2, <1>4 DEF EndOfText, Hears, ReturnsNow, Answer
<1>5. CASE Cancelled
  BY <1>2, <1>5 DEF Cancelled, Hears, ReturnsNow, Answer
<1>6. CASE OutOfSync
  BY <1>2, <1>6 DEF OutOfSync, Hears, ReturnsNow, Answer, IsPacket
<1>7. CASE HearNothing
  <2>1. PICK x : x = r.retry - 1
    OBVIOUS
  <2>2. PICK a : a = IF r.response = "C" THEN "C" ELSE "none"
    OBVIOUS
  <2>3. r' = [r EXCEPT !.at = "ask", !.retry = x, !.response = a]
    BY <1>7, <2>1, <2>2 DEF HearNothing, Spent
  <2>4. Becomes("ask", a, x, r.res)
    BY <1>0, <2>3 DEF Becomes, ReceiverLocals
  <2> QED
    BY <1>7, <2>1, <2>2, <2>4 DEF HearNothing, TimesOut, Patience, Quiet
<1>8. CASE Deliver
  <2>1. PICK m, x : m = NextNumber(r.seqnum) /\ x = RetryLimit
    OBVIOUS
  <2>2. r' = [r EXCEPT !.at = "ask", !.response = "ACK", !.retry = x, !.seqnum = m]
    BY <1>8, <2>1 DEF Deliver
  <2>3. Becomes("ask", "ACK", x, r.res)
    BY <1>0, <2>2 DEF Becomes, ReceiverLocals
  <2> QED
    BY <1>8, <2>1, <2>3 DEF Deliver, TakesNow, Hears, Intact, Good, IsPacket, OnTime, Quiet
<1>9. CASE Duplicate
  <2>1. r' = [r EXCEPT !.at = "ask", !.response = "ACK"]
    BY <1>9 DEF Duplicate
  <2>2. Becomes("ask", "ACK", r.retry, r.res)
    BY <1>0, <2>1 DEF Becomes, ReceiverLocals
  <2> QED
    BY <1>9, <2>2 DEF Duplicate, TakesNow, Hears, Intact, Good, IsPacket, OnTime, Quiet
<1>10. CASE BadPacket
  <2>1. PICK x : x = r.retry - 1
    OBVIOUS
  <2>2. r' = [r EXCEPT !.at = "flush", !.response = "NAK", !.retry = x]
    BY <1>10, <2>1 DEF BadPacket, Spent
  <2>3. Becomes("flush", "NAK", x, r.res)
    BY <1>0, <2>2 DEF Becomes, ReceiverLocals
  <2> QED
    BY <1>10, <2>1, <2>3 DEF BadPacket, TakesNow, Hears, Intact, IsPacket, OnTime, Quiet
<1>11. CASE Flush
  <2>1. CASE fwd # << >>
    BY <1>11, <2>1 DEF Flush, FlushesNow, OnTime, Quiet
  <2>2. CASE fwd = << >>
    <3>1. r' = [r EXCEPT !.at = "ask"]
      BY <1>11, <2>2 DEF Flush
    <3>2. Becomes("ask", r.response, r.retry, r.res)
      BY <1>0, <3>1 DEF Becomes, ReceiverLocals
    <3> QED
      BY <1>11, <2>2, <3>2 DEF Flush, FlushesNow, OnTime, Quiet
  <2> QED
    BY <2>1, <2>2
<1> QED
  BY <1>1, <1>3, <1>4, <1>5, <1>6, <1>7, <1>8, <1>9, <1>10, <1>11 DEF Receiver

\* Where it goes, with which block, how many attempts, and what it says of the CRC.
Goes(at, blk, retry, crc) ==
    /\ s'.at = at /\ s'.blk = blk /\ s'.retry = retry /\ s'.crc = crc
    /\ s'.who = s.who /\ s'.res = s.res

Leaves ==
    /\ s'.at = "end" /\ s'.crc = s.crc /\ s'.who = s.who
    /\ rev' = << >>

SendsNow ==
    /\ s.at = "send" /\ Goes("wait", s.blk, s.retry, s.crc)
    /\ \E e \in Item : /\ IsPacket(e) /\ e.blk = s.blk /\ e.ok = CrcIsRight
                       /\ fwd' = Append(fwd, e)
    /\ UNCHANGED <<rev, r, received, faults, forged, late>>

SendsEotNow ==
    /\ s.at = "eot" /\ Goes("eotwait", s.blk, s.retry, s.crc)
    /\ \E e \in Item : e.k = "EOT" /\ fwd' = Append(fwd, e)
    /\ UNCHANGED <<rev, r, received, faults, forged, late>>

\* It hears c, "none" after a time-out.
HearsNow(c) ==
    /\ UNCHANGED <<r, received, faults, forged>>
    /\ \/ /\ rev = << >> /\ c = "none"
          /\ (SenderTurn /\ late' = late) \/ late' = late + 1
       \/ rev # << >> /\ c = Head(rev) /\ late' = late

Drops == fwd' = fwd /\ rev' = IF rev = << >> THEN rev ELSE Tail(rev)

SyncsNow(c) ==
    /\ s.at = "sync" /\ HearsNow(c)
    /\ \/ c \in {"C", "NAK"} /\ Goes("send", s.blk, 0, c = "C") /\ Drops
       \/ /\ c \notin {"C", "NAK", "CAN"} /\ s.retry + 1 < SyncLimit
          /\ Goes("sync", s.blk, s.retry + 1, s.crc) /\ Drops
       \/ /\ c = "CAN" \/ (c \notin {"C", "NAK", "CAN"} /\ s.retry + 1 = SyncLimit)
          /\ Leaves /\ s'.res # "ok"
          /\ fwd' = fwd \/ \E e \in Item : e.k = "CAN" /\ fwd' = Append(fwd, e)

AwaitsNow(c) ==
    /\ s.at = "wait" /\ HearsNow(c)
    /\ \/ c = "ACK" /\ s.blk < Blocks /\ Goes("send", s.blk + 1, 0, s.crc) /\ Drops
       \/ c = "ACK" /\ ~(s.blk < Blocks) /\ Goes("eot", s.blk, 0, s.crc) /\ Drops
       \/ /\ c \notin {"ACK", "CAN"} /\ s.retry + 1 < RetryLimit
          /\ Goes("send", s.blk, s.retry + 1, s.crc) /\ Drops
       \/ /\ c = "CAN" \/ (c \notin {"ACK", "CAN"} /\ s.retry + 1 = RetryLimit)
          /\ Leaves /\ s'.res # "ok"
          /\ fwd' = fwd \/ \E e \in Item : e.k = "CAN" /\ fwd' = Append(fwd, e)

AwaitsEotNow(c) ==
    /\ s.at = "eotwait" /\ HearsNow(c)
    /\ \/ /\ c # "ACK" /\ s.retry + 1 < EotLimit
          /\ Goes("eot", s.blk, s.retry + 1, s.crc) /\ Drops
       \/ c = "ACK" /\ Leaves /\ fwd' = fwd
       \/ c # "ACK" /\ s.retry + 1 = EotLimit /\ Leaves /\ fwd' = fwd

LEMMA FieldsOfSender ==
    ASSUME Typed, NEW at, NEW blk, NEW retry, NEW crc, NEW res
    PROVE  /\ s' = [s EXCEPT !.at = at] => Goes(at, s.blk, s.retry, s.crc)
           /\ s' = [s EXCEPT !.retry = retry] => Goes(s.at, s.blk, retry, s.crc)
           /\ s' = [s EXCEPT !.at = at, !.retry = retry] => Goes(at, s.blk, retry, s.crc)
           /\ s' = [s EXCEPT !.at = at, !.blk = blk, !.retry = retry] => Goes(at, blk, retry, s.crc)
           /\ s' = [s EXCEPT !.at = at, !.crc = crc, !.retry = retry] => Goes(at, s.blk, retry, crc)
           /\ s' = [s EXCEPT !.at = at, !.res = res] =>
                  s'.at = at /\ s'.res = res /\ s'.crc = s.crc /\ s'.who = s.who
<1>0. s \in SenderLocals
  BY DEF Typed, TypeOK, SenderLocals
<1> QED
  BY <1>0 DEF Goes, SenderLocals

LEMMA QuitExactly ==
    ASSUME Typed, NEW res, NEW words \in {<< >>, Abort}, Quit(res, words)
    PROVE  /\ Leaves /\ s'.res = res /\ UNCHANGED <<r, received>>
           /\ fwd' = fwd \/ \E e \in Item : e.k = "CAN" /\ fwd' = Append(fwd, e)
           /\ words = << >> => fwd' = fwd
<1>1. s' = [s EXCEPT !.at = "end", !.res = res] /\ rev' = << >> /\ UNCHANGED <<r, received>>
      /\ fwd' = fwd \o words
  BY DEF Quit
<1>2. Leaves /\ s'.res = res
  BY <1>1, FieldsOfSender DEF Leaves
<1>3. fwd' = fwd \/ \E e \in Item : e.k = "CAN" /\ fwd' = Append(fwd, e)
  BY <1>1, WordsAreItems
<1>4. words = << >> => fwd' = fwd
  BY <1>1, ConcatEmptySeq DEF Typed, TypeOK
<1> QED
  BY <1>1, <1>2, <1>3, <1>4

LEMMA SenderExactly ==
    ASSUME Typed, SenderStep
    PROVE  \/ SendsNow \/ SendsEotNow
           \/ \E c : SyncsNow(c) \/ AwaitsNow(c) \/ AwaitsEotNow(c)
<1>0. s \in SenderLocals /\ fwd \in Seq(Item) /\ s.blk \in 1 .. Blocks
  BY DEF Typed, TypeOK, SenderLocals
<1>1. CASE Send
  <2>1. s.blk % SeqMod \in 0 .. SeqMod - 1 /\ CrcIsRight \in BOOLEAN
    BY <1>0, Sizes DEF CrcIsRight, SenderLocals
  <2>2. PICK e : e = [k |-> "pkt", seq |-> s.blk % SeqMod, blk |-> s.blk, ok |-> CrcIsRight]
    OBVIOUS
  <2>3. e \in Item /\ IsPacket(e) /\ e.blk = s.blk /\ e.ok = CrcIsRight
    BY <1>0, <2>1, <2>2 DEF Item, IsPacket
  <2>4. Goes("wait", s.blk, s.retry, s.crc)
    BY <1>1, FieldsOfSender DEF Send
  <2> QED
    BY <1>1, <2>2, <2>3, <2>4 DEF Send, SendsNow, OnTime, Quiet
<1>2. CASE SendEot
  <2>1. PICK e : e = [k |-> "EOT"]
    OBVIOUS
  <2>2. e \in Item /\ e.k = "EOT"
    BY <2>1 DEF Item
  <2>3. Goes("eotwait", s.blk, s.retry, s.crc)
    BY <1>2, FieldsOfSender DEF SendEot
  <2> QED
    BY <1>2, <2>1, <2>2, <2>3 DEF SendEot, SendsEotNow, OnTime, Quiet
<1>3. ASSUME NEW c, UNCHANGED <<r, received>>,
             \/ rev = << >> /\ c = "none" /\ Patience(SenderTurn) /\ Quiet
             \/ rev # << >> /\ c = Head(rev) /\ OnTime
      PROVE  HearsNow(c)
  BY <1>3 DEF HearsNow, Patience, OnTime, Quiet
<1>4. ASSUME NEW c, s.at = "sync", SyncStep(c),
             \/ rev = << >> /\ c = "none" /\ Patience(SenderTurn) /\ Quiet
             \/ rev # << >> /\ c = Head(rev) /\ OnTime
      PROVE  SyncsNow(c)
  <2>1. CASE c \in {"C", "NAK"} /\ s' = [s EXCEPT !.at = "send", !.crc = (c = "C"), !.retry = 0] /\ Hushed
    <3>1. Goes("send", s.blk, 0, c = "C")
      BY <2>1, FieldsOfSender
    <3>2. HearsNow(c) /\ Drops
      BY <1>3, <1>4, <2>1 DEF Hushed, Drops
    <3> QED
      BY <1>4, <2>1, <3>1, <3>2 DEF SyncsNow
  <2>2. CASE c = "CAN" /\ Quit("canceled", << >>)
    <3>1. /\ Leaves /\ s'.res # "ok" /\ UNCHANGED <<r, received>>
          /\ fwd' = fwd
      BY <2>2, QuitExactly
    <3>2. HearsNow(c)
      BY <1>3, <1>4, <3>1
    <3> QED
      BY <1>4, <2>2, <3>1, <3>2 DEF SyncsNow
  <2>3. CASE /\ c \notin {"C", "NAK", "CAN"} /\ s.retry + 1 < SyncLimit
             /\ s' = [s EXCEPT !.retry = @ + 1] /\ Hushed
    <3>1. PICK x : x = s.retry + 1
      OBVIOUS
    <3>2. Goes(s.at, s.blk, x, s.crc)
      BY <2>3, <3>1, FieldsOfSender
    <3>3. HearsNow(c) /\ Drops
      BY <1>3, <1>4, <2>3 DEF Hushed, Drops
    <3> QED
      BY <1>4, <2>3, <3>1, <3>2, <3>3 DEF SyncsNow
  <2>4. CASE c \notin {"C", "NAK", "CAN"} /\ s.retry + 1 = SyncLimit /\ Quit("nosync", Abort)
    <3>1. /\ Leaves /\ s'.res # "ok" /\ UNCHANGED <<r, received>>
          /\ fwd' = fwd \/ \E e \in Item : e.k = "CAN" /\ fwd' = Append(fwd, e)
      BY <2>4, QuitExactly
    <3>2. HearsNow(c)
      BY <1>3, <1>4, <3>1
    <3> QED
      BY <1>4, <2>4, <3>1, <3>2 DEF SyncsNow
  <2> QED
    BY <1>4, <2>1, <2>2, <2>3, <2>4 DEF SyncStep
<1>5. ASSUME NEW c, s.at = "wait", BlockStep(c),
             \/ rev = << >> /\ c = "none" /\ Patience(SenderTurn) /\ Quiet
             \/ rev # << >> /\ c = Head(rev) /\ OnTime
      PROVE  AwaitsNow(c)
  <2>1. CASE c = "ACK" /\ Hushed /\ s.blk < Blocks
    <3>1. PICK b : b = s.blk + 1
      OBVIOUS
    <3>2. s' = [s EXCEPT !.at = "send", !.blk = b, !.retry = 0]
      BY <1>5, <2>1, <3>1 DEF BlockStep, Acknowledged
    <3>3. Goes("send", b, 0, s.crc)
      BY <3>2, FieldsOfSender
    <3>4. HearsNow(c) /\ Drops
      BY <1>3, <1>5, <2>1 DEF Hushed, Drops
    <3> QED
      BY <1>5, <2>1, <3>1, <3>3, <3>4 DEF AwaitsNow
  <2>2. CASE c = "ACK" /\ Hushed /\ ~(s.blk < Blocks)
    <3>2. s' = [s EXCEPT !.at = "eot", !.retry = 0]
      BY <1>5, <2>2 DEF BlockStep, Acknowledged
    <3>3. Goes("eot", s.blk, 0, s.crc)
      BY <3>2, FieldsOfSender
    <3>4. HearsNow(c) /\ Drops
      BY <1>3, <1>5, <2>2 DEF Hushed, Drops
    <3> QED
      BY <1>5, <2>2, <3>3, <3>4 DEF AwaitsNow
  <2>3. CASE c = "CAN" /\ Quit("canceled", << >>)
    <3>1. /\ Leaves /\ s'.res # "ok" /\ UNCHANGED <<r, received>>
          /\ fwd' = fwd
      BY <2>3, QuitExactly
    <3>2. HearsNow(c)
      BY <1>3, <1>5, <3>1
    <3> QED
      BY <1>5, <2>3, <3>1, <3>2 DEF AwaitsNow
  <2>4. CASE /\ c \notin {"ACK", "CAN"} /\ s.retry + 1 < RetryLimit
             /\ s' = [s EXCEPT !.at = "send", !.retry = @ + 1] /\ Hushed
    <3>1. PICK x : x = s.retry + 1
      OBVIOUS
    <3>2. Goes("send", s.blk, x, s.crc)
      BY <2>4, <3>1, FieldsOfSender
    <3>3. HearsNow(c) /\ Drops
      BY <1>3, <1>5, <2>4 DEF Hushed, Drops
    <3> QED
      BY <1>5, <2>4, <3>1, <3>2, <3>3 DEF AwaitsNow
  <2>5. CASE c \notin {"ACK", "CAN"} /\ s.retry + 1 = RetryLimit /\ Quit("xmit", Abort)
    <3>1. /\ Leaves /\ s'.res # "ok" /\ UNCHANGED <<r, received>>
          /\ fwd' = fwd \/ \E e \in Item : e.k = "CAN" /\ fwd' = Append(fwd, e)
      BY <2>5, QuitExactly
    <3>2. HearsNow(c)
      BY <1>3, <1>5, <3>1
    <3> QED
      BY <1>5, <2>5, <3>1, <3>2 DEF AwaitsNow
  <2>6. Acknowledged(c) <=> c = "ACK"
    BY DEF Acknowledged
  <2> QED
    BY <1>5, <2>1, <2>2, <2>3, <2>4, <2>5, <2>6 DEF BlockStep
<1>6. ASSUME NEW c, s.at = "eotwait", EotStep(c),
             \/ rev = << >> /\ c = "none" /\ Patience(SenderTurn) /\ Quiet
             \/ rev # << >> /\ c = Head(rev) /\ OnTime
      PROVE  AwaitsEotNow(c)
  <2>1. ASSUME NEW res, Quit(res, << >>)
        PROVE  Leaves /\ fwd' = fwd /\ HearsNow(c)
    <3>1. Leaves /\ fwd' = fwd /\ UNCHANGED <<r, received>>
      BY <2>1, QuitExactly
    <3> QED
      BY <1>3, <1>6, <3>1
  <2>2. CASE c # "ACK" /\ s.retry + 1 < EotLimit /\ s' = [s EXCEPT !.at = "eot", !.retry = @ + 1] /\ Hushed
    <3>1. PICK x : x = s.retry + 1
      OBVIOUS
    <3>2. Goes("eot", s.blk, x, s.crc)
      BY <2>2, <3>1, FieldsOfSender
    <3>3. HearsNow(c) /\ Drops
      BY <1>3, <1>6, <2>2 DEF Hushed, Drops
    <3> QED
      BY <1>6, <2>2, <3>1, <3>2, <3>3 DEF AwaitsEotNow
  <2>3. CASE c = "ACK" /\ Quit("ok", << >>)
    BY <1>6, <2>1, <2>3 DEF AwaitsEotNow
  <2>4. CASE c # "ACK" /\ s.retry + 1 = EotLimit /\ Quit("noack", << >>)
    BY <1>6, <2>1, <2>4 DEF AwaitsEotNow
  <2> QED
    BY <1>6, <2>2, <2>3, <2>4 DEF EotStep
<1>7. CASE Sync
  BY <1>4, <1>7 DEF Sync, Listen
<1>8. CASE AwaitAck
  BY <1>5, <1>8 DEF AwaitAck, Listen
<1>9. CASE AwaitEotAck
  BY <1>6, <1>9 DEF AwaitEotAck, Listen
<1> QED
  BY <1>1, <1>2, <1>7, <1>8, <1>9 DEF SenderStep

\* A fault that forges nothing.
StrikesNow ==
    /\ faults' = faults + 1
    /\ \/ fwd # << >> /\ fwd' = SubSeq(fwd, 1, Len(fwd) - 1) /\ UNCHANGED rev
       \/ rev # << >> /\ rev' = SubSeq(rev, 1, Len(rev) - 1) /\ UNCHANGED fwd
       \/ /\ fwd # << >> /\ fwd[Len(fwd)].k = "pkt" /\ UNCHANGED rev
          /\ \E e \in Item : /\ IsPacket(e) /\ ~e.ok /\ e.blk = fwd[Len(fwd)].blk
                             /\ fwd' = [fwd EXCEPT ![Len(fwd)] = e]
       \/ rev # << >> /\ UNCHANGED fwd /\ rev' = [rev EXCEPT ![Len(rev)] = "noise"]
    /\ UNCHANGED <<r, s, received, forged, late>>

LEMMA LineExactly ==
    ASSUME Typed, Line, ~forged'
    PROVE  StrikesNow
<1>0. fwd \in Seq(Item) /\ forged \in BOOLEAN /\ forged' \in BOOLEAN
  BY ForgedIsBoolean DEF Typed, TypeOK, Next
<1>1. CASE Lose
  BY <1>1 DEF Lose, Strike, StrikesNow
<1>2. CASE Garble
  <2>1. faults' = faults + 1 /\ UNCHANGED <<r, s, received, late>>
    BY <1>2 DEF Garble, Strike
  <2>2. CASE /\ fwd # << >> /\ UNCHANGED <<rev, forged>> /\ fwd[Len(fwd)].k = "pkt"
             /\ fwd' = [fwd EXCEPT ![Len(fwd)].ok = FALSE]
    <3>1. PICK l \in 1 .. Len(fwd), p \in Item : l = Len(fwd) /\ p = fwd[l] /\ p.k = "pkt"
      <4>1. Len(fwd) \in 1 .. Len(fwd)
        BY <1>0, <2>2, EmptySeq
      <4> QED
        BY <1>0, <2>2, <4>1, ElementOfSeq
    <3>2. p \in [k : {"pkt"}, seq : 0 .. SeqMod - 1, blk : 1 .. Blocks, ok : BOOLEAN]
      BY <3>1 DEF Item
    <3>3. PICK e : e = [p EXCEPT !.ok = FALSE]
      OBVIOUS
    <3>4. e \in Item /\ IsPacket(e) /\ e.ok = FALSE /\ e.blk = p.blk
      BY <3>1, <3>2, <3>3 DEF Item, IsPacket
    <3>5. fwd' = [fwd EXCEPT ![Len(fwd)] = e]
      BY <2>2, <3>1, <3>3
    <3> QED
      BY <2>1, <2>2, <3>1, <3>4, <3>5 DEF StrikesNow
  <2>3. CASE rev # << >> /\ UNCHANGED <<fwd, forged>> /\ rev' = [rev EXCEPT ![Len(rev)] = "noise"]
    BY <2>1, <2>3 DEF StrikesNow
  <2> QED
    BY <1>0, <1>2, <2>2, <2>3 DEF Garble
<1> QED
  BY <1>1, <1>2 DEF Line

\* What was forged stays so, and the sender is the one it was.
LEMMA WhoAndForged ==
    ASSUME Typed, [Next]_vars
    PROVE  s'.who = s.who /\ (~forged' => ~forged) /\ forged \in BOOLEAN
<1>0. forged \in BOOLEAN
  BY DEF Typed, TypeOK
<1>1. CASE Receiver
  <2>1. AsksNow \/ ReturnsNow \/ TimesOut \/ TakesNow \/ FlushesNow
    BY <1>1, ReceiverExactly
  <2>2. s' = s /\ forged' = forged
    BY <2>1 DEF AsksNow, ReturnsNow, TimesOut, TakesNow, FlushesNow
  <2> QED
    BY <1>0, <2>2
<1>2. CASE SenderStep
  <2>1. CASE SendsNow \/ SendsEotNow
    BY <1>0, <2>1 DEF SendsNow, SendsEotNow, Goes
  <2>2. ASSUME NEW c, SyncsNow(c) \/ AwaitsNow(c) \/ AwaitsEotNow(c)
        PROVE  s'.who = s.who /\ forged' = forged
    BY <2>2 DEF SyncsNow, AwaitsNow, AwaitsEotNow, HearsNow, Goes, Leaves
  <2> QED
    BY <1>0, <1>2, <2>1, <2>2, SenderExactly
<1>3. CASE Line
  <2>1. s' = s
    BY <1>3 DEF Line, Lose, Garble, Strike
  <2>2. (forged' = forged) \/ forged' = TRUE \/ \E x : forged' = (forged \/ x)
    BY <1>3 DEF Line, Lose, Garble
  <2> QED
    BY <1>0, <2>1, <2>2
<1>4. CASE UNCHANGED vars
  BY <1>0, <1>4 DEF vars
<1> QED
  BY <1>0, <1>1, <1>2, <1>3, <1>4 DEF Next

(***************************************************************************)
(* A sender that is not the host gets nothing across, and does not think   *)
(* that it did: all its packets are bad, so that it never hears an ACK.    *)
(***************************************************************************)
NoneWhole(q) == \A i \in 1 .. Len(q) : q[i].k # "EOT" /\ ~Good(q[i])
NoCan(q) == \A i \in 1 .. Len(q) : q[i].k # "CAN"
NoAck(q) == \A i \in 1 .. Len(q) : q[i] # "ACK"

Failing ==
    /\ s.at \notin {"eot", "eotwait"} /\ s.res # "ok" /\ r.response # "ACK"
    /\ NoneWhole(fwd)
    /\ s.at # "end" => NoCan(fwd) /\ NoAck(rev)

Fails == ~forged /\ s.who # "host" => Failing

LEMMA FailsIsInductive ==
    ASSUME Typed, Fails, [Next]_vars
    PROVE  Fails'
<1> SUFFICES ASSUME ~forged', s'.who # "host" PROVE Failing'
  BY DEF Fails
<1>0. /\ fwd \in Seq(Item) /\ rev \in Seq(Answer) /\ forged \in BOOLEAN
      /\ r.response \in {"C", "ACK", "NAK", "none"}
      /\ Len(fwd) \in Nat /\ Len(rev) \in Nat /\ ~forged /\ s.who # "host"
  BY LenProperties, WhoAndForged DEF Typed, TypeOK
<1>e. NoneWhole(<< >>) /\ NoCan(<< >>) /\ NoAck(<< >>)
  BY EmptySeq DEF NoneWhole, NoCan, NoAck
<1>s. Failing
  BY <1>0 DEF Fails
<1>h. fwd # << >> => Head(fwd).k # "EOT" /\ ~Good(Head(fwd)) /\ (s.at # "end" => Head(fwd).k # "CAN")
  <2>1. fwd # << >> => 1 \in 1 .. Len(fwd) /\ Head(fwd) = fwd[1]
    BY <1>0, Shorter
  <2> QED
    BY <1>s, <2>1 DEF Failing, NoneWhole, NoCan
<1>r. rev # << >> /\ s.at # "end" => Head(rev) # "ACK"
  <2>1. rev # << >> => 1 \in 1 .. Len(rev) /\ Head(rev) = rev[1]
    BY <1>0, Shorter
  <2> QED
    BY <1>s, <2>1 DEF Failing, NoAck
<1>l. ASSUME NEW q, q = Tail(fwd), fwd # << >>
      PROVE  NoneWhole(q) /\ (s.at # "end" => NoCan(q))
  <2>1. /\ Len(q) = Len(fwd) - 1
        /\ \A i \in 1 .. Len(q) : q[i] = fwd[i + 1] /\ i + 1 \in 1 .. Len(fwd)
    BY <1>0, <1>l, Shorter
  <2> QED
    BY <1>s, <2>1 DEF Failing, NoneWhole, NoCan
<1>a. ASSUME NEW a \in Answer, a # "ACK", rev' = Append(rev, a), s.at # "end"
      PROVE  NoAck(rev')
  <2>1. /\ Len(rev') = Len(rev) + 1 /\ rev'[Len(rev) + 1] = a
        /\ \A i \in 1 .. Len(rev) : rev'[i] = rev[i]
    BY <1>0, <1>a, Longer
  <2>2. \A i \in 1 .. Len(rev) + 1 : i \in 1 .. Len(rev) \/ i = Len(rev) + 1
    BY <1>0
  <2> QED
    BY <1>s, <1>a, <2>1, <2>2 DEF NoAck, Failing
<1>1. CASE AsksNow
  <2>1. CASE r.response = "none"
    BY <1>1, <1>s, <2>1 DEF AsksNow, Becomes, Failing
  <2>2. CASE r.response # "none"
    <3>1. s.at # "end" => NoAck(rev')
      BY <1>0, <1>1, <1>s, <1>a, <2>2 DEF AsksNow, Failing, Answer
    <3> QED
      BY <1>1, <1>s, <3>1 DEF AsksNow, Becomes, Failing
  <2> QED
    BY <2>1, <2>2
<1>2. CASE ReturnsNow
  <2>1. s.at # "end" => rev' = Append(rev, "CAN")
    BY <1>2, <1>h DEF ReturnsNow
  <2>2. s.at # "end" => NoAck(rev')
    BY <1>a, <2>1 DEF Answer
  <2> QED
    BY <1>2, <1>s, <1>e, <2>2 DEF ReturnsNow, Failing
<1>3. CASE TimesOut
  BY <1>3, <1>s DEF TimesOut, Becomes, Failing
<1>4. CASE TakesNow
  BY <1>4, <1>s, <1>h, <1>l DEF TakesNow, Becomes, Failing
<1>5. CASE FlushesNow
  BY <1>5, <1>s, <1>l DEF FlushesNow, Becomes, Failing
<1>6. CASE SendsNow
  <2>1. PICK e \in Item : IsPacket(e) /\ e.ok = CrcIsRight /\ fwd' = Append(fwd, e)
    BY <1>6 DEF SendsNow
  <2>2. e.k = "pkt" /\ ~e.ok
    BY <1>0, <2>1 DEF CrcIsRight, IsPacket
  <2>3. /\ Len(fwd') = Len(fwd) + 1 /\ fwd'[Len(fwd) + 1] = e
        /\ \A i \in 1 .. Len(fwd) : fwd'[i] = fwd[i]
    BY <1>0, <2>1, Longer
  <2>4. \A i \in 1 .. Len(fwd) + 1 : i \in 1 .. Len(fwd) \/ i = Len(fwd) + 1
    BY <1>0
  <2>5. NoneWhole(fwd') /\ NoCan(fwd')
    BY <1>6, <1>s, <2>2, <2>3, <2>4 DEF SendsNow, NoneWhole, NoCan, Failing, Good
  <2> QED
    BY <1>6, <1>s, <2>5 DEF SendsNow, Goes, Failing
<1>7. CASE SendsEotNow
  BY <1>7, <1>s DEF SendsEotNow, Failing
<1>8. ASSUME NEW c, SyncsNow(c) \/ AwaitsNow(c) \/ AwaitsEotNow(c)
      PROVE  Failing'
  <2>1. /\ s.at \in {"sync", "wait"} /\ c # "ACK" /\ r' = r
    BY <1>8, <1>r, <1>s DEF SyncsNow, AwaitsNow, AwaitsEotNow, HearsNow, Failing
  <2>2. CASE Drops /\ s'.at # "end" /\ s'.at \notin {"eot", "eotwait"} /\ s'.res = s.res
    <3>1. CASE rev = << >>
      BY <1>s, <2>1, <2>2, <3>1 DEF Drops, Failing
    <3>2. CASE rev # << >>
      <4>1. /\ Len(rev') = Len(rev) - 1
            /\ \A i \in 1 .. Len(rev') : rev'[i] = rev[i + 1] /\ i + 1 \in 1 .. Len(rev)
        BY <1>0, <2>2, <3>2, Shorter DEF Drops
      <4>2. NoAck(rev')
        BY <1>s, <2>1, <4>1 DEF Failing, NoAck
      <4> QED
        BY <1>s, <2>1, <2>2, <4>2 DEF Drops, Failing
    <3> QED
      BY <3>1, <3>2
  <2>3. CASE /\ Leaves /\ s'.res # "ok"
             /\ fwd' = fwd \/ \E e \in Item : e.k = "CAN" /\ fwd' = Append(fwd, e)
    <3>1. CASE fwd' = fwd
      BY <1>s, <2>1, <2>3, <3>1 DEF Leaves, Failing
    <3>2. ASSUME NEW e \in Item, e.k = "CAN", fwd' = Append(fwd, e)
          PROVE  NoneWhole(fwd')
      <4>1. /\ Len(fwd') = Len(fwd) + 1 /\ fwd'[Len(fwd) + 1] = e
            /\ \A i \in 1 .. Len(fwd) : fwd'[i] = fwd[i]
        BY <1>0, <3>2, Longer
      <4>2. \A i \in 1 .. Len(fwd) + 1 : i \in 1 .. Len(fwd) \/ i = Len(fwd) + 1
        BY <1>0
      <4> QED
        BY <1>s, <3>2, <4>1, <4>2 DEF NoneWhole, Failing, Good, IsPacket
    <3> QED
      BY <1>s, <2>1, <2>3, <3>1, <3>2 DEF Leaves, Failing
  <2> QED
    BY <1>8, <2>1, <2>2, <2>3 DEF SyncsNow, AwaitsNow, AwaitsEotNow, Goes
<1>9. CASE StrikesNow
  <2>1. \A i \in 1 .. Len(fwd') : i \in 1 .. Len(fwd) /\ (fwd'[i] = fwd[i] \/ (IsPacket(fwd'[i]) /\ ~fwd'[i].ok))
    <3>1. CASE fwd # << >> /\ fwd' = SubSeq(fwd, 1, Len(fwd) - 1)
      BY <1>0, <3>1, LastLost
    <3>2. ASSUME NEW e \in Item, fwd # << >>, IsPacket(e), ~e.ok, fwd' = [fwd EXCEPT ![Len(fwd)] = e]
          PROVE  \A i \in 1 .. Len(fwd') : i \in 1 .. Len(fwd) /\ (fwd'[i] = fwd[i] \/ (IsPacket(fwd'[i]) /\ ~fwd'[i].ok))
      <4>1. /\ Len(fwd') = Len(fwd) /\ fwd'[Len(fwd)] = e
            /\ \A i \in 1 .. Len(fwd) - 1 : fwd'[i] = fwd[i]
        BY <1>0, <3>2, LastChanged
      <4>2. \A i \in 1 .. Len(fwd) : i = Len(fwd) \/ i \in 1 .. Len(fwd) - 1
        BY <1>0
      <4> QED
        BY <3>2, <4>1, <4>2
    <3> QED
      BY <1>9, <3>1, <3>2 DEF StrikesNow
  <2>2. s.at # "end" => NoAck(rev')
    <3>1. CASE rev' = rev
      BY <1>s, <3>1 DEF Failing
    <3>2. CASE rev # << >> /\ rev' = SubSeq(rev, 1, Len(rev) - 1)
      <4>1. \A i \in 1 .. Len(rev') : rev'[i] = rev[i] /\ i \in 1 .. Len(rev)
        BY <1>0, <3>2, LastLost
      <4> QED
        BY <1>s, <4>1 DEF Failing, NoAck
    <3>3. CASE rev # << >> /\ rev' = [rev EXCEPT ![Len(rev)] = "noise"]
      <4>1. /\ Len(rev') = Len(rev) /\ rev'[Len(rev)] = "noise"
            /\ \A i \in 1 .. Len(rev) - 1 : rev'[i] = rev[i]
        BY <1>0, <3>3, LastChanged DEF Answer
      <4>2. \A i \in 1 .. Len(rev) : i = Len(rev) \/ i \in 1 .. Len(rev) - 1
        BY <1>0
      <4> QED
        BY <1>s, <4>1, <4>2 DEF Failing, NoAck
    <3> QED
      BY <1>9, <3>1, <3>2, <3>3 DEF StrikesNow
  <2>3. NoneWhole(fwd') /\ (s.at # "end" => NoCan(fwd'))
    BY <1>s, <2>1 DEF Failing, NoneWhole, NoCan, Good, IsPacket
  <2> QED
    BY <1>9, <1>s, <2>2, <2>3 DEF StrikesNow, Failing
<1>10. CASE UNCHANGED vars
  BY <1>10, <1>s DEF vars, Failing, NoneWhole, NoCan, NoAck
<1>11. CASE Line
  BY <1>9, <1>11, LineExactly
<1> QED
  BY <1>1, <1>2, <1>3, <1>4, <1>5, <1>6, <1>7, <1>8, <1>10, <1>11,
     ReceiverExactly, SenderExactly DEF Next

-----------------------------------------------------------------------------
(***************************************************************************)
(* A line without faults.  What is under way to the receiver is every      *)
(* block from the one it had last up to where the sender is, some of them  *)
(* more than once, and the EOT after them.                                 *)
(***************************************************************************)
Rank(e) == IF e.k = "EOT" THEN Blocks + 1 ELSE e.blk
Pos == IF s.at \in {"eot", "eotwait", "end"} THEN Blocks + 1 ELSE s.blk

Whole(e) == e.k = "EOT" \/ Good(e)

\* How far the first j items get a receiver that has block lo.
Upto(q, lo, j) == IF j = 0 THEN lo ELSE Rank(q[j])

Unbroken(q, lo) ==
    \A i \in 1 .. Len(q) :
        Whole(q[i]) /\ Rank(q[i]) \in {Upto(q, lo, i - 1), Upto(q, lo, i - 1) + 1}

LEMMA RankIsNatural ==
    ASSUME NEW e \in Item, Whole(e)
    PROVE  Rank(e) \in 1 .. Blocks + 1
<1>1. Blocks \in Nat \ {0}
  BY Sizes
<1>2. CASE e.k = "EOT"
  BY <1>1, <1>2 DEF Rank
<1>3. CASE e.k # "EOT"
  <2>1. e.blk \in 1 .. Blocks
    BY <1>3, PacketFields DEF Whole, Good
  <2> QED
    BY <1>1, <1>3, <2>1 DEF Rank
<1> QED
  BY <1>2, <1>3

LEMMA UnbrokenShorter ==
    ASSUME NEW q \in Seq(Item), NEW lo \in Nat, Unbroken(q, lo), q # << >>, NEW p, p = Tail(q)
    PROVE  /\ Head(q) \in Item /\ Whole(Head(q)) /\ Rank(Head(q)) \in {lo, lo + 1}
           /\ Unbroken(p, Rank(Head(q)))
           /\ Upto(p, Rank(Head(q)), Len(p)) = Upto(q, lo, Len(q))
<1>1. /\ p \in Seq(Item) /\ Len(p) = Len(q) - 1 /\ Len(q) \in Nat \ {0}
      /\ \A i \in 1 .. Len(p) : p[i] = q[i + 1]
      /\ Head(q) = q[1] /\ Head(q) \in Item
  BY Shorter
<1>m. PICK m \in Nat \ {0} : m = Len(q)
  BY <1>1
<1>2. PICK l \in Nat : l = Len(p) /\ Len(q) = l + 1
  <2>1. m - 1 \in Nat /\ m = (m - 1) + 1
    OBVIOUS
  <2> QED
    BY <1>1, <1>m, <2>1
<1>3. /\ 1 \in 1 .. Len(q) /\ Upto(q, lo, 1 - 1) = lo
  BY <1>2 DEF Upto
<1>4. Whole(Head(q)) /\ Rank(Head(q)) \in {lo, lo + 1}
  BY <1>1, <1>3 DEF Unbroken
<1>5. \A j \in 0 .. l : Upto(p, Rank(Head(q)), j) = Upto(q, lo, j + 1)
  BY <1>1, <1>2 DEF Upto
<1>6. ASSUME NEW i \in 1 .. l
      PROVE  /\ Whole(p[i])
             /\ Rank(p[i]) \in {Upto(p, Rank(Head(q)), i - 1), Upto(p, Rank(Head(q)), i - 1) + 1}
  <2>1. i + 1 \in 1 .. Len(q) /\ (i + 1) - 1 = i /\ i - 1 \in 0 .. l /\ (i - 1) + 1 = i
    BY <1>2
  <2>2. Whole(q[i + 1]) /\ Rank(q[i + 1]) \in {Upto(q, lo, i), Upto(q, lo, i) + 1}
    BY <2>1 DEF Unbroken
  <2>3. Upto(p, Rank(Head(q)), i - 1) = Upto(q, lo, i)
    BY <1>5, <2>1
  <2> QED
    BY <1>1, <1>2, <2>2, <2>3
<1>7. Unbroken(p, Rank(Head(q)))
  BY <1>2, <1>6 DEF Unbroken
<1>8. l \in 0 .. l
  OBVIOUS
<1> QED
  BY <1>1, <1>2, <1>4, <1>5, <1>7, <1>8

LEMMA UnbrokenLonger ==
    ASSUME NEW q \in Seq(Item), NEW lo \in Nat, Unbroken(q, lo), NEW e \in Item, Whole(e),
           Rank(e) \in {Upto(q, lo, Len(q)), Upto(q, lo, Len(q)) + 1}, NEW p, p = Append(q, e)
    PROVE  Unbroken(p, lo) /\ Upto(p, lo, Len(p)) = Rank(e)
<1>1. /\ p \in Seq(Item) /\ Len(p) = Len(q) + 1 /\ Len(q) \in Nat
      /\ \A i \in 1 .. Len(q) : p[i] = q[i]
      /\ p[Len(q) + 1] = e
  BY Longer
<1>2. PICK l \in Nat : l = Len(q) /\ Len(p) = l + 1
  BY <1>1
<1>3. \A j \in 0 .. l : Upto(p, lo, j) = Upto(q, lo, j)
  BY <1>1, <1>2 DEF Upto
<1>4. ASSUME NEW i \in 1 .. l
      PROVE  Whole(p[i]) /\ Rank(p[i]) \in {Upto(p, lo, i - 1), Upto(p, lo, i - 1) + 1}
  <2>1. i - 1 \in 0 .. l
    OBVIOUS
  <2> QED
    BY <1>1, <1>2, <1>3, <2>1 DEF Unbroken
<1>5. /\ Whole(p[l + 1]) /\ (l + 1) - 1 = l /\ l \in 0 .. l
      /\ Rank(p[l + 1]) \in {Upto(p, lo, l), Upto(p, lo, l) + 1}
  BY <1>1, <1>2, <1>3
<1>6. \A i \in 1 .. l + 1 : i \in 1 .. l \/ i = l + 1
  OBVIOUS
<1>7. Unbroken(p, lo)
  BY <1>2, <1>4, <1>5, <1>6 DEF Unbroken
<1>8. Upto(p, lo, Len(p)) = Rank(e)
  BY <1>1, <1>2 DEF Upto
<1> QED
  BY <1>7, <1>8

LEMMA UnbrokenNone == \A lo : Unbroken(<< >>, lo) /\ Upto(<< >>, lo, Len(<< >>)) = lo
BY EmptySeq DEF Unbroken, Upto

LEMMA UnbrokenRanks ==
    ASSUME NEW q \in Seq(Item), NEW lo \in Nat, Unbroken(q, lo)
    PROVE  /\ q # << >> => Upto(q, lo, Len(q)) \in 1 .. Blocks + 1
           /\ q = << >> => Upto(q, lo, Len(q)) = lo
           /\ Upto(q, lo, Len(q)) \in Nat
<1>1. CASE q = << >>
  BY <1>1, EmptySeq DEF Upto
<1>2. CASE q # << >>
  <2>1. Len(q) \in 1 .. Len(q) /\ Len(q) # 0
    BY <1>2, EmptySeq, LenProperties
  <2>2. q[Len(q)] \in Item /\ Whole(q[Len(q)])
    BY <2>1, ElementOfSeq DEF Unbroken
  <2>3. Rank(q[Len(q)]) \in 1 .. Blocks + 1
    BY <2>2, RankIsNatural
  <2> QED
    BY <1>2, <2>1, <2>3, Sizes DEF Upto
<1> QED
  BY <1>1, <1>2

\* How far the packets under way get the receiver.
Sent == Upto(fwd, Got, Len(fwd))

Flowing ==
    /\ Unbroken(fwd, Got)
    /\ Sent = Pos \/ (s.at \in {"sync", "send", "eot"} /\ Sent = Pos - 1)
    /\ s.at = "sync" => Sent = 0

Answering ==
    /\ r.at # "flush" /\ r.response # "NAK"
    /\ \A i \in 1 .. Len(rev) : rev[i] = "C" \/ (rev[i] = "ACK" /\ s.at # "sync")
    /\ s.at = "sync" => r.response = "C"

\* A receiver that only waits does so for something.
Alive ==
    (r.at = "wait" \/ r.response = "none") /\ fwd = << >> =>
        rev # << >> \/ s.at \in {"send", "eot"}

(***************************************************************************)
(* Attempts are used up by late time-outs only.  The sender takes one for  *)
(* its own and one for each 'C' that is not the first, and of those there  *)
(* are as many as the receiver's time-outs.                                *)
(***************************************************************************)
Credit == IF s.at = "sync" THEN late + 1 ELSE late
Tries  == IF s.at = "sync" THEN 0 ELSE s.retry
Asking == IF r.at = "ask" THEN 1 ELSE 0

Affords ==
    /\ s.retry <= late
    /\ \A i \in 1 .. Len(rev) : rev[i] = "C" => Tries + i <= Credit
    /\ r.response = "C" => Tries + Len(rev) + Asking <= Credit

Budget ==
    /\ r.retry + late >= RetryLimit
    /\ s.at \in {"sync", "send", "wait"} => Affords

Sparing == s.crc = TRUE /\ Flowing /\ Answering /\ Alive /\ Budget
Finished == r.res = "ok" /\ Got = Blocks

Spared == faults = 0 /\ Usual => IF r.at = "end" THEN Finished ELSE Sparing

\* The receiver takes the block that it had last, or the next, for what it is.
LEMMA IsNextOrLast ==
    ASSUME Typed, Ordered, fwd # << >>, IsPacket(Head(fwd)), Head(fwd).blk \in {Got, Got + 1}
    PROVE  Expected(Head(fwd)) \/ Repeats(Head(fwd))
<1>0. fwd \in Seq(Item) /\ Got \in Nat
  BY StateRanges
<1>1. Head(fwd) = fwd[1] /\ 1 \in 1 .. Len(fwd)
  BY <1>0, Shorter
<1>2. Head(fwd).seq = Number(Head(fwd).blk) /\ r.seqnum = Number(Got + 1)
  BY <1>1 DEF Ordered, InFlow
<1>3. CASE Head(fwd).blk = Got + 1
  BY <1>2, <1>3 DEF Expected
<1>4. CASE Head(fwd).blk = Got
  BY <1>0, <1>2, <1>4, NumbersFollow DEF Repeats
<1> QED
  BY <1>3, <1>4

LEMMA SparingRanges ==
    ASSUME Typed, Ordered, Sparing
    PROVE  /\ fwd \in Seq(Item) /\ rev \in Seq(Answer) /\ received \in Seq(1 .. Blocks)
           /\ Len(rev) \in Nat /\ Got \in Nat /\ Blocks \in Nat \ {0}
           /\ s.blk \in 1 .. Blocks /\ Got <= Blocks
           /\ late \in 0 .. MaxLate /\ MaxLate \in Nat /\ RetryLimit \in Nat \ {0}
           /\ MaxLate < RetryLimit /\ MaxLate < SyncLimit /\ SyncLimit \in Nat
           /\ r.retry \in 0 .. RetryLimit /\ s.retry \in Nat
           /\ Sent \in Nat /\ Pos \in 1 .. Blocks + 1
           /\ fwd = << >> => Sent = Got
           /\ fwd # << >> => Sent >= 1
           /\ s.at \in {"sync", "send", "wait", "eot", "eotwait", "end"}
           /\ r.at \in {"ask", "wait", "flush", "end"}
           /\ r.response \in {"C", "ACK", "NAK", "none"}
<1>1. /\ fwd \in Seq(Item) /\ rev \in Seq(Answer) /\ received \in Seq(1 .. Blocks)
      /\ Len(rev) \in Nat /\ Got \in Nat /\ Blocks \in Nat \ {0} /\ s.blk \in 1 .. Blocks
      /\ late \in 0 .. MaxLate /\ MaxLate \in Nat /\ RetryLimit \in Nat \ {0}
  BY StateRanges, Sizes
<1>2. /\ r.retry \in 0 .. RetryLimit /\ s.retry \in Nat
      /\ s.at \in {"sync", "send", "wait", "eot", "eotwait", "end"}
      /\ r.at \in {"ask", "wait", "flush", "end"}
      /\ r.response \in {"C", "ACK", "NAK", "none"}
  BY DEF Typed, TypeOK
<1>3. MaxLate < RetryLimit /\ MaxLate < SyncLimit /\ SyncLimit \in Nat
  BY XmodemAssumption, LimitsAssumption
<1>4. Got <= Blocks
  BY <1>1 DEF Ordered
<1>5. /\ Sent \in Nat
      /\ fwd = << >> => Sent = Got
      /\ fwd # << >> => Sent >= 1
  <2>1. Unbroken(fwd, Got)
    BY DEF Sparing, Flowing
  <2> QED
    BY <1>1, <2>1, UnbrokenRanks DEF Sent
<1>6. Pos \in 1 .. Blocks + 1
  BY <1>1 DEF Pos
<1> QED
  BY <1>1, <1>2, <1>3, <1>4, <1>5, <1>6

LEMMA SparingReceiver ==
    ASSUME Typed, Ordered, Ahead, Sparing, r.at # "end", Receiver
    PROVE  IF r'.at = "end" THEN Finished' ELSE Sparing'
<1>0. /\ fwd \in Seq(Item) /\ rev \in Seq(Answer) /\ received \in Seq(1 .. Blocks)
      /\ Len(rev) \in Nat /\ Got \in Nat /\ Blocks \in Nat \ {0}
      /\ s.blk \in 1 .. Blocks /\ Got <= Blocks
      /\ late \in 0 .. MaxLate /\ MaxLate \in Nat /\ RetryLimit \in Nat \ {0}
      /\ MaxLate < RetryLimit
      /\ r.retry \in 0 .. RetryLimit /\ s.retry \in Nat
      /\ Sent \in Nat /\ Pos \in 1 .. Blocks + 1
      /\ fwd = << >> => Sent = Got
      /\ fwd # << >> => Sent >= 1
      /\ r.response \in {"C", "ACK", "NAK", "none"}
  BY SparingRanges
<1>s. s.crc = TRUE /\ Flowing /\ Answering /\ Alive /\ Budget
  BY DEF Sparing
<1>1. CASE AsksNow
  <2>1. /\ r'.at = "wait" /\ r'.response = r.response /\ r'.retry = r.retry
        /\ r.at = "ask" /\ s' = s /\ fwd' = fwd /\ received' = received /\ late' = late
    BY <1>1 DEF AsksNow, Becomes
  <2>2. Flowing' /\ s'.crc = TRUE
    BY <1>s, <2>1 DEF Flowing, Sent, Pos, Got
  <2>3. CASE r.response = "none"
    <3>1. rev' = rev
      BY <1>1, <2>3 DEF AsksNow
    <3> QED
      BY <1>s, <2>1, <2>2, <2>3, <3>1 DEF Sparing, Answering, Alive, Budget, Affords, Credit, Tries
  <2>4. CASE r.response # "none"
    <3>1. /\ Len(rev') = Len(rev) + 1 /\ rev'[Len(rev) + 1] = r.response /\ rev' # << >>
          /\ \A i \in 1 .. Len(rev) : rev'[i] = rev[i]
      <4>1. rev' = Append(rev, r.response) /\ r.response \in Answer
        BY <1>0, <1>1, <2>4 DEF AsksNow, Answer
      <4>2. /\ rev' \in Seq(Answer) /\ Len(rev') = Len(rev) + 1
            /\ rev'[Len(rev) + 1] = r.response /\ \A i \in 1 .. Len(rev) : rev'[i] = rev[i]
        BY <1>0, <4>1, Longer
      <4>3. rev' # << >>
        BY <1>0, <4>2, EmptySeq
      <4> QED
        BY <4>2, <4>3
    <3>2. \A i \in 1 .. Len(rev') : i \in 1 .. Len(rev) \/ i = Len(rev) + 1
      BY <1>0, <3>1
    <3>3. Answering'
      BY <1>0, <1>s, <2>1, <2>4, <3>1, <3>2 DEF Answering
    <3>4. Alive'
      BY <3>1 DEF Alive
    <3>5. Credit' = Credit /\ Tries' = Tries /\ Asking = 1 /\ Asking' = 0 /\ Credit \in Nat /\ Tries \in Nat
      BY <1>0, <2>1 DEF Credit, Tries, Asking
    <3>6. Affords => Affords'
      <4>1. ASSUME Affords, NEW i \in 1 .. Len(rev'), rev'[i] = "C"
            PROVE  Tries + i <= Credit
        <5>1. CASE i \in 1 .. Len(rev)
          BY <3>1, <4>1, <5>1 DEF Affords
        <5>2. CASE i = Len(rev) + 1
          BY <1>0, <3>1, <3>5, <4>1, <5>2 DEF Affords
        <5> QED
          BY <3>2, <5>1, <5>2
      <4>2. Affords /\ r.response = "C" => Tries + (Len(rev) + 1) + 0 <= Credit
        BY <1>0, <3>5 DEF Affords
      <4> QED
        BY <2>1, <3>1, <3>5, <4>1, <4>2 DEF Affords
    <3>7. Budget'
      BY <1>s, <2>1, <3>6 DEF Budget
    <3> QED
      BY <2>1, <2>2, <3>3, <3>4, <3>7 DEF Sparing
  <2> QED
    BY <2>1, <2>3, <2>4
<1>2. CASE ReturnsNow
  <2>1. fwd # << >> => /\ Head(fwd) \in Item /\ Whole(Head(fwd)) /\ Rank(Head(fwd)) \in {Got, Got + 1}
    BY <1>0, <1>s, UnbrokenShorter DEF Flowing
  <2>2. ~(r.at = "ask" /\ r.retry = 0)
    BY <1>0, <1>s DEF Budget
  <2>3. fwd # << >> => Head(fwd).k # "CAN"
    BY <2>1 DEF Whole, Good, IsPacket
  <2>4. ~(r.at = "wait" /\ fwd # << >> /\ IsPacket(Head(fwd)) /\ ~Expected(Head(fwd)) /\ ~Repeats(Head(fwd)))
    BY <1>0, <2>1, IsNextOrLast DEF Rank, IsPacket
  <2>5. Head(fwd).k = "EOT" /\ r'.res = "ok" /\ r'.at = "end" /\ received' = received /\ fwd # << >>
    BY <1>2, <2>2, <2>3, <2>4 DEF ReturnsNow
  <2>6. Got = Blocks
    BY <1>0, <2>1, <2>5 DEF Rank
  <2> QED
    BY <2>5, <2>6 DEF Finished, Got
<1>3. CASE TimesOut
  <2>1. /\ r.at = "wait" /\ fwd = << >> /\ r'.at = "ask" /\ r'.retry = r.retry - 1
        /\ r'.response = (IF r.response = "C" THEN "C" ELSE "none")
        /\ s' = s /\ fwd' = fwd /\ rev' = rev /\ received' = received
    BY <1>3 DEF TimesOut, Becomes
  <2>2. late' = late + 1
    <3>1. s.at # "end"
      BY <1>0, <1>s, <2>1 DEF Flowing, Pos
    <3>2. ~ReceiverTurn
      BY <1>s, <2>1, <3>1 DEF ReceiverTurn, SenderWaits, Alive
    <3> QED
      BY <1>3, <3>2 DEF TimesOut
  <2>3. Flowing' /\ s'.crc = TRUE
    BY <1>s, <2>1 DEF Flowing, Sent, Pos, Got
  <2>4. Answering' /\ Alive'
    BY <1>0, <1>s, <2>1 DEF Answering, Alive
  <2>5. Credit' = Credit + 1 /\ Tries' = Tries /\ Asking = 0 /\ Asking' = 1 /\ Credit \in Nat /\ Tries \in Nat
    BY <1>0, <2>1, <2>2 DEF Credit, Tries, Asking
  <2>6. Affords => Affords'
    <3>1. ASSUME Affords, NEW i \in 1 .. Len(rev), rev[i] = "C"
          PROVE  Tries + i <= Credit + 1
      BY <1>0, <2>5, <3>1 DEF Affords
    <3>2. Affords /\ r.response = "C" => Tries + Len(rev) + 1 <= Credit + 1
      BY <1>0, <2>5 DEF Affords
    <3>3. Affords => s.retry <= late + 1
      BY <1>0 DEF Affords
    <3> QED
      BY <2>1, <2>2, <2>5, <3>1, <3>2, <3>3 DEF Affords
  <2>7. Budget'
    <3>1. (r.retry - 1) + (late + 1) >= RetryLimit
      BY <1>0, <1>s DEF Budget
    <3> QED
      BY <1>s, <2>1, <2>2, <2>6, <3>1 DEF Budget
  <2> QED
    BY <2>1, <2>3, <2>4, <2>7 DEF Sparing
<1>4. CASE TakesNow
  <2>1. /\ r.at = "wait" /\ fwd # << >> /\ IsPacket(Head(fwd)) /\ fwd' = Tail(fwd)
        /\ s' = s /\ rev' = rev /\ late' = late
    BY <1>4 DEF TakesNow
  <2>2. /\ Head(fwd) \in Item /\ Whole(Head(fwd)) /\ Rank(Head(fwd)) \in {Got, Got + 1}
        /\ Unbroken(fwd', Rank(Head(fwd))) /\ Upto(fwd', Rank(Head(fwd)), Len(fwd')) = Sent
    BY <1>0, <1>s, <2>1, UnbrokenShorter DEF Flowing, Sent
  <2>3. Rank(Head(fwd)) = Head(fwd).blk /\ Head(fwd).ok
    BY <2>1, <2>2 DEF Rank, IsPacket, Whole, Good
  <2>4. /\ Expected(Head(fwd)) => Head(fwd).blk = Got + 1
        /\ Repeats(Head(fwd)) => Head(fwd).blk = Got
        /\ Head(fwd).blk \in 1 .. Blocks
    BY <2>1, TakenPacket
  <2>5. /\ r'.at = "ask" /\ r'.response = "ACK" /\ r'.retry \in {r.retry, RetryLimit}
        /\ Got' = Rank(Head(fwd))
    <3>1. CASE /\ Expected(Head(fwd)) /\ received' = Append(received, Head(fwd).blk)
               /\ Becomes("ask", "ACK", RetryLimit, r.res)
      <4>1. Got' = Got + 1
        BY <1>0, <2>4, <3>1, Longer DEF Got
      <4> QED
        BY <2>3, <2>4, <3>1, <4>1 DEF Becomes
    <3>2. CASE /\ Repeats(Head(fwd)) /\ received' = received
               /\ Becomes("ask", "ACK", r.retry, r.res)
      BY <2>3, <2>4, <3>2 DEF Becomes, Got
    <3> QED
      BY <1>4, <2>3, <3>1, <3>2 DEF TakesNow
  <2>6. Flowing' /\ s'.crc = TRUE
    BY <1>s, <2>1, <2>2, <2>5 DEF Flowing, Sent, Pos
  <2>7. Answering' /\ Alive'
    BY <1>0, <1>s, <2>1, <2>5 DEF Answering, Alive, Flowing
  <2>8. Budget'
    <3>1. r'.retry + late >= RetryLimit
      BY <1>0, <1>s, <2>5 DEF Budget
    <3> QED
      BY <1>s, <2>1, <2>5, <3>1 DEF Budget, Affords, Credit, Tries
  <2> QED
    BY <2>5, <2>6, <2>7, <2>8 DEF Sparing
<1>5. CASE FlushesNow
  BY <1>5, <1>s DEF FlushesNow, Answering
<1> QED
  BY <1>1, <1>2, <1>3, <1>4, <1>5, ReceiverExactly

\* What the sender drops from the answers leaves the later ones, one place earlier.
LEMMA Dropped ==
    ASSUME rev \in Seq(Answer), Drops
    PROVE  /\ fwd' = fwd
           /\ rev = << >> => rev' = rev /\ Len(rev) = 0 /\ Len(rev') = 0
           /\ rev # << >> => /\ Len(rev) \in Nat \ {0} /\ Len(rev') = Len(rev) - 1
                             /\ \A i \in 1 .. Len(rev') : rev'[i] = rev[i + 1] /\ i + 1 \in 1 .. Len(rev)
                             /\ Head(rev) = rev[1] /\ 1 \in 1 .. Len(rev)
<1>1. CASE rev = << >>
  BY <1>1, EmptySeq DEF Drops
<1>2. CASE rev # << >>
  <2>1. /\ Len(rev') = Len(rev) - 1 /\ Len(rev) \in Nat \ {0}
        /\ \A i \in 1 .. Len(rev') : rev'[i] = rev[i + 1]
        /\ Head(rev) = rev[1]
    BY <1>2, Shorter DEF Drops
  <2>2. \A i \in 1 .. Len(rev') : i + 1 \in 1 .. Len(rev)
    BY <2>1
  <2>3. 1 \in 1 .. Len(rev)
    BY <2>1
  <2> QED
    BY <1>2, <2>1, <2>2, <2>3 DEF Drops
<1> QED
  BY <1>1, <1>2

LEMMA SparingSender ==
    ASSUME Typed, Ordered, Sparing, r.at # "end", s.who = "host", SenderStep
    PROVE  Sparing' /\ r' = r /\ received' = received
<1>0. /\ fwd \in Seq(Item) /\ rev \in Seq(Answer)
      /\ Len(rev) \in Nat /\ Got \in Nat /\ Blocks \in Nat \ {0}
      /\ s.blk \in 1 .. Blocks /\ Got <= Blocks
      /\ late \in 0 .. MaxLate /\ MaxLate \in Nat
      /\ MaxLate < RetryLimit /\ RetryLimit \in Nat /\ MaxLate < SyncLimit /\ SyncLimit \in Nat
      /\ r.retry \in 0 .. RetryLimit /\ s.retry \in Nat
      /\ Sent \in Nat /\ Pos \in 1 .. Blocks + 1
      /\ fwd = << >> => Sent = Got
      /\ fwd # << >> => Sent >= 1
  BY SparingRanges
<1>s. s.crc = TRUE /\ Flowing /\ Answering /\ Alive /\ Budget
  BY DEF Sparing
<1>l. late' \in 0 .. MaxLate
  BY StepsKeepTypes DEF Next, Typed, TypeOK
<1>1. ASSUME NEW e \in Item, Whole(e), Rank(e) = Pos, Pos' = Pos, s.at \in {"send", "eot"},
             s'.at \in {"wait", "eotwait"}, s.at = "send" <=> s'.at = "wait", s'.retry = s.retry,
             s'.crc = s.crc, fwd' = Append(fwd, e), UNCHANGED <<rev, r, received, late>>
      PROVE  Sparing' /\ r' = r /\ received' = received
  <2>1. Rank(e) \in {Sent, Sent + 1}
    BY <1>0, <1>s, <1>1 DEF Flowing
  <2>2. Unbroken(fwd', Got) /\ Upto(fwd', Got, Len(fwd')) = Rank(e) /\ fwd' # << >>
    <3>0. \A q \in Seq(Item) : q = << >> <=> Len(q) = 0
      BY EmptySeq
    <3>1. fwd' \in Seq(Item) /\ Len(fwd') = Len(fwd) + 1 /\ Len(fwd) \in Nat
      BY <1>0, <1>1, Longer
    <3>2. fwd' # << >>
      BY <3>0, <3>1
    <3>3. /\ fwd \in Seq(Item) /\ Got \in Nat /\ Unbroken(fwd, Got)
          /\ Rank(e) \in {Upto(fwd, Got, Len(fwd)), Upto(fwd, Got, Len(fwd)) + 1}
      BY <1>0, <1>s, <2>1 DEF Flowing, Sent
    <3>4. Whole(e) /\ fwd' = Append(fwd, e)
      BY <1>1
    <3> QED
      BY <3>2, <3>3, <3>4, UnbrokenLonger
  <2>3. Flowing'
    BY <1>1, <2>2 DEF Flowing, Sent, Got
  <2>4. Answering' /\ Alive'
    BY <1>s, <1>1, <2>2 DEF Answering, Alive
  <2>5. Budget'
    BY <1>s, <1>1 DEF Budget, Affords, Credit, Tries, Asking
  <2> QED
    BY <1>s, <1>1, <2>3, <2>4, <2>5 DEF Sparing
<1>2. CASE SendsNow
  <2>1. PICK e \in Item : IsPacket(e) /\ e.blk = s.blk /\ e.ok = CrcIsRight /\ fwd' = Append(fwd, e)
    BY <1>2 DEF SendsNow
  <2>2. Whole(e) /\ Rank(e) = Pos
    BY <1>s, <1>2, <2>1 DEF SendsNow, CrcIsRight, Whole, Good, IsPacket, Rank, Pos
  <2>3. Pos' = Pos
    BY <1>2 DEF SendsNow, Goes, Pos
  <2> QED
    BY <1>1, <1>2, <2>1, <2>2, <2>3 DEF SendsNow, Goes
<1>3. CASE SendsEotNow
  <2>1. PICK e \in Item : e.k = "EOT" /\ fwd' = Append(fwd, e)
    BY <1>3 DEF SendsEotNow
  <2>2. Whole(e) /\ Rank(e) = Pos
    BY <1>3, <2>1 DEF SendsEotNow, Whole, Rank, Pos
  <2>3. Pos' = Pos
    BY <1>3 DEF SendsEotNow, Goes, Pos
  <2> QED
    BY <1>1, <1>3, <2>1, <2>2, <2>3 DEF SendsEotNow, Goes
\* While a packet or an answer is due, a time-out is a late one.
<1>4. ASSUME rev = << >>, s.at \in {"sync", "wait"}
      PROVE  ~SenderTurn
  BY <1>s, <1>4 DEF SenderTurn, ReceiverWaits, Alive
<1>5. ASSUME NEW c, SyncsNow(c)
      PROVE  Sparing' /\ r' = r /\ received' = received
  <2>0. s.at = "sync" /\ r' = r /\ received' = received /\ fwd = << >> /\ Sent = 0 /\ r.response = "C"
    BY <1>0, <1>s, <1>5 DEF SyncsNow, HearsNow, Flowing, Answering
  <2>1. CASE rev = << >>
    <3>1. c = "none" /\ late' = late + 1
      BY <1>4, <1>5, <2>0, <2>1 DEF SyncsNow, HearsNow
    <3>2. s.retry <= late
      BY <1>s, <2>0 DEF Budget, Affords
    <3>3. s.retry + 1 < SyncLimit
      BY <1>0, <1>l, <3>1, <3>2
    <3>4. Goes("sync", s.blk, s.retry + 1, s.crc) /\ Drops
      BY <1>0, <1>5, <3>1, <3>3 DEF SyncsNow
    <3>5. /\ s'.at = "sync" /\ s'.blk = s.blk /\ s'.retry = s.retry + 1 /\ s'.crc = s.crc
          /\ fwd' = fwd /\ rev' = rev
      BY <2>1, <3>4 DEF Goes, Drops
    <3>6. Flowing' /\ Answering' /\ Alive'
      BY <1>s, <2>0, <3>5 DEF Flowing, Answering, Alive, Sent, Pos, Got
    <3>7. Budget'
      <4>1. Credit' = Credit + 1 /\ Tries = 0 /\ Tries' = 0 /\ Credit \in Nat /\ Asking' = Asking /\ Asking \in Nat
        BY <1>0, <2>0, <3>1, <3>5 DEF Credit, Tries, Asking
      <4>2. Affords
        BY <1>s, <2>0 DEF Budget
      <4>3. ASSUME NEW i \in 1 .. Len(rev), rev[i] = "C"
            PROVE  0 + i <= Credit + 1
        BY <1>0, <4>1, <4>2, <4>3 DEF Affords
      <4>4. 0 + Len(rev) + Asking <= Credit + 1
        BY <1>0, <2>0, <4>1, <4>2 DEF Affords
      <4>5. Affords'
        BY <1>0, <3>1, <3>2, <3>5, <4>1, <4>3, <4>4 DEF Affords
      <4>6. r.retry + late' >= RetryLimit
        BY <1>0, <1>s, <3>1 DEF Budget
      <4> QED
        BY <2>0, <4>5, <4>6 DEF Budget
    <3> QED
      BY <1>s, <2>0, <3>5, <3>6, <3>7 DEF Sparing
  <2>2. CASE rev # << >>
    <3>1. c = "C" /\ late' = late
      <4>1. Head(rev) = rev[1] /\ 1 \in 1 .. Len(rev)
        BY <1>0, <2>2, Shorter
      <4> QED
        BY <1>s, <1>5, <2>0, <2>2, <4>1 DEF SyncsNow, HearsNow, Answering
    <3>2. Goes("send", s.blk, 0, TRUE) /\ Drops
      BY <1>5, <3>1 DEF SyncsNow
    <3>3. /\ s'.at = "send" /\ s'.blk = s.blk /\ s'.retry = 0 /\ s'.crc = TRUE /\ fwd' = fwd
          /\ Len(rev) \in Nat \ {0} /\ Len(rev') = Len(rev) - 1
          /\ \A i \in 1 .. Len(rev') : rev'[i] = rev[i + 1] /\ i + 1 \in 1 .. Len(rev)
      BY <1>0, <2>2, <3>2, Dropped DEF Goes
    <3>4. Flowing' /\ Alive'
      BY <1>0, <1>s, <2>0, <3>3 DEF Flowing, Alive, Sent, Pos, Got
    <3>5. Answering'
      BY <1>s, <2>0, <3>3 DEF Answering
    <3>6. Budget'
      <4>1. /\ Credit = late + 1 /\ Credit' = late /\ Tries = 0 /\ Tries' = 0
            /\ Asking' = Asking /\ Asking \in Nat
        BY <2>0, <3>1, <3>3 DEF Credit, Tries, Asking
      <4>2. Affords
        BY <1>s, <2>0 DEF Budget
      <4>3. ASSUME NEW i \in 1 .. Len(rev'), rev'[i] = "C"
            PROVE  0 + i <= late
        BY <1>0, <3>3, <4>1, <4>2, <4>3 DEF Affords
      <4>4. 0 + Len(rev') + Asking <= late
        BY <1>0, <2>0, <3>3, <4>1, <4>2 DEF Affords
      <4>5. Affords'
        BY <1>0, <3>1, <3>3, <4>1, <4>3, <4>4, <2>0 DEF Affords
      <4> QED
        BY <1>s, <2>0, <3>1, <4>5 DEF Budget
    <3> QED
      BY <2>0, <3>3, <3>4, <3>5, <3>6 DEF Sparing
  <2> QED
    BY <2>1, <2>2
<1>6. ASSUME NEW c, AwaitsNow(c)
      PROVE  Sparing' /\ r' = r /\ received' = received
  <2>0. s.at = "wait" /\ r' = r /\ received' = received /\ Sent = Pos /\ Pos = s.blk /\ Affords
    BY <1>s, <1>6 DEF AwaitsNow, HearsNow, Flowing, Budget, Pos
  <2>a. Credit = late /\ Tries = s.retry /\ Asking' = Asking /\ Asking \in Nat
    BY <2>0 DEF Credit, Tries, Asking
  <2>1. CASE rev = << >>
    <3>1. c = "none" /\ late' = late + 1
      BY <1>4, <1>6, <2>0, <2>1 DEF AwaitsNow, HearsNow
    <3>2. s.retry <= late
      BY <2>0 DEF Affords
    <3>3. s.retry + 1 < RetryLimit
      BY <1>0, <1>l, <3>1, <3>2
    <3>4. Goes("send", s.blk, s.retry + 1, s.crc) /\ Drops
      BY <1>0, <1>6, <3>1, <3>3 DEF AwaitsNow
    <3>5. /\ s'.at = "send" /\ s'.blk = s.blk /\ s'.retry = s.retry + 1 /\ s'.crc = s.crc
          /\ fwd' = fwd /\ rev' = rev /\ Len(rev) = 0
      BY <2>1, <3>4, EmptySeq DEF Goes, Drops
    <3>6. Flowing' /\ Answering' /\ Alive'
      BY <1>s, <2>0, <3>5 DEF Flowing, Answering, Alive, Sent, Pos, Got
    <3>7. Budget'
      <4>1. Credit' = late + 1 /\ Tries' = s.retry + 1
        BY <3>1, <3>5 DEF Credit, Tries
      <4>2. r.response = "C" => (s.retry + 1) + 0 + Asking <= late + 1
        BY <1>0, <2>0, <2>a, <3>5 DEF Affords
      <4>3. Affords'
        BY <1>0, <2>0, <2>a, <3>1, <3>2, <3>5, <4>1, <4>2 DEF Affords
      <4>4. r.retry + late' >= RetryLimit
        BY <1>0, <1>s, <3>1 DEF Budget
      <4> QED
        BY <2>0, <4>3, <4>4 DEF Budget
    <3> QED
      BY <1>s, <2>0, <3>5, <3>6, <3>7 DEF Sparing
  <2>2. CASE rev # << >>
    <3>1. /\ c \in {"C", "ACK"} /\ late' = late
          /\ c = "C" => s.retry + 1 <= late
      <4>1. Head(rev) = rev[1] /\ 1 \in 1 .. Len(rev)
        BY <1>0, <2>2, Shorter
      <4> QED
        BY <1>s, <1>6, <2>0, <2>a, <2>2, <4>1 DEF AwaitsNow, HearsNow, Answering, Affords
    <3>2. /\ Drops /\ s'.crc = s.crc /\ s'.at \in {"send", "eot"}
          /\ s'.retry \in {0, s.retry + 1} /\ s'.retry <= late
          /\ Pos' = Pos \/ Pos' = Pos + 1
      <4>1. CASE c = "C"
        <5>1. s.retry + 1 < RetryLimit
          BY <1>0, <3>1, <4>1
        <5>2. Goes("send", s.blk, s.retry + 1, s.crc) /\ Drops
          BY <1>0, <1>6, <4>1, <5>1 DEF AwaitsNow
        <5> QED
          BY <1>0, <2>0, <3>1, <4>1, <5>2 DEF Goes, Pos
      <4>2. CASE c = "ACK"
        <5>1. Drops /\ (Goes("send", s.blk + 1, 0, s.crc) \/ (~(s.blk < Blocks) /\ Goes("eot", s.blk, 0, s.crc)))
          BY <1>6, <4>2 DEF AwaitsNow
        <5>2. ~(s.blk < Blocks) => s.blk = Blocks
          BY <1>0
        <5> QED
          BY <1>0, <2>0, <5>1, <5>2 DEF Goes, Pos
      <4> QED
        BY <3>1, <4>1, <4>2
    <3>3. /\ fwd' = fwd
          /\ Len(rev) \in Nat \ {0} /\ Len(rev') = Len(rev) - 1
          /\ \A i \in 1 .. Len(rev') : rev'[i] = rev[i + 1] /\ i + 1 \in 1 .. Len(rev)
      BY <1>0, <2>2, <3>2, Dropped
    <3>4. Flowing' /\ Alive'
      BY <1>0, <1>s, <2>0, <3>2, <3>3 DEF Flowing, Alive, Sent, Got
    <3>5. Answering'
      BY <1>s, <2>0, <3>2, <3>3 DEF Answering
    <3>6. Budget'
      <4>1. Credit' = late /\ Tries' = s'.retry
        BY <3>1, <3>2 DEF Credit, Tries
      <4>3. ASSUME NEW i \in 1 .. Len(rev'), rev'[i] = "C"
            PROVE  s'.retry + i <= late
        <5>1. s.retry + (i + 1) <= late
          BY <2>0, <2>a, <3>3, <4>3 DEF Affords
        <5> QED
          BY <1>0, <3>2, <5>1
      <4>4. r.response = "C" => s'.retry + Len(rev') + Asking <= late
        <5>1. r.response = "C" => s.retry + Len(rev) + Asking <= late
          BY <2>0, <2>a DEF Affords
        <5> QED
          BY <1>0, <2>a, <3>2, <3>3, <5>1
      <4>5. Affords'
        BY <2>0, <2>a, <3>1, <3>2, <4>1, <4>3, <4>4 DEF Affords
      <4> QED
        BY <1>s, <2>0, <3>1, <4>5 DEF Budget
    <3> QED
      BY <1>s, <2>0, <3>2, <3>4, <3>5, <3>6 DEF Sparing
  <2> QED
    BY <2>1, <2>2
<1>7. ASSUME NEW c, AwaitsEotNow(c)
      PROVE  Sparing' /\ r' = r /\ received' = received
  <2>0. s.at = "eotwait" /\ r' = r /\ received' = received /\ Sent = Pos /\ Pos = Blocks + 1
    BY <1>s, <1>7 DEF AwaitsEotNow, HearsNow, Flowing, Pos
  <2>1. r.retry + late' >= RetryLimit
    <3>1. late' = late \/ late' = late + 1
      BY <1>7 DEF AwaitsEotNow, HearsNow
    <3> QED
      BY <1>0, <1>s, <3>1 DEF Budget
  <2>2. CASE Goes("eot", s.blk, s.retry + 1, s.crc) /\ Drops
    <3>1. s'.at = "eot" /\ s'.crc = s.crc /\ fwd' = fwd /\ Pos' = Pos
      BY <2>0, <2>2 DEF Goes, Drops, Pos
    <3>2. Flowing' /\ Alive' /\ Budget'
      BY <1>s, <2>0, <2>1, <3>1 DEF Flowing, Alive, Budget, Sent, Got
    <3>3. Answering'
      BY <1>0, <1>s, <2>0, <2>2, <3>1, Dropped DEF Answering
    <3> QED
      BY <1>s, <2>0, <3>1, <3>2, <3>3 DEF Sparing
  <2>3. CASE Leaves /\ fwd' = fwd
    <3>1. s'.at = "end" /\ s'.crc = s.crc /\ Pos' = Pos /\ rev' = << >> /\ fwd # << >>
      BY <1>0, <2>0, <2>3 DEF Leaves, Pos
    <3>2. Flowing' /\ Alive' /\ Budget'
      BY <1>s, <2>0, <2>1, <2>3, <3>1 DEF Flowing, Alive, Budget, Sent, Got
    <3>3. Answering'
      BY <1>s, <2>0, <3>1, EmptySeq DEF Answering
    <3> QED
      BY <1>s, <2>0, <3>1, <3>2, <3>3 DEF Sparing
  <2> QED
    BY <1>7, <2>2, <2>3 DEF AwaitsEotNow
<1> QED
  BY <1>2, <1>3, <1>5, <1>6, <1>7, SenderExactly

LEMMA SparedIsInductive ==
    ASSUME Typed, Ordered, Ahead, Spared, [Next]_vars
    PROVE  Spared'
<1> SUFFICES ASSUME faults' = 0, Usual' PROVE IF r'.at = "end" THEN Finished' ELSE Sparing'
  BY DEF Spared
<1>0. faults \in Nat /\ Usual /\ s'.who = s.who /\ s.who = "host" /\ ~forged
  BY StateRanges, WhoAndForged DEF Usual
<1>1. CASE UNCHANGED vars
  <2>1. faults = 0
    BY <1>1 DEF vars
  <2> QED
    BY <1>0, <1>1, <2>1 DEF vars, Spared, Finished, Sparing, Flowing, Answering, Alive, Budget,
       Affords, Sent, Pos, Got, Credit, Tries, Asking
<1>2. CASE Receiver
  <2>1. faults = 0 /\ r.at # "end"
    BY <1>2, ReceiverExactly DEF AsksNow, ReturnsNow, TimesOut, TakesNow, FlushesNow
  <2> QED
    BY <1>0, <1>2, <2>1, SparingReceiver DEF Spared
<1>3. CASE SenderStep
  <2>1. faults = 0 /\ r' = r /\ received' = received
    BY <1>3, SenderExactly DEF SendsNow, SendsEotNow, SyncsNow, AwaitsNow, AwaitsEotNow, HearsNow
  <2>2. CASE r.at = "end"
    BY <1>0, <2>1, <2>2 DEF Spared, Finished, Got
  <2>3. CASE r.at # "end"
    BY <1>0, <1>3, <2>1, <2>3, SparingSender DEF Spared
  <2> QED
    BY <2>2, <2>3
<1>4. CASE Line
  BY <1>0, <1>4, LineExactly DEF StrikesNow, Usual
<1> QED
  BY <1>1, <1>2, <1>3, <1>4 DEF Next

-----------------------------------------------------------------------------
(***************************************************************************)
(* A line with one fault at most, and both ends in time.  They go in step: *)
(* one packet or answer is under way, or none after the fault, which costs *)
(* either end one attempt at most.                                         *)
(***************************************************************************)
Silent == fwd = << >> /\ rev = << >> /\ Held = 0 /\ Sending = 0
Broken == fwd # << >> /\ ~Whole(Head(fwd))
First(a) == rev # << >> /\ Head(rev) = a

\* What the fault may yet cost.
ReceiverOwes ==
    IF Broken \/ (Silent /\ r.response # "none") \/ (s.at = "sync" /\ First("noise"))
    THEN 1 ELSE 0

SenderOwes ==
    IF \/ s.at = "sync" /\ First("noise")
       \/ /\ s.at \in {"wait", "eotwait"}
          /\ Silent \/ Broken \/ (rev # << >> /\ ~First("ACK")) \/ (Held = 1 /\ r.response # "ACK")
    THEN 1 ELSE 0

Due(e) ==
    \/ e.k = "EOT" /\ s.at = "eotwait"
    \/ IsPacket(e) /\ s.at = "wait" /\ e.blk = s.blk

Afresh ==
    s.at = "sync" => /\ r.response = "C" /\ r.at # "flush"
                     /\ rev # << >> => Head(rev) \in {"C", "noise"}

InStep ==
    /\ s.at # "end" /\ s.crc = TRUE
    /\ Got \in {Pos - 1, Pos}
    /\ fwd # << >> => Due(Head(fwd))
    /\ ~First("CAN")
    /\ First("ACK") \/ (r.at = "ask" /\ r.response = "ACK") => Got = Pos
    /\ Afresh
    /\ RetryLimit - r.retry + ReceiverOwes <= faults
    /\ s.retry + SenderOwes <= faults
    /\ faults = 0 => ~Silent

Steady == late = 0 /\ faults <= 1 /\ Usual => IF r.at = "end" THEN Finished ELSE InStep

\* The only element of a queue.
LEMMA Lone ==
    ASSUME NEW S, NEW q \in Seq(S), Len(q) = 1, NEW e \in S
    PROVE  /\ Tail(q) = << >> /\ SubSeq(q, 1, Len(q) - 1) = << >>
           /\ Head([q EXCEPT ![Len(q)] = e]) = e /\ [q EXCEPT ![Len(q)] = e] # << >>
           /\ q[Len(q)] = Head(q) /\ q # << >>
<1>0. q # << >>
  BY EmptySeq
<1>1. Tail(q) \in Seq(S) /\ Len(Tail(q)) = 0 /\ Head(q) = q[1]
  BY <1>0, Shorter
<1>2. SubSeq(q, 1, Len(q) - 1) \in Seq(S) /\ Len(SubSeq(q, 1, Len(q) - 1)) = 0
  BY <1>0, LastLost
<1>3. PICK p : p = [q EXCEPT ![Len(q)] = e]
  OBVIOUS
<1>4. p \in Seq(S) /\ Len(p) = 1 /\ p[1] = e
  BY <1>0, <1>3, LastChanged
<1>5. p # << >> /\ Head(p) = e
  <2>0. p = << >> <=> Len(p) = 0
    BY <1>4, EmptySeq
  <2>1. p # << >>
    <3>1. Len(p) # 0
      BY <1>4
    <3> QED
      BY <2>0, <3>1
  <2>2. Head(p) = p[1]
    BY <1>4, <2>1, Shorter
  <2> QED
    BY <1>4, <2>1, <2>2
<1> QED
  BY <1>0, <1>1, <1>2, <1>3, <1>5, EmptySeq

LEMMA FirstOne ==
    ASSUME NEW S, NEW e \in S
    PROVE  Append(<< >>, e) # << >> /\ Head(Append(<< >>, e)) = e
<1>1. PICK p : p = Append(<< >>, e)
  OBVIOUS
<1>2. << >> \in Seq(S) /\ Len(<< >>) = 0
  BY EmptySeq
<1>3. p \in Seq(S) /\ Len(p) = 1 /\ p[1] = e
  BY <1>1, <1>2, Longer
<1>4. p # << >>
  BY <1>3, EmptySeq
<1> QED
  BY <1>1, <1>3, <1>4, HeadTailProperties

LEMMA OneAtATime ==
    ASSUME Typed, UnderWay, late = 0, r.at # "end", s.at # "end"
    PROVE  /\ fwd # << >> => Len(fwd) = 1 /\ rev = << >> /\ Held = 0 /\ Sending = 0
           /\ rev # << >> => Len(rev) = 1 /\ fwd = << >> /\ Held = 0 /\ Sending = 0
           /\ Held = 1 => fwd = << >> /\ rev = << >> /\ Sending = 0
           /\ Sending = 1 => fwd = << >> /\ rev = << >> /\ Held = 0
           /\ Held \in 0 .. 1 /\ Sending \in 0 .. 1
<1>0. fwd \in Seq(Item) /\ rev \in Seq(Answer) /\ Len(fwd) \in Nat /\ Len(rev) \in Nat
  BY StateRanges
<1>1. Held \in 0 .. 1 /\ Sending \in 0 .. 1
  BY DEF Held, Sending
<1>2. Len(fwd) + Len(rev) + Held + Sending <= 1
  BY DEF UnderWay
<1>3. /\ fwd # << >> <=> Len(fwd) # 0
      /\ rev # << >> <=> Len(rev) # 0
  BY <1>0, EmptySeq
<1>4. PICK a \in Nat, b \in Nat : a = Len(fwd) /\ b = Len(rev)
  BY <1>0
<1>5. PICK h \in 0 .. 1, k \in 0 .. 1 : h = Held /\ k = Sending
  BY <1>1
<1>6. a + b + h + k <= 1
  BY <1>2, <1>4, <1>5
<1>7. /\ a # 0 => a = 1 /\ b = 0 /\ h = 0 /\ k = 0
      /\ b # 0 => b = 1 /\ a = 0 /\ h = 0 /\ k = 0
      /\ h = 1 => a = 0 /\ b = 0 /\ k = 0
      /\ k = 1 => a = 0 /\ b = 0 /\ h = 0
  BY <1>6
<1> QED
  BY <1>1, <1>3, <1>4, <1>5, <1>7

LEMMA InStepRanges ==
    ASSUME Typed, Ordered
    PROVE  /\ fwd \in Seq(Item) /\ rev \in Seq(Answer) /\ received \in Seq(1 .. Blocks)
           /\ Got \in Nat /\ Blocks \in Nat \ {0} /\ s.blk \in 1 .. Blocks /\ Got <= Blocks
           /\ RetryLimit \in Nat \ {0, 1} /\ SyncLimit \in Nat \ {0, 1} /\ EotLimit \in Nat \ {0, 1}
           /\ r.retry \in 0 .. RetryLimit /\ s.retry \in Nat /\ Pos \in 1 .. Blocks + 1
           /\ s.at \in {"sync", "send", "wait", "eot", "eotwait", "end"}
           /\ r.at \in {"ask", "wait", "flush", "end"}
           /\ r.response \in {"C", "ACK", "NAK", "none"}
           /\ ReceiverOwes \in 0 .. 1 /\ SenderOwes \in 0 .. 1 /\ faults \in Nat /\ late \in Nat
<1>1. /\ fwd \in Seq(Item) /\ rev \in Seq(Answer) /\ received \in Seq(1 .. Blocks)
      /\ Got \in Nat /\ Blocks \in Nat \ {0} /\ s.blk \in 1 .. Blocks
      /\ faults \in Nat /\ late \in Nat
  BY StateRanges, Sizes
<1>2. /\ r.retry \in 0 .. RetryLimit /\ s.retry \in Nat
      /\ s.at \in {"sync", "send", "wait", "eot", "eotwait", "end"}
      /\ r.at \in {"ask", "wait", "flush", "end"}
      /\ r.response \in {"C", "ACK", "NAK", "none"}
  BY DEF Typed, TypeOK
<1>3. RetryLimit \in Nat \ {0, 1} /\ SyncLimit \in Nat \ {0, 1} /\ EotLimit \in Nat \ {0, 1}
  BY XmodemAssumption, LimitsAssumption
<1>4. Got <= Blocks
  BY <1>1 DEF Ordered
<1>5. Pos \in 1 .. Blocks + 1
  BY <1>1 DEF Pos
<1>6. ReceiverOwes \in 0 .. 1 /\ SenderOwes \in 0 .. 1
  BY DEF ReceiverOwes, SenderOwes
<1> QED
  BY <1>1, <1>2, <1>3, <1>4, <1>5, <1>6

LEMMA InStepReceiver ==
    ASSUME Typed, UnderWay, Ordered, Ahead, InStep, r.at # "end", Receiver,
           late = 0, late' = 0, faults <= 1
    PROVE  IF r'.at = "end" THEN Finished' ELSE InStep'
<1>0. /\ fwd \in Seq(Item) /\ rev \in Seq(Answer) /\ received \in Seq(1 .. Blocks)
      /\ Got \in Nat /\ Blocks \in Nat \ {0} /\ s.blk \in 1 .. Blocks /\ Got <= Blocks
      /\ RetryLimit \in Nat \ {0, 1} /\ r.retry \in 0 .. RetryLimit /\ s.retry \in Nat
      /\ Pos \in 1 .. Blocks + 1 /\ faults \in Nat
      /\ s.at \in {"sync", "send", "wait", "eot", "eotwait", "end"}
      /\ r.response \in {"C", "ACK", "NAK", "none"}
      /\ ReceiverOwes \in 0 .. 1 /\ SenderOwes \in 0 .. 1
  BY InStepRanges
<1>s. /\ s.at # "end" /\ s.crc = TRUE
      /\ Got \in {Pos - 1, Pos}
      /\ fwd # << >> => Due(Head(fwd))
      /\ ~First("CAN")
      /\ First("ACK") \/ (r.at = "ask" /\ r.response = "ACK") => Got = Pos
      /\ Afresh
      /\ RetryLimit - r.retry + ReceiverOwes <= faults
      /\ s.retry + SenderOwes <= faults
      /\ faults = 0 => ~Silent
  BY DEF InStep
<1>u. /\ fwd # << >> => Len(fwd) = 1 /\ rev = << >> /\ Held = 0 /\ Sending = 0
      /\ rev # << >> => Len(rev) = 1 /\ fwd = << >> /\ Held = 0 /\ Sending = 0
      /\ Held = 1 => fwd = << >> /\ rev = << >> /\ Sending = 0
  BY <1>s, OneAtATime
<1>1. CASE AsksNow
  <2>1. /\ r.at = "ask" /\ r'.at = "wait" /\ r'.response = r.response /\ r'.retry = r.retry
        /\ fwd' = fwd /\ received' = received /\ s' = s /\ faults' = faults
        /\ Pos' = Pos /\ Got' = Got /\ Sending' = Sending /\ Held' = 0
    BY <1>1 DEF AsksNow, Becomes, Pos, Got, Sending, Held
  <2>2. CASE r.response = "none"
    <3>1. rev' = rev /\ Held = 0
      BY <1>1, <2>1, <2>2 DEF AsksNow, Held
    <3>2. ReceiverOwes' = ReceiverOwes /\ SenderOwes' = SenderOwes /\ Silent' = Silent
      BY <2>1, <3>1 DEF ReceiverOwes, SenderOwes, Silent, Broken, First
    <3> QED
      BY <1>s, <2>1, <2>2, <3>1, <3>2 DEF InStep, Due, First, Afresh
  <2>3. CASE r.response # "none"
    <3>1. Held = 1 /\ fwd = << >> /\ rev = << >>
      BY <1>u, <2>1, <2>3 DEF Held
    <3>2. rev' # << >> /\ Head(rev') = r.response
      BY <1>0, <1>1, <2>3, <3>1, FirstOne DEF AsksNow, Answer
    <3>3. ReceiverOwes' = 0
      BY <1>0, <2>1, <3>1, <3>2 DEF ReceiverOwes, Silent, Broken, First
    <3>4. SenderOwes' = SenderOwes
      BY <1>0, <2>1, <3>1, <3>2 DEF SenderOwes, Silent, Broken, First
    <3>5. RetryLimit - r.retry + 0 <= faults
      BY <1>0, <1>s
    <3>6. Afresh' /\ ~Silent' /\ ~First("CAN")' /\ (First("ACK")' => Got = Pos)
      BY <1>0, <1>s, <2>1, <3>2 DEF Afresh, Silent, First
    <3> QED
      BY <1>s, <2>1, <3>1, <3>3, <3>4, <3>5, <3>6 DEF InStep
  <2> QED
    BY <2>1, <2>2, <2>3
<1>2. CASE ReturnsNow
  <2>1. ~(r.at = "ask" /\ r.retry = 0)
    BY <1>0, <1>s
  <2>2. fwd # << >> => Head(fwd).k # "CAN"
    BY <1>s DEF Due, IsPacket
  <2>3. ~(r.at = "wait" /\ fwd # << >> /\ IsPacket(Head(fwd)) /\ ~Expected(Head(fwd)) /\ ~Repeats(Head(fwd)))
    <3>1. ASSUME fwd # << >>, IsPacket(Head(fwd))
          PROVE  Expected(Head(fwd)) \/ Repeats(Head(fwd))
      <4>1. Head(fwd).blk = Pos
        BY <1>s, <3>1 DEF Due, Pos, IsPacket
      <4>2. Head(fwd).blk \in {Got, Got + 1}
        BY <1>0, <1>s, <4>1
      <4> QED
        BY <3>1, <4>2, IsNextOrLast
    <3> QED
      BY <3>1
  <2>4. Head(fwd).k = "EOT" /\ fwd # << >> /\ r'.res = "ok" /\ r'.at = "end" /\ received' = received
    BY <1>2, <2>1, <2>2, <2>3 DEF ReturnsNow
  <2>5. s.at = "eotwait"
    BY <1>s, <2>4 DEF Due, IsPacket
  <2>6. Got = Blocks
    BY <1>0, <1>s, <2>5 DEF Pos
  <2> QED
    BY <2>4, <2>6 DEF Finished, Got
<1>3. CASE TimesOut
  <2>1. /\ r.at = "wait" /\ fwd = << >> /\ r'.at = "ask" /\ r'.retry = r.retry - 1
        /\ r'.response = (IF r.response = "C" THEN "C" ELSE "none")
        /\ s' = s /\ fwd' = fwd /\ rev' = rev /\ received' = received /\ faults' = faults
        /\ Pos' = Pos /\ Got' = Got /\ Sending' = Sending /\ Held = 0
    BY <1>3 DEF TimesOut, Becomes, Pos, Got, Sending, Held
  <2>2. ReceiverTurn
    BY <1>3 DEF TimesOut
  <2>3. rev = << >> /\ s.at \in {"sync", "wait", "eotwait"} /\ r.response # "none" /\ Sending = 0
    BY <1>s, <2>2 DEF ReceiverTurn, SenderWaits, Sending
  <2>4. Silent
    BY <2>1, <2>3 DEF Silent
  <2>5. ReceiverOwes = 1
    BY <2>3, <2>4 DEF ReceiverOwes
  <2>6. Held' = IF r.response = "C" THEN 1 ELSE 0
    BY <2>1 DEF Held
  <2>7. ReceiverOwes' = 0
    BY <2>1, <2>3, <2>6 DEF ReceiverOwes, Broken, Silent, First
  <2>8. SenderOwes' = SenderOwes
    BY <2>1, <2>3, <2>4, <2>6 DEF SenderOwes, Broken, Silent, First
  <2>9. RetryLimit - (r.retry - 1) + 0 <= faults /\ faults # 0
    BY <1>0, <1>s, <2>4, <2>5
  <2>10. Afresh' /\ ~First("CAN")' /\ ~First("ACK")'
    BY <1>s, <2>1, <2>3 DEF Afresh, First
  <2> QED
    BY <1>s, <2>1, <2>7, <2>8, <2>9, <2>10 DEF InStep
<1>4. CASE TakesNow
  <2>1. /\ r.at = "wait" /\ fwd # << >> /\ IsPacket(Head(fwd)) /\ fwd' = Tail(fwd)
        /\ s' = s /\ rev' = rev /\ faults' = faults /\ Pos' = Pos /\ Sending' = Sending
    BY <1>4 DEF TakesNow, Pos, Sending
  <2>2. rev = << >> /\ fwd' = << >> /\ Head(fwd) \in Item
    BY <1>0, <1>u, <2>1, Lone, Shorter
  <2>3. s.at = "wait" /\ Head(fwd).blk = Pos
    BY <1>s, <2>1 DEF Due, IsPacket, Pos
  <2>4. /\ Expected(Head(fwd)) => Head(fwd).blk = Got + 1
        /\ Repeats(Head(fwd)) => Head(fwd).blk = Got
        /\ Head(fwd).blk \in 1 .. Blocks
    BY <2>1, TakenPacket
  <2>5. ~First("CAN")' /\ ~First("ACK")' /\ Afresh' /\ s'.at # "end" /\ s'.crc = TRUE
    BY <1>s, <2>1, <2>2, <2>3 DEF First, Afresh
  <2>6. CASE ~Head(fwd).ok /\ received' = received /\ Becomes("flush", "NAK", r.retry - 1, r.res)
    <3>1. Broken
      BY <2>1, <2>6 DEF Broken, Whole, Good, IsPacket
    <3>2. ReceiverOwes = 1 /\ SenderOwes = 1
      BY <2>3, <3>1 DEF ReceiverOwes, SenderOwes
    <3>3. /\ r'.at = "flush" /\ r'.response = "NAK" /\ r'.retry = r.retry - 1
          /\ Held' = 1 /\ Got' = Got
      BY <2>6 DEF Becomes, Held, Got
    <3>4. ReceiverOwes' = 0 /\ SenderOwes' \in 0 .. 1 /\ ~Silent'
      BY <2>1, <2>2, <2>3, <3>3 DEF ReceiverOwes, SenderOwes, Broken, Silent, First
    <3>5. RetryLimit - (r.retry - 1) + 0 <= faults /\ s.retry + SenderOwes' <= faults
      BY <1>0, <1>s, <3>2, <3>4
    <3> QED
      BY <1>s, <2>1, <2>2, <2>5, <3>3, <3>4, <3>5 DEF InStep
  <2>7. ASSUME NEW n \in {r.retry, RetryLimit}, r'.at = "ask", r'.response = "ACK", r'.retry = n,
               Got' = Pos
        PROVE  InStep'
    <3>1. Held' = 1
      BY <2>7 DEF Held
    <3>2. ReceiverOwes' = 0 /\ SenderOwes' = 0 /\ ~Silent'
      BY <2>1, <2>2, <2>3, <2>7, <3>1 DEF ReceiverOwes, SenderOwes, Broken, Silent, First
    <3>3. RetryLimit - n + 0 <= faults /\ s.retry + 0 <= faults
      <4>1. RetryLimit - r.retry <= faults /\ s.retry <= faults
        <5>1. /\ RetryLimit \in Nat /\ r.retry \in Nat /\ s.retry \in Nat /\ faults \in Nat
              /\ ReceiverOwes \in 0 .. 1 /\ SenderOwes \in 0 .. 1
          BY <1>0
        <5>2. RetryLimit - r.retry + ReceiverOwes <= faults /\ s.retry + SenderOwes <= faults
          BY <1>s
        <5> QED
          BY <5>1, <5>2
      <4>2. CASE n = r.retry
        BY <1>0, <4>1, <4>2
      <4>3. CASE n = RetryLimit
        BY <1>0, <4>1, <4>3
      <4> QED
        BY <4>2, <4>3
    <3> QED
      BY <1>0, <2>1, <2>2, <2>5, <2>7, <3>2, <3>3 DEF InStep
  <2>8. CASE /\ Expected(Head(fwd)) /\ received' = Append(received, Head(fwd).blk)
             /\ Becomes("ask", "ACK", RetryLimit, r.res)
    <3>1. Got' = Got + 1
      BY <1>0, <2>4, <2>8, Longer DEF Got
    <3> QED
      BY <2>3, <2>4, <2>7, <2>8, <3>1 DEF Becomes
  <2>9. CASE /\ Repeats(Head(fwd)) /\ received' = received
             /\ Becomes("ask", "ACK", r.retry, r.res)
    BY <2>3, <2>4, <2>7, <2>9 DEF Becomes, Got
  <2>10. r'.at # "end"
    BY <1>4 DEF TakesNow, Becomes
  <2> QED
    BY <1>4, <2>6, <2>8, <2>9, <2>10 DEF TakesNow
<1>5. CASE FlushesNow
  <2>1. r.at = "flush" /\ Held = 1 /\ fwd = << >> /\ rev = << >> /\ r.response = "NAK"
    BY <1>5, <1>u DEF FlushesNow, Held, Typed
  <2>2. /\ r'.at = "ask" /\ r'.response = "NAK" /\ r'.retry = r.retry
        /\ s' = s /\ fwd' = fwd /\ rev' = rev /\ faults' = faults
        /\ Pos' = Pos /\ Got' = Got /\ Sending' = Sending /\ Held' = 1
    BY <1>5, <2>1 DEF FlushesNow, Becomes, Pos, Got, Sending, Held
  <2>3. ReceiverOwes' = ReceiverOwes /\ SenderOwes' = SenderOwes /\ Silent' = Silent
    BY <2>1, <2>2 DEF ReceiverOwes, SenderOwes, Silent, Broken, First
  <2>4. Afresh' /\ ~First("CAN")' /\ ~First("ACK")'
    BY <1>s, <2>1, <2>2 DEF Afresh, First
  <2> QED
    BY <1>s, <2>1, <2>2, <2>3, <2>4 DEF InStep
<1> QED
  BY <1>1, <1>2, <1>3, <1>4, <1>5, ReceiverExactly

\* What makes the sender send, or send again.
Resumes ==
    /\ s'.at \in {"send", "eot"} /\ s'.crc = TRUE /\ s'.retry \in Nat /\ s'.retry <= faults
    /\ Got \in {Pos' - 1, Pos'}
    /\ fwd = << >> /\ (rev # << >> => Len(rev) = 1) /\ (r.at # "ask" \/ r.response # "ACK")
    /\ Drops /\ UNCHANGED <<r, received, faults>>

LEMMA InStepSender ==
    ASSUME Typed, UnderWay, Ordered, InStep, r.at # "end", s.who = "host", SenderStep,
           late = 0, late' = 0, faults <= 1
    PROVE  InStep' /\ r' = r /\ received' = received
<1>0. /\ fwd \in Seq(Item) /\ rev \in Seq(Answer)
      /\ Got \in Nat /\ Blocks \in Nat \ {0} /\ s.blk \in 1 .. Blocks /\ Got <= Blocks
      /\ RetryLimit \in Nat \ {0, 1} /\ SyncLimit \in Nat \ {0, 1} /\ EotLimit \in Nat \ {0, 1}
      /\ r.retry \in 0 .. RetryLimit /\ s.retry \in Nat
      /\ Pos \in 1 .. Blocks + 1 /\ faults \in Nat
      /\ ReceiverOwes \in 0 .. 1 /\ SenderOwes \in 0 .. 1
  BY InStepRanges
<1>s. /\ s.at # "end" /\ s.crc = TRUE
      /\ Got \in {Pos - 1, Pos}
      /\ fwd # << >> => Due(Head(fwd))
      /\ ~First("CAN")
      /\ First("ACK") \/ (r.at = "ask" /\ r.response = "ACK") => Got = Pos
      /\ Afresh
      /\ RetryLimit - r.retry + ReceiverOwes <= faults
      /\ s.retry + SenderOwes <= faults
      /\ faults = 0 => ~Silent
  BY DEF InStep
<1>u. /\ fwd # << >> => Len(fwd) = 1 /\ rev = << >> /\ Held = 0 /\ Sending = 0
      /\ rev # << >> => Len(rev) = 1 /\ fwd = << >> /\ Held = 0 /\ Sending = 0
      /\ Sending = 1 => fwd = << >> /\ rev = << >> /\ Held = 0
  BY <1>s, OneAtATime
<1>o. s.retry <= faults /\ RetryLimit - r.retry + 0 <= faults
  BY <1>0, <1>s
\* A packet or an EOT goes out.
<1>1. ASSUME NEW e \in Item, Whole(e), Due(e)', fwd' = Append(fwd, e), Pos' = Pos,
             s.at \in {"send", "eot"}, s'.at \in {"wait", "eotwait"}, s'.retry = s.retry,
             s'.crc = s.crc, UNCHANGED <<rev, r, received, faults>>
      PROVE  InStep' /\ r' = r /\ received' = received
  <2>1. fwd = << >> /\ rev = << >> /\ Held = 0
    BY <1>1, <1>u DEF Sending
  <2>2. fwd' # << >> /\ Head(fwd') = e
    BY <1>1, <2>1, FirstOne
  <2>3. Held' = 0 /\ Got' = Got
    BY <1>1, <2>1 DEF Held, Got
  <2>4. ReceiverOwes' = 0 /\ SenderOwes' = 0 /\ ~Silent'
    BY <1>1, <2>1, <2>2, <2>3 DEF ReceiverOwes, SenderOwes, Broken, Silent, First
  <2>5. Afresh' /\ ~First("CAN")' /\ ~First("ACK")' /\ ~(r.at = "ask" /\ r.response = "ACK")
    BY <1>1, <2>1 DEF Afresh, First, Held
  <2> QED
    BY <1>0, <1>s, <1>o, <1>1, <2>2, <2>3, <2>4, <2>5 DEF InStep
<1>2. CASE SendsNow
  <2>1. PICK e \in Item : IsPacket(e) /\ e.blk = s.blk /\ e.ok = CrcIsRight /\ fwd' = Append(fwd, e)
    BY <1>2 DEF SendsNow
  <2>2. Whole(e) /\ Due(e)' /\ Pos' = Pos
    BY <1>s, <1>2, <2>1 DEF SendsNow, Goes, CrcIsRight, Whole, Good, IsPacket, Due, Pos
  <2> QED
    BY <1>1, <1>2, <2>1, <2>2 DEF SendsNow, Goes
<1>3. CASE SendsEotNow
  <2>1. PICK e \in Item : e.k = "EOT" /\ fwd' = Append(fwd, e)
    BY <1>3 DEF SendsEotNow
  <2>2. Whole(e) /\ Due(e)' /\ Pos' = Pos
    BY <1>3, <2>1 DEF SendsEotNow, Goes, Whole, Due, Pos
  <2> QED
    BY <1>1, <1>3, <2>1, <2>2 DEF SendsEotNow, Goes
\* An answer, or a time-out with nothing under way, makes the sender send.
<1>4. ASSUME Resumes
      PROVE  InStep' /\ r' = r /\ received' = received
  <2>1. fwd' = << >> /\ rev' = << >>
    BY <1>0, <1>4, Lone DEF Resumes, Drops
  <2>2. Sending' = 1 /\ Got' = Got
    BY <1>4 DEF Resumes, Sending, Got
  <2>3. ReceiverOwes' = 0 /\ SenderOwes' = 0 /\ ~Silent'
    BY <1>4, <2>1, <2>2 DEF Resumes, ReceiverOwes, SenderOwes, Broken, Silent, First
  <2>4. Afresh' /\ ~First("CAN")' /\ ~First("ACK")'
    BY <1>4, <2>1 DEF Resumes, Afresh, First
  <2> QED
    BY <1>0, <1>o, <1>4, <2>1, <2>2, <2>3, <2>4 DEF Resumes, InStep
<1>5. ASSUME NEW c, HearsNow(c), rev = << >>, s.at \in {"sync", "wait", "eotwait"}
      PROVE  c = "none" /\ Silent /\ r.at = "wait" /\ s.at # "sync"
  <2>1. c = "none" /\ SenderTurn
    BY <1>5 DEF HearsNow
  <2>2. r.at = "wait" /\ fwd = << >> /\ s.at # "sync"
    BY <1>s, <1>5, <2>1 DEF SenderTurn, ReceiverWaits, Afresh
  <2> QED
    BY <1>5, <2>1, <2>2 DEF Silent, Held, Sending
<1>6. ASSUME NEW c, HearsNow(c), rev # << >>
      PROVE  /\ First(c) /\ Len(rev) = 1 /\ fwd = << >> /\ Held = 0 /\ c # "CAN"
             /\ r.at # "ask" \/ r.response # "ACK"
  BY <1>s, <1>u, <1>6 DEF HearsNow, First, Held
<1>7. ASSUME NEW c, SyncsNow(c)
      PROVE  InStep' /\ r' = r /\ received' = received
  <2>1. s.at = "sync" /\ HearsNow(c) /\ UNCHANGED <<r, received, faults>>
    BY <1>7 DEF SyncsNow, HearsNow
  <2>2. rev # << >>
    BY <1>5, <2>1
  <2>3. /\ First(c) /\ Len(rev) = 1 /\ fwd = << >> /\ Held = 0 /\ c \in {"C", "noise"}
        /\ r.response = "C" /\ r.at # "flush"
    BY <1>s, <1>6, <2>1, <2>2 DEF Afresh, First
  <2>4. CASE c = "C"
    <3>1. Goes("send", s.blk, 0, TRUE) /\ Drops
      BY <1>7, <2>4 DEF SyncsNow
    <3>2. s'.at = "send" /\ s'.crc = TRUE /\ s'.retry = 0 /\ Pos' = Pos
      BY <2>1, <3>1 DEF Goes, Pos
    <3>3. s'.retry \in Nat /\ s'.retry <= faults /\ Got \in {Pos' - 1, Pos'}
      BY <1>0, <1>s, <3>2
    <3>4. Resumes
      BY <2>1, <2>3, <3>1, <3>2, <3>3 DEF Resumes
    <3> QED
      BY <1>4, <3>4
  <2>5. CASE c = "noise"
    <3>1. ReceiverOwes = 1 /\ SenderOwes = 1
      BY <2>1, <2>3, <2>5 DEF ReceiverOwes, SenderOwes
    <3>2. s.retry + 1 <= faults /\ faults # 0 /\ s.retry + 1 < SyncLimit
      BY <1>0, <1>s, <3>1
    <3>3. Goes("sync", s.blk, s.retry + 1, s.crc) /\ Drops
      BY <1>0, <1>7, <2>5, <3>2 DEF SyncsNow
    <3>4. /\ s'.at = "sync" /\ s'.crc = TRUE /\ s'.retry = s.retry + 1 /\ Pos' = Pos
          /\ fwd' = << >> /\ rev' = << >> /\ Got' = Got
      BY <1>0, <1>s, <2>1, <2>3, <3>3, Lone DEF Goes, Drops, Pos, Got
    <3>5. ReceiverOwes' \in 0 .. 1 /\ SenderOwes' = 0
      BY <2>1, <3>4 DEF ReceiverOwes, SenderOwes, First
    <3>6. RetryLimit - r.retry + ReceiverOwes' <= faults /\ s'.retry + 0 <= faults
      BY <1>0, <1>s, <3>1, <3>2, <3>4, <3>5
    <3>7. Afresh' /\ ~First("CAN")' /\ ~First("ACK")'
      BY <2>1, <2>3, <3>4 DEF Afresh, First
    <3> QED
      BY <1>s, <2>1, <2>3, <3>2, <3>4, <3>5, <3>6, <3>7 DEF InStep
  <2> QED
    BY <2>3, <2>4, <2>5
<1>8. ASSUME NEW c, AwaitsNow(c)
      PROVE  InStep' /\ r' = r /\ received' = received
  <2>1. s.at = "wait" /\ HearsNow(c) /\ UNCHANGED <<r, received, faults>> /\ Pos = s.blk
    BY <1>8 DEF AwaitsNow, HearsNow, Pos
  <2>2. /\ c # "CAN" /\ fwd = << >> /\ (rev # << >> => Len(rev) = 1)
        /\ r.at # "ask" \/ r.response # "ACK"
    BY <1>5, <1>6, <2>1 DEF Silent
  <2>3. CASE c = "ACK"
    <3>1. First("ACK")
      BY <1>5, <1>6, <2>1, <2>3
    <3>2. Got = Pos
      BY <1>s, <3>1
    <3>3. Drops /\ (Goes("send", s.blk + 1, 0, s.crc) \/ (~(s.blk < Blocks) /\ Goes("eot", s.blk, 0, s.crc)))
      BY <1>8, <2>3 DEF AwaitsNow
    <3>4. ~(s.blk < Blocks) => s.blk = Blocks
      BY <1>0
    <3>5. Pos' = Pos + 1 /\ s'.at \in {"send", "eot"} /\ s'.crc = TRUE /\ s'.retry = 0
      BY <1>0, <1>s, <2>1, <3>3, <3>4 DEF Goes, Pos
    <3>6. Got \in {Pos' - 1, Pos'}
      BY <1>0, <3>2, <3>5
    <3>7. s'.retry \in Nat /\ s'.retry <= faults
      BY <1>0, <3>5
    <3>8. Resumes
      BY <2>1, <2>2, <3>3, <3>5, <3>6, <3>7 DEF Resumes
    <3> QED
      BY <1>4, <3>8
  <2>4. CASE c # "ACK"
    <3>1. SenderOwes = 1
      <4>1. CASE rev = << >>
        BY <1>5, <2>1, <4>1 DEF SenderOwes
      <4>2. CASE rev # << >>
        BY <1>6, <2>1, <2>4, <4>2 DEF SenderOwes, First
      <4> QED
        BY <4>1, <4>2
    <3>2. s.retry + 1 <= faults /\ s.retry + 1 < RetryLimit
      BY <1>0, <1>s, <3>1
    <3>3. Goes("send", s.blk, s.retry + 1, s.crc) /\ Drops
      BY <1>0, <1>8, <2>2, <2>4, <3>2 DEF AwaitsNow
    <3>4. s'.at = "send" /\ s'.crc = TRUE /\ s'.retry = s.retry + 1 /\ Pos' = Pos
      BY <1>s, <2>1, <3>3 DEF Goes, Pos
    <3>5. s'.retry \in Nat /\ s'.retry <= faults /\ Got \in {Pos' - 1, Pos'}
      BY <1>0, <1>s, <3>2, <3>4
    <3>6. Resumes
      BY <2>1, <2>2, <3>3, <3>4, <3>5 DEF Resumes
    <3> QED
      BY <1>4, <3>6
  <2> QED
    BY <2>3, <2>4
<1>9. ASSUME NEW c, AwaitsEotNow(c)
      PROVE  InStep' /\ r' = r /\ received' = received
  <2>1. s.at = "eotwait" /\ HearsNow(c) /\ UNCHANGED <<r, received, faults>> /\ Pos = Blocks + 1
    BY <1>9 DEF AwaitsEotNow, HearsNow, Pos
  <2>2. /\ fwd = << >> /\ (rev # << >> => Len(rev) = 1)
        /\ r.at # "ask" \/ r.response # "ACK"
    BY <1>5, <1>6, <2>1 DEF Silent
  <2>3. c # "ACK"
    <3>1. c = "ACK" => First("ACK")
      BY <1>5, <1>6, <2>1
    <3> QED
      BY <1>0, <1>s, <2>1, <3>1
  <2>4. SenderOwes = 1
    <3>1. CASE rev = << >>
      BY <1>5, <2>1, <3>1 DEF SenderOwes
    <3>2. CASE rev # << >>
      BY <1>6, <2>1, <2>3, <3>2 DEF SenderOwes, First
    <3> QED
      BY <3>1, <3>2
  <2>5. s.retry + 1 <= faults /\ s.retry + 1 < EotLimit
    BY <1>0, <1>s, <2>4
  <2>6. Goes("eot", s.blk, s.retry + 1, s.crc) /\ Drops
    BY <1>0, <1>9, <2>3, <2>5 DEF AwaitsEotNow
  <2>7. s'.at = "eot" /\ s'.crc = TRUE /\ s'.retry = s.retry + 1 /\ Pos' = Pos
    BY <1>s, <2>1, <2>6 DEF Goes, Pos
  <2>8. s'.retry \in Nat /\ s'.retry <= faults /\ Got \in {Pos' - 1, Pos'}
    BY <1>0, <1>s, <2>5, <2>7
  <2>9. Resumes
    BY <2>1, <2>2, <2>6, <2>7, <2>8 DEF Resumes
  <2> QED
    BY <1>4, <2>9
<1> QED
  BY <1>2, <1>3, <1>7, <1>8, <1>9, SenderExactly

LEMMA InStepLine ==
    ASSUME Typed, UnderWay, Ordered, InStep, r.at # "end", StrikesNow,
           late = 0, faults' <= 1
    PROVE  InStep' /\ r' = r /\ received' = received
<1>0. /\ fwd \in Seq(Item) /\ rev \in Seq(Answer)
      /\ RetryLimit \in Nat /\ r.retry \in 0 .. RetryLimit /\ s.retry \in Nat /\ faults \in Nat
      /\ ReceiverOwes \in 0 .. 1 /\ SenderOwes \in 0 .. 1
  BY InStepRanges
<1>s. /\ s.at # "end" /\ s.crc = TRUE
      /\ Got \in {Pos - 1, Pos}
      /\ fwd # << >> => Due(Head(fwd))
      /\ ~First("CAN")
      /\ First("ACK") \/ (r.at = "ask" /\ r.response = "ACK") => Got = Pos
      /\ Afresh
      /\ RetryLimit - r.retry + ReceiverOwes <= faults
      /\ s.retry + SenderOwes <= faults
  BY DEF InStep
<1>u. /\ fwd # << >> => Len(fwd) = 1
      /\ rev # << >> => Len(rev) = 1
  BY <1>s, OneAtATime
<1>1. /\ r' = r /\ s' = s /\ received' = received /\ faults' = 1 /\ faults = 0
      /\ Got' = Got /\ Pos' = Pos
  BY <1>0 DEF StrikesNow, Got, Pos
<1>2. ReceiverOwes' \in 0 .. 1 /\ SenderOwes' \in 0 .. 1
  BY DEF ReceiverOwes, SenderOwes
<1>3. RetryLimit - r.retry + ReceiverOwes' <= 1 /\ s.retry + SenderOwes' <= 1
  <2>1. /\ RetryLimit \in Nat /\ r.retry \in Nat /\ s.retry \in Nat
        /\ ReceiverOwes \in 0 .. 1 /\ SenderOwes \in 0 .. 1
    BY <1>0
  <2>2. RetryLimit - r.retry + ReceiverOwes <= 0 /\ s.retry + SenderOwes <= 0
    BY <1>s, <1>1
  <2>3. RetryLimit - r.retry <= 0 /\ s.retry <= 0
    BY <2>1, <2>2
  <2> QED
    BY <1>2, <2>1, <2>3
<1>4. /\ fwd' # << >> => Due(Head(fwd'))
      /\ First("CAN")' => First("CAN")
      /\ First("ACK")' => First("ACK")
      /\ s.at = "sync" /\ rev' # << >> => Head(rev') \in {"C", "noise"}
  <2>1. CASE fwd # << >> /\ fwd' = SubSeq(fwd, 1, Len(fwd) - 1) /\ UNCHANGED rev
    <3>1. fwd' = << >>
      BY <1>0, <1>u, <2>1, LastLost, EmptySeq
    <3> QED
      BY <1>s, <2>1, <3>1 DEF First, Afresh
  <2>2. CASE rev # << >> /\ rev' = SubSeq(rev, 1, Len(rev) - 1) /\ UNCHANGED fwd
    <3>1. rev' = << >>
      BY <1>0, <1>u, <2>2, LastLost, EmptySeq
    <3> QED
      BY <1>s, <2>2, <3>1 DEF First
  <2>3. ASSUME NEW e \in Item, fwd # << >>, fwd[Len(fwd)].k = "pkt", UNCHANGED rev,
               IsPacket(e), e.blk = fwd[Len(fwd)].blk, fwd' = [fwd EXCEPT ![Len(fwd)] = e]
        PROVE  Due(Head(fwd')) /\ fwd' # << >>
    <3>1. Head(fwd') = e /\ fwd[Len(fwd)] = Head(fwd) /\ fwd' # << >>
      BY <1>0, <1>u, <2>3, Lone
    <3> QED
      BY <1>s, <2>3, <3>1 DEF Due, IsPacket
  <2>4. CASE rev # << >> /\ UNCHANGED fwd /\ rev' = [rev EXCEPT ![Len(rev)] = "noise"]
    <3>1. Head(rev') = "noise"
      BY <1>0, <1>u, <2>4, Lone DEF Answer
    <3> QED
      BY <1>s, <2>4, <3>1 DEF First
  <2>5. ASSUME UNCHANGED rev
        PROVE  /\ First("CAN")' => First("CAN")
               /\ First("ACK")' => First("ACK")
               /\ s.at = "sync" /\ rev' # << >> => Head(rev') \in {"C", "noise"}
    BY <1>s, <2>5 DEF First, Afresh
  <2> QED
    BY <2>1, <2>2, <2>3, <2>4, <2>5 DEF StrikesNow
<1>5. (fwd' # << >> => Due(Head(fwd))') /\ Afresh'
  BY <1>s, <1>1, <1>4 DEF Due, Afresh
<1> QED
  BY <1>s, <1>1, <1>3, <1>4, <1>5 DEF InStep

LEMMA SteadyIsInductive ==
    ASSUME Typed, UnderWay, Ordered, Ahead, Steady, [Next]_vars
    PROVE  Steady'
<1> SUFFICES ASSUME late' = 0, faults' <= 1, Usual'
             PROVE  IF r'.at = "end" THEN Finished' ELSE InStep'
  BY DEF Steady
<1>0. /\ faults \in Nat /\ late \in Nat /\ Usual /\ s.who = "host" /\ ~forged'
  BY StateRanges, WhoAndForged DEF Usual
<1>1. CASE UNCHANGED vars
  BY <1>0, <1>1 DEF vars, Steady, Finished, InStep, Due, Afresh, First, Pos, Got, ReceiverOwes, SenderOwes,
     Broken, Silent, Held, Sending
<1>2. CASE Receiver
  <2>1. r.at # "end" /\ faults' = faults /\ (late' = late \/ late' = late + 1)
    BY <1>2, ReceiverExactly DEF AsksNow, ReturnsNow, TimesOut, TakesNow, FlushesNow
  <2>2. late = 0 /\ faults <= 1
    BY <1>0, <2>1
  <2> QED
    BY <1>0, <1>2, <2>1, <2>2, InStepReceiver DEF Steady
<1>3. CASE SenderStep
  <2>1. r' = r /\ received' = received /\ faults' = faults /\ (late' = late \/ late' = late + 1)
    BY <1>3, SenderExactly DEF SendsNow, SendsEotNow, SyncsNow, AwaitsNow, AwaitsEotNow, HearsNow
  <2>2. late = 0 /\ faults <= 1
    BY <1>0, <2>1
  <2>3. CASE r.at = "end"
    BY <1>0, <2>1, <2>2, <2>3 DEF Steady, Finished, Got
  <2>4. CASE r.at # "end"
    BY <1>0, <1>3, <2>1, <2>2, <2>4, InStepSender DEF Steady
  <2> QED
    BY <2>3, <2>4
<1>4. CASE Line
  <2>1. StrikesNow
    BY <1>0, <1>4, LineExactly
  <2>2. r' = r /\ received' = received /\ late = 0 /\ faults <= 1
    BY <1>0, <2>1 DEF StrikesNow
  <2>3. CASE r.at = "end"
    BY <1>0, <2>2, <2>3 DEF Steady, Finished, Got
  <2>4. CASE r.at # "end"
    BY <1>0, <2>1, <2>2, <2>4, InStepLine DEF Steady
  <2> QED
    BY <2>3, <2>4
<1> QED
  BY <1>1, <1>2, <1>3, <1>4 DEF Next

-----------------------------------------------------------------------------
(* What a transfer comes to.                                               *)

Outcome == Transfers /\ Fails /\ Spared /\ Steady

LEMMA OutcomeInit == Init => Outcome
<1> SUFFICES ASSUME Init PROVE Outcome
  OBVIOUS
<1>1. Transfers
  BY TransfersInit
<1>2. /\ fwd = << >> /\ rev = << >> /\ received = << >> /\ faults = 0 /\ late = 0
      /\ r.at = "ask" /\ r.response = "C" /\ r.retry = RetryLimit
      /\ s.at = "sync" /\ s.blk = 1 /\ s.crc = TRUE /\ s.retry = 0 /\ s.res = "none"
  BY DEF Init
<1>3. Len(fwd) = 0 /\ Len(rev) = 0 /\ Got = 0 /\ Pos = 1 /\ Held = 1 /\ RetryLimit \in Nat
  BY <1>2, EmptySeq, Sizes DEF Got, Pos, Held
<1>4. Fails
  BY <1>2, <1>3 DEF Fails, Failing, NoneWhole, NoCan, NoAck
<1>5. Sparing
  <2>1. Unbroken(fwd, Got) /\ Sent = 0
    BY <1>2, <1>3, UnbrokenNone DEF Sent
  <2>2. Flowing /\ Answering /\ Alive
    BY <1>2, <1>3, <2>1 DEF Flowing, Answering, Alive
  <2>3. Credit = 1 /\ Tries = 0 /\ Asking = 1
    BY <1>2 DEF Credit, Tries, Asking
  <2>4. Budget
    BY <1>2, <1>3, <2>3 DEF Budget, Affords
  <2> QED
    BY <1>2, <2>2, <2>4 DEF Sparing
<1>6. InStep
  <2>1. ReceiverOwes = 0 /\ SenderOwes = 0 /\ ~Silent
    BY <1>2, <1>3 DEF ReceiverOwes, SenderOwes, Broken, Silent, First
  <2>2. ~First("CAN") /\ ~First("ACK") /\ Afresh
    BY <1>2 DEF First, Afresh
  <2> QED
    BY <1>2, <1>3, <2>1, <2>2 DEF InStep
<1>7. Spared /\ Steady
  BY <1>2, <1>5, <1>6 DEF Spared, Steady
<1> QED
  BY <1>1, <1>4, <1>7 DEF Outcome

LEMMA OutcomeStep == Outcome /\ [Next]_vars => Outcome'
<1> SUFFICES ASSUME Outcome, [Next]_vars PROVE Outcome'
  OBVIOUS
<1>1. Transfers /\ Fails /\ Spared /\ Steady
  BY DEF Outcome
<1>2. Typed /\ UnderWay /\ Ordered /\ Ahead
  BY <1>1 DEF Transfers
<1> QED
  BY <1>1, <1>2, TransfersStep, FailsIsInductive, SparedIsInductive, SteadyIsInductive DEF Outcome

LEMMA FinishedIsComplete ==
    ASSUME Typed, Ordered, Finished
    PROVE  Complete
<1>1. received \in Seq(1 .. Blocks) /\ Len(received) = Blocks
  BY DEF Typed, TypeOK, Finished, Got
<1>2. DOMAIN received = 1 .. Blocks /\ received = [i \in 1 .. Blocks |-> received[i]]
  BY <1>1, LenProperties
<1>3. \A i \in 1 .. Blocks : received[i] = i
  BY <1>1 DEF Ordered, Got
<1>4. received = [i \in 1 .. Blocks |-> i]
  BY <1>2, <1>3
<1> QED
  BY <1>4 DEF Complete, Finished

LEMMA MildIsComplete ==
    ASSUME Outcome, Over, Usual, faults = 0 \/ faults + late <= 1
    PROVE  Complete
<1>1. Typed /\ Ordered /\ Spared /\ Steady /\ r.at = "end"
  BY DEF Outcome, Transfers, Over
<1>2. faults \in Nat /\ late \in Nat
  BY <1>1, StateRanges
<1>3. faults = 0 \/ (late = 0 /\ faults <= 1)
  BY <1>2
<1>4. Finished
  BY <1>1, <1>3 DEF Spared, Steady
<1> QED
  BY <1>1, <1>4, FinishedIsComplete

\* One fault, or any number of time-outs on a line without faults, are made up for: however
\* they fall, the receiver has all blocks when both ends are done, and says so.
THEOREM SingleFaultsAreMasked == Spec => []Masked
<1>1. Outcome => Masked
  BY MildIsComplete DEF Masked
<1> QED
  BY <1>1, OutcomeInit, OutcomeStep, PTL DEF Spec

\* A sender that returns the length has been heard, unless there was more than one fault or
\* late answer: the ACK that it takes for that of its EOT is not an older one.
THEOREM SenderIsNotFooled == Spec => []SenderNotFooled
<1>1. ASSUME Outcome, Over, ~forged, s.res = "ok", faults + late <= 1
      PROVE  Complete
  <2>1. s.who = "host"
    BY <1>1 DEF Outcome, Fails, Failing
  <2> QED
    BY <1>1, <2>1, MildIsComplete DEF Usual
<1>2. Outcome => SenderNotFooled
  BY <1>1 DEF SenderNotFooled
<1> QED
  BY <1>2, OutcomeInit, OutcomeStep, PTL DEF Spec

=============================================================================
