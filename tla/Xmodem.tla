------------------------------- MODULE Xmodem -------------------------------
(***************************************************************************)
(* xmodem.c: the receiver xmodem_get_async() and the sender                *)
(* xmodem_tx_async() at the two ends of a serial line that loses and       *)
(* garbles what it carries, and of which each end may be too slow for the  *)
(* other's patience.                                                       *)
(*                                                                         *)
(* A packet is sent and read in one step.  A packet that lost bytes is a   *)
(* bad one: the receiver completes it with the next bytes or runs into a   *)
(* time-out, and does the same in both cases.  The three CANs of an abort  *)
(* are one item.  flush_input() lasts until the line falls silent, so it   *)
(* takes what is sent meanwhile.                                           *)
(***************************************************************************)
EXTENDS Integers, Sequences

CONSTANTS
    Size,           \* srcsz, the bytes to send
    BlockSize,      \* 128
    SeqMod,         \* 256: packet numbers are unsigned char
    RetryLimit,     \* XMODEM_RETRY_LIMIT
    SyncLimit,      \* 16, attempts of the sender to get a 'C' or NAK
    EotLimit,       \* 10, EOTs that the sender sends
    Sender,         \* which senders occur
    MaxFaults,      \* bounds the faults of the line
    MaxLate         \* bounds the time-outs that strike while an answer is due

\* Block b carries the bytes from BlockSize * (b - 1); the sender goes on while
\* c = srcsz - len is not negative, so that a whole number of blocks is followed
\* by one of padding.
Blocks == Size \div BlockSize + 1

ASSUME XmodemAssumption ==
    /\ Size \in Nat /\ BlockSize \in Nat \ {0}
    /\ {RetryLimit, SyncLimit, EotLimit} \subseteq Nat \ {0}
    /\ SeqMod \in Nat /\ MaxFaults \in Nat /\ MaxLate \in Nat
    /\ SeqMod > MaxFaults + MaxLate + 1
    /\ Sender \subseteq {"host", "rumboot"}

\* No limit is met because of one fault, nor because of the time-outs that MaxLate allows.
ASSUME LimitsAssumption ==
    /\ {RetryLimit, SyncLimit, EotLimit} \cap {0, 1} = {}
    /\ MaxLate < RetryLimit /\ MaxLate < SyncLimit

VARIABLES
    fwd,            \* packets, EOTs and CANs on their way to the receiver
    rev,            \* answers on their way to the sender
    r,              \* the receiver's locals and result
    s,              \* the sender's locals and result
    received,       \* blocks given to recv_cb
    faults,         \* faults of the line so far
    forged,         \* one of them made a control byte that takes effect
    late            \* time-outs so far that an answer was due for

vars == <<fwd, rev, r, s, received, faults, forged, late>>

Answer == {"C", "ACK", "NAK", "CAN", "noise"}
Item   == [k : {"pkt"}, seq : 0 .. SeqMod - 1, blk : 1 .. Blocks, ok : BOOLEAN]
            \cup [k : {"EOT", "CAN"}]

\* What xmodem_get_async() and xmodem_tx_async() return; "ok" is the length.
Result == {"none", "ok", "REMOTECANCEL", "OUTOFSYNC", "RETRYEXCEED",
           "canceled", "nosync", "xmit", "noack"}

TypeOK ==
    /\ fwd \in Seq(Item)
    /\ rev \in Seq(Answer)
    /\ r \in [at : {"ask", "wait", "flush", "end"}, response : {"C", "ACK", "NAK", "none"},
              seqnum : 0 .. SeqMod - 1, retry : 0 .. RetryLimit, res : Result]
    /\ s \in [at : {"sync", "send", "wait", "eot", "eotwait", "end"}, crc : BOOLEAN,
              blk : 1 .. Blocks, retry : Nat, res : Result, who : Sender]
    /\ received \in Seq(1 .. Blocks)
    /\ faults \in 0 .. MaxFaults
    /\ forged \in BOOLEAN
    /\ late \in 0 .. MaxLate

Init ==
    /\ fwd = << >> /\ rev = << >>
    /\ r = [at |-> "ask", response |-> "C", seqnum |-> 1 % SeqMod, retry |-> RetryLimit,
            res |-> "none"]
    /\ \E who \in Sender : s = [at |-> "sync", crc |-> TRUE, blk |-> 1, retry |-> 0,
                                res |-> "none", who |-> who]
    /\ received = << >>
    /\ faults = 0 /\ forged = FALSE /\ late = 0

(***************************************************************************)
(* Time.  A getchar() times out when nothing has come.  It may do so       *)
(* although the other end is about to send ("late"), or because that waits *)
(* in turn.  In the latter case the receiver, having answered last, has    *)
(* the shorter wait against a sender that waits twice the time (for a 'C'  *)
(* and for the ACK of an EOT), and having timed out leaves the next        *)
(* time-out to the sender.                                                 *)
(***************************************************************************)
ReceiverWaits == r.at = "end" \/ (r.at = "wait" /\ fwd = << >>)
SenderWaits   == s.at = "end" \/ (s.at \in {"sync", "wait", "eotwait"} /\ rev = << >>)

ReceiverTurn == SenderWaits /\ (s.at = "end" \/ r.response # "none")
SenderTurn   == ReceiverWaits /\ (r.at = "end" \/ s.at = "wait" \/ r.response = "none")

Patience(due) ==
    \/ due /\ UNCHANGED late
    \/ ~due /\ late < MaxLate /\ late' = late + 1

Quiet == UNCHANGED <<faults, forged>>           \* no fault of the line
OnTime == Quiet /\ UNCHANGED late

-----------------------------------------------------------------------------
(***************************************************************************)
(* The receiver.                                                           *)
(***************************************************************************)
\* The head of the loop: the answer, unless there is none to give.
Ask ==
    /\ r.at = "ask" /\ r.retry > 0
    /\ r' = [r EXCEPT !.at = "wait"]
    /\ rev' = IF r.response = "none" THEN rev ELSE Append(rev, r.response)
    /\ UNCHANGED <<fwd, s, received>> /\ OnTime

\* flush_input(), an answer, and the return.
Return(result, answer) ==
    /\ r' = [r EXCEPT !.at = "end", !.res = result]
    /\ fwd' = << >>
    /\ rev' = Append(rev, answer)
    /\ UNCHANGED <<s, received>> /\ OnTime

GiveUp ==
    /\ r.at = "ask" /\ r.retry = 0
    /\ Return("RETRYEXCEED", "CAN")

\* Mutant: an attempt that costs nothing.
SpentNot(n) == n

Spent(n) == n - 1

\* Nothing came: the first answer is repeated, others are not.
HearNothing ==
    /\ r.at = "wait" /\ fwd = << >>
    /\ Patience(ReceiverTurn)
    /\ r' = [r EXCEPT !.at = "ask", !.retry = Spent(@),
                      !.response = IF @ = "C" THEN "C" ELSE "none"]
    /\ UNCHANGED <<fwd, rev, s, received>> /\ Quiet

Hears(kind) == r.at = "wait" /\ fwd # << >> /\ Head(fwd).k = kind

EndOfText == Hears("EOT") /\ Return("ok", "ACK")
Cancelled == Hears("CAN") /\ Return("REMOTECANCEL", "ACK")

\* Number and complement agree, and so does the CRC.
Intact(p) == p.ok

\* Mutant: numbers that do not wrap.
NextNumberUnbounded(n) == n + 1

NextNumber(n) == (n + 1) % SeqMod

\* Mutant: a repeated packet is out of sync.
RepeatsNever(p) == FALSE

Repeats(p) == NextNumber(p.seq) = r.seqnum

\* Mutant: a repeated packet is delivered again.
ExpectedAgain(p) == p.seq = r.seqnum \/ Repeats(p)

Expected(p) == p.seq = r.seqnum

\* A good packet is delivered, or was before; both are acknowledged.
Deliver ==
    /\ Hears("pkt")
    /\ LET p == Head(fwd) IN
         /\ Intact(p) /\ Expected(p)
         /\ received' = Append(received, p.blk)
    /\ r' = [r EXCEPT !.at = "ask", !.response = "ACK", !.retry = RetryLimit,
                      !.seqnum = NextNumber(@)]
    /\ fwd' = Tail(fwd)
    /\ UNCHANGED <<rev, s>> /\ OnTime

Duplicate ==
    /\ Hears("pkt")
    /\ LET p == Head(fwd) IN Intact(p) /\ ~Expected(p) /\ Repeats(p)
    /\ r' = [r EXCEPT !.at = "ask", !.response = "ACK"]
    /\ fwd' = Tail(fwd)
    /\ UNCHANGED <<rev, s, received>> /\ OnTime

OutOfSync ==
    /\ Hears("pkt")
    /\ LET p == Head(fwd) IN Intact(p) /\ ~Expected(p) /\ ~Repeats(p)
    /\ Return("OUTOFSYNC", "CAN")

BadPacket ==
    /\ Hears("pkt") /\ ~Intact(Head(fwd))
    /\ r' = [r EXCEPT !.at = "flush", !.response = "NAK", !.retry = Spent(@)]
    /\ fwd' = Tail(fwd)
    /\ UNCHANGED <<rev, s, received>> /\ OnTime

\* xmodem_flush_input() before the NAK.
Flush ==
    /\ r.at = "flush"
    /\ IF fwd # << >> THEN fwd' = Tail(fwd) /\ UNCHANGED r
                      ELSE r' = [r EXCEPT !.at = "ask"] /\ UNCHANGED fwd
    /\ UNCHANGED <<rev, s, received>> /\ OnTime

Receiver ==
    \/ Ask \/ GiveUp \/ HearNothing \/ EndOfText \/ Cancelled
    \/ Deliver \/ Duplicate \/ OutOfSync \/ BadPacket \/ Flush

-----------------------------------------------------------------------------
(***************************************************************************)
(* The sender.                                                             *)
(***************************************************************************)
\* Returns; what its last words are, if any.  It flushes its input.
Quit(result, words) ==
    /\ s' = [s EXCEPT !.at = "end", !.res = result]
    /\ fwd' = fwd \o words
    /\ rev' = << >>
    /\ UNCHANGED <<r, received>>

Abort == <<[k |-> "CAN"]>>

\* The next answer, "none" after a time-out.  `step' says what it does.
Listen(step(_)) ==
    \/ /\ rev = << >>
       /\ Patience(SenderTurn) /\ Quiet
       /\ step("none")
    \/ /\ rev # << >>
       /\ OnTime
       /\ step(Head(rev))

Hushed == UNCHANGED <<fwd, r, received>> /\ rev' = IF rev = << >> THEN rev ELSE Tail(rev)

\* Waiting for the receiver's first 'C' or NAK.
SyncStep(c) ==
    \/ c \in {"C", "NAK"} /\ s' = [s EXCEPT !.at = "send", !.crc = (c = "C"), !.retry = 0] /\ Hushed
    \/ c = "CAN" /\ Quit("canceled", << >>)
    \/ c \notin {"C", "NAK", "CAN"} /\ s.retry + 1 < SyncLimit
         /\ s' = [s EXCEPT !.retry = @ + 1] /\ Hushed
    \/ c \notin {"C", "NAK", "CAN"} /\ s.retry + 1 = SyncLimit /\ Quit("nosync", Abort)

Sync == s.at = "sync" /\ Listen(SyncStep)

\* In CRC mode xmodem_tx_async() sends the truth value of a checksum comparison for
\* a CRC; a packet without CRC is a byte short for this receiver.
CrcIsRight == s.crc /\ s.who = "host"

Send ==
    /\ s.at = "send"
    /\ fwd' = Append(fwd, [k |-> "pkt", seq |-> s.blk % SeqMod, blk |-> s.blk, ok |-> CrcIsRight])
    /\ s' = [s EXCEPT !.at = "wait"]
    /\ UNCHANGED <<rev, r, received>> /\ OnTime

\* Only an ACK leads to the next block, anything else sends this one again.
\* Mutant: a NAK or noise is good enough.
AnyAnswer(c) == c # "none"

Acknowledged(c) == c = "ACK"

BlockStep(c) ==
    \/ /\ Acknowledged(c) /\ Hushed
       /\ s' = IF s.blk < Blocks THEN [s EXCEPT !.at = "send", !.blk = @ + 1, !.retry = 0]
                                 ELSE [s EXCEPT !.at = "eot", !.retry = 0]
    \/ c = "CAN" /\ Quit("canceled", << >>)
    \/ ~Acknowledged(c) /\ c # "CAN" /\ s.retry + 1 < RetryLimit
         /\ s' = [s EXCEPT !.at = "send", !.retry = @ + 1] /\ Hushed
    \/ ~Acknowledged(c) /\ c # "CAN" /\ s.retry + 1 = RetryLimit /\ Quit("xmit", Abort)

AwaitAck == s.at = "wait" /\ Listen(BlockStep)

SendEot ==
    /\ s.at = "eot"
    /\ fwd' = Append(fwd, [k |-> "EOT"])
    /\ s' = [s EXCEPT !.at = "eotwait"]
    /\ UNCHANGED <<rev, r, received>> /\ OnTime

EotStep(c) ==
    \/ c = "ACK" /\ Quit("ok", << >>)
    \/ c # "ACK" /\ s.retry + 1 < EotLimit
         /\ s' = [s EXCEPT !.at = "eot", !.retry = @ + 1] /\ Hushed
    \/ c # "ACK" /\ s.retry + 1 = EotLimit /\ Quit("noack", << >>)

AwaitEotAck == s.at = "eotwait" /\ Listen(EotStep)

SenderStep == Sync \/ Send \/ AwaitAck \/ SendEot \/ AwaitEotAck

-----------------------------------------------------------------------------
(***************************************************************************)
(* The line.                                                               *)
(***************************************************************************)
Strike ==
    /\ faults < MaxFaults /\ faults' = faults + 1
    /\ UNCHANGED <<r, s, received, late>>

Lose ==
    /\ Strike
    /\ \/ fwd # << >> /\ fwd' = SubSeq(fwd, 1, Len(fwd) - 1) /\ UNCHANGED rev
       \/ rev # << >> /\ rev' = SubSeq(rev, 1, Len(rev) - 1) /\ UNCHANGED fwd
    /\ UNCHANGED forged

\* A packet is damaged, in its first byte perhaps so that it reads as EOT; an
\* answer becomes noise or another answer.
Garble ==
    /\ Strike
    /\ \/ /\ fwd # << >> /\ UNCHANGED rev
          /\ \E i \in {Len(fwd)} :
               \/ fwd[i].k = "pkt" /\ fwd' = [fwd EXCEPT ![i].ok = FALSE] /\ UNCHANGED forged
               \/ fwd[i].k = "pkt" /\ fwd' = [fwd EXCEPT ![i] = [k |-> "EOT"]] /\ forged' = TRUE
       \/ /\ rev # << >> /\ UNCHANGED fwd
          /\ \E a \in {"noise", "ACK", "NAK"} :
               /\ rev' = [rev EXCEPT ![Len(rev)] = a]
               /\ forged' = (forged \/ a # "noise")

Line == Lose \/ Garble

Next == Receiver \/ SenderStep \/ Line

\* Both ends are programs that run on, and every getchar() has a time-out.
Spec == Init /\ [][Next]_vars
FairSpec == Spec /\ WF_vars(Receiver) /\ WF_vars(SenderStep)

-----------------------------------------------------------------------------
(***************************************************************************)
(* Properties.                                                             *)
(***************************************************************************)
Over     == r.at = "end" /\ s.at = "end"
Complete == r.res = "ok" /\ received = [i \in 1 .. Blocks |-> i]
Usual    == ~forged /\ s.who = "host"

\* Whatever is lost, damaged, forged or late, recv_cb gets the blocks in order and
\* each once, although the flash updaters' callback writes them where it is told and
\* could not repair a mistake (xmodem.c:143-166).
Abstract == INSTANCE XmodemSpec WITH stored <- received, over <- (r.at = "end")
IsTransfer == Abstract!Spec

\* A single fault, or any time-outs on a line without faults, are made up for: the
\* receiver gets everything and says so.  Late answers alone leave the sender ahead of the
\* receiver, which takes a fault to become visible (xmodem.c:272).
Masked == Over /\ Usual /\ (faults = 0 \/ faults + late <= 1) => Complete

\* The sender's success is the receiver's, with at most one fault or late answer: an
\* ACK taken for that of the EOT (298) may be an older one.
SenderNotFooled == Over /\ ~forged /\ s.res = "ok" /\ faults + late <= 1 => Complete

\* However it goes, both functions return: no two ends wait for each other, and no
\* exchange of resends and answers goes on for ever.
BothReturn == <>Over
=============================================================================
