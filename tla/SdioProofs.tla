----------------------------- MODULE SdioProofs -----------------------------
(***************************************************************************)
(* Proofs about the SD card boot source, for every size of a sector, every *)
(* number of attempts, all offsets and lengths, any kind of card and any   *)
(* number of faults.                                                       *)
(***************************************************************************)
EXTENDS Sdio, Arithmetic, SequenceTheorems

-----------------------------------------------------------------------------
(***************************************************************************)
(* The inductive invariant, in layers.  Handshake is the order in which    *)
(* the driver, the controller and the card work on one command: nothing of *)
(* an earlier one is pending when the next is issued.  Asked says which    *)
(* command is executed where.                                              *)
(***************************************************************************)
Places == {"closed", "reset", "interface", "op", "rereset", "op1", "setup",
           "open", "read", "quit"}

Requested == [cmd : Nat, acmd : BOOLEAN, hc : BOOLEAN, buf : BOOLEAN, arg : Nat]

Locals == [offset : Nat, length : Int, total : Nat, first : Nat, asked : Nat, calls : Nat]

SdioType ==
    /\ at \in Places /\ n \in Nat
    /\ rq \in Requested
    /\ phase \in {"idle", "acmd", "cmd", "tran", "dma", "done"}
    /\ phase = "idle" <=> at \in {"closed", "open"}
    /\ ok \in BOOLEAN
    /\ type \in Type
    /\ rd \in Locals
    /\ ram \in Seq(Int)
    /\ buffer \in Int
    /\ kind \in Kind /\ busy \in 0 .. MaxBusy
    /\ faults \in Nat /\ torn \in BOOLEAN

Handshake ==
    /\ status = {}
    /\ phase \in {"idle", "done"} => ops = {} /\ events = {}
    /\ phase = "acmd" =>
           \/ ops = {"cmd"} /\ events = {}
           \/ ops = {} /\ events \subseteq {"CAR_ERR"}
           \/ ops = {} /\ events = {"CMD_DONE"}
    /\ phase = "cmd" =>
           \/ ops = {"cmd"} /\ events = {}
           \/ ops = {} /\ events \subseteq {"CAR_ERR"}
           \/ /\ ops = {} /\ "CMD_DONE" \in events
              /\ events \subseteq {"CMD_DONE", "TRAN_DONE", "CAR_ERR"}
           \/ ops = {"data"} /\ events = {"CMD_DONE"} /\ rq.buf
    /\ phase = "tran" =>
           \/ ops = {"data"} /\ events = {}
           \/ ops = {} /\ events \subseteq {"TRAN_DONE", "CAR_ERR"}
    /\ phase = "dma" =>
           \/ ops = {"dma"} /\ events = {}
           \/ ops = {} /\ events = {"CH1_FINISH", "BUF_FINISH"}

Plain(c) == rq.cmd = c /\ ~rq.acmd /\ ~rq.buf

Asked ==
    /\ at \in {"reset", "rereset"} => n \in 1 .. 2
    /\ at \in {"reset", "rereset", "quit"} => Plain(0)
    /\ at = "interface" => Plain(8)
    /\ at = "op" => /\ rq.cmd = 41 /\ rq.acmd /\ ~rq.buf /\ n \in 1 .. Attempts
                    /\ rq.hc <=> type # "OLD"
    /\ at = "op1" => Plain(1) /\ n \in 1 .. MmcAttempts
    /\ at = "setup" => /\ n \in 1 .. SetupLength /\ rq.cmd = SetupCommands[n] /\ ~rq.buf
                       /\ rq.acmd <=> n = 5
    /\ at = "read" => rq.cmd = 17 /\ ~rq.acmd /\ rq.buf

Control == SdioType /\ Handshake /\ Asked

-----------------------------------------------------------------------------
(***************************************************************************)
(* Says is what is known of the card from a response, and Fits that        *)
(* sdio_init() takes a card for one that wants the right kind of address.  *)
(***************************************************************************)
Answered == \/ phase = "cmd" /\ "CMD_DONE" \in events
            \/ phase \in {"tran", "dma"}
            \/ phase = "done" /\ ok

Says ==
    Answered =>
        /\ rq.cmd = 8  => response = "pattern"
        /\ rq.cmd = 41 => /\ kind \in SD /\ response \in {"busy", "ready", "readyhc"}
                          /\ response = "readyhc" => kind = "SDHC" /\ rq.hc
                          /\ response = "ready" => kind # "SDHC"
        /\ rq.cmd = 1  => /\ kind \in {"MMC", "EMMC"} /\ response \in {"busy", "ready", "readyhc"}
                          /\ response = "readyhc" => kind = "EMMC"
                          /\ response = "ready" => kind = "MMC"

Fits ==
    at \in {"setup", "open", "read", "quit"} =>
        /\ type \in {"SDHC", "EMMC"} <=> kind \in {"SDHC", "EMMC"}
        /\ kind # "none"
        /\ kind = "MMC" => type = "MMC"

-----------------------------------------------------------------------------
(***************************************************************************)
(* Copied ties the sectors in memory to the locals of sdio_read(), as long *)
(* as no data transfer has failed.                                         *)
(***************************************************************************)
Sectors(a) == a \div Sector

\* The block that is being read is in memory, and has not been counted.
InMemory == at = "read" /\ ((phase = "dma" /\ ops = {}) \/ (phase = "done" /\ ok))

Counting ==
    /\ rd.first % Sector = 0 /\ rd.total % Sector = 0
    /\ at = "read" =>
           /\ rd.offset = rd.first + rd.total
           /\ rd.asked = rd.total + rd.length
           /\ rd.length % Sector = 0 /\ rd.length > 0
           /\ Addressed = Sectors(rd.first) + Sectors(rd.total)

Stored ==
    /\ Len(ram) = Sectors(rd.total) + (IF InMemory THEN 1 ELSE 0)
    /\ \A i \in 1 .. Len(ram) : ram[i] = Sectors(rd.first) + i - 1

Buffered ==
    at = "read" =>
        /\ (phase = "cmd" /\ "CMD_DONE" \in events) => ("data" \in ops \/ buffer = Addressed)
        /\ phase = "tran" => ("data" \in ops \/ buffer = Addressed)
        /\ phase = "dma" => buffer = Addressed

Copied == Counting /\ (~torn => Stored /\ Buffered)

-----------------------------------------------------------------------------
(***************************************************************************)
(* What holds as long as the card has not failed: every command it knows   *)
(* is answered, and it is recognised before the attempts run out.          *)
(***************************************************************************)
Responds ==
    \/ rq.cmd = 0
    \/ rq.cmd = 8 /\ kind \in Version2
    \/ rq.cmd = 41 /\ kind \in SD
    \/ rq.cmd = 1 /\ kind \in {"MMC", "EMMC"}
    \/ rq.cmd \notin {0, 8, 41, 1} /\ kind # "none" /\ ~(rq.cmd = 6 /\ kind = "MMC")

Prompt ==
    faults = 0 =>
        /\ "CAR_ERR" \notin events
        /\ phase = "acmd" => ("cmd" \in ops \/ "CMD_DONE" \in events)
        /\ (phase = "cmd" /\ Responds) => ("cmd" \in ops \/ "CMD_DONE" \in events)
        /\ (phase = "done" /\ Responds) => ok

Tries(cards) ==
    kind \in cards =>
        IF Answered THEN response = "busy" => busy + n <= MaxBusy
        ELSE busy + n <= MaxBusy + 1

Found ==
    faults = 0 =>
        /\ at = "op" => Tries(SD) /\ (kind = "SDHC" => rq.hc)
        /\ at = "op1" => Tries({"MMC", "EMMC"})
        /\ at \in {"rereset", "op1"} => kind \notin SD

Complete == (faults = 0 /\ at = "open" /\ rd.calls > 0) => rd.total = rd.asked

-----------------------------------------------------------------------------
(* What the parts of the driver do.                                        *)

LEMMA Sizes ==
    /\ Sector \in Nat \ {0} /\ Attempts \in Nat \ {0}
    /\ MaxBusy \in Nat /\ MaxReads \in Nat /\ MaxFaults \in Nat
    /\ Offset \subseteq Nat /\ Length \subseteq Nat
    /\ MmcAttempts \in Nat \ {0}
BY SdioAssumption DEF MmcAttempts

LEMMA Fields ==
    ASSUME NEW r \in Locals
    PROVE  /\ r.offset \in Nat /\ r.length \in Int /\ r.total \in Nat
           /\ r.first \in Nat /\ r.asked \in Nat /\ r.calls \in Nat
BY DEF Locals

\* A command is on its way, and nothing else.
Sent ==
    /\ rq' \in Requested
    /\ phase' = (IF rq'.acmd THEN "acmd" ELSE "cmd")
    /\ ops' = {"cmd"} /\ status' = {}
    /\ UNCHANGED <<ok, response, buffer>>

LEMMA IssueSends ==
    ASSUME Handshake, phase \in {"idle", "done"}, NEW c \in Nat, Issue(c)
    PROVE  Sent /\ Plain(c)' /\ ~rq'.hc
<1>1. PICK r : r = [NoRequest EXCEPT !.cmd = c]
  OBVIOUS
<1>2. r \in Requested /\ r.cmd = c /\ r.acmd = FALSE /\ r.buf = FALSE /\ r.hc = FALSE
  BY <1>1 DEF NoRequest, Requested
<1>3. rq' = r /\ Request(r)
  BY <1>1 DEF Issue, Request
<1> QED
  BY <1>2, <1>3 DEF Request, Handshake, Sent, Plain

LEMMA IssueASends ==
    ASSUME Handshake, phase \in {"idle", "done"}, NEW c \in Nat, IssueA(c)
    PROVE  Sent /\ rq'.cmd = c /\ rq'.acmd /\ ~rq'.buf
<1>1. PICK r : r = [NoRequest EXCEPT !.cmd = c, !.acmd = TRUE]
  OBVIOUS
<1>2. r \in Requested /\ r.cmd = c /\ r.acmd = TRUE /\ r.buf = FALSE
  BY <1>1 DEF NoRequest, Requested
<1>3. rq' = r /\ Request(r)
  BY <1>1 DEF IssueA, Request
<1> QED
  BY <1>2, <1>3 DEF Request, Handshake, Sent

LEMMA OpCondSends ==
    ASSUME Handshake, phase \in {"idle", "done"}, NEW t, OpCond(t)
    PROVE  Sent /\ rq'.cmd = 41 /\ rq'.acmd /\ ~rq'.buf /\ (rq'.hc <=> t # "OLD")
<1>1. PICK h \in BOOLEAN : h <=> t # "OLD"
  OBVIOUS
<1>2. PICK r : r = [NoRequest EXCEPT !.cmd = 41, !.acmd = TRUE, !.hc = HighCapacity(t)]
  OBVIOUS
<1>3. HighCapacity(t) \in BOOLEAN
  BY DEF HighCapacity
<1>4. r \in Requested /\ r.cmd = 41 /\ r.acmd = TRUE /\ r.buf = FALSE /\ r.hc = HighCapacity(t)
  BY <1>2, <1>3 DEF NoRequest, Requested
<1>5. rq' = r /\ Request(r)
  BY <1>2 DEF OpCond, Request
<1>6. rq'.hc <=> t # "OLD"
  BY <1>4, <1>5 DEF HighCapacity
<1> QED
  BY <1>4, <1>5, <1>6 DEF Request, Handshake, Sent

LEMMA ReadBlockSends ==
    ASSUME Handshake, phase \in {"idle", "done"}, NEW o \in Nat, ReadBlock(o)
    PROVE  /\ Sent /\ rq'.cmd = 17 /\ ~rq'.acmd /\ rq'.buf
           /\ rq'.arg = IF type \in {"SDHC", "EMMC"} THEN Sectors(o) ELSE o
<1>1. PICK a \in Nat : a = IF type \in {"SDHC", "EMMC"} THEN Sectors(o) ELSE o
  BY Sizes DEF Sectors
<1>2. PICK r : r = [NoRequest EXCEPT !.cmd = 17, !.buf = TRUE, !.arg = a]
  OBVIOUS
<1>3. r \in Requested /\ r.cmd = 17 /\ r.acmd = FALSE /\ r.buf = TRUE /\ r.arg = a
  BY <1>2 DEF NoRequest, Requested
<1>4. rq' = r /\ Request(r)
  BY <1>1, <1>2 DEF ReadBlock, Request, Sectors
<1> QED
  BY <1>1, <1>3, <1>4 DEF Request, Handshake, Sent

\* What ends a wait.
WaitEnds ==
    /\ status' = {} /\ events' = {} /\ ok' \in BOOLEAN
    /\ UNCHANGED <<soft, ram, response, buffer, wire>>
    /\ \/ /\ phase \in {"acmd", "cmd"} /\ phase' = "done" /\ ~ok' /\ ops' = {} /\ ops = {}
          /\ "CAR_ERR" \in events \/ events = {}
       \/ /\ phase = "acmd" /\ phase' = "cmd" /\ ok' /\ ops' = {"cmd"}
       \/ /\ phase = "cmd" /\ "CMD_DONE" \in events /\ "CAR_ERR" \notin events /\ ok'
          /\ rq.buf /\ phase' = "tran" /\ ops' = ops
       \/ /\ phase = "cmd" /\ "CMD_DONE" \in events /\ ok'
          /\ ~rq.buf /\ phase' = "done" /\ ops' = {}
       \/ /\ phase = "tran" /\ ops = {} /\ phase' = "dma" /\ ops' = {"dma"}
       \/ /\ phase = "dma" /\ ops = {} /\ phase' = "done" /\ ok' /\ ops' = {}

LEMMA WaitsEnd ==
    ASSUME Control, Poll \/ TimeOut
    PROVE  WaitEnds
<1> USE DEF Control
<1>1. status = {}
  BY DEF Handshake
<1>2. ASSUME NEW ret \in BOOLEAN, Advance(ret), Waiting,
             events' = {}, UNCHANGED <<soft, ram, response, buffer, wire>>,
             ~ret => ops = {} /\ ("CAR_ERR" \in events \/ events = {}),
             ret => "CAR_ERR" \notin events /\ Flags \subseteq events
      PROVE  WaitEnds
  <2>1. status' = {} /\ ok' = ret
    BY <1>2 DEF Advance
  <2>2. CASE phase = "acmd"
    <3>1. CASE ret
      <4>1. phase' = "cmd"
        BY <1>2, <2>2, <3>1 DEF Advance
      <4>2. ops' = ops \cup {"cmd"}
        BY <1>2, <4>1 DEF Advance
      <4>3. ops \subseteq {"cmd"}
        BY <2>2 DEF Handshake
      <4> QED
        BY <1>2, <2>1, <2>2, <3>1, <4>1, <4>2, <4>3 DEF WaitEnds
    <3>2. CASE ~ret
      <4>1. phase' = "done"
        BY <1>2, <2>2, <3>2 DEF Advance
      <4>2. ops' = ops
        BY <1>2, <4>1 DEF Advance
      <4> QED
        BY <1>2, <2>1, <2>2, <3>2, <4>1, <4>2 DEF WaitEnds
    <3> QED
      BY <3>1, <3>2
  <2>3. CASE phase = "cmd"
    <3>1. CASE ret
      <4>1. phase' = IF rq.buf THEN "tran" ELSE "done"
        BY <1>2, <2>3, <3>1 DEF Advance
      <4>2. ops' = ops
        BY <1>2, <4>1 DEF Advance
      <4>3. "CMD_DONE" \in events
        BY <1>2, <2>3, <3>1 DEF Flags
      <4>4. ~rq.buf => ops = {}
        BY <2>3, <4>3 DEF Handshake
      <4> QED
        BY <1>2, <2>1, <2>3, <3>1, <4>1, <4>2, <4>3, <4>4 DEF WaitEnds
    <3>2. CASE ~ret
      <4>1. phase' = "done"
        BY <1>2, <2>3, <3>2 DEF Advance
      <4>2. ops' = ops
        BY <1>2, <4>1 DEF Advance
      <4> QED
        BY <1>2, <2>1, <2>3, <3>2, <4>1, <4>2 DEF WaitEnds
    <3> QED
      BY <3>1, <3>2
  <2>4. CASE phase = "tran"
    <3>1. phase' = "dma"
      BY <1>2, <2>4 DEF Advance, AfterTransfer
    <3>2. ops' = ops \cup {"dma"}
      BY <1>2, <3>1 DEF Advance
    <3>3. ops = {}
      <4>1. ret => events # {}
        BY <1>2, <2>4 DEF Flags
      <4> QED
        BY <1>2, <2>4, <4>1 DEF Handshake
    <3> QED
      BY <1>2, <2>1, <2>4, <3>1, <3>2, <3>3 DEF WaitEnds
  <2>5. CASE phase = "dma"
    <3>1. phase' = "done"
      BY <1>2, <2>5 DEF Advance
    <3>2. ops' = ops
      BY <1>2, <3>1 DEF Advance
    <3>3. ops = {} /\ ret
      <4>1. ret => events # {}
        BY <1>2, <2>5 DEF Flags
      <4> QED
        BY <1>2, <2>5, <4>1 DEF Handshake
    <3> QED
      BY <1>2, <2>1, <2>5, <3>1, <3>2, <3>3 DEF WaitEnds
  <2> QED
    BY <1>2, <2>2, <2>3, <2>4, <2>5 DEF Waiting
<1>3. CASE TimeOut
  BY <1>2, <1>3 DEF TimeOut
<1>4. CASE Poll
  <2>1. /\ Waiting /\ events # {} /\ events' = {}
        /\ UNCHANGED <<soft, ram, response, buffer, wire>>
        /\ IF "CAR_ERR" \in events THEN Advance(FALSE)
           ELSE IF Flags \subseteq events THEN Advance(TRUE)
           ELSE status' = events /\ UNCHANGED <<phase, ok, ops>>
    BY <1>1, <1>4 DEF Poll
  <2>2. CASE "CAR_ERR" \in events
    <3>1. ops = {}
      BY <2>1, <2>2 DEF Handshake, Waiting
    <3> QED
      BY <1>2, <2>1, <2>2, <3>1
  <2>3. CASE "CAR_ERR" \notin events
    <3>1. Flags \subseteq events
      BY <2>1, <2>3 DEF Handshake, Waiting, Flags
    <3> QED
      BY <1>2, <2>1, <2>3, <3>1
  <2> QED
    BY <2>2, <2>3
<1> QED
  BY <1>3, <1>4

\* What the card does with a command.
LEMMA AnswersAre ==
    ASSUME Control, "cmd" \in ops
    PROVE  /\ phase \in {"acmd", "cmd"} /\ ops = {"cmd"} /\ events = {}
           /\ phase = "acmd" => Answer = "other"
           /\ (phase = "cmd" /\ Responds) => Answer # "none"
           /\ (phase = "cmd" /\ Answer # "none") =>
                 /\ rq.cmd = 8 => Answer = "pattern"
                 /\ rq.cmd = 41 => /\ kind \in SD /\ Answer \in {"busy", "ready", "readyhc"}
                                   /\ Answer = "readyhc" => kind = "SDHC" /\ rq.hc
                                   /\ Answer = "ready" => kind # "SDHC"
                                   /\ Answer = "busy" => busy > 0 \/ (kind = "SDHC" /\ ~rq.hc)
                 /\ rq.cmd = 1  => /\ kind \in {"MMC", "EMMC"} /\ Answer \in {"busy", "ready", "readyhc"}
                                   /\ Answer = "readyhc" => kind = "EMMC"
                                   /\ Answer = "ready" => kind = "MMC"
                                   /\ Answer = "busy" => busy > 0
<1>1. phase \in {"acmd", "cmd"} /\ ops = {"cmd"} /\ events = {}
  BY DEF Control, SdioType, Handshake
<1>2. rq.cmd \in Nat /\ rq.hc \in BOOLEAN
  BY DEF Control, SdioType, Requested
<1>3. phase = "acmd" => Answer = "other"
  BY DEF Answer
<1>4. CASE phase = "cmd" /\ rq.cmd = 0
  BY <1>1, <1>3, <1>4 DEF Answer
<1>5. CASE phase = "cmd" /\ rq.cmd = 8
  <2>1. Answer = IF kind \in Version2 THEN "pattern" ELSE "none"
    BY <1>5 DEF Answer
  <2> QED
    BY <1>1, <1>5, <2>1 DEF Responds
<1>6. CASE phase = "cmd" /\ rq.cmd = 41
  <2>1. Answer = IF kind \notin SD THEN "none"
                 ELSE IF busy > 0 \/ (kind = "SDHC" /\ ~rq.hc) THEN "busy"
                 ELSE IF kind = "SDHC" THEN "readyhc" ELSE "ready"
    BY <1>6 DEF Answer
  <2> QED
    BY <1>1, <1>6, <2>1 DEF Responds
<1>7. CASE phase = "cmd" /\ rq.cmd = 1
  <2>1. Answer = IF kind \notin {"MMC", "EMMC"} THEN "none"
                 ELSE IF busy > 0 THEN "busy" ELSE IF kind = "EMMC" THEN "readyhc" ELSE "ready"
    BY <1>7 DEF Answer
  <2>2. kind = "EMMC" \/ kind = "MMC" \/ Answer = "none"
    BY <2>1
  <2> QED
    BY <1>1, <1>7, <2>1, <2>2 DEF Responds
<1>8. CASE phase = "cmd" /\ rq.cmd \notin {0, 8, 41, 1}
  <2>1. Answer = IF rq.cmd = 6 /\ kind = "MMC" THEN "none"
                 ELSE IF kind = "none" THEN "none" ELSE "other"
    BY <1>8 DEF Answer
  <2> QED
    BY <1>1, <1>8, <2>1 DEF Responds
<1> QED
  BY <1>1, <1>3, <1>4, <1>5, <1>6, <1>7, <1>8

-----------------------------------------------------------------------------
(* The order of the handshake.                                             *)

\* A command begins.
LEMMA SentIsInOrder ==
    ASSUME SdioType, Sent, events' = {}
    PROVE  /\ Handshake' /\ ok' \in BOOLEAN /\ buffer' \in Int /\ rq' \in Requested
           /\ phase' \in {"acmd", "cmd"} /\ phase' # "idle"
  BY DEF Sent, Handshake, SdioType

\* Control goes back to the caller of the driver.
LEMMA BackIsInOrder ==
    ASSUME Control, phase = "done", NEW where \in {"closed", "open"}, Back(where),
           type' \in Type, rd' \in Locals, UNCHANGED wire
    PROVE  Control'
<1>1. /\ at' = where /\ n' = 0 /\ phase' = "idle"
      /\ UNCHANGED <<rq, ops, status, ok, events, response, buffer, ram, kind, busy, faults, torn>>
  BY DEF Back, Go, wire
<1>2. SdioType'
  BY <1>1 DEF Control, SdioType, Places
<1>3. Handshake' /\ Asked'
  BY <1>1 DEF Control, Handshake, Asked
<1> QED
  BY <1>2, <1>3 DEF Control

\* So it is with a command that a place asks for.
LEMMA SentInOrder ==
    ASSUME Control, Sent, events' = {}, at' \in Places \ {"closed", "open"}, n' \in Nat,
           type' \in Type, rd' \in Locals, ram' \in Seq(Int),
           UNCHANGED <<kind, busy, faults>>, torn' \in BOOLEAN,
           Asked'
    PROVE  Control'
<1>1. /\ Handshake' /\ ok' \in BOOLEAN /\ buffer' \in Int /\ rq' \in Requested
      /\ phase' \in {"acmd", "cmd"} /\ phase' # "idle"
  BY SentIsInOrder DEF Control
<1>2. SdioType'
  BY <1>1 DEF Control, SdioType, Places
<1> QED
  BY <1>1, <1>2 DEF Control

\* The locals of sdio_read() when a block has been read.
Counted(r) == [r EXCEPT !.offset = @ + Sector, !.length = r.length - Sector, !.total = @ + Sector]

LEMMA CountedFields ==
    ASSUME NEW r \in Locals, NEW c, c = Counted(r)
    PROVE  /\ c \in Locals
           /\ c.offset = r.offset + Sector /\ c.length = r.length - Sector
           /\ c.total = r.total + Sector
           /\ c.first = r.first /\ c.asked = r.asked /\ c.calls = r.calls
<1>1. PICK o \in Nat, l \in Int, t \in Nat :
          o = r.offset + Sector /\ l = r.length - Sector /\ t = r.total + Sector
  BY Fields, Sizes
<1>2. c = [r EXCEPT !.offset = o, !.length = l, !.total = t]
  BY <1>1 DEF Counted
<1>3. /\ c \in Locals /\ c.offset = o /\ c.length = l /\ c.total = t
      /\ c.first = r.first /\ c.asked = r.asked /\ c.calls = r.calls
  BY <1>2 DEF Locals
<1> QED
  BY <1>1, <1>3

LEMMA DriverInOrder ==
    ASSUME Control, Driver
    PROVE  Control'
<1> USE DEF Control
<1>0. /\ SdioType /\ Asked
      /\ phase = "done" => events = {} /\ ops = {}
      /\ at \in Places /\ n \in Nat /\ type \in Type /\ rd \in Locals /\ ram \in Seq(Int)
      /\ torn \in BOOLEAN
  BY DEF SdioType, Handshake
<1>1. CASE Poll \/ TimeOut
  <2>1. WaitEnds
    BY <1>1, WaitsEnd
  <2>2. UNCHANGED <<at, n, rq, type, rd, ram, response, buffer, kind, busy, faults, torn>>
    BY <2>1 DEF WaitEnds, soft, wire
  <2>3. phase # "idle" /\ phase' \in {"cmd", "tran", "dma", "done"} /\ ok' \in BOOLEAN
    BY <2>1 DEF WaitEnds
  <2>4. SdioType'
    BY <2>2, <2>3 DEF SdioType
  <2>5. Handshake'
    BY <2>1, <2>2 DEF WaitEnds, Handshake
  <2>6. Asked'
    BY <2>2 DEF Asked, Plain, SetupLength
  <2> QED
    BY <2>4, <2>5, <2>6
<1>2. CASE Reset
  <2>0. phase = "done" /\ at = "reset" /\ n \in 1 .. 2
    BY <1>0, <1>2 DEF Reset, Completed, Asked
  <2>1. CASE n = 1
    <3>1. Go("reset", 2) /\ Issue(0) /\ UNCHANGED type /\ SameRead
      BY <1>2, <2>1 DEF Reset
    <3>2. Sent /\ Plain(0)'
      BY <2>0, <3>1, IssueSends
    <3>3. Asked'
      BY <3>1, <3>2 DEF Asked, Go
    <3> QED
      BY <1>0, <2>0, <3>1, <3>2, <3>3, SentInOrder DEF Go, SameRead, wire, Places
  <2>2. CASE n = 2 /\ ok
    <3>1. Go("interface", 1) /\ Issue(8) /\ UNCHANGED type /\ SameRead
      BY <1>2, <2>2 DEF Reset
    <3>2. Sent /\ Plain(8)'
      BY <2>0, <3>1, IssueSends
    <3>3. Asked'
      BY <3>1, <3>2 DEF Asked, Go
    <3> QED
      BY <1>0, <2>0, <3>1, <3>2, <3>3, SentInOrder DEF Go, SameRead, wire, Places
  <2>3. CASE n = 2 /\ ~ok
    BY <1>0, <1>2, <2>0, <2>3, BackIsInOrder DEF Reset, InitFails
  <2> QED
    BY <2>0, <2>1, <2>2, <2>3
<1>3. CASE Interface
  <2>1. /\ phase = "done" /\ type' \in {"UNKNOWN", "OLD"} /\ Go("op", 1) /\ OpCond(type') /\ SameRead
    BY <1>3 DEF Interface, Completed
  <2>2. Sent /\ rq'.cmd = 41 /\ rq'.acmd /\ ~rq'.buf /\ (rq'.hc <=> type' # "OLD")
    BY <2>1, OpCondSends
  <2>3. Asked'
    BY <2>1, <2>2, Sizes DEF Asked, Go
  <2> QED
    BY <1>0, <2>1, <2>2, <2>3, SentInOrder DEF Go, SameRead, wire, Places, Type
<1>4. CASE Op
  <2>0. phase = "done" /\ at = "op" /\ SameRead /\ n \in 1 .. Attempts
    BY <1>0, <1>4 DEF Op, Completed, Asked
  <2>1. CASE /\ Ready
             /\ type' = (IF type = "OLD" THEN type ELSE IF response = "readyhc" THEN "SDHC" ELSE "SDSC")
             /\ Go("setup", 1) /\ Issue(2)
    <3>1. Sent /\ Plain(2)'
      BY <2>0, <2>1, IssueSends
    <3>2. SetupLength' \in {4, 5} /\ SetupCommands[1] = 2
      BY DEF SetupLength, SetupCommands
    <3>3. Asked'
      BY <2>1, <3>1, <3>2 DEF Asked, Go, Plain
    <3>4. type' \in Type
      BY <1>0, <2>1 DEF Type
    <3> QED
      BY <1>0, <2>0, <2>1, <3>1, <3>3, <3>4, SentInOrder DEF Go, SameRead, wire, Places
  <2>2. CASE ~Ready /\ n < Attempts /\ Go("op", n + 1) /\ OpCond(type) /\ UNCHANGED type
    <3>1. Sent /\ rq'.cmd = 41 /\ rq'.acmd /\ ~rq'.buf /\ (rq'.hc <=> type # "OLD")
      BY <2>0, <2>2, OpCondSends
    <3>2. Asked'
      BY <2>0, <2>2, <3>1, Sizes DEF Asked, Go
    <3> QED
      BY <1>0, <2>0, <2>2, <3>1, <3>2, SentInOrder DEF Go, SameRead, wire, Places
  <2>3. CASE /\ ~Ready /\ n = Attempts
             /\ IF type = "OLD" THEN UNCHANGED type ELSE type' \in {"SDSC", "SDHC"}
             /\ Go("rereset", 1) /\ Issue(0)
    <3>1. Sent /\ Plain(0)'
      BY <2>0, <2>3, IssueSends
    <3>2. Asked'
      BY <2>3, <3>1 DEF Asked, Go
    <3>3. type' \in Type
      BY <1>0, <2>3 DEF Type
    <3> QED
      BY <1>0, <2>0, <2>3, <3>1, <3>2, <3>3, SentInOrder DEF Go, SameRead, wire, Places
  <2> QED
    BY <1>4, <2>1, <2>2, <2>3 DEF Op
<1>5. CASE Rereset
  <2>0. phase = "done" /\ at = "rereset" /\ n \in 1 .. 2
    BY <1>0, <1>5 DEF Rereset, Completed, Asked
  <2>1. CASE n = 1
    <3>1. Go("rereset", 2) /\ Issue(0) /\ UNCHANGED type /\ SameRead
      BY <1>5, <2>1 DEF Rereset
    <3>2. Sent /\ Plain(0)'
      BY <2>0, <3>1, IssueSends
    <3>3. Asked'
      BY <3>1, <3>2 DEF Asked, Go
    <3> QED
      BY <1>0, <2>0, <3>1, <3>2, <3>3, SentInOrder DEF Go, SameRead, wire, Places
  <2>2. CASE n = 2 /\ ok
    <3>1. Go("op1", 1) /\ Issue(1) /\ UNCHANGED type /\ SameRead
      BY <1>5, <2>2 DEF Rereset
    <3>2. Sent /\ Plain(1)'
      BY <2>0, <3>1, IssueSends
    <3>3. Asked'
      BY <3>1, <3>2, Sizes DEF Asked, Go
    <3> QED
      BY <1>0, <2>0, <3>1, <3>2, <3>3, SentInOrder DEF Go, SameRead, wire, Places
  <2>3. CASE n = 2 /\ ~ok
    BY <1>0, <1>5, <2>0, <2>3, BackIsInOrder DEF Rereset, InitFails
  <2> QED
    BY <2>0, <2>1, <2>2, <2>3
<1>6. CASE Op1
  <2>0. phase = "done" /\ at = "op1" /\ n \in 1 .. MmcAttempts
    BY <1>0, <1>6 DEF Op1, Completed, Asked
  <2>1. CASE /\ Ready
             /\ type' = (IF response = "readyhc" THEN "EMMC" ELSE "MMC")
             /\ Go("setup", 1) /\ Issue(2) /\ SameRead
    <3>1. Sent /\ Plain(2)'
      BY <2>0, <2>1, IssueSends
    <3>2. SetupLength' \in {4, 5} /\ SetupCommands[1] = 2
      BY DEF SetupLength, SetupCommands
    <3>3. Asked'
      BY <2>1, <3>1, <3>2 DEF Asked, Go, Plain
    <3>4. type' \in Type
      BY <1>0, <2>1 DEF Type
    <3> QED
      BY <1>0, <2>0, <2>1, <3>1, <3>3, <3>4, SentInOrder DEF Go, SameRead, wire, Places
  <2>2. CASE ~Ready /\ n < MmcAttempts /\ Go("op1", Again(n)) /\ Issue(1) /\ UNCHANGED type /\ SameRead
    <3>1. Sent /\ Plain(1)'
      BY <2>0, <2>2, IssueSends
    <3>2. n' = n + 1 /\ n' \in 1 .. MmcAttempts
      BY <2>0, <2>2, Sizes DEF Go, Again
    <3>3. Asked'
      BY <2>2, <3>1, <3>2 DEF Asked, Go
    <3> QED
      BY <1>0, <2>0, <2>2, <3>1, <3>2, <3>3, SentInOrder DEF Go, SameRead, wire, Places
  <2>3. CASE ~Ready /\ n = MmcAttempts /\ InitFails
    BY <1>0, <2>0, <2>3, BackIsInOrder DEF InitFails
  <2> QED
    BY <1>6, <2>1, <2>2, <2>3 DEF Op1
<1>7. CASE Setup
  <2>0. phase = "done" /\ at = "setup" /\ n \in 1 .. SetupLength /\ SetupLength \in {4, 5}
    BY <1>0, <1>7 DEF Setup, Completed, Asked, SetupLength
  <2>1. CASE ok /\ n < SetupLength
    <3>1. /\ Go("setup", n + 1) /\ UNCHANGED type /\ SameRead
          /\ IF n = 4 THEN IssueA(6) ELSE Issue(SetupCommands[n + 1])
      BY <1>7, <2>0, <2>1 DEF Setup
    <3>2. n + 1 \in 1 .. SetupLength /\ n + 1 \in 2 .. 5 /\ SetupLength' = SetupLength
      BY <2>0, <2>1, <3>1 DEF SetupLength
    <3>3. CASE n = 4
      <4>1. Sent /\ rq'.cmd = 6 /\ rq'.acmd /\ ~rq'.buf
        BY <2>0, <3>1, <3>3, IssueASends
      <4>2. Asked'
        BY <3>1, <3>2, <3>3, <4>1 DEF Asked, Go, SetupCommands
      <4> QED
        BY <1>0, <2>0, <3>1, <4>1, <4>2, SentInOrder DEF Go, SameRead, wire, Places
    <3>4. CASE n # 4
      <4>1. PICK c \in Nat : c = SetupCommands[n + 1]
        BY <3>2 DEF SetupCommands
      <4>2. Sent /\ Plain(c)'
        BY <2>0, <3>1, <3>4, <4>1, IssueSends
      <4>3. /\ at' = "setup" /\ n' \in 1 .. SetupLength' /\ n' # 5
            /\ rq'.cmd = SetupCommands[n'] /\ ~rq'.acmd /\ ~rq'.buf
        BY <2>0, <3>1, <3>2, <3>4, <4>1, <4>2 DEF Go, Plain
      <4>4. Asked'
        BY <4>3 DEF Asked, SetupCommands
      <4> QED
        BY <1>0, <2>0, <3>1, <4>2, <4>4, SentInOrder DEF Go, SameRead, wire, Places
    <3> QED
      BY <3>3, <3>4
  <2>2. CASE ok /\ n = SetupLength /\ Back("open") /\ UNCHANGED type /\ SameRead
    BY <1>0, <2>0, <2>2, BackIsInOrder DEF SameRead
  <2>3. CASE ~ok /\ InitFails
    BY <1>0, <2>0, <2>3, BackIsInOrder DEF InitFails
  <2> QED
    BY <1>7, <2>1, <2>2, <2>3 DEF Setup
<1>8. CASE BlockFails \/ Quit
  BY <1>0, <1>8, BackIsInOrder DEF BlockFails, Quit, Completed
<1>9. CASE BlockRead
  <2>1. /\ phase = "done" /\ at = "read" /\ UNCHANGED <<type, wire>>
        /\ rd' = Counted(rd)
        /\ \/ Go("read", 0) /\ ReadBlock(rd'.offset) /\ UNCHANGED <<ram, events>>
           \/ Back("open")
    BY <1>9 DEF BlockRead, Completed, Counted
  <2>2. rd' \in Locals /\ rd'.offset \in Nat
    BY <1>0, <2>1, CountedFields, Fields, Sizes
  <2>3. CASE Go("read", 0) /\ ReadBlock(rd'.offset) /\ UNCHANGED <<ram, events>>
    <3>1. Sent /\ rq'.cmd = 17 /\ ~rq'.acmd /\ rq'.buf
      BY <2>1, <2>2, <2>3, ReadBlockSends
    <3>2. Asked'
      BY <2>3, <3>1 DEF Asked, Go
    <3> QED
      BY <1>0, <2>1, <2>2, <2>3, <3>1, <3>2, SentInOrder DEF Go, wire, Places
  <2>4. CASE Back("open")
    BY <1>0, <2>1, <2>2, <2>4, BackIsInOrder
  <2> QED
    BY <2>1, <2>3, <2>4
<1> QED
  BY <1>1, <1>2, <1>3, <1>4, <1>5, <1>6, <1>7, <1>8, <1>9 DEF Driver

LEMMA NothingRead ==
    /\ NoRead \in Locals /\ NoRead.calls = 0 /\ NoRead.total = 0 /\ NoRead.first = 0
    /\ NoRead.asked = 0
  BY DEF NoRead, Locals

\* What Read does: the offset is a sector's, and the length is trimmed to sectors.
ReadsAt(o, l) ==
    /\ at = "open" /\ phase = "idle" /\ o % Sector = 0 /\ l > 0 /\ l % Sector = 0
    /\ rd' \in Locals
    /\ rd'.offset = o /\ rd'.length = l /\ rd'.total = 0 /\ rd'.first = o /\ rd'.asked = l
    /\ Go("read", 0) /\ ReadBlock(o)
    /\ ram' = << >> /\ ~torn' /\ torn' \in BOOLEAN
    /\ UNCHANGED <<events, type, kind, busy, faults>>

LEMMA ReadDoes ==
    ASSUME SdioType, NEW offset \in Offset, NEW length \in Length, Read(offset, length)
    PROVE  \E o \in Nat, l \in Nat : ReadsAt(o, l)
<1>1. PICK o \in Nat, m \in Nat : o = offset /\ m = length /\ o % Sector = 0 /\ m >= Sector
  BY Sizes DEF Read
<1>2. PICK l \in Nat : l = m - (m % Sector) /\ l > 0 /\ l % Sector = 0
  BY <1>1, Trimmed, Sizes
<1>3. PICK c \in Nat : c = rd.calls + 1
  BY Fields DEF SdioType
<1>4. rd' = [offset |-> o, length |-> l, total |-> 0, first |-> o, asked |-> l, calls |-> c]
  BY <1>1, <1>2, <1>3 DEF Read
<1>5. at = "open" /\ phase = "idle"
  BY DEF Read, SdioType
<1>6. ~torn' /\ torn' \in BOOLEAN
  BY DEF Read
<1>7. rd' \in Locals
  BY <1>4 DEF Locals
<1> QED
  BY <1>1, <1>2, <1>4, <1>5, <1>6, <1>7 DEF Read, ReadsAt

LEMMA CallerInOrder ==
    ASSUME Control, Caller
    PROVE  Control'
<1>1. /\ SdioType /\ Handshake
      /\ n \in Nat /\ type \in Type /\ rd \in Locals /\ ram \in Seq(Int)
  BY DEF Control, SdioType
<1>2. CASE SdInit
  <2>1. /\ phase = "idle" /\ Go("reset", 1) /\ Issue(0) /\ events' = {}
        /\ rd' = NoRead /\ ram' = << >> /\ torn' \in BOOLEAN /\ UNCHANGED <<type, kind, busy, faults>>
    BY <1>1, <1>2 DEF SdInit, SdioType
  <2>2. Sent /\ Plain(0)'
    BY <1>1, <2>1, IssueSends
  <2>3. Asked'
    BY <2>1, <2>2 DEF Asked, Go
  <2> QED
    BY <1>1, <2>1, <2>2, <2>3, SentInOrder, NothingRead DEF Go, Places
<1>3. CASE SdDeinit
  <2>1. /\ phase = "idle" /\ Go("quit", 0) /\ Issue(0) /\ UNCHANGED type /\ SameRead
    BY <1>1, <1>3 DEF SdDeinit, SdioType
  <2>2. Sent /\ Plain(0)'
    BY <1>1, <2>1, IssueSends
  <2>3. Asked'
    BY <2>1, <2>2 DEF Asked, Go
  <2>4. events' = {} /\ torn' \in BOOLEAN
    BY <1>1, <2>1 DEF SameRead, Handshake, SdioType, wire
  <2> QED
    BY <1>1, <2>1, <2>2, <2>3, <2>4, SentInOrder DEF Go, SameRead, wire, Places
<1>4. ASSUME NEW o \in Nat, NEW l \in Nat, ReadsAt(o, l)
      PROVE  Control'
  <2>1. Sent /\ rq'.cmd = 17 /\ ~rq'.acmd /\ rq'.buf
    BY <1>1, <1>4, ReadBlockSends DEF ReadsAt
  <2>2. Asked'
    BY <1>4, <2>1 DEF Asked, Go, ReadsAt
  <2>3. events' = {}
    BY <1>1, <1>4 DEF ReadsAt, Handshake
  <2> QED
    BY <1>1, <1>4, <2>1, <2>2, <2>3, SentInOrder DEF Go, ReadsAt, Places
<1> QED
  BY <1>1, <1>2, <1>3, <1>4, ReadDoes DEF Caller

LEMMA HardwareInOrder ==
    ASSUME Control, Hardware
    PROVE  Control'
<1>0. SdioType /\ Handshake
  BY DEF Control
<1>1. /\ UNCHANGED <<at, n, rq, type, rd, phase, ok, status, kind>>
  BY DEF Hardware, CardAnswers, CardSends, CardFails, DmaEnds, Same, soft
<1>2. Asked'
  BY <1>1 DEF Control, Asked, Plain, SetupLength
<1>3. ASSUME ram' \in Seq(Int), buffer' \in Int, busy' \in 0 .. MaxBusy,
             faults' \in Nat, torn' \in BOOLEAN
      PROVE  SdioType'
  BY <1>0, <1>1, <1>3 DEF SdioType
<1>4. CASE CardAnswers
  <2>1. phase \in {"acmd", "cmd"} /\ ops = {"cmd"} /\ events = {}
    BY <1>4, AnswersAre DEF CardAnswers
  <2>2. /\ busy' \in 0 .. MaxBusy /\ UNCHANGED <<buffer, ram, faults, torn>>
        /\ \/ ops' = {} /\ events' = {}
           \/ /\ ops' = IF phase = "cmd" /\ rq.buf THEN {"data"} ELSE {}
              /\ events' = {"CMD_DONE"}
    <3>1. busy \in 0 .. MaxBusy /\ MaxBusy \in Nat
      BY <1>0, Sizes DEF SdioType
    <3>2. UNCHANGED <<buffer, ram, faults, torn>>
      BY <1>4 DEF CardAnswers
    <3>3. CASE Answer = "none"
      BY <1>4, <2>1, <3>1, <3>2, <3>3 DEF CardAnswers
    <3>4. CASE Answer # "none"
      <4>1. /\ ops' = IF phase = "cmd" /\ rq.buf THEN (ops \ {"cmd"}) \cup {"data"} ELSE ops \ {"cmd"}
            /\ events' = events \cup {"CMD_DONE"}
            /\ busy' = IF Answer = "busy" /\ busy > 0 THEN busy - 1 ELSE busy
        BY <1>4, <3>4 DEF CardAnswers, Raise
      <4>2. busy' \in 0 .. MaxBusy
        BY <3>1, <4>1
      <4> QED
        BY <2>1, <3>2, <4>1, <4>2
    <3> QED
      BY <3>3, <3>4
  <2>3. SdioType'
    BY <1>0, <1>3, <2>2 DEF SdioType
  <2>4. Handshake'
    BY <1>0, <1>1, <2>1, <2>2 DEF Handshake
  <2> QED
    BY <1>2, <2>3, <2>4 DEF Control
<1>5. CASE CardSends
  <2>1. /\ ops = {"data"} /\ phase \in {"cmd", "tran"} /\ ops' = {}
        /\ events' = events \cup {"TRAN_DONE"} /\ buffer' = Addressed
        /\ phase = "cmd" => events = {"CMD_DONE"}
        /\ phase = "tran" => events = {}
        /\ UNCHANGED <<ram, busy, faults, torn>>
    BY <1>0, <1>5 DEF CardSends, Raise, Handshake, SdioType
  <2>2. buffer' \in Int
    <3>1. rq.arg \in Nat
      BY <1>0 DEF SdioType, Requested
    <3> QED
      BY <2>1, <3>1, Sizes DEF Addressed
  <2>3. SdioType'
    BY <1>0, <1>3, <2>1, <2>2 DEF SdioType
  <2>4. Handshake'
    BY <1>0, <1>1, <2>1 DEF Handshake
  <2> QED
    BY <1>2, <2>3, <2>4 DEF Control
<1>6. CASE CardFails
  <2>1. PICK op \in ops \cap {"cmd", "data"}, e \in {{}, {"CAR_ERR"}} :
            ops' = ops \ {op} /\ torn' = (torn \/ op = "data") /\ events' = events \cup e
    BY <1>6 DEF CardFails, Raise
  <2>2. /\ ops = {op} /\ ops' = {} /\ phase \in {"acmd", "cmd", "tran"}
        /\ events' = events \cup e
        /\ op = "cmd" => events = {} /\ phase \in {"acmd", "cmd"}
        /\ op = "data" => (phase = "cmd" /\ events = {"CMD_DONE"}) \/ (phase = "tran" /\ events = {})
    BY <1>0, <2>1 DEF Handshake, SdioType
  <2>3. faults' \in Nat /\ torn' \in BOOLEAN /\ UNCHANGED <<buffer, ram, busy>>
    BY <1>0, <1>6, <2>1 DEF CardFails, SdioType
  <2>4. SdioType'
    BY <1>0, <1>3, <2>3 DEF SdioType
  <2>5. Handshake'
    BY <1>0, <1>1, <2>2 DEF Handshake
  <2> QED
    BY <1>2, <2>4, <2>5 DEF Control
<1>7. CASE DmaEnds
  <2>1. /\ phase = "dma" /\ ops = {"dma"} /\ events = {} /\ ops' = {}
        /\ events' = {"CH1_FINISH", "BUF_FINISH"} /\ ram' = Append(ram, buffer)
        /\ UNCHANGED <<buffer, busy, faults, torn>>
    BY <1>0, <1>7 DEF DmaEnds, Raise, Handshake, SdioType
  <2>2. ram' \in Seq(Int)
    BY <1>0, <2>1 DEF SdioType
  <2>3. SdioType'
    BY <1>0, <1>3, <2>1, <2>2 DEF SdioType
  <2>4. Handshake'
    BY <1>0, <1>1, <2>1 DEF Handshake
  <2> QED
    BY <1>2, <2>3, <2>4 DEF Control
<1> QED
  BY <1>4, <1>5, <1>6, <1>7 DEF Hardware

LEMMA ControlIsInvariant == Spec => []Control
<1>1. Init => Control
  <2> SUFFICES ASSUME Init PROVE Control
    OBVIOUS
  <2>1. NoRequest \in Requested
    BY DEF NoRequest, Requested
  <2>2. SdioType
    <3>1. ok \in BOOLEAN /\ torn \in BOOLEAN
      BY DEF Init
    <3>2. ram \in Seq(Int) /\ buffer \in Int
      BY DEF Init
    <3>3. at \in Places /\ n \in Nat /\ faults \in Nat
      BY DEF Init, Places
    <3>4. rd \in Locals /\ rq \in Requested
      BY <2>1, NothingRead DEF Init
    <3> QED
      BY <3>1, <3>2, <3>3, <3>4 DEF Init, SdioType
  <2>3. Handshake /\ Asked
    BY DEF Init, Handshake, Asked
  <2> QED
    BY <2>2, <2>3 DEF Control
<1>2. Control /\ [Next]_vars => Control'
  <2>1. ASSUME Control, UNCHANGED vars PROVE Control'
    BY <2>1 DEF vars, soft, wire, Control, SdioType, Handshake, Asked, Plain, SetupLength
  <2> QED
    BY <2>1, DriverInOrder, CallerInOrder, HardwareInOrder DEF Next
<1> QED
  BY <1>1, <1>2, PTL DEF Spec

-----------------------------------------------------------------------------
(***************************************************************************)
(* The steps in which the driver gives the controller a command or returns *)
(* to its caller, and what they do to a read.                              *)
(***************************************************************************)
Moves ==
    /\ phase \in {"idle", "done"} /\ events' = {}
    /\ phase' = "idle" \/ (phase' \in {"acmd", "cmd"} /\ ops' = {"cmd"})
    /\ UNCHANGED <<kind, busy, faults>>
    /\ \/ SdInit
       \/ \E o, l \in Nat : ReadsAt(o, l)
       \/ BlockRead
       \/ at' # "read" /\ (at = "read" => ~ok) /\ UNCHANGED <<rd, ram, torn>>

LEMMA RequestMoves ==
    ASSUME Handshake, phase \in {"idle", "done"}, NEW r, Request(r)
    PROVE  phase' \in {"acmd", "cmd"} /\ ops' = {"cmd"}
  BY DEF Request, Handshake

LEMMA DriverMoves ==
    ASSUME Control, Reset \/ Interface \/ Op \/ Rereset \/ Op1 \/ Setup \/ BlockFails \/ Quit
    PROVE  Moves
<1>1. phase = "done" /\ Handshake /\ events = {}
  BY DEF Reset, Interface, Op, Rereset, Op1, Setup, BlockFails, Quit, Completed, Control, Handshake
<1>2. ASSUME NEW where \in Places \ {"read"}, NEW step, Go(where, step), SameRead,
             (\E c : Issue(c)) \/ (\E c : IssueA(c)) \/ (\E t : OpCond(t)),
             at # "read"
      PROVE  Moves
  <2>1. phase' \in {"acmd", "cmd"} /\ ops' = {"cmd"}
    BY <1>1, <1>2, RequestMoves DEF Issue, IssueA, OpCond
  <2> QED
    BY <1>1, <1>2, <2>1 DEF Moves, Go, SameRead, wire
<1>3. ASSUME NEW where \in {"closed", "open"}, Back(where), UNCHANGED <<rd, wire>>, at = "read" => ~ok
      PROVE  Moves
  BY <1>1, <1>3 DEF Moves, Back, Go, wire
<1>4. CASE Reset
  <2>1. CASE InitFails
    BY <1>3, <1>4, <2>1 DEF InitFails, Reset, Completed
  <2>2. CASE Go("reset", 2) /\ Issue(0) /\ SameRead
    BY <1>2, <1>4, <2>2 DEF Places, Reset, Completed
  <2>3. CASE Go("interface", 1) /\ Issue(8) /\ SameRead
    BY <1>2, <1>4, <2>3 DEF Places, Reset, Completed
  <2> QED
    BY <1>4, <2>1, <2>2, <2>3 DEF Reset
<1>5. CASE Interface
  <2>1. at # "read" /\ Go("op", 1) /\ OpCond(type') /\ SameRead
    BY <1>5 DEF Interface, Completed
  <2> QED
    BY <1>2, <2>1 DEF Places
<1>6. CASE Op
  <2>1. at # "read" /\ SameRead
    BY <1>6 DEF Op, Completed
  <2>2. CASE Go("setup", 1) /\ Issue(2)
    BY <1>2, <2>1, <2>2 DEF Places
  <2>3. CASE Go("op", n + 1) /\ OpCond(type)
    BY <1>2, <2>1, <2>3 DEF Places
  <2>4. CASE Go("rereset", 1) /\ Issue(0)
    BY <1>2, <2>1, <2>4 DEF Places
  <2> QED
    BY <1>6, <2>2, <2>3, <2>4 DEF Op
<1>7. CASE Rereset
  <2>1. CASE InitFails
    BY <1>3, <1>7, <2>1 DEF InitFails, Rereset, Completed
  <2>2. CASE Go("rereset", 2) /\ Issue(0) /\ SameRead
    BY <1>2, <1>7, <2>2 DEF Places, Rereset, Completed
  <2>3. CASE Go("op1", 1) /\ Issue(1) /\ SameRead
    BY <1>2, <1>7, <2>3 DEF Places, Rereset, Completed
  <2> QED
    BY <1>7, <2>1, <2>2, <2>3 DEF Rereset
<1>8. CASE Op1
  <2>1. CASE InitFails
    BY <1>3, <1>8, <2>1 DEF InitFails, Op1, Completed
  <2>2. CASE Go("setup", 1) /\ Issue(2) /\ SameRead
    BY <1>2, <1>8, <2>2 DEF Places, Op1, Completed
  <2>3. CASE Go("op1", Again(n)) /\ Issue(1) /\ SameRead
    BY <1>2, <1>8, <2>3 DEF Places, Op1, Completed
  <2> QED
    BY <1>8, <2>1, <2>2, <2>3 DEF Op1
<1>9. CASE Setup
  <2>1. CASE InitFails
    BY <1>3, <1>9, <2>1 DEF InitFails, Setup, Completed
  <2>2. CASE /\ Go("setup", n + 1) /\ SameRead
             /\ IF n = 4 THEN IssueA(6) ELSE Issue(SetupCommands[n + 1])
    BY <1>2, <1>9, <2>2 DEF Places, Setup, Completed
  <2>3. CASE Back("open") /\ SameRead
    BY <1>3, <1>9, <2>3 DEF Setup, Completed, SameRead
  <2> QED
    BY <1>9, <2>1, <2>2, <2>3 DEF Setup
<1>10. CASE BlockFails \/ Quit
  BY <1>3, <1>10 DEF BlockFails, Quit, Completed
<1> QED
  BY <1>4, <1>5, <1>6, <1>7, <1>8, <1>9, <1>10

LEMMA StepKinds ==
    ASSUME Control, [Next]_vars
    PROVE  WaitEnds \/ Moves \/ Hardware \/ UNCHANGED vars
<1>1. SdioType /\ Handshake
  BY DEF Control
<1>2. CASE Poll \/ TimeOut
  BY <1>2, WaitsEnd
<1>3. CASE BlockRead
  <2>1. phase = "done" /\ events = {} /\ UNCHANGED <<kind, busy, faults>>
    BY <1>1, <1>3 DEF BlockRead, Completed, Handshake, wire
  <2>2. CASE ReadBlock(rd'.offset) /\ UNCHANGED events
    BY <1>1, <1>3, <2>1, <2>2, RequestMoves DEF ReadBlock, Moves
  <2>3. CASE Back("open")
    BY <1>3, <2>1, <2>3 DEF Back, Moves
  <2> QED
    BY <1>3, <2>2, <2>3 DEF BlockRead
<1>4. CASE SdInit
  <2>1. phase = "idle" /\ Request([NoRequest EXCEPT !.cmd = 0])
    BY <1>1, <1>4 DEF SdInit, SdioType, Issue
  <2> QED
    BY <1>1, <1>4, <2>1, RequestMoves DEF SdInit, Moves
<1>5. CASE SdDeinit
  <2>1. phase = "idle" /\ Request([NoRequest EXCEPT !.cmd = 0]) /\ events = {} /\ events' = {}
    BY <1>1, <1>5 DEF SdDeinit, SdioType, Issue, Handshake, SameRead
  <2>2. at' # "read" /\ at # "read" /\ UNCHANGED <<rd, ram, torn, kind, busy, faults>>
    BY <1>5 DEF SdDeinit, Go, SameRead, wire
  <2> QED
    BY <1>1, <2>1, <2>2, RequestMoves DEF Moves
<1>6. ASSUME NEW o \in Offset, NEW l \in Length, Read(o, l)
      PROVE  Moves
  <2>1. PICK a \in Nat, b \in Nat : ReadsAt(a, b)
    BY <1>1, <1>6, ReadDoes
  <2>2. phase = "idle" /\ events = {} /\ events' = {} /\ UNCHANGED <<kind, busy, faults>> /\ ReadBlock(a)
    BY <1>1, <2>1 DEF ReadsAt, Handshake
  <2>3. phase' \in {"acmd", "cmd"} /\ ops' = {"cmd"}
    BY <1>1, <2>2, RequestMoves DEF ReadBlock
  <2> QED
    BY <2>1, <2>2, <2>3 DEF Moves
<1> QED
  BY <1>2, <1>3, <1>4, <1>5, <1>6, DriverMoves DEF Next, Driver, Caller

-----------------------------------------------------------------------------
(* What is known of the card.                                              *)

LEMMA SaysIsInductive ==
    ASSUME Control, Control', Says, [Next]_vars
    PROVE  Says'
<1>1. CASE WaitEnds
  <2>1. UNCHANGED <<rq, response, kind>>
    BY <1>1 DEF WaitEnds, soft, wire
  <2>2. Answered' => Answered
    BY <1>1 DEF WaitEnds, Answered
  <2> QED
    BY <2>1, <2>2 DEF Says
<1>2. CASE Moves
  <2>1. ~Answered'
    BY <1>2 DEF Moves, Answered
  <2> QED
    BY <2>1 DEF Says
<1>3. CASE Hardware
  <2>1. UNCHANGED <<rq, phase, ok, kind>>
    BY <1>3 DEF Hardware, CardAnswers, CardSends, CardFails, DmaEnds, Same, soft
  <2>2. CASE CardAnswers /\ phase = "cmd" /\ Answer # "none"
    <3>1. response' = Answer
      BY <2>2 DEF CardAnswers
    <3>2. "cmd" \in ops
      BY <2>2 DEF CardAnswers
    <3> QED
      BY <2>1, <2>2, <3>1, <3>2, AnswersAre DEF Says
  <2>3. CASE CardAnswers /\ ~(phase = "cmd" /\ Answer # "none")
    <3>1. phase \in {"acmd", "cmd"} /\ events = {}
      BY <2>3, AnswersAre DEF CardAnswers
    <3>2. ~Answered'
      BY <2>1, <2>3, <3>1 DEF CardAnswers, Answered
    <3> QED
      BY <3>2 DEF Says
  <2>4. CASE CardSends \/ CardFails \/ DmaEnds
    <3>1. response' = response
      BY <2>4 DEF CardSends, CardFails, DmaEnds
    <3>2. ("CMD_DONE" \in events') => "CMD_DONE" \in events
      BY <2>4 DEF CardSends, CardFails, DmaEnds, Raise
    <3>3. Answered' => Answered
      BY <2>1, <3>2 DEF Answered
    <3> QED
      BY <2>1, <3>1, <3>3 DEF Says
  <2> QED
    BY <1>3, <2>2, <2>3, <2>4 DEF Hardware
<1>4. CASE UNCHANGED vars
  BY <1>4 DEF vars, soft, wire, Says, Answered
<1> QED
  BY <1>1, <1>2, <1>3, <1>4, StepKinds

LEMMA FitsIsInductive ==
    ASSUME Control, Says, Fits, [Next]_vars
    PROVE  Fits'
<1>0. kind' = kind
  BY StepKinds DEF WaitEnds, Moves, wire, Hardware, CardAnswers, CardSends, CardFails, DmaEnds, Same, vars
<1> DEFINE Later == {"setup", "open", "read", "quit"}
<1>1. CASE at' \notin Later
  BY <1>1 DEF Fits
<1>2. CASE at \in Later /\ type' = type
  BY <1>0, <1>2 DEF Fits
<1>3. CASE Op
  <2>1. /\ phase = "done" /\ at = "op" /\ rq.cmd = 41 /\ (rq.hc <=> type # "OLD")
    BY <1>3 DEF Op, Completed, Control, Asked
  <2>2. CASE Ready
    <3>1. Answered
      BY <2>1, <2>2 DEF Answered, Ready
    <3>2. /\ kind \in SD /\ response \in {"ready", "readyhc"}
          /\ response = "readyhc" => kind = "SDHC" /\ rq.hc
          /\ response = "ready" => kind # "SDHC"
      BY <2>1, <2>2, <3>1 DEF Says, Ready
    <3>3. type' = IF type = "OLD" THEN type ELSE IF response = "readyhc" THEN "SDHC" ELSE "SDSC"
      BY <1>3, <2>2 DEF Op
    <3> QED
      BY <1>0, <2>1, <3>2, <3>3 DEF Fits, SD, Version2
  <2>3. CASE ~Ready
    BY <1>1, <1>3, <2>3 DEF Op, Go
  <2> QED
    BY <2>2, <2>3
<1>4. CASE Op1
  <2>1. /\ phase = "done" /\ at = "op1" /\ rq.cmd = 1
    BY <1>4 DEF Op1, Completed, Control, Asked, Plain
  <2>2. CASE Ready
    <3>1. Answered
      BY <2>1, <2>2 DEF Answered, Ready
    <3>2. /\ kind \in {"MMC", "EMMC"} /\ response \in {"ready", "readyhc"}
          /\ response = "readyhc" => kind = "EMMC"
          /\ response = "ready" => kind = "MMC"
      BY <2>1, <2>2, <3>1 DEF Says, Ready
    <3>3. type' = IF response = "readyhc" THEN "EMMC" ELSE "MMC"
      BY <1>4, <2>2 DEF Op1
    <3> QED
      BY <1>0, <3>2, <3>3 DEF Fits
  <2>3. CASE ~Ready
    BY <1>1, <1>4, <2>3 DEF Op1, Go, InitFails, Back
  <2> QED
    BY <2>2, <2>3
<1>5. CASE Reset \/ Interface \/ Rereset
  <2>1. at' \notin Later
    BY <1>5 DEF Reset, Interface, Rereset, Go, InitFails, Back
  <2> QED
    BY <1>1, <2>1
<1>6. CASE Setup \/ BlockRead \/ BlockFails \/ Quit \/ SdDeinit
  BY <1>1, <1>2, <1>6 DEF Setup, BlockRead, BlockFails, Quit, SdDeinit, Completed, InitFails, Back, Go
<1>7. CASE SdInit
  BY <1>1, <1>7 DEF SdInit, Go
<1>8. CASE \E o \in Offset, l \in Length : Read(o, l)
  BY <1>2, <1>8 DEF Read
<1>9. CASE Poll \/ TimeOut \/ Hardware \/ UNCHANGED vars
  <2>1. at' = at /\ type' = type
    BY <1>9 DEF Poll, TimeOut, Hardware, CardAnswers, CardSends, CardFails, DmaEnds, Same, vars, soft
  <2> QED
    BY <1>0, <2>1 DEF Fits
<1> QED
  BY <1>3, <1>4, <1>5, <1>6, <1>7, <1>8, <1>9 DEF Next, Driver, Caller

LEMMA CardIsKnown == Spec => [](Says /\ Fits)
<1>1. Init => Says /\ Fits
  BY DEF Init, Says, Fits, Answered
<1>2. Control /\ Control' /\ Says /\ Fits /\ [Next]_vars => (Says /\ Fits)'
  BY SaysIsInductive, FitsIsInductive
<1> QED
  BY <1>1, <1>2, ControlIsInvariant, PTL DEF Spec

-----------------------------------------------------------------------------
(* What has been copied.                                                   *)

\* Only sdio_read() has a block transferred.
Transfers == phase \in {"tran", "dma"} => at = "read"

LEMMA TransfersIsInductive ==
    ASSUME Control, Transfers, [Next]_vars
    PROVE  Transfers'
<1>0. SdioType /\ Asked
  BY DEF Control
<1>1. CASE WaitEnds
  <2>1. at' = at /\ rq' = rq
    BY <1>1 DEF WaitEnds, soft
  <2>2. phase' \in {"tran", "dma"} => phase = "tran" \/ rq.buf
    BY <1>1 DEF WaitEnds
  <2>3. phase # "idle"
    BY <1>1 DEF WaitEnds
  <2>4. rq.buf => at = "read"
    BY <1>0, <2>3 DEF Asked, Plain, SdioType, Places
  <2> QED
    BY <2>1, <2>2, <2>4 DEF Transfers
<1>2. CASE Moves
  BY <1>2 DEF Moves, Transfers
<1>3. CASE Hardware \/ UNCHANGED vars
  BY <1>3 DEF Hardware, CardAnswers, CardSends, CardFails, DmaEnds, Same, soft, vars, Transfers
<1> QED
  BY <1>1, <1>2, <1>3, StepKinds

LEMMA SectorsAdd ==
    ASSUME NEW a \in Nat, NEW b \in Nat, NEW c, c = a + b, a % Sector = 0, b % Sector = 0
    PROVE  Sectors(c) = Sectors(a) + Sectors(b)
<1>1. PICK m \in Nat \ {0} : m = Sector
  BY Sizes
<1>2. a % m = 0 /\ b % m = 0
  BY <1>1
<1>3. (a + b) \div m = (a \div m) + (b \div m)
  BY <1>2, MultiplesAdd
<1> QED
  BY <1>1, <1>3 DEF Sectors

LEMMA CountingIsInductive ==
    ASSUME Control, Says, Fits, Fits', Counting, [Next]_vars
    PROVE  Counting'
<1>0. /\ SdioType /\ Handshake /\ rd \in Locals
      /\ rd.first \in Nat /\ rd.total \in Nat /\ rd.length \in Int /\ Sector \in Nat \ {0}
  BY Sizes, Fields DEF Control, SdioType
<1>1. ASSUME UNCHANGED <<rd, rq, at, kind>> PROVE Counting'
  BY <1>1 DEF Counting, Addressed, Sectors
<1>2. ASSUME NEW o \in Nat, ReadBlock(o), at' = "read", phase \in {"idle", "done"},
             type' = type, kind' = kind
      PROVE  Addressed' = Sectors(o)
  <2>1. rq'.arg = IF type \in {"SDHC", "EMMC"} THEN Sectors(o) ELSE o
    BY <1>0, <1>2, ReadBlockSends
  <2>2. type \in {"SDHC", "EMMC"} <=> kind \in {"SDHC", "EMMC"}
    BY <1>2 DEF Fits
  <2> QED
    BY <1>2, <2>1, <2>2 DEF Addressed, Sectors
<1>3. CASE WaitEnds \/ UNCHANGED vars
  BY <1>1, <1>3 DEF WaitEnds, vars, soft, wire
<1>4. CASE Hardware
  BY <1>1, <1>4 DEF Hardware, CardAnswers, CardSends, CardFails, DmaEnds, Same, soft
<1>5. CASE Moves
  <2>1. CASE SdInit
    <3>1. rd' = NoRead /\ at' # "read"
      BY <2>1 DEF SdInit, Go
    <3>2. 0 % Sector = 0
      BY <1>0
    <3> QED
      BY <3>1, <3>2, NothingRead DEF Counting
  <2>2. ASSUME NEW o \in Nat, NEW l \in Nat, ReadsAt(o, l)
        PROVE  Counting'
    <3>1. /\ rd'.first = o /\ rd'.total = 0 /\ rd'.offset = o /\ rd'.length = l /\ rd'.asked = l
          /\ o % Sector = 0 /\ l > 0 /\ l % Sector = 0 /\ at' = "read"
      BY <2>2 DEF ReadsAt, Go
    <3>2. 0 % Sector = 0 /\ Sectors(0) = 0 /\ Sectors(o) \in Nat
      BY <1>0 DEF Sectors
    <3>3. Addressed' = Sectors(o)
      BY <1>2, <2>2, <3>1 DEF ReadsAt
    <3> QED
      BY <3>1, <3>2, <3>3 DEF Counting, Sectors
  <2>3. CASE BlockRead
    <3>1. /\ at = "read" /\ phase = "done" /\ rd' = Counted(rd) /\ type' = type /\ kind' = kind
          /\ rd.length - Sector >= 0
      <4>1. at = "read" /\ phase = "done" /\ rd' = Counted(rd) /\ type' = type /\ kind' = kind
        BY <2>3 DEF BlockRead, Completed, Counted, wire
      <4>2. rd.length - Sector > 0 \/ rd.length - Sector = 0
        BY <2>3 DEF BlockRead
      <4> QED
        BY <1>0, <4>1, <4>2
    <3>2. /\ rd'.offset = rd.offset + Sector /\ rd'.length = rd.length - Sector
          /\ rd'.total = rd.total + Sector
          /\ rd'.first = rd.first /\ rd'.asked = rd.asked
      BY <1>0, <3>1, CountedFields
    <3>3. /\ rd.offset = rd.first + rd.total /\ rd.asked = rd.total + rd.length
          /\ rd.first % Sector = 0 /\ rd.total % Sector = 0
          /\ rd.length % Sector = 0 /\ rd.length > 0
      BY <3>1 DEF Counting
    <3>4. PICK f \in Nat, t \in Nat, l \in Nat :
              f = rd.first /\ t = rd.total + Sector /\ l = rd.length
      BY <1>0, <3>3
    <3>5. t % Sector = 0
      <4>1. Sector % Sector = 0 /\ Sector \in Nat
        BY <1>0
      <4> QED
        BY <1>0, <3>3, <3>4, <4>1, MultiplesAdd
    <3>6. (l - Sector) % Sector = 0
      BY <1>0, <3>3, <3>4, MultipleBefore
    <3>7. rd'.offset = rd'.first + rd'.total /\ rd'.asked = rd'.total + rd'.length
      BY <1>0, <3>2, <3>3, <3>4
    <3>8. rd'.total % Sector = 0 /\ rd'.first % Sector = 0 /\ rd'.length % Sector = 0
      BY <3>2, <3>3, <3>4, <3>5, <3>6
    <3>9. CASE rd.length - Sector > 0 /\ Go("read", 0) /\ ReadBlock(rd'.offset)
      <4>1. at' = "read" /\ rd'.length > 0
        BY <3>2, <3>9 DEF Go
      <4>2. PICK o \in Nat : o = rd'.offset /\ o = f + t
        BY <3>2, <3>4, <3>7
      <4>3. Addressed' = Sectors(o)
        BY <1>2, <3>1, <3>9, <4>1, <4>2
      <4>4. Sectors(o) = Sectors(f) + Sectors(t)
        BY <3>3, <3>4, <3>5, <4>2, SectorsAdd
      <4>5. Addressed' = Sectors(rd'.first) + Sectors(rd'.total)
        BY <3>2, <3>4, <4>3, <4>4
      <4> QED
        BY <3>7, <3>8, <4>1, <4>5 DEF Counting, Sectors
    <3>10. CASE Back("open")
      <4>1. at' # "read"
        BY <3>10 DEF Back, Go
      <4> QED
        BY <3>8, <4>1 DEF Counting
    <3> QED
      BY <2>3, <3>9, <3>10 DEF BlockRead
  <2>4. CASE at' # "read" /\ UNCHANGED rd
    BY <2>4 DEF Counting
  <2> QED
    BY <1>5, <2>1, <2>2, <2>3, <2>4 DEF Moves
<1> QED
  BY <1>3, <1>4, <1>5, StepKinds

LEMMA StoredIsInductive ==
    ASSUME Control, Transfers, Counting, Counting', ~torn => Stored /\ Buffered, ~torn', [Next]_vars
    PROVE  Stored' /\ Buffered'
<1>0. /\ SdioType /\ Handshake /\ Asked /\ rd \in Locals /\ ram \in Seq(Int) /\ buffer \in Int
      /\ rd.first \in Nat /\ rd.total \in Nat /\ Sector \in Nat \ {0}
      /\ Sectors(rd.first) \in Nat /\ Sectors(rd.total) \in Nat /\ Len(ram) \in Nat
  BY Sizes, Fields DEF Control, SdioType, Sectors
<1>1. CASE UNCHANGED vars
  BY <1>1 DEF vars, soft, wire, Stored, Buffered, InMemory, Sectors, Addressed
<1>2. CASE WaitEnds
  <2>1. UNCHANGED <<at, rq, rd, ram, buffer, kind, torn>> /\ events' = {}
    BY <1>2 DEF WaitEnds, soft, wire
  <2>2. Stored /\ Buffered
    BY <2>1
  <2>3. InMemory' <=> InMemory
    <3>1. CASE at # "read"
      BY <2>1, <3>1 DEF InMemory
    <3>2. CASE at = "read"
      <4>1. rq.buf /\ ~rq.acmd
        BY <1>0, <3>2 DEF Asked
      <4> QED
        BY <1>2, <2>1, <3>2, <4>1 DEF WaitEnds, InMemory
    <3> QED
      BY <3>1, <3>2
  <2>4. Stored'
    BY <2>1, <2>2, <2>3 DEF Stored, Sectors
  <2>5. Buffered'
    <3>1. SUFFICES ASSUME at = "read"
                   PROVE  /\ phase' = "tran" => ("data" \in ops' \/ buffer = Addressed)
                          /\ phase' = "dma" => buffer = Addressed
      BY <2>1 DEF Buffered, Addressed
    <3>2. /\ phase' = "tran" => phase = "cmd" /\ "CMD_DONE" \in events /\ ops' = ops
          /\ phase' = "dma" => phase = "tran" /\ ops = {}
      BY <1>2 DEF WaitEnds
    <3> QED
      BY <2>2, <3>1, <3>2 DEF Buffered
  <2> QED
    BY <2>4, <2>5
<1>3. CASE Hardware
  <2>1. UNCHANGED <<at, rq, rd, phase, ok, kind>>
    BY <1>3 DEF Hardware, CardAnswers, CardSends, CardFails, DmaEnds, Same, soft
  <2>2. CASE CardAnswers
    <3>1. /\ ops = {"cmd"} /\ events = {} /\ phase \in {"acmd", "cmd"}
          /\ UNCHANGED <<buffer, ram, torn>>
      BY <2>2, AnswersAre DEF CardAnswers
    <3>2. Stored /\ ~InMemory /\ ~InMemory'
      BY <2>1, <3>1 DEF InMemory
    <3>3. Stored'
      BY <2>1, <3>1, <3>2 DEF Stored, Sectors
    <3>4. (phase' = "cmd" /\ "CMD_DONE" \in events' /\ at' = "read") => "data" \in ops'
      <4>1. at = "read" => rq.buf
        BY <1>0 DEF Asked
      <4>2. CASE Answer = "none"
        BY <2>2, <3>1, <4>2 DEF CardAnswers
      <4>3. CASE Answer # "none"
        BY <2>1, <2>2, <4>1, <4>3 DEF CardAnswers
      <4> QED
        BY <4>2, <4>3
    <3> QED
      BY <2>1, <3>1, <3>3, <3>4 DEF Buffered
  <2>3. CASE CardSends
    <3>1. /\ ops = {"data"} /\ phase \in {"cmd", "tran"}
          /\ UNCHANGED <<ram, torn>> /\ buffer' = Addressed
      BY <1>0, <2>3 DEF CardSends, Handshake, SdioType
    <3>2. Stored /\ ~InMemory /\ ~InMemory'
      BY <2>1, <3>1 DEF InMemory
    <3>3. Stored'
      BY <2>1, <3>1, <3>2 DEF Stored, Sectors
    <3>4. buffer' = Addressed'
      BY <2>1, <3>1 DEF Addressed
    <3> QED
      BY <3>3, <3>4 DEF Buffered
  <2>4. CASE CardFails
    <3>1. PICK op \in ops \cap {"cmd", "data"}, e \in {{}, {"CAR_ERR"}} :
              ops' = ops \ {op} /\ torn' = (torn \/ op = "data") /\ events' = events \cup e
      BY <2>4 DEF CardFails, Raise
    <3>2. op = "cmd" /\ ~torn /\ UNCHANGED <<buffer, ram>>
      BY <2>4, <3>1 DEF CardFails
    <3>3. phase \in {"acmd", "cmd"} /\ ops = {"cmd"} /\ events = {}
      BY <1>0, <3>1, <3>2 DEF Handshake, SdioType
    <3>4. Stored /\ ~InMemory /\ ~InMemory'
      BY <2>1, <3>2, <3>3 DEF InMemory
    <3>5. Stored'
      BY <2>1, <3>2, <3>4 DEF Stored, Sectors
    <3> QED
      BY <2>1, <3>1, <3>3, <3>5 DEF Buffered
  <2>5. CASE DmaEnds
    <3>1. /\ phase = "dma" /\ ops = {"dma"} /\ ops' = {} /\ ram' = Append(ram, buffer)
          /\ UNCHANGED <<buffer, torn>>
      BY <1>0, <2>5 DEF DmaEnds, Handshake, SdioType
    <3>2. Stored /\ Buffered /\ ~InMemory
      BY <3>1 DEF InMemory
    <3>3. at = "read"
      BY <3>1 DEF Transfers
    <3>4. buffer = Sectors(rd.first) + Sectors(rd.total) /\ buffer' = Addressed'
      BY <2>1, <3>1, <3>2, <3>3 DEF Counting, Buffered, Addressed
    <3>5. /\ Len(ram') = Len(ram) + 1
          /\ \A i \in 1 .. Len(ram) : ram'[i] = ram[i]
          /\ ram'[Len(ram) + 1] = buffer
      BY <1>0, <3>1, AppendProperties
    <3>6. Len(ram) = Sectors(rd.total)
      BY <1>0, <3>2 DEF Stored
    <3>7. ASSUME NEW i \in 1 .. Len(ram')
          PROVE  ram'[i] = Sectors(rd.first) + i - 1
      <4>1. CASE i \in 1 .. Len(ram)
        BY <3>2, <3>5, <4>1 DEF Stored
      <4>2. CASE i = Len(ram) + 1
        BY <1>0, <3>4, <3>5, <3>6, <4>2
      <4> QED
        BY <1>0, <3>5, <4>1, <4>2
    <3>8. InMemory'
      BY <2>1, <3>1, <3>3 DEF InMemory
    <3>9. Stored'
      BY <2>1, <3>5, <3>6, <3>7, <3>8 DEF Stored, Sectors
    <3> QED
      BY <3>4, <3>9 DEF Buffered
  <2> QED
    BY <1>3, <2>2, <2>3, <2>4, <2>5 DEF Hardware
<1>4. CASE Moves
  <2>0. phase' \in {"idle", "acmd", "cmd"} /\ events' = {}
    BY <1>4 DEF Moves
  <2>1. ~InMemory' /\ Buffered'
    BY <2>0 DEF InMemory, Buffered
  <2>2. ASSUME ram' = << >>, rd'.total = 0
        PROVE  Stored'
    <3>1. Sectors(0) = 0
      BY <1>0 DEF Sectors
    <3>2. Len(ram') = 0
      BY <2>2
    <3> QED
      BY <2>1, <2>2, <3>1, <3>2 DEF Stored, Sectors
  <2>3. CASE SdInit
    BY <2>1, <2>2, <2>3, NothingRead DEF SdInit
  <2>4. CASE \E o, l \in Nat : ReadsAt(o, l)
    BY <2>1, <2>2, <2>4 DEF ReadsAt
  <2>5. CASE BlockRead
    <3>1. /\ at = "read" /\ phase = "done" /\ ok /\ rd' = Counted(rd)
          /\ ram' = ram /\ torn' = torn
      BY <2>5 DEF BlockRead, Completed, Counted, Back, wire
    <3>2. rd'.total = rd.total + Sector /\ rd'.first = rd.first
      BY <1>0, <3>1, CountedFields
    <3>3. Stored /\ InMemory
      BY <3>1 DEF InMemory
    <3>4. Sectors(rd'.total) = Sectors(rd.total) + 1
      <4>1. PICK t \in Nat : t = rd.total /\ t % Sector = 0
        BY <1>0 DEF Counting
      <4>2. Sector % Sector = 0 /\ Sector \div Sector = 1 /\ Sector \in Nat
        <5>1. PICK s \in Nat \ {0} : s = Sector
          BY <1>0
        <5>2. (s * 1 + 0) \div s = 1 /\ (s * 1 + 0) % s = 0
          BY DivUnique, ModUnique
        <5> QED
          BY <5>1, <5>2
      <4>3. Sectors(rd'.total) = Sectors(t) + Sectors(Sector)
        BY <3>2, <4>1, <4>2, SectorsAdd
      <4> QED
        BY <4>1, <4>2, <4>3 DEF Sectors
    <3>5. Stored'
      BY <1>0, <2>1, <3>1, <3>2, <3>3, <3>4 DEF Stored, Sectors
    <3> QED
      BY <2>1, <3>5
  <2>6. CASE at' # "read" /\ (at = "read" => ~ok) /\ UNCHANGED <<rd, ram, torn>>
    <3>1. Stored /\ ~InMemory
      BY <1>4, <2>6 DEF InMemory, Moves
    <3> QED
      BY <2>1, <2>6, <3>1 DEF Stored, Sectors
  <2> QED
    BY <1>4, <2>3, <2>4, <2>5, <2>6 DEF Moves
<1> QED
  BY <1>1, <1>2, <1>3, <1>4, StepKinds

LEMMA CopiedIsInvariant == Spec => [](Transfers /\ Copied)
<1>1. Init => Transfers /\ Copied
  <2> SUFFICES ASSUME Init PROVE Transfers /\ Copied
    OBVIOUS
  <2>1. at = "closed" /\ phase = "idle" /\ ram = << >> /\ rd = NoRead
    BY DEF Init
  <2>2. 0 % Sector = 0 /\ Sectors(0) = 0 /\ Len(ram) = 0
    BY <2>1, Sizes DEF Sectors
  <2> QED
    BY <2>1, <2>2, NothingRead DEF Transfers, Copied, Counting, Stored, Buffered, InMemory, Sectors
<1>2. Control /\ Says /\ Fits /\ Fits' /\ Transfers /\ Copied /\ [Next]_vars => (Transfers /\ Copied)'
  BY TransfersIsInductive, CountingIsInductive, StoredIsInductive DEF Copied
<1> QED
  BY <1>1, <1>2, ControlIsInvariant, CardIsKnown, PTL DEF Spec

\* Every sector that sdio_read() counts is the one that was asked for, unless a data
\* transfer of this read has failed.
THEOREM ReadSectorsAreTheCards == Spec => []CountedSectorsAreTheCards
<1>1. Control /\ Copied => CountedSectorsAreTheCards
  <2> SUFFICES ASSUME Control, Copied, ~torn
               PROVE  /\ Len(ram) >= Sectors(rd.total)
                      /\ \A i \in 1 .. Sectors(rd.total) : ram[i] = Sectors(rd.first) + i - 1
    BY DEF CountedSectorsAreTheCards, Sectors
  <2>1. ram \in Seq(Int) /\ Len(ram) \in Nat /\ Stored
    BY DEF Control, SdioType, Copied
  <2>2. Sectors(rd.total) \in Nat
    BY Sizes, Fields DEF Control, SdioType, Sectors
  <2>3. Len(ram) >= Sectors(rd.total)
    BY <2>1, <2>2 DEF Stored
  <2> QED
    BY <2>1, <2>2, <2>3 DEF Stored
<1> QED
  BY <1>1, ControlIsInvariant, CopiedIsInvariant, PTL

-----------------------------------------------------------------------------
(* A card that has not failed.                                             *)

LEMMA FaultsStay ==
    ASSUME Control, [Next]_vars, faults' = 0
    PROVE  faults = 0 /\ kind' = kind /\ ~CardFails
<1>1. faults \in Nat
  BY DEF Control, SdioType
<1>2. CASE CardFails
  BY <1>1, <1>2 DEF CardFails
<1>3. CASE WaitEnds \/ Moves \/ UNCHANGED vars
  <2>1. faults = 0 /\ kind' = kind
    BY <1>3 DEF WaitEnds, Moves, wire, vars
  <2>2. ~CardFails
    BY <1>1, <2>1 DEF CardFails
  <2> QED
    BY <2>1, <2>2
<1>4. CASE CardAnswers \/ CardSends \/ DmaEnds
  <2>1. faults = 0 /\ kind' = kind
    BY <1>4 DEF CardAnswers, CardSends, DmaEnds, Same
  <2>2. ~CardFails
    BY <1>1, <2>1 DEF CardFails
  <2> QED
    BY <2>1, <2>2
<1> QED
  BY <1>2, <1>3, <1>4, StepKinds DEF Hardware

LEMMA PromptIsInductive ==
    ASSUME Control, Prompt, [Next]_vars
    PROVE  Prompt'
<1> SUFFICES ASSUME faults' = 0
             PROVE  Prompt'
  BY DEF Prompt
<1>0. SdioType /\ Handshake /\ faults = 0 /\ kind' = kind /\ ~CardFails
  BY FaultsStay DEF Control
<1>1. CASE WaitEnds
  <2>1. events' = {} /\ rq' = rq /\ Responds' = Responds
    BY <1>0, <1>1 DEF WaitEnds, soft, Responds
  <2>2. phase' # "acmd" /\ (phase' = "cmd" => "cmd" \in ops')
    BY <1>1 DEF WaitEnds
  <2>3. (phase' = "done" /\ Responds) => ok'
    BY <1>0, <1>1 DEF WaitEnds, Prompt
  <2> QED
    BY <2>1, <2>2, <2>3 DEF Prompt
<1>2. CASE Moves
  BY <1>2 DEF Moves, Prompt
<1>3. CASE UNCHANGED vars
  BY <1>3 DEF vars, soft, wire, Prompt, Responds
<1>4. CASE Hardware
  <2>1. UNCHANGED <<phase, ok, rq, kind>> /\ Responds' = Responds
    BY <1>4 DEF Hardware, CardAnswers, CardSends, CardFails, DmaEnds, Same, soft, Responds
  <2>2. CASE CardAnswers
    <3>1. /\ phase \in {"acmd", "cmd"} /\ ops = {"cmd"} /\ events = {}
          /\ phase = "acmd" => Answer = "other"
          /\ (phase = "cmd" /\ Responds) => Answer # "none"
      BY <2>2, AnswersAre DEF CardAnswers
    <3>2. Answer # "none" => events' = {"CMD_DONE"}
      BY <2>2, <3>1 DEF CardAnswers, Raise
    <3>3. Answer = "none" => events' = {}
      BY <2>2, <3>1 DEF CardAnswers
    <3>4. "CAR_ERR" \notin events'
      BY <3>2, <3>3
    <3>5. phase = "acmd" \/ Responds => "CMD_DONE" \in events'
      BY <3>1, <3>2
    <3> QED
      BY <2>1, <3>1, <3>4, <3>5 DEF Prompt
  <2>3. CASE CardSends \/ DmaEnds
    <3>1. "data" \in ops \/ "dma" \in ops
      BY <2>3 DEF CardSends, DmaEnds
    <3>2. phase \in {"cmd", "tran", "dma"} /\ (phase = "cmd" => "CMD_DONE" \in events)
      BY <1>0, <3>1 DEF Handshake, SdioType
    <3>3. "CAR_ERR" \notin events' /\ ("CMD_DONE" \in events => "CMD_DONE" \in events')
      BY <1>0, <2>3 DEF CardSends, DmaEnds, Raise, Prompt
    <3> QED
      BY <2>1, <3>2, <3>3 DEF Prompt
  <2> QED
    BY <1>0, <1>4, <2>2, <2>3 DEF Hardware
<1> QED
  BY <1>1, <1>2, <1>3, <1>4, StepKinds

\* Where no command has failed so far, one that the card knows has been answered.
LEMMA RespondsInTime ==
    ASSUME Prompt, faults = 0, phase = "done", Responds
    PROVE  ok /\ Answered
  BY DEF Prompt, Answered

LEMMA PromptIsInvariant == Spec => []Prompt
<1>1. Init => Prompt
  BY DEF Init, Prompt
<1>2. Control /\ Prompt /\ [Next]_vars => Prompt'
  BY PromptIsInductive
<1> QED
  BY <1>1, <1>2, ControlIsInvariant, PTL DEF Spec

Initialising == at \in {"reset", "interface", "op", "rereset", "op1", "setup"}

\* Nothing has been read while the card is initialised.
Fresh == Initialising => rd = NoRead

LEMMA FreshIsInductive ==
    ASSUME Control, Fresh, [Next]_vars
    PROVE  Fresh'
<1>1. CASE SdInit
  BY <1>1 DEF SdInit, Fresh
<1>2. CASE Reset \/ Interface \/ Op \/ Rereset \/ Op1 \/ Setup
  <2>1. Initialising
    BY <1>2 DEF Reset, Interface, Op, Rereset, Op1, Setup, Completed, Initialising
  <2>2. rd' = rd
    BY <1>2 DEF Reset, Interface, Op, Rereset, Op1, Setup, SameRead, InitFails
  <2> QED
    BY <2>1, <2>2 DEF Fresh
<1>3. CASE BlockRead \/ BlockFails \/ Quit \/ SdDeinit \/ \E o \in Offset, l \in Length : Read(o, l)
  <2>1. ~Initialising'
    BY <1>3 DEF BlockRead, BlockFails, Quit, SdDeinit, Read, Back, Go, Initialising
  <2> QED
    BY <2>1 DEF Fresh
<1>4. CASE Poll \/ TimeOut \/ Hardware \/ UNCHANGED vars
  <2>1. at' = at /\ rd' = rd
    BY <1>4 DEF Poll, TimeOut, Hardware, CardAnswers, CardSends, CardFails, DmaEnds, Same, vars, soft
  <2> QED
    BY <2>1 DEF Fresh, Initialising
<1> QED
  BY <1>1, <1>2, <1>3, <1>4 DEF Next, Driver, Caller

LEMMA CompleteIsInductive ==
    ASSUME Control, Fits, Counting, Prompt, Fresh, Complete, [Next]_vars
    PROVE  Complete'
<1> SUFFICES ASSUME faults' = 0, at' = "open", rd'.calls > 0
             PROVE  rd'.total = rd'.asked
  BY DEF Complete
<1>0. faults = 0 /\ rd \in Locals /\ SdioType /\ Asked
  BY FaultsStay DEF Control, SdioType
<1>1. CASE BlockRead
  <2>1. /\ at = "read" /\ rd' = Counted(rd) /\ rd.length - Sector = 0
    BY <1>1 DEF BlockRead, Completed, Counted, Go
  <2>2. rd'.total = rd.total + Sector /\ rd'.asked = rd.asked
    BY <1>0, <2>1, CountedFields
  <2>3. rd.asked = rd.total + rd.length
    BY <2>1 DEF Counting
  <2> QED
    BY <1>0, <2>1, <2>2, <2>3, Sizes, Fields
<1>2. CASE BlockFails
  <2>1. at = "read" /\ phase = "done" /\ ~ok
    BY <1>2 DEF BlockFails, Completed
  <2>2. rq.cmd = 17 /\ kind # "none"
    BY <1>0, <2>1 DEF Asked, Fits
  <2>3. Responds
    BY <2>2 DEF Responds
  <2> QED
    BY <1>0, <2>1, <2>3, RespondsInTime
<1>3. CASE Reset \/ Interface \/ Op \/ Rereset \/ Op1 \/ Setup
  <2>1. Initialising
    BY <1>3 DEF Reset, Interface, Op, Rereset, Op1, Setup, Completed, Initialising
  <2>2. rd' = rd
    BY <1>3 DEF Reset, Interface, Op, Rereset, Op1, Setup, SameRead, InitFails
  <2> QED
    BY <2>1, <2>2, NothingRead DEF Fresh
<1>4. CASE SdInit \/ Quit \/ SdDeinit \/ \E o \in Offset, l \in Length : Read(o, l)
  BY <1>4 DEF SdInit, Quit, SdDeinit, Read, Back, Go
<1>5. CASE Poll \/ TimeOut \/ Hardware \/ UNCHANGED vars
  <2>1. at' = at /\ rd' = rd
    BY <1>5 DEF Poll, TimeOut, Hardware, CardAnswers, CardSends, CardFails, DmaEnds, Same, vars, soft
  <2> QED
    BY <1>0, <2>1 DEF Complete
<1> QED
  BY <1>1, <1>2, <1>3, <1>4, <1>5 DEF Next, Driver, Caller

\* sdio_read() returns everything that a card without faults was asked for.
THEOREM FaultlessReadsAreComplete == Spec => []ReadIsComplete
<1>1. Init => Fresh /\ Complete
  BY DEF Init, Fresh, Complete, Initialising
<1>2. /\ Control /\ Fits /\ Copied /\ Prompt /\ Fresh /\ Complete /\ [Next]_vars
      => (Fresh /\ Complete)'
  BY FreshIsInductive, CompleteIsInductive DEF Copied
<1>3. Complete => ReadIsComplete
  BY DEF Complete, ReadIsComplete
<1> QED
  BY <1>1, <1>2, <1>3, ControlIsInvariant, CardIsKnown, CopiedIsInvariant, PromptIsInvariant, PTL
     DEF Spec

-----------------------------------------------------------------------------
(***************************************************************************)
(* A card is found when it is not busy for as long as there are attempts.  *)
(***************************************************************************)
InTime == MaxBusy < Attempts

\* An attempt is answered with "busy", which one more answer leaves less of.
LEMMA BusyAnswer ==
    ASSUME Control, CardAnswers, phase = "cmd", Answer = "busy", busy > 0, busy + n <= MaxBusy + 1
    PROVE  busy' + n' <= MaxBusy
<1>1. busy \in Nat /\ n \in Nat /\ MaxBusy \in Nat
  BY Sizes DEF Control, SdioType
<1>2. busy' = busy - 1 /\ n' = n
  BY DEF CardAnswers, Same, soft
<1> QED
  BY <1>1, <1>2

\* What happens within an attempt.
LEMMA TriesGoOn ==
    ASSUME Control, Control', Says, Prompt, NEW cards, NEW c, <<c, cards>> \in {<<41, SD>>, <<1, {"MMC", "EMMC"}>>},
           rq.cmd = c, Tries(cards), kind = "SDHC" /\ c = 41 => rq.hc,
           faults' = 0, WaitEnds \/ Hardware \/ UNCHANGED vars, [Next]_vars
    PROVE  Tries(cards)'
<1>0. faults = 0 /\ kind' = kind /\ ~CardFails /\ n' = n /\ rq' = rq
  <2>1. n' = n /\ rq' = rq
    BY DEF WaitEnds, Hardware, CardAnswers, CardSends, CardFails, DmaEnds, Same, vars, soft
  <2> QED
    BY <2>1, FaultsStay
<1>1. SUFFICES ASSUME kind \in cards
               PROVE  Tries(cards)'
  BY <1>0 DEF Tries
<1>2. Responds /\ cards \subseteq Kind \cup {"SDSC", "SDHC", "old", "MMC", "EMMC"}
  BY <1>1 DEF Responds, SD, Version2
<1>3. busy \in Nat /\ n \in Nat /\ MaxBusy \in Nat
  BY Sizes DEF Control, SdioType
<1>4. CASE WaitEnds
  <2>1. busy' = busy /\ response' = response
    BY <1>4 DEF WaitEnds, wire
  <2>2. Answered' => Answered
    BY <1>4 DEF WaitEnds, Answered
  <2>3. busy + n <= MaxBusy => busy + n <= MaxBusy + 1
    BY <1>3
  <2>4. CASE ~Answered' /\ Answered
    <3>1. phase = "cmd" /\ "CMD_DONE" \in events /\ phase' = "done"
      BY <1>0, <1>4, <2>4 DEF WaitEnds, Answered, Prompt
    <3>2. ok'
      BY <1>0, <1>2, <1>4, <3>1 DEF WaitEnds, Prompt
    <3> QED
      BY <2>4, <3>1, <3>2 DEF Answered
  <2> QED
    BY <1>0, <1>1, <2>1, <2>2, <2>4 DEF Tries
<1>5. CASE UNCHANGED vars
  BY <1>5 DEF vars, soft, wire, Tries, Answered
<1>6. CASE CardAnswers
  <2>0. "cmd" \in ops /\ phase' = phase /\ ok' = ok
    BY <1>6 DEF CardAnswers, Same
  <2>1. phase \in {"acmd", "cmd"} /\ ~Answered
    BY <2>0, AnswersAre DEF Answered
  <2>2. busy + n <= MaxBusy + 1
    BY <1>1, <2>1 DEF Tries
  <2>3. CASE phase = "acmd"
    <3>1. ~Answered' /\ busy' = busy
      <4>1. Answer = "other"
        BY <2>0, <2>3, AnswersAre
      <4> QED
        BY <1>6, <2>0, <2>3, <4>1 DEF CardAnswers, Answered
    <3> QED
      BY <1>0, <2>2, <3>1 DEF Tries
  <2>4. CASE phase = "cmd"
    <3>1. Answer # "none" /\ response' = Answer /\ (Answer = "busy" => busy > 0)
      <4>1. Answer # "none"
        BY <1>2, <2>0, <2>4, AnswersAre
      <4>2. response' = Answer
        BY <1>6, <4>1 DEF CardAnswers
      <4>3. Answer = "busy" => busy > 0
        BY <2>0, <2>4, <4>1, AnswersAre
      <4> QED
        BY <4>1, <4>2, <4>3
    <3>2. Answered'
      BY <1>6, <2>0, <2>4, <3>1 DEF CardAnswers, Raise, Answered
    <3>3. response' = "busy" => busy' + n' <= MaxBusy
      BY <1>6, <2>2, <2>4, <3>1, BusyAnswer
    <3> QED
      BY <3>2, <3>3 DEF Tries
  <2> QED
    BY <2>1, <2>3, <2>4
<1>7. CASE CardSends \/ DmaEnds
  <2>1. /\ busy' = busy /\ response' = response /\ phase' = phase /\ ok' = ok
        /\ "CMD_DONE" \in events' <=> "CMD_DONE" \in events
    BY <1>7 DEF CardSends, DmaEnds, Raise, Same
  <2>2. Answered' <=> Answered
    BY <2>1 DEF Answered
  <2> QED
    BY <1>0, <2>1, <2>2 DEF Tries
<1> QED
  BY <1>0, <1>4, <1>5, <1>6, <1>7 DEF Hardware

\* An attempt that comes to nothing: the card is still busy.
LEMMA StillBusy ==
    ASSUME Control, Says, Prompt, faults = 0, phase = "done", ~Ready,
           NEW cards, NEW c, <<c, cards>> \in {<<41, SD>>, <<1, {"MMC", "EMMC"}>>},
           rq.cmd = c, Tries(cards), kind \in cards
    PROVE  busy + n <= MaxBusy
<1>1. Responds
  BY DEF Responds, SD, Version2
<1>2. ok /\ Answered
  BY <1>1, RespondsInTime
<1>3. response = "busy"
  BY <1>2 DEF Says, Ready
<1> QED
  BY <1>2, <1>3 DEF Tries

LEMMA FoundIsInductive ==
    ASSUME InTime, Control, Control', Says, Prompt, Found, [Next]_vars
    PROVE  Found'
<1> SUFFICES ASSUME faults' = 0
             PROVE  Found'
  BY DEF Found
<1>0. /\ faults = 0 /\ kind' = kind /\ SdioType /\ Asked
      /\ busy \in 0 .. MaxBusy /\ n \in Nat /\ MaxBusy \in Nat /\ Attempts \in Nat
  BY FaultsStay, Sizes DEF Control, SdioType
<1>1. CASE at' \notin {"op", "rereset", "op1"}
  BY <1>1 DEF Found
<1>2. CASE WaitEnds \/ Hardware \/ UNCHANGED vars
  <2>1. at' = at /\ rq' = rq
    BY <1>2 DEF WaitEnds, Hardware, CardAnswers, CardSends, CardFails, DmaEnds, Same, vars, soft
  <2>2. CASE at = "op"
    <3>1. rq.cmd = 41 /\ Tries(SD) /\ (kind = "SDHC" => rq.hc)
      BY <1>0, <2>2 DEF Asked, Found
    <3>2. Tries(SD)'
      BY <1>2, <3>1, TriesGoOn
    <3> QED
      BY <1>0, <2>1, <2>2, <3>1, <3>2 DEF Found
  <2>3. CASE at = "op1"
    <3>1. rq.cmd = 1 /\ Tries({"MMC", "EMMC"}) /\ kind \notin SD
      BY <1>0, <2>3 DEF Asked, Plain, Found
    <3>2. Tries({"MMC", "EMMC"})'
      BY <1>2, <3>1, TriesGoOn
    <3> QED
      BY <1>0, <2>1, <2>3, <3>1, <3>2 DEF Found
  <2>4. CASE at = "rereset"
    BY <1>0, <2>1, <2>4 DEF Found
  <2> QED
    BY <1>1, <2>1, <2>2, <2>3, <2>4
<1>3. CASE Interface
  <2>1. /\ at = "interface" /\ phase = "done" /\ at' = "op" /\ n' = 1 /\ busy' = busy
        /\ type' = (IF ok /\ response = "pattern" THEN "UNKNOWN" ELSE "OLD") /\ OpCond(type')
    BY <1>3 DEF Interface, Completed, Go, SameRead, wire
  <2>2. ~Answered'
    BY <2>1, <1>0 DEF OpCond, Request, Answered, Control, Handshake, Interface
  <2>3. kind = "SDHC" => rq'.hc
    <3>1. SUFFICES ASSUME kind = "SDHC" PROVE rq'.hc
      OBVIOUS
    <3>2. rq.cmd = 8 /\ Responds
      BY <1>0, <2>1, <3>1 DEF Asked, Plain, Responds, Version2
    <3>3. ok /\ Answered
      BY <1>0, <2>1, <3>2, RespondsInTime
    <3>4. type' = "UNKNOWN"
      BY <2>1, <3>2, <3>3 DEF Says
    <3>5. rq'.hc <=> type' # "OLD"
      BY <2>1, OpCondSends DEF Control
    <3> QED
      BY <3>4, <3>5
  <2>4. busy' + n' <= MaxBusy + 1
    BY <1>0, <2>1
  <2> QED
    BY <1>0, <2>1, <2>2, <2>3, <2>4 DEF Found, Tries
<1>4. CASE Op
  <2>1. /\ at = "op" /\ phase = "done" /\ busy' = busy /\ rq.cmd = 41
        /\ (rq.hc <=> type # "OLD") /\ Tries(SD) /\ (kind = "SDHC" => rq.hc)
    BY <1>0, <1>4 DEF Op, Completed, SameRead, wire, Asked, Found
  <2>2. (kind \in SD /\ ~Ready) => busy + n <= MaxBusy
    BY <1>0, <2>1, StillBusy
  <2>3. CASE Go("setup", 1)
    BY <1>1, <2>3 DEF Go
  <2>4. CASE ~Ready /\ n < Attempts /\ Go("op", n + 1) /\ OpCond(type) /\ UNCHANGED type
    <3>1. Sent /\ (rq'.hc <=> type # "OLD")
      BY <2>1, <2>4, OpCondSends DEF Control
    <3>2. ~Answered'
      BY <3>1, StepKinds, <1>4, <2>1, <2>4 DEF Sent, Answered, Control, Handshake
    <3>3. kind \in SD => busy' + n' <= MaxBusy + 1
      BY <1>0, <2>1, <2>2, <2>4 DEF Go
    <3> QED
      BY <1>0, <2>1, <2>4, <3>1, <3>2, <3>3 DEF Found, Tries, Go
  <2>5. CASE ~Ready /\ n = Attempts /\ Go("rereset", 1)
    <3>1. kind \notin SD
      BY <1>0, <2>2, <2>5 DEF InTime
    <3> QED
      BY <1>0, <2>5, <3>1 DEF Found, Go
  <2> QED
    BY <1>4, <2>3, <2>4, <2>5 DEF Op
<1>5. CASE Rereset
  <2>1. at = "rereset" /\ phase = "done" /\ kind \notin SD
    BY <1>0, <1>5 DEF Rereset, Completed, Found
  <2>2. CASE at' = "rereset"
    BY <1>0, <2>1, <2>2 DEF Found
  <2>3. CASE Go("op1", 1) /\ Issue(1) /\ SameRead
    <3>1. Sent
      BY <2>1, <2>3, IssueSends DEF Control
    <3>2. ~Answered'
      BY <3>1, <2>1, <2>3 DEF Sent, Answered, Control, Handshake, SameRead
    <3>3. busy' + n' <= MaxBusy + 1
      BY <1>0, <2>3 DEF Go, SameRead, wire
    <3> QED
      BY <1>0, <2>1, <2>3, <3>2, <3>3 DEF Found, Tries, Go
  <2> QED
    BY <1>1, <1>5, <2>2, <2>3 DEF Rereset, Go, InitFails, Back
<1>6. CASE Op1
  <2>1. at = "op1" /\ phase = "done" /\ kind \notin SD /\ rq.cmd = 1 /\ Tries({"MMC", "EMMC"})
    BY <1>0, <1>6 DEF Op1, Completed, Found, Asked, Plain
  <2>2. (kind \in {"MMC", "EMMC"} /\ ~Ready) => busy + n <= MaxBusy
    BY <1>0, <2>1, StillBusy
  <2>3. CASE ~Ready /\ Go("op1", Again(n)) /\ Issue(1) /\ SameRead
    <3>1. Sent
      BY <2>1, <2>3, IssueSends DEF Control
    <3>2. ~Answered'
      BY <3>1, <2>1, <2>3 DEF Sent, Answered, Control, Handshake, SameRead
    <3>3. kind \in {"MMC", "EMMC"} => busy' + n' <= MaxBusy + 1
      BY <1>0, <2>2, <2>3 DEF Go, Again, SameRead, wire
    <3> QED
      BY <1>0, <2>1, <2>3, <3>2, <3>3 DEF Found, Tries, Go
  <2> QED
    BY <1>1, <1>6, <2>3 DEF Op1, Go, InitFails, Back
<1>7. CASE Reset \/ Setup \/ BlockRead \/ BlockFails \/ Quit \/ Caller
  BY <1>1, <1>7 DEF Reset, Setup, BlockRead, BlockFails, Quit, Caller, SdInit, SdDeinit, Read,
     Go, InitFails, Back
<1> QED
  BY <1>2, <1>3, <1>4, <1>5, <1>6, <1>7, WaitsEnd DEF Next, Driver

\* A card that does not fail is found, whatever its kind, when it is busy for fewer
\* answers than there are attempts: one that is busy for all of them is given up.
THEOREM FaultlessCardsAreFound == InTime => (Spec => CardIsFound)
<1> SUFFICES ASSUME InTime
             PROVE  Spec => CardIsFound
  OBVIOUS
<1>1. Init => Found
  BY DEF Init, Found
<1>2. Control /\ Control' /\ Says /\ Prompt /\ Found /\ [Next]_vars => Found'
  BY FoundIsInductive
<1>3. Control /\ Says /\ Fits /\ Prompt /\ Found /\ [Next]_vars
      => (at # "closed" /\ at' = "closed" /\ at # "quit" => faults > 0 \/ kind = "none" \/ busy > 0)
  <2> SUFFICES ASSUME Control, Says, Fits, Prompt, Found, [Next]_vars,
                      at # "closed", at' = "closed", at # "quit", faults = 0, kind # "none"
               PROVE  FALSE
    BY DEF Control, SdioType
  <2>0. /\ SdioType /\ Asked /\ kind \in Kind
        /\ busy \in 0 .. MaxBusy /\ n \in Nat /\ MaxBusy \in Nat /\ Attempts \in Nat
        /\ MmcAttempts \in Nat /\ Attempts <= MmcAttempts
    BY Sizes DEF Control, SdioType, MmcAttempts
  <2>1. CASE Reset \/ Rereset
    <3>1. phase = "done" /\ ~ok /\ rq.cmd = 0
      BY <2>0, <2>1 DEF Reset, Rereset, Completed, Go, Asked, Plain
    <3> QED
      BY <3>1, RespondsInTime DEF Responds
  <2>2. CASE Op1
    <3>1. /\ phase = "done" /\ at = "op1" /\ ~Ready /\ n = MmcAttempts /\ rq.cmd = 1
      BY <2>0, <2>2 DEF Op1, Completed, Go, Asked, Plain
    <3>2. kind \in {"MMC", "EMMC"} /\ Tries({"MMC", "EMMC"})
      BY <2>0, <3>1, SdioAssumption DEF Found, SD, Version2
    <3>3. busy + n <= MaxBusy
      BY <3>1, <3>2, StillBusy
    <3> QED
      BY <2>0, <3>1, <3>3 DEF InTime
  <2>3. CASE Setup
    <3>1. at = "setup" /\ phase = "done" /\ ~ok
      BY <2>3 DEF Setup, Completed, Go, Back
    <3>2. n \in 1 .. SetupLength /\ rq.cmd = SetupCommands[n] /\ (kind = "MMC" => SetupLength = 4)
      BY <2>0, <3>1 DEF Asked, Fits, SetupLength
    <3>3. Responds
      BY <3>2 DEF Responds, SetupCommands, SetupLength
    <3> QED
      BY <3>1, <3>3, RespondsInTime
  <2>4. CASE Interface \/ Op \/ BlockRead \/ BlockFails \/ Quit \/ Caller
    BY <2>4 DEF Interface, Op, BlockRead, BlockFails, Quit, Completed, Caller, SdInit, SdDeinit,
       Read, Go, Back
  <2>5. CASE Poll \/ TimeOut \/ Hardware \/ UNCHANGED vars
    BY <2>5 DEF Poll, TimeOut, Hardware, CardAnswers, CardSends, CardFails, DmaEnds, Same, vars, soft
  <2> QED
    BY <2>1, <2>2, <2>3, <2>4, <2>5 DEF Next, Driver
<1> QED
  BY <1>1, <1>2, <1>3, ControlIsInvariant, CardIsKnown, PromptIsInvariant, PTL DEF Spec, CardIsFound

=============================================================================
