-------------------------------- MODULE Sdio --------------------------------
(***************************************************************************)
(* The SD card boot source, bootsrc/sdio.c: sdio_init(), sdio_read() and   *)
(* sdio_deinit() over sdio_request_execute(), with the controller and the  *)
(* card as environment.  Reads come through bootsource_read().             *)
(*                                                                         *)
(* `at' says which command of which function is executed, `phase' how far  *)
(* sdio_request_execute() has got with it:                                 *)
(*                                                                         *)
(*   acmd (CMD_DONE of CMD55) -> cmd (CMD_DONE) -> tran (TRAN_DONE)        *)
(*     -> dma (CH1_FINISH and BUF_FINISH) -> done                          *)
(*                                                                         *)
(* The controller raises events; reading its status acknowledges all of    *)
(* them, also those that nobody waits for yet.                             *)
(***************************************************************************)
EXTENDS Integers, Sequences

CONSTANTS
    Sector,         \* 512
    Attempts,       \* SDIO_ATTEMPTS_NUMBER, tries of ACMD41; 8 times as many of CMD1
    Kind,           \* which cards may be in the slot
    MaxBusy,        \* bounds how often a card says that it is busy
    Offset, Length, \* arguments of reads; first and asked repeat them
    MaxReads,       \* bounds the reads between init and deinit
    MaxFaults       \* bounds the errors of the card

ASSUME SdioAssumption ==
    /\ {Sector, Attempts} \subseteq Nat \ {0}
    /\ {MaxBusy, MaxReads, MaxFaults} \subseteq Nat
    /\ Offset \subseteq Nat /\ Length \subseteq Nat
    /\ Kind \subseteq {"none", "old", "SDSC", "SDHC", "MMC", "EMMC"}

VARIABLES
    at,         \* where in sdio_init(), sdio_read() or sdio_deinit()
    n,          \* attempt or step of `at'
    rq,         \* struct sdio_request
    phase,      \* of sdio_request_execute()
    ok,         \* its result
    status,     \* what the current wait() has gathered
    type,       \* cardtype
    rd,         \* arguments and locals of sdio_read()
    ram,        \* sectors copied to memory by it
    events,     \* status bits of the controller
    ops,        \* what the controller is doing
    response,   \* its RESPONSE1 register
    buffer,     \* its block buffer: the sector in it
    kind, busy, \* the card and how often it will still be busy
    faults,     \* errors of the card so far
    torn        \* a data transfer was one of them, in this read

soft == <<at, n, rq, type, rd>>
wire == <<kind, busy, faults, torn>>
vars == <<soft, phase, ok, status, ram, events, ops, response, buffer, wire>>

Type == {"UNKNOWN", "OLD", "MMC", "SDSC", "SDHC", "EMMC"}

NoRequest == [cmd |-> 0, acmd |-> FALSE, hc |-> FALSE, buf |-> FALSE, arg |-> 0]
NoRead == [offset |-> 0, length |-> 0, total |-> 0, first |-> 0, asked |-> 0, calls |-> 0]

Init ==
    /\ at = "closed" /\ n = 0 /\ rq = NoRequest /\ phase = "idle" /\ ok = FALSE
    /\ status = {} /\ type \in Type
    /\ rd = NoRead
    /\ ram = << >> /\ events = {} /\ ops = {} /\ response = "other" /\ buffer = -1
    /\ kind \in Kind /\ busy \in 0 .. MaxBusy /\ faults = 0 /\ torn = FALSE

-----------------------------------------------------------------------------
(***************************************************************************)
(* sdio_request_execute().                                                 *)
(***************************************************************************)
\* The start of a request; CMD55 goes before an application command.
Request(req) ==
    /\ rq' = req
    /\ phase' = IF req.acmd THEN "acmd" ELSE "cmd"
    /\ ops' = ops \cup {"cmd"}
    /\ status' = {}
    /\ UNCHANGED <<ok, response, buffer>>

Issue(cmd)  == Request([NoRequest EXCEPT !.cmd = cmd])
IssueA(cmd) == Request([NoRequest EXCEPT !.cmd = cmd, !.acmd = TRUE])

Flags == CASE phase \in {"acmd", "cmd"} -> {"CMD_DONE"}
           [] phase = "tran" -> {"TRAN_DONE"}
           [] phase = "dma"  -> {"CH1_FINISH", "BUF_FINISH"}

\* Mutant: a block is only copied when its transfer was seen to end.
StrictTransfer(ret) == IF ret THEN "dma" ELSE "done"

\* The result of the wait for TRAN_DONE is not looked at.
AfterTransfer(ret) == "dma"

\* What follows a wait.
Advance(ret) ==
    /\ status' = {}
    /\ ok' = ret
    /\ phase' = CASE phase = "acmd" -> IF ret THEN "cmd" ELSE "done"
                  [] phase = "cmd"  -> IF ret /\ rq.buf THEN "tran" ELSE "done"
                  [] phase = "tran" -> AfterTransfer(ret)
                  [] phase = "dma"  -> "done"
    /\ ops' = CASE phase' = "cmd" -> ops \cup {"cmd"}
                [] phase' = "dma" -> ops \cup {"dma"}
                [] OTHER -> ops

Waiting == phase \in {"acmd", "cmd", "tran", "dma"}

\* sdio_get_events() and the verdict of one round of wait().
Poll ==
    /\ Waiting /\ events # {}
    /\ events' = {}
    /\ LET got == status \cup events IN
         IF "CAR_ERR" \in got THEN Advance(FALSE)
         ELSE IF Flags \subseteq got THEN Advance(TRUE)
         ELSE status' = got /\ UNCHANGED <<phase, ok, ops>>
    /\ UNCHANGED <<soft, ram, response, buffer, wire>>

\* Nothing has come for SDIO_TIMEOUT_US, 80 seconds, in which the controller ends
\* whatever it is doing.
TimeOut ==
    /\ Waiting /\ events = {} /\ ops = {}
    /\ Advance(FALSE)
    /\ UNCHANGED <<soft, ram, events, response, buffer, wire>>

-----------------------------------------------------------------------------
(***************************************************************************)
(* sdio_init().                                                            *)
(***************************************************************************)
Completed(where) == at = where /\ phase = "done"

Go(where, step) == at' = where /\ n' = step
SameRead == UNCHANGED <<rd, wire, ram, events>>

\* A function returns to its caller.
Back(where) ==
    /\ Go(where, 0)
    /\ phase' = "idle"
    /\ UNCHANGED <<rq, ops, status, ok, events, response, buffer, ram>>

InitFails == Back("closed") /\ UNCHANGED <<type, rd, wire>>

\* The controller is hard-reset; bit 0 means SDIO on, SPI off.
SdInit ==
    /\ at = "closed"
    /\ Go("reset", 1)
    /\ Issue(0) /\ events' = {}
    /\ rd' = NoRead
    /\ ram' = << >> /\ torn' = FALSE
    /\ UNCHANGED <<type, kind, busy, faults>>

\* card_reset() sends CMD0 twice and returns what became of the second.
Reset ==
    /\ Completed("reset")
    /\ \/ n = 1 /\ Go("reset", 2) /\ Issue(0) /\ UNCHANGED type /\ SameRead
       \/ n = 2 /\ ok /\ Go("interface", 1) /\ Issue(8) /\ UNCHANGED type /\ SameRead
       \/ n = 2 /\ ~ok /\ InitFails

\* Mutant: every card is asked for high capacity.
AlwaysHighCapacity(t) == TRUE

\* Old cards are not asked whether they are high capacity cards.
HighCapacity(t) == t # "OLD"

OpCond(t) == Request([NoRequest EXCEPT !.cmd = 41, !.acmd = TRUE, !.hc = HighCapacity(t)])

\* CMD8: cards that do not echo the pattern are old.
Interface ==
    /\ Completed("interface")
    /\ type' = IF ok /\ response = "pattern" THEN "UNKNOWN" ELSE "OLD"
    /\ Go("op", 1) /\ OpCond(type')
    /\ SameRead

Ready == ok /\ response \in {"ready", "readyhc"}

\* card_init_sd().  When every attempt failed the type comes from an OCR that may be
\* uninitialised, but card_init_mmc() then sets it or sdio_init() fails.
Op ==
    /\ Completed("op")
    /\ \/ /\ Ready
          /\ type' = IF type = "OLD" THEN type ELSE IF response = "readyhc" THEN "SDHC" ELSE "SDSC"
          /\ Go("setup", 1) /\ Issue(2)
       \/ /\ ~Ready /\ n < Attempts
          /\ Go("op", n + 1) /\ OpCond(type) /\ UNCHANGED type
       \/ /\ ~Ready /\ n = Attempts
          /\ IF type = "OLD" THEN UNCHANGED type ELSE type' \in {"SDSC", "SDHC"}
          /\ Go("rereset", 1) /\ Issue(0)
    /\ SameRead

Rereset ==
    /\ Completed("rereset")
    /\ \/ n = 1 /\ Go("rereset", 2) /\ Issue(0) /\ UNCHANGED type /\ SameRead
       \/ n = 2 /\ ok /\ Go("op1", 1) /\ Issue(1) /\ UNCHANGED type /\ SameRead
       \/ n = 2 /\ ~ok /\ InitFails

\* Mutant: an attempt that failed does not count.
AgainForEver(i) == i

Again(i) == i + 1

MmcAttempts == 8 * Attempts

\* card_init_mmc().
Op1 ==
    /\ Completed("op1")
    /\ \/ /\ Ready
          /\ type' = IF response = "readyhc" THEN "EMMC" ELSE "MMC"
          /\ Go("setup", 1) /\ Issue(2) /\ SameRead
       \/ ~Ready /\ n < MmcAttempts /\ Go("op1", Again(n)) /\ Issue(1) /\ UNCHANGED type /\ SameRead
       \/ ~Ready /\ n = MmcAttempts /\ InitFails

\* CMD2, CMD3, CMD7, CMD16 and, except for MMC, ACMD6.
SetupCommands == <<2, 3, 7, 16, 6>>

\* Mutant: bus width is asked of every card.
SetupLengthAlways == 5

SetupLength == IF type = "MMC" THEN 4 ELSE 5

Setup ==
    /\ Completed("setup")
    /\ \/ /\ ok /\ n < SetupLength
          /\ Go("setup", n + 1)
          /\ IF n = 4 THEN IssueA(6) ELSE Issue(SetupCommands[n + 1])
          /\ UNCHANGED type /\ SameRead
       \/ ok /\ n = SetupLength /\ Back("open") /\ UNCHANGED type /\ SameRead
       \/ ~ok /\ InitFails

-----------------------------------------------------------------------------
(***************************************************************************)
(* Reading, and the end.                                                   *)
(***************************************************************************)
\* CMD17 takes a sector number for SDHC and eMMC, a byte address for others.
ReadBlock(offset) ==
    Request([NoRequest EXCEPT !.cmd = 17, !.buf = TRUE,
                              !.arg = IF type \in {"SDHC", "EMMC"} THEN offset \div Sector ELSE offset])

\* bootsource_read() refuses misaligned offsets and trims the length to sectors.
Read(offset, length) ==
    /\ at = "open" /\ rd.calls < MaxReads
    /\ offset % Sector = 0 /\ length >= Sector
    /\ LET l == length - (length % Sector) IN
         rd' = [offset |-> offset, length |-> l, total |-> 0, first |-> offset, asked |-> l,
                calls |-> rd.calls + 1]
    /\ Go("read", 0) /\ ReadBlock(offset)
    /\ ram' = << >> /\ torn' = FALSE
    /\ UNCHANGED <<events, type, kind, busy, faults>>

\* One block of sdio_read() is there, or has failed.
BlockRead ==
    /\ Completed("read") /\ ok
    /\ LET left == rd.length - Sector IN
         /\ rd' = [rd EXCEPT !.offset = @ + Sector, !.length = left, !.total = @ + Sector]
         /\ \/ left > 0 /\ Go("read", 0) /\ ReadBlock(rd'.offset) /\ UNCHANGED <<ram, events>>
            \/ left = 0 /\ Back("open")
    /\ UNCHANGED <<type, wire>>

BlockFails ==
    /\ Completed("read") /\ ~ok
    /\ Back("open")
    /\ UNCHANGED <<type, rd, wire>>

SdDeinit ==
    /\ at = "open"
    /\ Go("quit", 0) /\ Issue(0)
    /\ UNCHANGED type /\ SameRead

Quit ==
    /\ Completed("quit")
    /\ Back("closed")
    /\ UNCHANGED <<type, rd, wire>>

Driver ==
    \/ Poll \/ TimeOut
    \/ Reset \/ Interface \/ Op \/ Rereset \/ Op1 \/ Setup
    \/ BlockRead \/ BlockFails \/ Quit

Caller ==
    \/ SdInit \/ SdDeinit
    \/ \E o \in Offset, l \in Length : Read(o, l)

-----------------------------------------------------------------------------
(***************************************************************************)
(* The card and the controller.                                            *)
(***************************************************************************)
Version2 == {"SDSC", "SDHC"}
SD       == Version2 \cup {"old"}

\* What a card answers to a command; "none" is silence.
Answer ==
    CASE phase = "acmd" \/ rq.cmd = 0 -> "other"   \* no response expected: done when sent
      [] phase = "cmd" /\ rq.cmd = 8  -> IF kind \in Version2 THEN "pattern" ELSE "none"
      [] phase = "cmd" /\ rq.cmd = 41 ->
            IF kind \notin SD THEN "none"
            ELSE IF busy > 0 \/ (kind = "SDHC" /\ ~rq.hc) THEN "busy"
            ELSE IF kind = "SDHC" THEN "readyhc" ELSE "ready"
      [] phase = "cmd" /\ rq.cmd = 1 ->
            IF kind \notin {"MMC", "EMMC"} THEN "none"
            ELSE IF busy > 0 THEN "busy" ELSE IF kind = "EMMC" THEN "readyhc" ELSE "ready"
      [] phase = "cmd" /\ rq.cmd = 6 /\ kind = "MMC" -> "none"
      [] OTHER -> IF kind = "none" THEN "none" ELSE "other"

Raise(e) == events' = events \cup e
Same == UNCHANGED <<soft, phase, ok, status, kind>>

CardAnswers ==
    /\ "cmd" \in ops
    /\ IF Answer = "none"
         THEN /\ ops' = ops \ {"cmd"}
              /\ UNCHANGED <<events, response, busy>>
         ELSE /\ ops' = IF phase = "cmd" /\ rq.buf THEN (ops \ {"cmd"}) \cup {"data"} ELSE ops \ {"cmd"}
              /\ Raise({"CMD_DONE"})
              /\ response' = Answer
              /\ busy' = IF Answer = "busy" /\ busy > 0 THEN busy - 1 ELSE busy
    /\ UNCHANGED <<buffer, ram, faults, torn>> /\ Same

\* The sector that a card takes CMD17's argument for.
Addressed == IF kind \in {"SDHC", "EMMC"} THEN rq.arg ELSE rq.arg \div Sector

CardSends ==
    /\ "data" \in ops
    /\ ops' = ops \ {"data"}
    /\ buffer' = Addressed
    /\ Raise({"TRAN_DONE"})
    /\ UNCHANGED <<response, ram, busy, faults, torn>> /\ Same

\* A command or transfer is lost, or fails with CAR_ERR, which ends it.
CardFails ==
    /\ faults < MaxFaults /\ faults' = faults + 1
    /\ \E op \in ops \cap {"cmd", "data"} :
         /\ ops' = ops \ {op}
         /\ torn' = (torn \/ op = "data")
    /\ \E e \in {{}, {"CAR_ERR"}} : Raise(e)
    /\ UNCHANGED <<response, buffer, ram, busy>> /\ Same

DmaEnds ==
    /\ "dma" \in ops
    /\ ops' = ops \ {"dma"}
    /\ ram' = Append(ram, buffer)
    /\ Raise({"CH1_FINISH", "BUF_FINISH"})
    /\ UNCHANGED <<response, buffer, busy, faults, torn>> /\ Same

Hardware == CardAnswers \/ CardSends \/ CardFails \/ DmaEnds

Next == Driver \/ Caller \/ Hardware

\* The loops of the driver go on, and the controller ends what it was told to do.
Spec == Init /\ [][Next]_vars
FairSpec == Spec /\ WF_vars(Driver) /\ WF_vars(Hardware)

-----------------------------------------------------------------------------
(***************************************************************************)
(* Properties.                                                             *)
(***************************************************************************)
\* Every sector that sdio_read() counts is the card's, at the offset it was asked for,
\* unless a data transfer of this read failed: the type found by sdio_init(), whatever
\* failed in it, gives the card the right kind of address, and no block is copied before
\* it has arrived (sd_read_block(), 315-353; sdio_request_execute(), 248-261).
CountedSectorsAreTheCards ==
    ~torn => /\ Len(ram) >= rd.total \div Sector
             /\ \A i \in 1 .. rd.total \div Sector : ram[i] = rd.first \div Sector + i - 1

\* sdio_read() returns everything that a card without faults was asked for, although
\* reading the status for CMD_DONE may take away the TRAN_DONE that is waited for next
\* (sdio_get_events(), 156-194).
ReadIsComplete == at = "open" /\ faults = 0 /\ rd.calls > 0 => rd.total = rd.asked

\* A card that does not fail, and is not busy for longer than the attempts allow, is
\* found, whatever its kind: sdio_init() does not give up half way through its guesses.
CardIsFound ==
    [][at # "closed" /\ at' = "closed" /\ at # "quit" => faults > 0 \/ kind = "none" \/ busy > 0]_vars

\* Every call of the driver returns, with or without a card.
DriverReturns == (at \notin {"closed", "open"}) ~> (at \in {"closed", "open"})
=============================================================================
