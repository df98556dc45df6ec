------------------------------- MODULE Eeprom -------------------------------
(***************************************************************************)
(* The I2C EEPROM boot source, lib/bootsrc/eeprom.c, as bootsource.c calls *)
(* it, and the controller and the EEPROM behind it.  The controller works  *)
(* on its own: it may be behind the driver, which then times out, or ahead *)
(* of it, for its FIFO holds more than a chunk; and what it has begun goes *)
(* on when the driver has given up.                                        *)
(*                                                                         *)
(* A byte of the EEPROM is named by its address.                           *)
(***************************************************************************)
EXTENDS Integers, Sequences

CONSTANTS
    Space,      \* addresses a 16-bit offset can tell apart
    Page,       \* EEPROM_PAGE_SIZE
    Offset,     \* where images are read from
    Length,     \* and how much of them at a time
    MaxFaults   \* bound: refusals, losses, and times that one end was late

ASSUME EepromAssumption ==
    /\ Page \in Nat \ {0} /\ Space \in Nat \ {0}
    /\ Offset \subseteq Nat /\ Length \subseteq Nat \ {0}

VARIABLES
    at,         \* closed, open, or where eeprom_read_chunk() is
    rd,         \* the locals of eeprom_read() and eeprom_read_chunk()
    dest,       \* what has been stored, by position
    bus,        \* what the controller is doing
    toGo,       \* bytes it has yet to receive
    pointer,    \* the address counter of the EEPROM
    fifo,       \* received bytes
    flags,      \* bits of I2C_STATUS: TX_EMPTY, NACK, AL
    faults      \* how many faults there have been

soft == <<at, rd, dest>>
hard == <<bus, toGo, pointer, fifo, flags>>
vars == <<soft, hard, faults>>

Address == 0 .. Space - 1
NoRead  == [reads |-> 0, first |-> 0, asked |-> 0, total |-> 0, offset |-> 0,
            left |-> 0, place |-> 0, chunk |-> 0, len |-> 0, ret |-> 0]

Init ==
    /\ at = "closed" /\ rd = NoRead /\ dest = << >>
    /\ bus = "idle" /\ toGo = 0 /\ pointer = 0 /\ fifo = << >> /\ flags = {}
    /\ faults = 0

Fault == faults < MaxFaults /\ faults' = faults + 1

-----------------------------------------------------------------------------
(* The driver                                                              *)

\* Mutant: the status is reset, the FIFO is not.
StatusReset ==
    /\ bus' = "idle" /\ toGo' = 0 /\ flags' = {}
    /\ UNCHANGED <<fifo, pointer>>

\* i2c_reset()
SoftReset ==
    /\ bus' = "idle" /\ toGo' = 0 /\ fifo' = << >> /\ flags' = {}
    /\ UNCHANGED pointer

\* i2c_stat_rst().  A NACK is only cleared by a soft reset.
StatRst == flags \cap {"NACK"}

\* eeprom_init() fails if it does not know the controller or finds a line low;
\* bootsource_init() then calls eeprom_deinit().
EepromInit ==
    /\ at = "closed"
    /\ at' \in {"closed", "open"}
    /\ SoftReset
    /\ rd' = NoRead /\ dest' = << >>
    /\ UNCHANGED faults

\* eeprom_deinit()
EepromDeinit ==
    /\ at = "open"
    /\ at' = "closed" /\ SoftReset
    /\ UNCHANGED <<rd, dest, faults>>

\* The next chunk: the EEPROM is told the offset, 16 bits of it.
StartChunk(r) ==
    LET toread == IF r.left < Page THEN r.left ELSE Page
    IN  /\ at' = "offset"
        /\ rd' = [r EXCEPT !.chunk = toread, !.len = toread, !.ret = 0]
        /\ bus' = "offset"
        /\ pointer' = r.offset % Space
        /\ flags' = flags \ {"TX_EMPTY"}
        /\ UNCHANGED <<toGo, fifo>>

\* eeprom_read()
Read(offset, length) ==
    /\ StartChunk([NoRead EXCEPT !.reads = rd.reads + 1, !.first = offset, !.asked = length,
                                 !.offset = offset, !.left = length])
    /\ dest' = [i \in 0 .. length - 1 |-> -1]
    /\ UNCHANGED faults

\* load_img() reads the header and, if it got all of it, the data.
ReadHeader(offset, length) ==
    /\ at = "open" /\ rd.reads = 0
    /\ Read(offset, length)

ReadData(length) ==
    /\ at = "open" /\ rd.reads = 1 /\ rd.total = rd.asked
    /\ Read(rd.first + rd.asked, length)

\* bailout: a short chunk is the end of the read.  What the controller was
\* told to do goes on.
BailOut ==
    /\ at' = "open"
    /\ rd' = [rd EXCEPT !.total = @ + rd.ret]
    /\ flags' = StatRst
    /\ UNCHANGED <<bus, toGo, pointer, fifo>>

\* The offset is sent: the controller is told to receive the chunk.
OffsetSent ==
    /\ at = "offset" /\ "TX_EMPTY" \in flags
    /\ at' = "bytes"
    /\ bus' = "receive" /\ toGo' = rd.chunk
    /\ flags' = StatRst
    /\ UNCHANGED <<rd, dest, pointer, fifo, faults>>

OffsetFails ==
    /\ at = "offset" /\ "TX_EMPTY" \notin flags
    /\ IF flags = {} THEN Fault ELSE UNCHANGED faults  \* a time-out, if there is no reason
    /\ BailOut
    /\ UNCHANGED dest

\* Mutant: a NACK is never expected.
AnyNack == "NACK" \in flags

\* With the last byte the controller sends one itself.
BadNack == rd.len > 1 /\ "NACK" \in flags

\* A byte is taken from the FIFO.
Byte ==
    /\ at = "bytes" /\ fifo # << >>
    /\ IF BadNack \/ "AL" \in flags
         THEN BailOut /\ UNCHANGED dest
         ELSE /\ dest' = [dest EXCEPT ![rd.place + rd.ret] = Head(fifo)]
              /\ fifo' = Tail(fifo)
              /\ rd' = [rd EXCEPT !.len = @ - 1, !.ret = @ + 1]
              /\ at' = IF rd.len = 1 THEN "release" ELSE "bytes"
              /\ UNCHANGED <<bus, toGo, pointer, flags>>
    /\ UNCHANGED faults

NoByte ==
    /\ at = "bytes" /\ fifo = << >>
    /\ IF flags = {} THEN Fault ELSE UNCHANGED faults
    /\ BailOut
    /\ UNCHANGED dest

\* The bus is released, or is not: the controller is reset all the same.
Release ==
    /\ at = "release"
    /\ at' = "chunk" /\ SoftReset
    /\ UNCHANGED <<rd, dest, faults>>

\* The loop of eeprom_read() goes on.
ChunkDone ==
    /\ at = "chunk"
    /\ LET r == [rd EXCEPT !.total = @ + rd.ret, !.offset = @ + rd.chunk,
                           !.left = @ - rd.chunk, !.place = @ + rd.chunk]
       IN  IF r.left > 0 THEN StartChunk(r)
           ELSE at' = "open" /\ rd' = r /\ UNCHANGED hard
    /\ UNCHANGED <<dest, faults>>

Driver ==
    \/ OffsetSent \/ OffsetFails \/ Byte \/ NoByte \/ Release \/ ChunkDone

Caller ==
    \/ EepromInit \/ EepromDeinit
    \/ \E l \in Length : ReadData(l) \/ \E o \in Offset : ReadHeader(o, l)

-----------------------------------------------------------------------------
(* The controller and the EEPROM                                           *)

SendsOffset ==
    /\ bus = "offset"
    /\ bus' = "hold" /\ flags' = flags \cup {"TX_EMPTY"}
    /\ UNCHANGED <<soft, toGo, pointer, fifo, faults>>

\* A byte arrives; the controller answers the last one with a NACK.  It is
\* ahead of the driver if the byte before has not been taken.
Receives ==
    /\ bus = "receive"
    /\ fifo' = Append(fifo, pointer)
    /\ pointer' = (pointer + 1) % Space
    /\ toGo' = toGo - 1
    /\ IF toGo = 1 THEN bus' = "stop" /\ flags' = flags \cup {"NACK"} ELSE UNCHANGED <<bus, flags>>
    /\ IF fifo # << >> THEN Fault ELSE UNCHANGED faults
    /\ UNCHANGED soft

Stops ==
    /\ bus = "stop"
    /\ bus' = "idle"
    /\ UNCHANGED <<soft, toGo, pointer, fifo, flags, faults>>

\* The EEPROM is busy or absent, or another master has got the bus.
Refused ==
    /\ bus \in {"offset", "receive"}
    /\ Fault
    /\ bus' = "idle" /\ toGo' = 0
    /\ \E f \in {"NACK", "AL"} : flags' = flags \cup {f}
    /\ UNCHANGED <<soft, pointer, fifo>>

Hardware == SendsOffset \/ Receives \/ Stops \/ Refused

Next == Caller \/ Driver \/ Hardware
Spec == Init /\ [][Next]_vars

-----------------------------------------------------------------------------
(* Properties                                                              *)

\* What eeprom_read() counts as read is what the EEPROM has there, whatever
\* an earlier read that was given up has left in the controller, and what it
\* goes on receiving; offsets are taken modulo 64 KiB (eeprom.c:66).
BytesAreTheEeproms ==
    \A i \in 0 .. rd.total - 1 : dest[i] = (rd.first + i) % Space

\* A read is short only if something has gone wrong on the bus or one end was
\* late: chunks do not disturb each other (eeprom.c:112, eeprom.c:142).
ReadIsComplete ==
    at = "open" /\ faults = 0 => rd.total = rd.asked
=============================================================================
