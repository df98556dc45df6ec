---------------------------- MODULE EepromProofs ----------------------------
(***************************************************************************)
(* Proofs about the EEPROM boot source, for every size of a chunk and of   *)
(* the address space, every offset and length that is asked for, and any   *)
(* number of faults.                                                       *)
(***************************************************************************)
EXTENDS Eeprom, Arithmetic, SequenceTheorems

-----------------------------------------------------------------------------
(***************************************************************************)
(* The inductive invariant.  Chunk says what ties the locals of            *)
(* eeprom_read() together while a chunk is read, InFlight that what the    *)
(* controller has received and the driver has not taken continues what it  *)
(* has taken, Quiet that nothing of an earlier chunk is in the controller  *)
(* when a read begins, and Smooth what is known of the status as long as   *)
(* nothing has gone wrong: the NACK is there with the last byte only.      *)
(***************************************************************************)
Reading == {"offset", "bytes", "release", "chunk"}

Locals == [reads : Nat, first : Nat, asked : Nat, total : Nat, offset : Nat,
           left : Nat, place : Nat, chunk : Nat, len : Nat, ret : Nat]

EepromType ==
    /\ at \in Reading \cup {"closed", "open"}
    /\ rd \in Locals
    /\ DOMAIN dest = 0 .. rd.asked - 1
    /\ bus \in {"idle", "offset", "hold", "receive", "stop"}
    /\ toGo \in Int
    /\ pointer \in Address
    /\ fifo \in Seq(Address)
    /\ flags \subseteq {"TX_EMPTY", "NACK", "AL"}
    /\ faults \in Nat

Chunk ==
    at \in Reading =>
        /\ rd.reads > 0
        /\ rd.total = rd.place
        /\ rd.offset = rd.first + rd.place
        /\ rd.asked = rd.place + rd.left
        /\ rd.chunk \in 1 .. rd.left
        /\ rd.chunk = rd.ret + rd.len
        /\ at = "offset" => rd.ret = 0
        /\ at = "bytes" => rd.len > 0
        /\ at \in {"release", "chunk"} => rd.len = 0

Stored(n) == \A i \in Nat : i < n => dest[i] = (rd.first + i) % Space

Taken ==
    /\ rd.total <= rd.asked
    /\ at \in Reading => Stored(rd.total + rd.ret)
    /\ at \notin Reading => Stored(rd.total)

InFlight ==
    /\ at = "offset" =>
           /\ bus \in {"offset", "hold", "idle"}
           /\ fifo = << >> /\ pointer = rd.offset % Space
    /\ at = "bytes" =>
           /\ bus \in {"receive", "stop", "idle"}
           /\ pointer = (rd.offset + rd.ret + Len(fifo)) % Space
           /\ \A k \in 1 .. Len(fifo) : fifo[k] = (rd.offset + rd.ret + k - 1) % Space

Quiet ==
    \/ at = "chunk"
    \/ at = "open" /\ (rd.reads = 0 \/ rd.total = rd.asked)
    => bus = "idle" /\ fifo = << >> /\ flags = {}

Smooth ==
    faults = 0 =>
        /\ at = "open" => rd.total = rd.asked
        /\ at = "offset" => flags \subseteq {"TX_EMPTY"}
        /\ at = "bytes" =>
               /\ flags \subseteq {"NACK"}
               /\ bus = "receive" => flags = {} /\ rd.chunk = rd.ret + Len(fifo) + toGo /\ toGo > 0
               /\ bus # "receive" => flags = {"NACK"} /\ rd.chunk = rd.ret + Len(fifo)
               /\ Len(fifo) <= 1

EepromInv == EepromType /\ Chunk /\ Taken /\ InFlight /\ Quiet /\ Smooth

-----------------------------------------------------------------------------
(* What is used of the constants.                                          *)

LEMMA Sizes ==
    /\ Page \in Nat \ {0} /\ Space \in Nat \ {0}
    /\ Offset \subseteq Nat /\ Length \subseteq Nat \ {0}
BY EepromAssumption DEF EepromAssumption

LEMMA Wraps == \A n \in Nat : n % Space \in Address
BY Sizes DEF Address

LEMMA Fields ==
    ASSUME NEW r \in Locals
    PROVE  /\ r.reads \in Nat /\ r.first \in Nat /\ r.asked \in Nat /\ r.total \in Nat
           /\ r.offset \in Nat /\ r.left \in Nat /\ r.place \in Nat /\ r.chunk \in Nat
           /\ r.len \in Nat /\ r.ret \in Nat
BY DEF Locals

LEMMA NothingRead ==
    NoRead \in Locals /\ NoRead.total = 0 /\ NoRead.place = 0
BY DEF NoRead, Locals

\* The locals when the k-th read begins.
Begun(k, o, l) ==
    [NoRead EXCEPT !.reads = k, !.first = o, !.asked = l, !.offset = o, !.left = l]

LEMMA ReadBegins ==
    ASSUME NEW k \in Nat, NEW o \in Nat, NEW l \in Nat \ {0}
    PROVE  LET r == Begun(k, o, l)
           IN  /\ r \in Locals /\ r.reads = k /\ r.first = o /\ r.asked = l
               /\ r.offset = o /\ r.left = l /\ r.total = 0 /\ r.place = 0
<1> DEFINE a == [NoRead EXCEPT !.reads = k, !.first = o]
           b == [a EXCEPT !.asked = l, !.offset = o]
           c == [b EXCEPT !.left = l]
<1>1. a \in Locals /\ a.reads = k /\ a.first = o /\ a.total = 0 /\ a.place = 0
  BY NothingRead DEF Locals
<1> HIDE DEF a
<1>2. /\ b \in Locals /\ b.reads = k /\ b.first = o /\ b.asked = l /\ b.offset = o
      /\ b.total = 0 /\ b.place = 0
  BY <1>1 DEF Locals
<1> HIDE DEF b
<1>3. /\ c \in Locals /\ c.reads = k /\ c.first = o /\ c.asked = l /\ c.offset = o
      /\ c.left = l /\ c.total = 0 /\ c.place = 0
  BY <1>2 DEF Locals
<1> QED
  BY <1>3, Zenon DEF a, b, c, Begun

\* The locals when a chunk has been read.
Ended(r) == [r EXCEPT !.total = @ + r.ret, !.offset = @ + r.chunk,
                      !.left = @ - r.chunk, !.place = @ + r.chunk]

LEMMA ChunkEnds ==
    ASSUME NEW r \in Locals, r.chunk <= r.left
    PROVE  /\ Ended(r) \in Locals
           /\ Ended(r).total = r.total + r.ret /\ Ended(r).offset = r.offset + r.chunk
           /\ Ended(r).left = r.left - r.chunk /\ Ended(r).place = r.place + r.chunk
           /\ Ended(r).first = r.first /\ Ended(r).asked = r.asked
           /\ Ended(r).reads = r.reads
<1>1. PICK t \in Nat, o \in Nat, l \in Nat, p \in Nat :
          t = r.total + r.ret /\ o = r.offset + r.chunk /\ l = r.left - r.chunk
          /\ p = r.place + r.chunk
  BY Fields, SMTT(20)
<1> DEFINE a == [r EXCEPT !.total = t, !.offset = o]
           b == [a EXCEPT !.left = l, !.place = p]
<1>2. a \in Locals /\ a.total = t /\ a.offset = o /\ a.left = r.left /\ a.place = r.place
      /\ a.first = r.first /\ a.asked = r.asked /\ a.reads = r.reads
  BY DEF Locals
<1> HIDE DEF a
<1>3. b \in Locals /\ b.total = t /\ b.offset = o /\ b.left = l /\ b.place = p
      /\ b.first = r.first /\ b.asked = r.asked /\ b.reads = r.reads
  BY <1>2 DEF Locals
<1>4. Ended(r) = b
  BY <1>1 DEF Ended, a
<1> QED
  BY <1>1, <1>3, <1>4

LEMMA InitEstablishes == Init => EepromInv
BY Sizes DEF Init, EepromInv, EepromType, Locals, NoRead, Chunk, Taken, Stored,
   InFlight, Quiet, Smooth, Reading, Address

\* A chunk begins with the controller at rest.
LEMMA ChunkBegins ==
    ASSUME EepromType, NEW r \in Locals, StartChunk(r),
           fifo = << >>, flags = {}, UNCHANGED faults,
           r.reads > 0, r.total = r.place, r.offset = r.first + r.place,
           r.asked = r.place + r.left, r.left > 0,
           DOMAIN dest' = 0 .. r.asked - 1,
           \A i \in Nat : i < r.total => dest'[i] = (r.first + i) % Space
    PROVE  EepromInv'
<1> DEFINE n == IF r.left < Page THEN r.left ELSE Page
<1>1. n \in 1 .. r.left
  BY Sizes, Fields
<1>2. /\ at' = "offset" /\ bus' = "offset"
      /\ rd' = [r EXCEPT !.chunk = n, !.len = n, !.ret = 0]
      /\ pointer' = r.offset % Space /\ fifo' = << >> /\ flags' = {}
      /\ toGo' = toGo
  BY DEF StartChunk
<1> HIDE DEF n
<1>3. /\ rd' \in Locals
      /\ rd'.total = r.total /\ rd'.place = r.place /\ rd'.offset = r.offset
      /\ rd'.first = r.first /\ rd'.asked = r.asked /\ rd'.left = r.left
      /\ rd'.reads = r.reads /\ rd'.chunk = n /\ rd'.len = n /\ rd'.ret = 0
  <2>1. n \in Nat
    BY <1>1, Fields
  <2> QED
    BY <1>2, <2>1 DEF Locals
<1>4. pointer' \in Address
  BY <1>2, Fields, Wraps
<1>5. EepromType'
  BY <1>2, <1>3, <1>4 DEF EepromType, Reading
<1>6. Chunk'
  BY <1>1, <1>2, <1>3 DEF Chunk, Reading, Locals
<1>7. Taken'
  <2>1. rd'.total + rd'.ret = r.total /\ rd'.total <= rd'.asked
    BY <1>3 DEF Locals
  <2>2. Stored(rd.total + rd.ret)'
    BY <1>3, <2>1 DEF Stored
  <2> QED
    BY <1>2, <2>1, <2>2 DEF Taken, Reading
<1>8. InFlight' /\ Quiet' /\ Smooth'
  BY <1>2, <1>3 DEF InFlight, Quiet, Smooth
<1> QED
  BY <1>5, <1>6, <1>7, <1>8 DEF EepromInv

\* A read that is given up leaves what it has taken.
LEMMA ReadIsGivenUp ==
    ASSUME EepromInv, BailOut, at \in {"offset", "bytes"},
           UNCHANGED dest, faults' \in Nat \ {0}
    PROVE  EepromInv'
<1>1. /\ at' = "open" /\ rd' = [rd EXCEPT !.total = @ + rd.ret]
      /\ flags' = flags \cap {"NACK"}
      /\ UNCHANGED <<bus, toGo, pointer, fifo, dest>>
  BY DEF BailOut, StatRst
<1>2. /\ rd' \in Locals /\ rd'.total = rd.total + rd.ret
      /\ rd'.first = rd.first /\ rd'.asked = rd.asked /\ rd'.reads = rd.reads
  <2>1. rd \in Locals /\ rd.total + rd.ret \in Nat
    BY Fields DEF EepromInv, EepromType
  <2> QED
    BY <1>1, <2>1 DEF Locals
<1>3. rd'.total < rd'.asked
  <2>1. rd \in Locals
    BY DEF EepromInv, EepromType
  <2>2. /\ rd.total = rd.place /\ rd.asked = rd.place + rd.left /\ rd.chunk \in 1 .. rd.left
        /\ rd.chunk = rd.ret + rd.len /\ (at = "offset" => rd.ret = 0)
        /\ (at = "bytes" => rd.len > 0)
    BY DEF EepromInv, Chunk, Reading
  <2> QED
    BY <1>2, <2>1, <2>2, Fields
<1>4. EepromType' /\ Chunk' /\ InFlight' /\ Smooth'
  BY <1>1, <1>2 DEF EepromInv, EepromType, Chunk, InFlight, Smooth, Reading
<1>5. Taken'
  <2>1. Stored(rd.total + rd.ret)
    BY DEF EepromInv, Taken, Reading
  <2>2. rd'.total <= rd'.asked
    BY <1>2, <1>3, Fields
  <2>3. Stored(rd.total)'
    BY <1>1, <1>2, <2>1 DEF Stored
  <2> QED
    BY <1>1, <2>2, <2>3 DEF Taken, Reading
<1>6. Quiet'
  <2>1. rd.reads # 0
    BY DEF EepromInv, EepromType, Chunk, Reading, Locals
  <2> QED
    BY <1>1, <1>2, <1>3, <2>1 DEF Quiet, EepromType, Locals
<1> QED
  BY <1>4, <1>5, <1>6 DEF EepromInv

-----------------------------------------------------------------------------
(* Every step preserves the invariant.                                     *)

LEMMA EepromStep ==
    ASSUME EepromInv, [Next]_vars
    PROVE  EepromInv'
<1> USE DEF EepromInv
<1>1. CASE EepromInit
  <2>1. /\ at' \in {"closed", "open"} /\ bus' = "idle" /\ toGo' = 0
        /\ fifo' = << >> /\ flags' = {} /\ rd' = NoRead /\ dest' = << >>
        /\ UNCHANGED <<pointer, faults>>
    BY <1>1 DEF EepromInit, SoftReset
  <2> QED
    BY <2>1, SMTT(20) DEF EepromType, Locals, NoRead, Chunk, Taken, Stored, InFlight, Quiet,
                Smooth, Reading
<1>2. CASE EepromDeinit
  <2>1. /\ at' = "closed" /\ at = "open" /\ bus' = "idle" /\ toGo' = 0
        /\ fifo' = << >> /\ flags' = {} /\ UNCHANGED <<pointer, rd, dest, faults>>
    BY <1>2 DEF EepromDeinit, SoftReset
  <2> QED
    BY <2>1 DEF EepromType, Chunk, Taken, Stored, InFlight, Quiet, Smooth, Reading
<1>3. ASSUME NEW o \in Offset, NEW l \in Length, ReadHeader(o, l)
      PROVE  EepromInv'
  <2> DEFINE r == Begun(rd.reads + 1, o, l)
  <2>1. /\ at = "open" /\ rd.reads = 0 /\ StartChunk(r)
        /\ dest' = [i \in 0 .. l - 1 |-> -1] /\ UNCHANGED faults
    BY <1>3 DEF ReadHeader, Read, Begun
  <2>2. fifo = << >> /\ flags = {}
    BY <2>1 DEF Quiet
  <2>3. /\ r \in Locals /\ r.reads = rd.reads + 1 /\ r.first = o /\ r.asked = l
        /\ r.offset = o /\ r.left = l /\ r.total = 0 /\ r.place = 0
    <3>1. o \in Nat /\ l \in Nat \ {0} /\ rd.reads + 1 \in Nat
      BY <2>1, Sizes
    <3> QED
      BY <3>1, ReadBegins
  <2> HIDE DEF r
  <2> QED
    BY <2>1, <2>2, <2>3, ChunkBegins, Sizes
<1>4. ASSUME NEW l \in Length, ReadData(l)
      PROVE  EepromInv'
  <2> DEFINE o == rd.first + rd.asked
             r == Begun(rd.reads + 1, o, l)
  <2>1. /\ at = "open" /\ rd.reads = 1 /\ rd.total = rd.asked /\ StartChunk(r)
        /\ dest' = [i \in 0 .. l - 1 |-> -1] /\ UNCHANGED faults
    BY <1>4 DEF ReadData, Read, Begun
  <2>2. fifo = << >> /\ flags = {}
    BY <2>1 DEF Quiet
  <2>3. o \in Nat
    BY DEF EepromType, Locals
  <2> HIDE DEF o
  <2>4. /\ r \in Locals /\ r.reads = rd.reads + 1 /\ r.first = o /\ r.asked = l
        /\ r.offset = o /\ r.left = l /\ r.total = 0 /\ r.place = 0
    <3>1. l \in Nat \ {0} /\ rd.reads + 1 \in Nat
      BY <2>1, Sizes
    <3> QED
      BY <2>3, <3>1, ReadBegins
  <2> HIDE DEF r
  <2> QED
    BY <2>1, <2>2, <2>3, <2>4, ChunkBegins, Sizes
<1>5. CASE OffsetSent
  <2>1. /\ at = "offset" /\ "TX_EMPTY" \in flags /\ at' = "bytes" /\ bus' = "receive"
        /\ toGo' = rd.chunk /\ flags' = flags \cap {"NACK"}
        /\ UNCHANGED <<rd, dest, pointer, fifo, faults>>
    BY <1>5 DEF OffsetSent, StatRst
  <2>2. fifo = << >> /\ rd.ret = 0 /\ Len(fifo) = 0 /\ rd.chunk \in Nat \ {0}
        /\ rd.len = rd.chunk /\ rd.offset \in Nat /\ rd.total \in Nat
    BY <2>1 DEF InFlight, Chunk, Reading, EepromType, Locals
  <2>3. EepromType'
    BY <2>1, <2>2 DEF EepromType, Reading
  <2>4. Chunk' /\ Taken'
    BY <2>1, <2>2 DEF Chunk, Taken, Stored, Reading
  <2>5. InFlight' /\ Quiet' /\ Smooth'
    BY <2>1, <2>2 DEF InFlight, Quiet, Smooth
  <2> QED
    BY <2>3, <2>4, <2>5
<1>6. CASE OffsetFails
  <2>1. /\ at = "offset" /\ BailOut /\ UNCHANGED dest
    BY <1>6 DEF OffsetFails
  <2>2. faults' \in Nat \ {0}
    <3>1. CASE flags = {}
      BY <1>6, <3>1 DEF OffsetFails, Fault, EepromType
    <3>2. CASE flags # {}
      BY <1>6, <3>2 DEF OffsetFails, Smooth, EepromType
    <3> QED
      BY <3>1, <3>2
  <2> QED
    BY <2>1, <2>2, ReadIsGivenUp
<1>7. CASE Byte
  <2>1. at = "bytes" /\ fifo # << >> /\ UNCHANGED faults
    BY <1>7 DEF Byte
  <2>2. Len(fifo) \in Nat \ {0} /\ Head(fifo) = fifo[1]
    BY <2>1 DEF EepromType
  <2>3. rd \in Locals /\ faults \in Nat
    BY DEF EepromType
  <2>f. /\ rd.reads > 0 /\ rd.total = rd.place /\ rd.offset = rd.first + rd.place
        /\ rd.asked = rd.place + rd.left /\ rd.chunk \in 1 .. rd.left
        /\ rd.chunk = rd.ret + rd.len /\ rd.len > 0
    BY <2>1 DEF Chunk, Reading
  <2>4. CASE BadNack \/ "AL" \in flags
    <3>1. BailOut /\ UNCHANGED dest
      BY <1>7, <2>4 DEF Byte
    <3>2. faults # 0
      <4>1. SUFFICES ASSUME faults = 0 PROVE FALSE
        OBVIOUS
      <4>2. "NACK" \in flags /\ rd.len > 1
        BY <2>1, <2>4, <4>1 DEF Smooth, BadNack
      <4>3. rd.chunk = rd.ret + Len(fifo) /\ Len(fifo) <= 1 /\ rd.chunk = rd.ret + rd.len
        BY <2>1, <4>1, <4>2 DEF Smooth, Chunk, Reading
      <4> QED
        BY <2>2, <2>3, <4>2, <4>3 DEF Locals
    <3> QED
      BY <2>1, <2>3, <3>1, <3>2, ReadIsGivenUp
  <2>5. CASE ~(BadNack \/ "AL" \in flags)
    <3>1. /\ dest' = [dest EXCEPT ![rd.place + rd.ret] = Head(fifo)]
          /\ fifo' = Tail(fifo)
          /\ rd' = [rd EXCEPT !.len = @ - 1, !.ret = @ + 1]
          /\ at' = IF rd.len = 1 THEN "release" ELSE "bytes"
          /\ UNCHANGED <<bus, toGo, pointer, flags>>
      BY <1>7, <2>5 DEF Byte
    <3>2. /\ rd' \in Locals /\ rd'.len = rd.len - 1 /\ rd'.ret = rd.ret + 1
          /\ rd'.reads = rd.reads /\ rd'.first = rd.first /\ rd'.asked = rd.asked
          /\ rd'.total = rd.total /\ rd'.offset = rd.offset /\ rd'.left = rd.left
          /\ rd'.place = rd.place /\ rd'.chunk = rd.chunk
      <4>1. rd.len - 1 \in Nat /\ rd.ret + 1 \in Nat
        BY <2>3, <2>f, Fields
      <4> QED
        BY <2>3, <3>1, <4>1 DEF Locals
    <3>3. /\ fifo' \in Seq(Address) /\ Len(fifo') = Len(fifo) - 1
          /\ \A k \in 1 .. Len(fifo') : fifo'[k] = fifo[k + 1]
      BY <2>1, <3>1, HeadTailProperties DEF EepromType
    <3>4. EepromType'
      BY <2>1, <3>1, <3>2, <3>3 DEF EepromType, Reading
    <3>5. Chunk'
      <4>1. rd'.ret + rd'.len = rd.ret + rd.len
        BY <2>3, <3>2, Fields
      <4>2. rd.len = 1 => rd'.len = 0
        BY <3>2
      <4>3. rd.len # 1 => rd'.len > 0
        BY <2>3, <2>f, <3>2, Fields
      <4> QED
        BY <2>f, <3>1, <3>2, <4>1, <4>2, <4>3 DEF Chunk
    <3>6. Taken'
      <4>1. rd.place = rd.total /\ rd.offset = rd.first + rd.total
            /\ rd.total + rd.ret < rd.asked
        BY <2>3, <2>f, Fields
      <4>2. Head(fifo) = (rd.first + (rd.total + rd.ret)) % Space
        <5>1. fifo[1] = (rd.offset + rd.ret + 1 - 1) % Space
          BY <2>1, <2>2 DEF InFlight
        <5>2. rd.offset + rd.ret + 1 - 1 = rd.first + (rd.total + rd.ret)
          BY <2>3, <4>1 DEF Locals
        <5> QED
          BY <2>2, <5>1, <5>2
      <4>3. Stored(rd.total + rd.ret)
        BY <2>1 DEF Taken, Reading
      <4>4. ASSUME NEW i \in 0 .. rd.total + rd.ret
            PROVE  dest'[i] = (rd.first + i) % Space
        <5>1. i \in DOMAIN dest /\ rd.place + rd.ret = rd.total + rd.ret
          BY <2>3, <4>1, Fields DEF EepromType
        <5>2. CASE i = rd.total + rd.ret
          BY <3>1, <4>2, <5>1, <5>2
        <5>3. CASE i # rd.total + rd.ret
          <6>1. i \in 0 .. rd.total + rd.ret - 1
            BY <2>3, <5>3, Fields
          <6>2. i \in Nat /\ i < rd.total + rd.ret
            BY <2>3, <6>1, Fields
          <6>3. dest[i] = (rd.first + i) % Space
            BY <4>3, <6>2 DEF Stored
          <6> QED
            BY <3>1, <5>1, <5>3, <6>3
        <5> QED
          BY <5>2, <5>3
      <4>5. rd'.total + rd'.ret - 1 = rd.total + rd.ret /\ rd'.total <= rd'.asked
        BY <2>3, <3>2, <4>1, Fields
      <4>6. ASSUME NEW i \in Nat, i < rd'.total + rd'.ret
            PROVE  dest'[i] = (rd'.first + i) % Space
        <5>1. i \in 0 .. rd.total + rd.ret
          BY <2>3, <3>2, <4>5, <4>6, Fields
        <5> QED
          BY <3>2, <4>4, <5>1
      <4>7. (rd.total <= rd.asked)' /\ at' \in Reading
        BY <3>1, <4>5 DEF Reading
      <4> QED
        BY <4>6, <4>7 DEF Taken, Stored
    <3>7. InFlight'
      <4>1. rd'.offset + rd'.ret + Len(fifo') = rd.offset + rd.ret + Len(fifo)
        BY <2>2, <2>3, <3>2, <3>3, SMTT(20) DEF Locals
      <4>2. ASSUME NEW k \in 1 .. Len(fifo')
            PROVE  fifo'[k] = (rd'.offset + rd'.ret + k - 1) % Space
        <5>1. fifo[k + 1] = (rd.offset + rd.ret + (k + 1) - 1) % Space
          BY <2>1, <2>2, <3>3 DEF InFlight
        <5>2. rd.offset + rd.ret + (k + 1) - 1 = rd'.offset + rd'.ret + k - 1
          BY <2>3, <3>2, SMTT(20) DEF Locals
        <5> QED
          BY <3>3, <5>1, <5>2
      <4> QED
        BY <2>1, <3>1, <4>1, <4>2 DEF InFlight
    <3>8. Quiet'
      BY <3>1 DEF Quiet
    <3>9. Smooth'
      <4>1. SUFFICES ASSUME faults' = 0 PROVE Smooth'
        BY DEF Smooth
      <4>2. /\ flags \subseteq {"NACK"} /\ Len(fifo) <= 1
            /\ bus = "receive" => flags = {} /\ rd.chunk = rd.ret + Len(fifo) + toGo /\ toGo > 0
            /\ bus # "receive" => flags = {"NACK"} /\ rd.chunk = rd.ret + Len(fifo)
        BY <2>1, <4>1 DEF Smooth
      <4>3. rd'.ret + Len(fifo') = rd.ret + Len(fifo) /\ Len(fifo') <= 1
        BY <2>2, <2>3, <3>2, <3>3, <4>2, Fields
      <4> QED
        BY <3>1, <3>2, <4>2, <4>3 DEF Smooth
    <3> QED
      BY <3>4, <3>5, <3>6, <3>7, <3>8, <3>9
  <2> QED
    BY <2>4, <2>5
<1>8. CASE NoByte
  <2>1. at = "bytes" /\ fifo = << >> /\ BailOut /\ UNCHANGED dest
    BY <1>8 DEF NoByte
  <2>2. faults' \in Nat \ {0}
    <3>1. CASE flags = {}
      BY <1>8, <3>1 DEF NoByte, Fault, EepromType
    <3>2. CASE flags # {}
      <4>1. faults' = faults
        BY <1>8, <3>2 DEF NoByte
      <4>2. SUFFICES ASSUME faults = 0 PROVE FALSE
        BY <4>1 DEF EepromType
      <4>3. rd.chunk = rd.ret + 0 /\ rd.chunk = rd.ret + rd.len /\ rd.len > 0
        BY <2>1, <3>2, <4>2 DEF Smooth, Chunk, Reading
      <4> QED
        BY <4>3 DEF EepromType, Locals
    <3> QED
      BY <3>1, <3>2
  <2> QED
    BY <2>1, <2>2, ReadIsGivenUp
<1>9. CASE Release
  <2>1. /\ at = "release" /\ at' = "chunk" /\ bus' = "idle" /\ toGo' = 0
        /\ fifo' = << >> /\ flags' = {} /\ UNCHANGED <<pointer, rd, dest, faults>>
    BY <1>9 DEF Release, SoftReset
  <2> QED
    BY <2>1 DEF EepromType, Chunk, Taken, Stored, InFlight, Quiet, Smooth, Reading
<1>10. CASE ChunkDone
  <2> DEFINE r == Ended(rd)
  <2>1. /\ at = "chunk" /\ UNCHANGED <<dest, faults>>
        /\ IF r.left > 0 THEN StartChunk(r)
                         ELSE at' = "open" /\ rd' = r /\ UNCHANGED hard
    BY <1>10 DEF ChunkDone, Ended
  <2>2. rd \in Locals /\ fifo = << >> /\ flags = {} /\ bus = "idle"
    BY <2>1 DEF Quiet, EepromType
  <2>3. /\ rd.len = 0 /\ rd.total = rd.place /\ rd.offset = rd.first + rd.place
        /\ rd.asked = rd.place + rd.left /\ rd.chunk \in 1 .. rd.left /\ rd.chunk = rd.ret + rd.len
        /\ rd.reads > 0
    BY <2>1 DEF Chunk, Reading
  <2>4. /\ r \in Locals /\ r.total = r.place /\ r.offset = r.first + r.place
        /\ r.asked = r.place + r.left /\ r.total = rd.total + rd.ret
        /\ r.first = rd.first /\ r.asked = rd.asked /\ r.reads = rd.reads
    <3>1. /\ rd.first \in Nat /\ rd.place \in Nat /\ rd.chunk \in Nat /\ rd.left \in Nat
          /\ rd.ret = rd.chunk
      BY <2>2, <2>3, Fields
    <3>2. /\ r \in Locals /\ r.total = rd.total + rd.ret /\ r.offset = rd.offset + rd.chunk
          /\ r.left = rd.left - rd.chunk /\ r.place = rd.place + rd.chunk
          /\ r.first = rd.first /\ r.asked = rd.asked /\ r.reads = rd.reads
      <4>1. rd.chunk <= rd.left
        BY <2>2, <2>3, Fields
      <4> QED
        BY <2>2, <4>1, ChunkEnds
    <3>3. r.total = r.place
      BY <2>3, <3>1, <3>2
    <3>4. r.offset = r.first + r.place
      BY <2>3, <3>1, <3>2
    <3>5. r.asked = r.place + r.left
      BY <2>3, <3>1, <3>2
    <3> QED
      BY <3>2, <3>3, <3>4, <3>5
  <2>5. \A i \in Nat : i < r.total => dest'[i] = (r.first + i) % Space
    BY <2>1, <2>4 DEF Taken, Stored, Reading
  <2>6. DOMAIN dest' = 0 .. r.asked - 1
    BY <2>1, <2>4 DEF EepromType
  <2> HIDE DEF r
  <2>7. CASE r.left > 0
    BY <2>1, <2>2, <2>3, <2>4, <2>5, <2>6, <2>7, ChunkBegins
  <2>8. CASE ~(r.left > 0)
    <3>1. at' = "open" /\ rd' = r /\ UNCHANGED <<bus, toGo, pointer, fifo, flags>>
      BY <2>1, <2>8 DEF hard
    <3>2. r.total = r.asked
      BY <2>4, <2>8 DEF Locals
    <3>3. EepromType' /\ Chunk' /\ InFlight' /\ Quiet' /\ Smooth'
      BY <2>1, <2>2, <2>4, <2>6, <3>1, <3>2
      DEF EepromType, Chunk, InFlight, Quiet, Smooth, Reading
    <3>4. Taken'
      BY <2>4, <2>5, <3>1, <3>2 DEF Taken, Stored, Reading, Locals
    <3> QED
      BY <3>3, <3>4
  <2> QED
    BY <2>7, <2>8
<1>11. CASE SendsOffset
  <2>1. /\ bus = "offset" /\ bus' = "hold" /\ flags' = flags \cup {"TX_EMPTY"}
        /\ UNCHANGED <<at, rd, dest, toGo, pointer, fifo, faults>>
    BY <1>11 DEF SendsOffset, soft
  <2>2. EepromType' /\ Chunk' /\ Taken'
    BY <2>1 DEF EepromType, Chunk, Taken, Stored, Reading
  <2>3. InFlight' /\ Quiet' /\ Smooth'
    BY <2>1 DEF InFlight, Quiet, Smooth
  <2> QED
    BY <2>2, <2>3
<1>12. CASE Receives
  <2>1. /\ bus = "receive" /\ fifo' = Append(fifo, pointer)
        /\ pointer' = (pointer + 1) % Space /\ toGo' = toGo - 1
        /\ IF toGo = 1 THEN bus' = "stop" /\ flags' = flags \cup {"NACK"}
                       ELSE UNCHANGED <<bus, flags>>
        /\ faults' \in Nat
        /\ fifo # << >> => faults' # 0
        /\ fifo = << >> => faults' = faults
        /\ UNCHANGED <<at, rd, dest>>
    BY <1>12 DEF Receives, soft, Fault, EepromType
  <2>2. /\ fifo' \in Seq(Address) /\ Len(fifo') = Len(fifo) + 1
        /\ \A k \in 1 .. Len(fifo) : fifo'[k] = fifo[k]
        /\ fifo'[Len(fifo) + 1] = pointer /\ Len(fifo) \in Nat
    BY <2>1, AppendProperties, LenProperties DEF EepromType
  <2>3. pointer' \in Address
    BY <2>1, Wraps DEF EepromType, Address
  <2>4. EepromType'
    <3>1. bus' \in {"receive", "stop"} /\ flags' \subseteq {"TX_EMPTY", "NACK", "AL"}
      BY <2>1 DEF EepromType
    <3>2. toGo' \in Int
      BY <2>1 DEF EepromType
    <3> QED
      BY <2>1, <2>2, <2>3, <3>1, <3>2 DEF EepromType
  <2>5. Chunk' /\ Taken'
    BY <2>1 DEF Chunk, Taken, Stored
  <2>6. \/ at # "offset" /\ ~(at = "chunk" \/ (at = "open" /\ (rd.reads = 0 \/ rd.total = rd.asked)))
        \/ at = "offset"
    BY <2>1 DEF Quiet
  <2>7. at # "offset"
    BY <2>1 DEF InFlight
  <2>8. InFlight'
    <3>1. CASE at = "bytes"
      <4>1. pointer = (rd.offset + rd.ret + Len(fifo)) % Space
        BY <3>1 DEF InFlight
      <4>2. PICK a \in Nat : a = rd.offset + rd.ret + Len(fifo)
        BY <2>2 DEF EepromType, Locals
      <4>3. pointer' = (a + 1) % Space
        BY <2>1, <4>1, <4>2, ModSucc, Sizes
      <4>4. a + 1 = rd'.offset + rd'.ret + Len(fifo')
        <5>1. Len(fifo') = Len(fifo) + 1 /\ rd' = rd /\ Len(fifo) \in Nat
          BY <2>1, <2>2
        <5>2. rd.offset \in Nat /\ rd.ret \in Nat
          BY Fields DEF EepromType
        <5> QED
          BY <4>2, <5>1, <5>2
      <4>5. ASSUME NEW k \in 1 .. Len(fifo')
            PROVE  fifo'[k] = (rd'.offset + rd'.ret + k - 1) % Space
        <5>1. CASE k \in 1 .. Len(fifo)
          BY <2>1, <2>2, <3>1, <5>1 DEF InFlight
        <5>2. CASE k = Len(fifo) + 1
          <6>1. rd.offset + rd.ret + k - 1 = a
            BY <2>2, <4>2, <5>2 DEF EepromType, Locals
          <6> QED
            BY <2>1, <2>2, <4>1, <4>2, <5>2, <6>1
        <5> QED
          BY <2>2, <5>1, <5>2
      <4>6. bus' \in {"receive", "stop", "idle"}
        BY <2>1
      <4> QED
        BY <2>1, <2>7, <4>3, <4>4, <4>5, <4>6 DEF InFlight
    <3>2. CASE at # "bytes"
      BY <2>1, <2>7, <3>2 DEF InFlight
    <3> QED
      BY <3>1, <3>2
  <2>9. Quiet'
    BY <2>1, <2>6, <2>7 DEF Quiet
  <2>10. Smooth'
    <3>1. SUFFICES ASSUME faults' = 0 PROVE Smooth'
      BY DEF Smooth
    <3>2. faults = 0 /\ fifo = << >> /\ Len(fifo) = 0
      BY <2>1, <3>1
    <3>3. Len(fifo') = 1 /\ toGo \in Int /\ rd.ret \in Nat
      BY <2>2, <3>2, Fields DEF EepromType
    <3>4. CASE at = "bytes"
      <4>1. flags = {} /\ rd.chunk = rd.ret + 0 + toGo /\ toGo > 0
        BY <2>1, <3>2, <3>4 DEF Smooth
      <4>2. /\ flags' \subseteq {"NACK"}
            /\ bus' = "receive" => flags' = {} /\ toGo' > 0
            /\ bus' # "receive" => flags' = {"NACK"} /\ toGo = 1
        BY <2>1, <3>3, <4>1
      <4>3. rd.chunk = rd.ret + Len(fifo') + toGo'
        BY <2>1, <3>3, <4>1
      <4>4. toGo = 1 => rd.chunk = rd.ret + Len(fifo')
        BY <3>3, <4>1
      <4> QED
        BY <2>1, <3>3, <3>4, <4>2, <4>3, <4>4 DEF Smooth
    <3>5. CASE at # "bytes"
      BY <2>1, <2>7, <3>2, <3>5 DEF Smooth
    <3> QED
      BY <3>4, <3>5
  <2> QED
    BY <2>4, <2>5, <2>8, <2>9, <2>10
<1>13. CASE Stops
  <2>1. bus = "stop" /\ bus' = "idle"
        /\ UNCHANGED <<at, rd, dest, toGo, pointer, fifo, flags, faults>>
    BY <1>13 DEF Stops, soft
  <2> QED
    BY <2>1 DEF EepromType, Chunk, Taken, Stored, InFlight, Quiet, Smooth
<1>14. CASE Refused
  <2>1. /\ bus \in {"offset", "receive"} /\ bus' = "idle" /\ toGo' = 0
        /\ flags' \subseteq flags \cup {"NACK", "AL"} /\ faults' \in Nat \ {0}
        /\ UNCHANGED <<at, rd, dest, pointer, fifo>>
    BY <1>14 DEF Refused, soft, Fault, EepromType
  <2> QED
    BY <2>1 DEF EepromType, Chunk, Taken, Stored, InFlight, Quiet, Smooth
<1>15. CASE UNCHANGED vars
  BY <1>15 DEF vars, soft, hard, EepromType, Chunk, Taken, Stored, InFlight, Quiet, Smooth
<1> QED
  BY <1>1, <1>2, <1>3, <1>4, <1>5, <1>6, <1>7, <1>8, <1>9, <1>10, <1>11, <1>12, <1>13,
     <1>14, <1>15 DEF Next, Caller, Driver, Hardware

-----------------------------------------------------------------------------
(* The results.                                                            *)

LEMMA EepromInvariant == Spec => []EepromInv
<1>1. Init => EepromInv
  BY InitEstablishes
<1>2. EepromInv /\ [Next]_vars => EepromInv'
  BY EepromStep
<1> QED
  BY <1>1, <1>2, PTL DEF Spec

\* What eeprom_read() counts as read is what the EEPROM has there: a read that
\* was given up leaves nothing behind that a later one takes for its own, for
\* i2c_reset() empties the FIFO before and after every chunk (eeprom.c:142).
THEOREM CountedBytesAreTheEeproms == Spec => []BytesAreTheEeproms
<1>1. EepromInv => BytesAreTheEeproms
  <2>1. SUFFICES ASSUME EepromInv, NEW i \in 0 .. rd.total - 1
                 PROVE  dest[i] = (rd.first + i) % Space
    BY DEF BytesAreTheEeproms
  <2>2. i \in Nat /\ i < rd.total /\ i < rd.total + rd.ret
    BY <2>1, Fields DEF EepromInv, EepromType
  <2>3. CASE at \in Reading
    BY <2>1, <2>2, <2>3 DEF EepromInv, Taken, Stored
  <2>4. CASE at \notin Reading
    BY <2>1, <2>2, <2>4 DEF EepromInv, Taken, Stored
  <2> QED
    BY <2>3, <2>4
<1> QED
  BY <1>1, EepromInvariant, PTL

\* A read is short only after a refusal, a loss or a delay: the NACK that the
\* controller sends with the last byte is not taken for one (eeprom.c:112).
THEOREM UndisturbedReadsAreComplete == Spec => []ReadIsComplete
<1>1. EepromInv => ReadIsComplete
  BY DEF EepromInv, Smooth, ReadIsComplete
<1> QED
  BY <1>1, EepromInvariant, PTL
=============================================================================
