# Verification of RumBoot

RumBoot is the boot ROM of a family of RC Module chips and the bare-metal
environment that the programs and tests for those chips are built on. This directory
holds TLA+ models of it, TLC configurations that check them, and theorems about them
with proofs for TLAPS. Paths below are relative to the repository
(`src/lib/bootsource.c` is the boot source chain). `PROJECT.json` lists the
components, runs, findings, hazards and theorems, and maps every definition to the
lines it models.

## 1. The system

One core runs everything: there are no threads. Concurrency comes from interrupts,
from programs started on other CPU clusters, and from a host or test bench that
shares memory with the core.

| component | state | operations | what is hard | correct when |
|---|---|---|---|---|
| boot source chain, `lib/bootsource.c` | current source, offset, device hooks in force | init, read, deinit, try_chain, try_by_id | each hook and read fails on its own; return codes redirect the chain | devices are quiet when others run; loads stay in the SPL area; offsets advance; the chain ends |
| image checks and execution, `lib/bootimage.c` | the SPL area and its status word | check_header, check_data, execute | decapsulation, relocation over running programs, refusal half way | only checked images run, and once |
| ROM main and host mode, `platform/common/bootrom/bootrom.c` | - | poll, XMODEM upload, execute | a host writes the area while it is polled | no upload is run unchecked or twice; each is consumed |
| boot CPU clusters, `platform/*/boot-cpus.c`, `lib/drivers/nfifo.c`, `platform/nmc/glue.c` | programs on the clusters, two FIFOs | start, poll, kill; print, read, exit | asynchronous programs, FIFOs that fill up | output is whole, a status is that of the image waited for |
| interrupt core, `irq.c` | active table, counters, type, context | create, set_handler, activate, enable, disable, adjust, dispatch | nesting, critical interrupts inside atomic blocks | handlers are called whole, interrupts end and return where they came from |
| MPIC128, `lib/drivers/irq-mpic128.c` | line priorities, in-service interrupts | begin, end, configure, adjust | three interrupt classes, spurious vectors | the right EOI |
| XMODEM, `lib/xmodem.c` | sequence number, retries, last answer | get, tx | loss, corruption, late answers | blocks are stored in order and once; both ends agree and return |
| heaps, `lib/malloc.c` | position and saved position per heap | register, malloc, update_heaps | alignment, one saved position for nested saves | blocks are disjoint and inside their heap; heaps are found |
| test suites, `lib/testsuite.c` | totals | run, skip | what tests allocate | heaps are as they were before each test |
| start-up, `rumboot_main.c`, `lib/newlib-stubs.c` | runtime info, jump buffer | rumboot_main, exit | programs that call programs share both | the exit code reaches the caller |
| event channels, `lib/eventsystem/*` | two shared words | raise, get, clear | no handshake outwards | events are not torn |
| SD card boot source, `lib/bootsrc/sdio.c` | card type, request, events seen | init, read, deinit | events acknowledged before they are waited for, failing commands, kinds of cards | what is counted as read is the card's |
| EEPROM boot source, `lib/bootsrc/eeprom.c` | chunk, controller FIFO and status | init, read, deinit | reads that are given up while the controller goes on | what is counted as read is the EEPROM's |
| other boot sources, `lib/bootsrc/*` | - | init, read, deinit | - | - |
| decompression, `lib/algo/shrink.c` | decoder buffers | decompress | sinks and polls | all input is consumed |
| drivers, platform glue, printing, Lua, gcov | registers | - | hardware behaviour | - |

Components interact by calls: `main()` calls the chain, the chain calls the hooks of
a source and then `rumboot_bootimage_execute()`, which calls the image, whose return
code travels back and decides how the chain goes on. Shared memory connects the ROM
with the host (the SPL area and the status word in the magic field) and with the
clusters. Callbacks are the hooks of sources and clusters and the interrupt
handlers, which dispatch calls with interrupts masked or not. A program is linked
with its runtime info, heaps and jump buffer among it, at the address that the
program that called it has its own at.

## 2. Modules

| module | what it is |
|---|---|
| `BootImage` | images as a function `Img` from names to fields; check_header, check_data, the rounding of lengths |
| `BootRom` | the ROM as a state machine with its environment; extends `BootImage` |
| `BootPolicy` | what the ROM promises about the order in which it tries things |
| `MCBootRom` | a small board for TLC |
| `Irq` | irq.c, its PowerPC entry code and the MPIC128 |
| `MCIrq` | small instances of `Irq` |
| `XmodemSpec` | what a receiver promises to the callback that stores the blocks |
| `Xmodem`, `MCXmodem` | both ends of a transfer and the line between them |
| `Sdio`, `MCSdio` | the SD card source, the controller and the card |
| `Eeprom`, `MCEeprom` | the EEPROM source, the I2C controller and the EEPROM |
| `Heap` | malloc.c as operators on the heaps of the runtime info |
| `Program`, `MCProgram` | rumboot_main(), main(), exit() of programs that call each other; extends `Heap` |
| `BootCpu`, `MCBootCpu` | boot CPU and second processor with the FIFOs between them |
| `Arithmetic` | lemmas about remainders, quotients and rounding |
| `BootRomProofs`, `IrqProofs`, `XmodemProofs`, `SdioProofs`, `EepromProofs`, `ProgramProofs`, `BootCpuProofs` | theorems about each of the machines, with proofs |

`BootRom` is the core. `Sdio` and `Eeprom` detail what it takes a source's hooks and
reads for: they may fail, they return no more than they were asked for, and what they
count is what the device has, or the image's CRC finds out (a sector whose transfer
failed). `Xmodem` details `XmodemUpload`, `Program` the call of an image that `StartOwn`
and `ImageReturns` are the two ends of, `BootCpu` the hooks behind `StartSecondary` and
`PollReturns`. They are checked apart from each other.

### BootRom

`pc` is the control point of the ROM, one value for each place between two steps at
which a hook or read may fail or the outside may act. `caller` stands for the C
stack: who `try_source_once()` or `execute()` returns to. `src` and `off` are the
current source and offset (`0` is NULL and host mode), `dev` which of the
`enable`/`init` hooks of each source are in force, `spl` what the SPL area holds: an
image, its magic or status word, whether its bytes are as the image has them, and
whether it has not been executed yet. `ret` is the C return value, `core` the memory
each secondary cluster runs from.

| actions | code |
|---|---|
| Enable, EnableFails, InitPlugin, InitPluginFails | bootsource_init() |
| ReadHeader, ReadHeaderShort, RejectHeader, ReadData, CheckData | bootsource_load_img() |
| Quiesce | deinit and the verdict in bootsource_try_source_once() |
| ChainNext, ChainEnds, ResumeChain, ResumeById | bootsource_try_chain(), bootsource_try_by_id() |
| Execute, Refuse, Place, StartOwn, ImageReturns, StartSecondary, PollReturns | rumboot_bootimage_execute() |
| NoKey, XmodemUpload, HostCheckHeader, HostCheckData, HostReject, ResumeHost | hostmode_loop() |
| HostWritesBody, HostWritesMagic, CoreFinishes | the host; programs on clusters |

Cryptography, CRCs and the decompressor are ideal: an image says whether they
succeed. `datalen` has its 32 bits, scaled: it is unsigned below `2 * WordHalf` and
its conversion to `ssize_t` (`AsSigned`) wraps.

`BootPolicy` has four variables: whether the ROM is still at reset, in the chain or
has given it up for the host; which device it is at; whether it seeks, runs or has
run an image; and the code of what is done, the image's or that of the failure to find
one. Which code leads where is the table of bootsource.c, which `MinusOne` shows not to
be that of doc/bootrom.asciidoc. `BootRom` implements it under the mapping
`PolicyHome`, `PolicyWhere`, `PolicyJob`, `PolicyResult`.

### Irq

`stack` is the stack of the core: the program's frame and one for each interrupt
that has been taken, with the point it has got to between the vector and
`rfi`/`rfci` (Enter, Classify, Begin, Lookup, HandlerReturns, Account, End, Leave,
Epilogue, Return). Only the top frame executes, and only while no interrupt can be
taken. Calls of irq.c are made by the program or a handler (`MainCalls`, `IsrCalls`)
and take several steps, so that an interrupt may strike between any two of them:

| actions | code |
|---|---|
| SetHandler, Store, Argument | rumboot_irq_set_handler() |
| Activate, Switch, Scan | rumboot_irq_table_activate() |
| Able, Configure, Adjust | rumboot_irq_enable(), rumboot_irq_disable() |
| AdjustPriority, Adjust | rumboot_irq_priority_adjust() |
| Create, ResetCount | one step each |
| TakeNormal, TakeCritical | the vectors and full_prologue |

The hardware is an assumption: the controller signals only lines with priority over
everything in service, a line that is in service stays active until its EOI
(`enable_mpic128_vp_modify()` waits for that), the core takes an enabled interrupt
before its next instruction, and reading an acknowledge register with nothing
pending yields the spurious vector. Lines may be level-sensitive: their request may
go away before it is acknowledged. Critical lines are those at or above a border, as
the MPIC tests set it up; `mpic128_init()` itself makes none critical.

### Xmodem and XmodemSpec

`r` and `s` are the locals of `xmodem_get_async()` and `xmodem_tx_async()`, with
`at` their control points, `fwd` and `rev` what is on the line in either direction,
`received` the blocks that the callback has got. A packet is one item, good or bad:
a packet that lost bytes is completed by later ones or by a time-out, and the
receiver treats both alike.

| actions | code |
|---|---|
| Ask, GiveUp, HearNothing | head of the receiver's loop, its retries, its time-out |
| EndOfText, Cancelled | EOT, CAN |
| Deliver, Duplicate, OutOfSync, BadPacket, Flush | the five ends of a packet |
| Sync, Send, AwaitAck, SendEot, AwaitEotAck | xmodem_tx_async(), or the program at the host's end |
| Lose, Garble | the line |

The sender is the chip's own, whose packets carry the truth value of a comparison in
place of a CRC (xmodem.c:255), or a host with the same retries that sends a CRC.
`XmodemSpec` says that the callback gets the blocks in order, each once, and none
after the end; `Xmodem` implements it with `stored <- received`.

### Sdio

`at` says for which step of `sdio_init()`, `sdio_read()` or `sdio_deinit()` a
command is executed, `phase` how far `sdio_request_execute()` has got with it,
`status` what the current wait has gathered, `events` what the controller shows.
Reading the status acknowledges all of it.

| actions | code |
|---|---|
| Poll, TimeOut | wait() and sdio_get_events() |
| SdInit, Reset, Interface, Op, Rereset, Op1, Setup | sdio_init(), card_reset(), card_init_sd(), card_init_mmc() |
| Read, BlockRead, BlockFails | sdio_read() behind bootsource_read() |
| SdDeinit, Quit | sdio_deinit() |
| CardAnswers, CardSends, CardFails, DmaEnds | card and controller |

### Eeprom

`at` is the control point of `eeprom_read_chunk()`, `rd` its locals and those of
`eeprom_read()`; `bus`, `toGo`, `fifo` and `flags` are the controller, `pointer` the
address counter of the EEPROM. A byte is named by its address.

| actions | code |
|---|---|
| EepromInit, EepromDeinit | eeprom_init() with its failures, eeprom_deinit() |
| ReadHeader, ReadData | eeprom_read() as bootsource_load_img() calls it |
| OffsetSent, OffsetFails, Byte, NoByte, Release | eeprom_read_chunk() |
| ChunkDone | the loop of eeprom_read() |
| SendsOffset, Receives, Stops, Refused | controller and EEPROM |

### Heap and Program

`info` is the runtime info that all programs share: heaps and jump buffer. `frames`
are the activations of `rumboot_main()`, the running program last, each with its
control point, the blocks it holds, the saves it has not undone and the number of
tests it has run.

| actions | code |
|---|---|
| Setup, Constructors, CallMain | rumboot_main() up to main() |
| Allocate, SaveHeaps, RestoreHeaps | malloc.c |
| BeginTest, EndTest, SkipTest | test_suite_run_single() |
| Call | an image is executed |
| Exit, LongJump, Return | exit(), _exit(), the second return of setjmp() |

A jump to a frame that has returned, or through a buffer that is all zero, leads
anywhere: the program is `astray` and nothing is said of what it does.

### BootCpu

`up` and `down` are the FIFOs, `prog` the program on the second processor, `async`
the images that nobody waited for. `cpu` is the NMRISC core with FIFOs of `Depth`
words or an external NMC with a communication port that moves one word at a time.

| actions | code |
|---|---|
| Execute, Kill | rumboot_bootimage_execute(), nmc_kill(), ext_kill() |
| StartNmc, StartExt, RefuseExt | nmc_start(), ext_start() |
| Poll, NoKey, Key, Write | nmc_poll(), ext_poll(), nfifo_write() |
| Put, Get, Finish | platform/nmc/glue.c |

## 3. Runs

| run | shows |
|---|---|
| BootRom | the chain and host mode: devices are quiet when anything else runs, loads stay in the SPL area, running programs survive, nothing half-written or already executed runs, offsets advance, the order is BootPolicy's, the chain ends, each upload is consumed (but one of length 2^32 - 1) |
| IrqTables | two lines while the program creates, switches and drops tables: handlers get their arguments, every interrupt is ended |
| IrqNesting | critical interrupts inside the program's calls, the dispatch and handlers of normal interrupts and each other: context, type and EOI stay those of the interrupt being handled, MSR[EE] is as each caller had it, SRR0/1 as each epilogue needs them |
| Xmodem | eight blocks over a line that loses, garbles and is slow: blocks are stored in order and once, single faults are made up for, success is not claimed wrongly, both ends return |
| SdCard | every kind of card: it is found and addressed its way, what is counted arrived unless a transfer failed, every call returns |
| Eeprom | reads of one to three chunks: what is counted is the EEPROM's, and nothing is missing without a reason |
| Program | programs that call programs: blocks are sound, heaps are found by name, tests give back what they took, exit codes arrive |
| BootCpu | what poll() shows and returns, and when it may not return |
| MinusOne | violation of `doc/bootrom.asciidoc` |
| CriticalReturn | violation of `rumboot/irq.h` |
| StaleJump | violation of a comment of `rumboot_main.c` |
| HeapAtZero | violation of a comment of `rumboot/rumboot.h` |

**Bounds of BootRom.** Three devices with alignments 0, 1 and 4 around a header of 2
units: no blocks, blocks smaller than a header, blocks larger than one, which are
the three ways the two roundings can interact. An SPL area of 12 takes the largest
image that fits (`full`), one that ends in a padded block (`tail`) and one that is a
unit too long (`big`). The images are one of each kind the code tells apart: data,
asynchronous and synchronous programs of another cluster, one that does not start,
redirecting, nested, packed, signed, forged, damaged, wrong version; an empty image
is refused as a damaged one is. The devices hold those that a chain goes on after,
up to one that ends it. `Residue` is what the SPL area may hold at reset, `Upload`
what the host sends: a good image that returns any code, a damaged one, an
asynchronous one, one that is packed, and `absent`, whose length is 2^32 - 1, which is
-EBADMAGIC as an `ssize_t`. `huge`, on the first device, has 2^32 - 11, which is
-ETOHOST. `WordHalf` = 64 stands for 2^31; lengths below 2 * WordHalf occur. Two clusters are
the boot CPU and one other.

**Bounds of the interrupt runs.** One or two lines, one or two tables, one handler.
`MaxDepth` bounds the stack by limiting the requests that devices make at a time,
never by refusing an interrupt. IrqNesting stacks three interrupts on the program: two
lines with three priorities, the upper two critical, which the program may give to
either, so that a critical interrupt preempts the handler of a normal one and is
preempted by another, each in the middle of a call. It begins where a program is that
has made its table, set its handlers and made line 2 critical (`Ready`): that takes
some twenty steps from `Init` without an interrupt. The priority 9 that the runs ask
for is clipped to the maximum 3. The theorems of section 4 hold for any depth, any lines and any priorities.
In IrqTables lines are enabled by activating a table, in IrqNesting one by one. `CountMod` bounds the counters.

**Bounds of Xmodem.** 15 bytes in blocks of 2 are eight packets, the last of them
short. Numbers are counted modulo 6 in place of 256, so that they wrap; a modulus
that faults and late answers cannot go round (`XmodemAssumption`) is what 256 is to
128 retries, of which 4 are left here, with 3 for 16 attempts to synchronise and 3
for 10 EOTs. Two faults and two late answers: one of each is what the properties
that mask faults speak of, two what it takes to make a limit matter together with a
resend.

**Bounds of SdCard.** Sectors of 2 units, so that an offset in sectors and one in
bytes differ; two attempts at ACMD41 for four, eight times as many at CMD1, as in
the code; a card may be busy once, less than the attempts allow, which is what
`CardIsFound` speaks of. Two reads of one and of several sectors, also with a length
that is trimmed; two failing commands or transfers, which a failing initialisation
followed by a failing guess needs.

**Bounds of Eeprom.** Chunks of 3 for 32 and 8 addresses for 64 KiB; reads of 1, 3,
5 and 7 bytes from 0 and 3 are less than a chunk, one, two and three chunks, and
wrap; four faults are more than the chunks of a read.

**Bounds of Program.** Two programs. The ROM has three heaps, one of them empty, so
that the id of a heap is not its place in the list and the first that is looked at is
not always the one asked for; the other program has two of the same names, in another
order and elsewhere. They begin at odd addresses too and are too small for many
requests. Two requests, one of them
aligned and misaligned; three starts, so that a program is called after another or
inside it; two blocks, two saves inside each other, one test. `Word` = 32 stands for
2^32 and lies above every heap.

**Bounds of BootCpu.** FIFOs of two words, a program that prints or reads twice,
three keys: more than fit. Three images: one that is waited for after one that is
not, and one more to find what they left.

CHECK_DEADLOCK FALSE is said in Xmodem, where both ends have returned; and in BootCpu, where the last image has been
executed, or two full FIFOs wait for each other. A panic and an exit that goes
astray are stuttering steps (`Halted`, `Stopped`).

**Fairness.** `RomSpec`: the ROM loop does not stop (it is the only program on its
core). `FairSpec` of `BootRom` adds that an image that may return does so; images
that never return are legal, and nothing after one is promised. Hosts and clusters
owe nothing. In `Irq`, the core goes on and takes its interrupts, and a handler
returns in the end (strong fairness, because it may make calls first); devices and
the program owe nothing. In `Xmodem`, either end is a program that runs on, and
every `getchar()` of it has a time-out; the line owes nothing. In `Sdio`, the driver
goes on and the controller ends what it was told to do within 80 s
(`SDIO_TIMEOUT_US`); the caller owes nothing. In `BootCpu`, both processors go on
and a program ends; nobody has to type, or to execute another image. `Eeprom` and
`Program` state none and have no liveness properties.

### Findings

* `MinusOne`: doc/bootrom.asciidoc:188-189 says that an image that returns -1 forces
  host mode and one that returns less goes on with the next source. The code for host
  mode is -ETOHOST = -11 (boot.h:177, bootsource.c:201): -1 goes on with the next
  source, and -11 to host mode.
* `CriticalReturn`: CE is on while full_epilogue restores CSRR0/1; a critical
  interrupt between that and rfci makes rfci return into the epilogue. Nested ISR
  context is a documented state (irq.h:365-369).
* `StaleJump`: rumboot_main.c:94-95 says that _exit() jumps back to rumboot_main();
  after an image has run, the buffer is the image's, and exit() and panics of its
  caller go astray.
* `HeapAtZero`: rumboot.h:35 says that the id returned is that of the heap that was
  registered; a slot is taken for free while its heap starts at 0, as the one of
  SRAM0 does on o32t (lds/o32t/bootrom.lds:48), and the next heap takes its place.

Seen while modelling, and not stated as properties of a run:

* Boot chain. The next image is not always in the first
  block after header and data (doc/bootrom.asciidoc:197, bootsource.c:124): both are rounded up
  separately. A data length of 2^31 or more is no -ETOOBIG (asciidoc:243,
  bootimage.c:205) but acts as the negative code it is. With 2^32 - 1, which is
  -EBADMAGIC, an image uploaded to host mode is taken for none at all
  (bootrom.c:79): its magic stays and the host waits for an error code
  (LOADER.md:286) that does not come. The magic is 0, "no errors",
  after an image that execute() refused (asciidoc:211, bootimage.c:234 and 332).
  Plugins share 128 bytes of private data whatever their size (bootrom.c:112).
* Interrupts. An atomic block masks only MSR[EE] (arch/doxygen.h:10,
  irq_macros.h:30), so a critical interrupt may see a new handler with the old
  argument. Activating NULL leaves lines enabled (irq.h:307, irq.c:147), and the
  test irq-defhandler.c depends on it. A handler that switches tables is counted in
  the old one (irq.c:227). check_irq_id() takes NUM_IRQS and refuses the spurious
  vector 255 on platforms with fewer lines (irq.c:44),
  rumboot_irq_controller_by_id() takes an id one past the array (irq.c:69),
  rumboot_irq_priority_get() dereferences the NULL that irq.h:261 allows.
* XMODEM. The sender's CRC is a truth value (xmodem.c:255). `retry` is a char that
  starts at 128 (xmodem.c:76), which wants the unsigned char of the ABIs of ARM and
  PowerPC: where it is signed the receiver would give up at once. `maxszs` is not used (xmodem.c:146).
  request_file_ex() ignores the result (wrappers-serial.c:63). A CRC offload never
  clears the opcode of the reply (offload.c).
* Boot sources. A failed transfer of a sector is overridden by the DMA that follows
  it, and the sector counted as read (sdio.c:249). sdio_deinit() clears another bit
  than sdio_init() sets (sdio.c:627-629). The EEPROM's offset is 16 bits wide
  (eeprom.c:66).
* Programs. RUMBOOT_DESTRUCTOR declares a constructor (platform.h:381). A
  constructor that panics jumps through a buffer of zeroes, and an image clears the
  runtime info of its caller (rumboot_main.c:61). Status -256 comes back as -255.
  Position plus length may wrap (malloc.c:24). The array of results has no bound
  (testsuite.c:44).
* Clusters. The status of a program that was not waited for is in the FIFO when the
  next image is polled for (boot-cpus.c:29). 8 or 7 bits of a status are returned
  (boot-cpus.c:30). ext_start() ignores that cp_wait() timed out. poll() does not
  read while it waits for room in the other FIFO (boot-cpus.c:39).

## 4. Proofs

Each theorem holds for every value of the constants that satisfies the assumption of
its module; further hypotheses are in the table. `Arithmetic` has the lemmas about
remainders and quotients that several of the proofs cite.

| module | theorem | statement |
|---|---|---|
| `BootRomProofs` | TypeCorrect | `Spec => []TypeOK` |
| | DevicesQuiesced | `Spec => []Quiesced` |
| | LoadsStayInSpl | `Spec => []WritesWithinSpl` |
| | OnlyVerifiedCodeRuns | `Spec => []RunsVerifiedCode` |
| | ImagesRunOnce | `Spec => []RunsOnce` |
| | ImagesFollowEachOther | `Spec => OffsetAdvances` |
| | ImplementsPolicy | `Spec => FollowsPolicy`: `BootRom` implements `BootPolicy` |
| | AsyncProgramsSurvive | `Spec => []AsyncCodeIntact`, if images keep to memories of their own and ask for KILL |
| `IrqProofs` | TypesAreKept | `Spec => []TypeOK` |
| | ContextIsTheDepth | `Spec => []ContextCounts` |
| | HandlersAreToldTheirType | `Spec => []TypeTells` |
| | InterruptsEndTheirOwn | `Spec => []EndsItsOwn` |
| | ExternalInterruptsReturn | `Spec => []NormalReturns` |
| | AtomicBlocksNest | `Spec => []MaskNests` |
| | HandlersGetTheirArgument | `Spec => []HandlerGetsItsArg`, if no line can be critical |
| `XmodemProofs` | TransfersKeepTypes | `Spec => []TypeOK` |
| | TransferIsInOrder | `Spec => IsTransfer`: `Xmodem` implements `XmodemSpec` |
| | SingleFaultsAreMasked | `Spec => []Masked` |
| | SenderIsNotFooled | `Spec => []SenderNotFooled` |
| `SdioProofs` | ReadSectorsAreTheCards | `Spec => []CountedSectorsAreTheCards` |
| | FaultlessReadsAreComplete | `Spec => []ReadIsComplete` |
| | FaultlessCardsAreFound | `Spec => CardIsFound`, if `InTime` |
| `EepromProofs` | CountedBytesAreTheEeproms | `Spec => []BytesAreTheEeproms` |
| | UndisturbedReadsAreComplete | `Spec => []ReadIsComplete` |
| `ProgramProofs` | BlocksAreSound | `Spec => []BlocksSound`, if `NoWrap` and `Distinct` |
| | TestsGiveBackWhatTheyTake | `Spec => TestsReleaseMemory`, if `NoWrap` |
| | RegisteredHeapsAreFound | `Spec => []HeapsAreFound`, if `Named` |
| | ProgramsComeHome | `Spec => []LeavesComeHome` |
| | CallersGetTheStatus | `Spec => []CallerGetsStatus` |
| | ProgramsKeepTypes | `Spec => []TypeOK`, if `LayoutFits` |
| `BootCpuProofs` | FifosKeepTypes | `Spec => []TypeOK` |
| | WaitersGetTheirStatus | `Spec => []OwnStatus` |
| | OutputGetsThrough | `Spec => []OutputIsWhole` |

**Hypotheses.** They are what the code relies on and does not check; the constants
of the runs that check the same properties satisfy them:

* *No line can be critical* (`MaxPriority < CriticalBorder`) is how
  `mpic128_reset()` leaves the borders: 16, above the 15 of the highest priority
  (irq-mpic128.c:37). With critical lines the property is false: an atomic block
  masks MSR[EE] alone.
* `InTime` (`MaxBusy < Attempts`): `card_init_sd()` gives up a card that answers all
  of its attempts with busy (sdio.c:379).
* `NoWrap`: the end of a heap plus a request stays below 2^32; `__malloc()` does
  not see a position that wraps round (malloc.c:24). `Distinct`: the heaps of a
  program do not overlap, which the linker scripts see to.
* `Named`: heaps that are not empty have names of their own and none starts at 0.
  `HeapAtZero` is what happens without it.
* `LayoutFits`: a program has no more heaps than the runtime info has slots. Each
  platform sets their number for itself (RUMBOOT_PLATFORM_NUM_HEAPS in
  cmake/platforms); oi10 and o32t register 10 heaps, all that they have room for.
* `XmodemAssumption` wants more packet numbers than there may be faults and late
  answers, plus one: with fewer, an old packet has the number of a new one.
* `LimitsAssumption` wants limits on attempts of two or more, and those on packets
  and on synchronising beyond the late answers there may be: a limit that is met by
  itself makes an end give up without a fault. The code's are 128, 16 and 10.

**BootRom.**

* `TypeInv` is `TypeOK` with `Control`, which ties `pc`, `caller` and `src`
  together: what is between two calls is the C stack, and without it `dev[src]` and
  `Align[src]` mean nothing in host mode, where `src` is NULL.
* `LoadsStayInSpl` needs that the sum of a header padded to blocks and data padded
  to blocks stays below an area of whole blocks when header plus padded data does:
  lemmas `RoundUp` and `LoadFits`. `SplAligned`, an area of whole blocks, is what
  the linker scripts provide (lds/oi10/bootrom.lds:40-41, lds/basis/rom.lds:39-41,
  lds/o32t/bootrom.lds:39-40, lds/bbp3/rom.lds:38-40).
* `VerifiedInv` says what each control point has established about the image in the
  SPL area, and that a status word is never a magic: the magic has its top bit set
  and the error codes are small. Without that a refused upload could be taken for a
  new one.
* `CodeInv` says which codes an attempt may be over with: those of `execute()` and
  those of a load, among the latter any negative number that an image gives as its
  length. A failed load is never 0 or positive, so that it neither stays with the
  device nor names another one; that it may be -ETOHOST, and go to the host, is the
  table's doing.
* `CoreInv` says whose memory a cluster runs from; the assumption `Separated` is
  what the documentation asks of the author of an image that is started
  asynchronously.

**Irq.** A frame knows only part of what it finds when it is returned to, so what the
properties say of the topmost frame is not inductive: the interrupt that is about to
return must leave the frame below it as that one was. `IrqInv` therefore says for
*every* frame what it left when it was preempted. It asserts that there are three
functions on the stack, the MSR[EE], the `irq_type` and the number of interrupts in
service at the time each frame was interrupted, such that the values of the topmost
frame are the present ones, and that each frame's agree with its stage (`Mask`,
`Serving`) and with those of the frame above it. `ContextCounts` counts frames and is
inductive only together with the stages a frame may be in. `ArgInv` for
`HandlersGetTheirArgument` says that between the two stores of
`rumboot_irq_set_handler()` the frame that makes them is the topmost.

**Xmodem.** That a duplicate is told from a new block by its number is true only as
long as the sender cannot be too far from the receiver, and each late answer and
each fault may take it one block further. Four invariants, each on top of the last:
`Typed`; `UnderWay`, at most one more packet or answer is on its way than there were
late time-outs; `Ordered`, the receiver's number is that of the block after those it
has stored, and the packets under way are in order, none before the last block that
is stored and none after the sender's; `Ahead`, the sender, counting the ACKs that
will take it further, is ahead of what the packets under way can still deliver by no
more than one block and one for each fault and late answer. From `Ahead` and the
assumption on `SeqMod` a packet with the expected number is the expected block,
which is the step of `XmodemSpec`.

What the two ends make of it in the end takes more, since it speaks of attempts used
up and of what the sender concludes from answers. `ReceiverExactly`, `SenderExactly`
and `LineExactly` reduce the steps to what they do to attempts, answers and results;
on them rest three invariants, one for each kind of transfer.

* `Fails`, a sender other than the host: its packets are all bad, so that no ACK is
  ever under way and it does not get as far as an EOT.
* `Spared`, no fault, any time-outs. The packets under way are an unbroken flow, each
  the block of the one before it or the next, from the last block stored to where the
  sender is (`Flowing`), all answers are a 'C' or an ACK (`Answering`), and a receiver
  that waits without having to answer has something to wait for (`Alive`). So it never
  goes out of sync. It does not run out of attempts either (`Budget`): the receiver
  pays for each with a late time-out, and the sender with a late time-out or an
  additional 'C', of which there are no more than those.
* `Steady`, no late time-out, at most one fault. The ends go in step: one packet or
  answer is under way, being sent or being answered, or else nothing, which only a
  fault can bring about (`OneAtATime`, `Silent`). `ReceiverOwes` and `SenderOwes` are
  the attempts that the fault may yet cost either end. With those it has used up they
  are no more than the faults, that is one at most. A first ACK under way is for the
  block where the sender is, which therefore is not ahead of the receiver by more
  than that block when it goes on to the next or to the EOT.

`Spared` and `Steady` also say that a receiver that has ended has finished: it
returned success with all blocks. Both properties speak of when both ends are done.

**Sdio.** `Handshake` is the order of driver, controller and card within a command:
nothing of an earlier command is pending when the next is issued, although
`sdio_get_events()` acknowledges whatever it has not waited for. `Asked` says which
command is executed at which place, `Says` what a response tells of the card, and
`Fits` that a card is addressed its way once it is set up. `Copied` says how the
sectors counted, the destination and the controller's buffer hang together. For the
cards without faults, `Prompt` says that every command a card knows is answered, and
`Found` bounds the attempts made so far by the busy answers that the card has given.

**Eeprom.** `InFlight` says that what is in the controller's FIFO continues what the
driver has taken, `Quiet` that nothing of an earlier chunk is in the controller when
one begins, which is what resetting it on either side of a chunk is for. `Smooth`
says what is known of the status while nothing has gone wrong: NACK comes with the
last byte and not before.

**Program.** `Control` holds of any layout: only the last frame runs, and a program
that has called no other still has its jump buffer and heaps. `Slotted` and
`Registered` relate the slots in the shared runtime info to the layout of the
program that runs. `Positioned` orders start, saved position and position of each
heap, and says that only the innermost save is sure to be restored exactly: there is
one saved position per heap. `Held` says that blocks lie below the position, and
those that were there at a save below the saved one, without which a restore could
give back a block that is still in use.

**BootCpu.** `OwnStatus` needs to know that there is exactly one status on its way
while an image is waited for and none otherwise (`Awaiting`), as long as no image
was left alone; `OutputIsWhole` needs that what a program has sent is what was
printed, what is in the FIFO and nothing else, for the programs before the latest
too (`Printing`).

**Model-checked only.**

* `ChainEndsInHost`, `UploadConsumed`, `EveryInterruptEnds`, `BothReturn`,
  `DriverReturns` and `PollReturns`: liveness under fairness is out of the prover's
  reach.
* What the findings say of the code, by the runs that expect a violation.

## 5. Not modelled

* In the boot chain: the `device` field of the header, a copy for old images; the
  128 bytes of plugin data shared by all sources, whose sizes are C structures;
  asynchronous images that are not relocated out of the SPL area, which the
  documentation forbids. The 32-bit `ssize_t` is that of the 32-bit targets; on
  native the conversion is harmless.
* In the interrupt core: exceptions and soft interrupts, replacing the default
  handler, rumboot_irq_free(), several controllers, machine-check interrupts and
  other architectures' entry code. Create copies a table in one step.
* In `Xmodem`: receivers' callbacks that fail, several bytes of a packet being
  overtaken by an answer, padding after a whole number of blocks beyond its being a
  block of its own.
* In `Sdio` and `Eeprom`: clock divisors, lanes, prescalers, the contents of the
  CID; the interrupt status of the DMA channels beyond its end.
* In `Program`: destructors, the array of results, printing, the assembly that runs
  before `rumboot_main()`.
* In `BootCpu`: the clusters of oi10 and basis, the trampoline, the switch of
  endianness before a PowerPC image.
* Event channels and offloading: the other end is a simulator outside of the
  repository, which takes words when it sees them change. What it promises about
  when it does is not known here, and without it there is no behaviour to check; on
  boards the channel prints.
* SPI flash, physical map, file: one transaction each behind the interface `BootRom`
  has.
* Drivers, printing, vendored Lua and heatshrink, gcov, tests of the chips, the
  build: pure I/O, third-party or generated. They are by far most of the lines of
  the repository.

## 6. Plan

1. irq.c's default and exception handlers and soft interrupts;
   rumboot_decompress_buffer() and the bit swapper as operators checked against a
   definition.
