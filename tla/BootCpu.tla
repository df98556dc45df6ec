------------------------------ MODULE BootCpu -------------------------------
(***************************************************************************)
(* A second processor and the boot CPU that starts programs on it:         *)
(* platform/o32t/boot-cpus.c and lib/drivers/nfifo.c on one side, and, for *)
(* the NMRISC core, platform/nmc/glue.c on the other.  The two share a     *)
(* pair of FIFOs.  The program sends its output through one, and its exit  *)
(* status, in a word with bit 31 set; the boot CPU sends what is typed on  *)
(* the console through the other.  An external NMC is reached through a    *)
(* communication port instead, one word at a time.                         *)
(***************************************************************************)
EXTENDS Integers, Sequences

CONSTANTS
    Clusters,   \* the kinds of second processor: "nmc", "ext"
    Depth,      \* words in a FIFO
    Statuses,   \* statuses that programs exit with
    MaxImages,  \* bound on images
    MaxOut,     \* bound on what a program prints and reads
    MaxKeys     \* bound on what is typed

ASSUME BootCpuAssumption ==
    /\ Clusters \subseteq {"nmc", "ext"}
    /\ Depth \in Nat \ {0}
    /\ Statuses \subseteq Int
    /\ {MaxImages, MaxOut, MaxKeys} \subseteq Nat

VARIABLES
    cpu,      \* the kind of processor the images of this behaviour are for
    pc,       \* the boot CPU: idle, kill, start, poll, key, write
    img,      \* the image that is executed, or was last
    async,    \* the images that were not waited for
    prog,     \* the program on the second processor
    up,       \* words from the second processor that have not been read
    down,     \* words to it
    keys,     \* how much has been typed
    printed,  \* what the boot CPU has put on the console
    result    \* how the last poll ended: whose status it took, and as what

vars == <<cpu, pc, img, async, prog, up, down, keys, printed, result>>

\* Room for words in either direction: the port moves a word at a time.
Capacity == IF cpu = "nmc" THEN Depth ELSE 1

NoProg == [id |-> 0, state |-> "reset", did |-> 0, out |-> 0]
NoExit == [image |-> 0, from |-> 0, status |-> 0, ret |-> 0]

Text(k, n)   == [from |-> k, exit |-> FALSE, val |-> n]
Status(k, s) == [from |-> k, exit |-> TRUE, val |-> s]

-----------------------------------------------------------------------------
(* The boot CPU                                                            *)

\* rumboot_bootimage_execute() has an image for the cluster.
Execute ==
    /\ pc = "idle"
    /\ img.id < MaxImages
    /\ \E kill, sync, even \in BOOLEAN :
          img' = [id |-> img.id + 1, kill |-> kill, sync |-> sync, even |-> even]
    /\ pc' = IF img'.kill THEN "kill" ELSE "start"
    /\ UNCHANGED <<cpu, async, prog, up, down, keys, printed, result>>

\* nmc_kill(), ext_kill(): the processor is reset.  Nothing empties the FIFOs.
Kill ==
    /\ pc = "kill"
    /\ prog' = NoProg
    /\ pc' = "start"
    /\ UNCHANGED <<cpu, img, async, up, down, keys, printed, result>>

Launched(k) == [id |-> k, state |-> "run", did |-> 0, out |-> 0]

\* poll() if the image is to be waited for.
AfterStart ==
    /\ pc' = IF img.sync THEN "poll" ELSE "idle"
    /\ async' = IF img.sync THEN async ELSE async \cup {img.id}

\* nmc_start(): the NMI takes the core to the trampoline, whatever it did.
StartNmc ==
    /\ cpu = "nmc" /\ pc = "start"
    /\ prog' = Launched(img.id)
    /\ AfterStart
    /\ UNCHANGED <<cpu, img, up, down, keys, printed, result>>

\* ext_start(): an image that is no whole number of words is refused.
RefuseExt ==
    /\ cpu = "ext" /\ pc = "start" /\ ~img.even
    /\ pc' = "idle"
    /\ UNCHANGED <<cpu, img, async, prog, up, down, keys, printed, result>>

\* The image is sent; a processor in reset boots from it.  If that fails, or
\* if the processor is busy with another program, cp_wait() times out, and
\* the image counts as started all the same.
StartExt ==
    /\ cpu = "ext" /\ pc = "start" /\ img.even
    /\ \/ prog.state = "reset" /\ prog' = Launched(img.id)
       \/ prog' = prog
    /\ AfterStart
    /\ UNCHANGED <<cpu, img, up, down, keys, printed, result>>

\* Mutant: the status is returned as it is.
Unmasked(s) == s

\* What poll() makes of a status: 8 bits of it, or 7 below the flag.
Masked(s) == s % (IF cpu = "nmc" THEN 256 ELSE 128)

\* What nfifo_read() has for a program that printed nothing: -1.
EmptyRead == Status(0, -1)

CanRead == up # <<>>

\* Mutant: text that comes while nothing more is going to be typed is dropped.
TakeAndDrop(word) ==
    IF word.exit
    THEN /\ pc' = "idle"
         /\ result' = [image |-> img.id, from |-> word.from, status |-> word.val,
                       ret |-> Masked(word.val)]
         /\ UNCHANGED printed
    ELSE /\ pc' = "key"
         /\ printed' = IF keys < MaxKeys THEN Append(printed, word) ELSE printed
         /\ UNCHANGED result

\* The first half of the loop in nmc_poll() and ext_poll(): a word, if any.
Take(word) ==
    IF word.exit
    THEN /\ pc' = "idle"
         /\ result' = [image |-> img.id, from |-> word.from, status |-> word.val,
                       ret |-> Masked(word.val)]
         /\ UNCHANGED printed
    ELSE /\ pc' = "key"
         /\ printed' = Append(printed, word)
         /\ UNCHANGED result

\* Mutant: the FIFO is read whether it has a word or not.
PollBlindly ==
    /\ pc = "poll"
    /\ IF CanRead THEN Take(Head(up)) /\ up' = Tail(up) ELSE Take(EmptyRead) /\ UNCHANGED up
    /\ UNCHANGED <<cpu, img, async, prog, down, keys>>

Poll ==
    /\ pc = "poll"
    /\ IF CanRead THEN Take(Head(up)) /\ up' = Tail(up)
       ELSE pc' = "key" /\ UNCHANGED <<up, printed, result>>
    /\ UNCHANGED <<cpu, img, async, prog, down, keys>>

Room == Len(down) < Capacity

\* The second half: rumboot_platform_getchar(0).  ext_poll() asks for a key
\* only when the port has taken the one before, nmc_poll() in any case.
NoKey ==
    /\ pc = "key"
    /\ pc' = "poll"
    /\ UNCHANGED <<cpu, img, async, prog, up, down, keys, printed, result>>

\* Mutant: a key is asked for whether the port has taken the last one or not.
KeyAnyway ==
    /\ pc = "key"
    /\ keys < MaxKeys
    /\ keys' = keys + 1
    /\ pc' = "write"
    /\ UNCHANGED <<cpu, img, async, prog, up, down, printed, result>>

Key ==
    /\ pc = "key"
    /\ keys < MaxKeys
    /\ cpu = "ext" => Room
    /\ keys' = keys + 1
    /\ pc' = "write"
    /\ UNCHANGED <<cpu, img, async, prog, up, down, printed, result>>

\* nfifo_write(), which waits for room and reads nothing meanwhile.
Write ==
    /\ pc = "write"
    /\ Room
    /\ down' = Append(down, keys)
    /\ pc' = "poll"
    /\ UNCHANGED <<cpu, img, async, prog, up, keys, printed, result>>

-----------------------------------------------------------------------------
(* The program on the second processor                                     *)

Send(word) ==
    /\ Len(up) < Capacity
    /\ up' = Append(up, word)

\* rumboot_platform_putchar()
Put ==
    /\ prog.state = "run" /\ prog.did < MaxOut
    /\ Send(Text(prog.id, prog.out + 1))
    /\ prog' = [prog EXCEPT !.did = @ + 1, !.out = @ + 1]
    /\ UNCHANGED <<cpu, pc, img, async, down, keys, printed, result>>

\* rumboot_platform_getchar()
Get ==
    /\ prog.state = "run" /\ prog.did < MaxOut
    /\ down # <<>>
    /\ down' = Tail(down)
    /\ prog' = [prog EXCEPT !.did = @ + 1]
    /\ UNCHANGED <<cpu, pc, img, async, up, keys, printed, result>>

\* rumboot_platform_exit()
Finish ==
    /\ prog.state = "run"
    /\ \E s \in Statuses : Send(Status(prog.id, s))
    /\ prog' = [prog EXCEPT !.state = "ended"]
    /\ UNCHANGED <<cpu, pc, img, async, down, keys, printed, result>>

-----------------------------------------------------------------------------
Init ==
    /\ cpu \in Clusters
    /\ pc = "idle"
    /\ img = [id |-> 0, kill |-> FALSE, sync |-> FALSE, even |-> TRUE]
    /\ async = {}
    /\ prog = NoProg
    /\ up = <<>> /\ down = <<>>
    /\ keys = 0
    /\ printed = <<>>
    /\ result = NoExit

Boot    == Kill \/ StartNmc \/ RefuseExt \/ StartExt \/ Poll \/ NoKey \/ Key \/ Write
Program == Put \/ Get \/ Finish
Next    == Execute \/ Boot \/ Program

Spec == Init /\ [][Next]_vars

\* Both processors go on, and programs end: each has but MaxOut things to do.
FairSpec == Spec /\ WF_vars(Boot) /\ WF_vars(Program)

-----------------------------------------------------------------------------
(* Properties                                                              *)

Words ==
    {Text(k, n) : k \in 1 .. MaxImages, n \in 1 .. MaxOut}
    \cup {Status(k, s) : k \in 1 .. MaxImages, s \in Statuses}

TypeOK ==
    /\ cpu \in Clusters
    /\ pc \in {"idle", "kill", "start", "poll", "key", "write"}
    /\ img \in [id : 0 .. MaxImages, kill : BOOLEAN, sync : BOOLEAN, even : BOOLEAN]
    /\ async \subseteq 1 .. MaxImages
    /\ prog \in [id : 0 .. MaxImages, state : {"reset", "run", "ended"},
                 did : 0 .. MaxOut, out : 0 .. MaxOut]
    /\ up \in Seq(Words) /\ Len(up) <= Capacity
    /\ down \in Seq(1 .. MaxKeys) /\ Len(down) <= Capacity
    /\ keys \in 0 .. MaxKeys
    /\ printed \in Seq(Words)
    /\ result.image \in 0 .. MaxImages /\ result.ret \in 0 .. 255

\* Everything sent that poll() has not taken for a status.
Sent == printed \o up

Texts(q, k) == {i \in 1 .. Len(q) : q[i].from = k /\ ~q[i].exit}

\* The texts of program k are its first n, in order.
Whole(q, k, n) ==
    /\ {q[i].val : i \in Texts(q, k)} = 1 .. n
    /\ \A i, j \in Texts(q, k) : i < j => q[i].val < q[j].val

\* What a program prints gets to the console whole and in order, also when it
\* is killed or another one follows it; no status is printed and no text taken
\* for a status (boot-cpus.c:27-36, nmc/glue.c:72-80).
OutputIsWhole ==
    /\ \A i \in 1 .. Len(printed) : ~printed[i].exit
    /\ \A k \in 1 .. img.id :
          \E n \in 0 .. MaxOut : Whole(Sent, k, n) /\ (prog.id = k => n = prog.out)

\* The status that poll() returns is that of the image it was called for,
\* unless an image before was not waited for: its status is then still in
\* the FIFO, or yet to come (boot-cpus.c:29, boot-cpus.c:143).
OwnStatus ==
    \/ result.from = result.image
    \/ \E k \in async : k < result.image

\* The boot CPU waits for room and the program has stopped reading.
Jammed == pc = "write" /\ ~Room

\* While its program runs or has ended, poll() returns, or it is in
\* nfifo_write() for ever, for room in the FIFO to an NMRISC core that reads
\* no more.  The core may then be in nfifo_write() as well, each with a full
\* FIFO to the other.  The port of an external NMC, which is asked first,
\* never makes poll() wait (boot-cpus.c:39, boot-cpus.c:153, nfifo.c:87).
PollReturns ==
    (pc = "poll" /\ prog.id = img.id) ~> (pc = "idle" \/ [](cpu = "nmc" /\ Jammed))
=============================================================================
