------------------------------ MODULE Program -------------------------------
(***************************************************************************)
(* A program built with RumBoot, from rumboot_main() to exit(): start-up,  *)
(* heaps, test suites, and the calls by which one program runs another     *)
(* (an image it has loaded) and gets its exit code.                        *)
(*                                                                         *)
(* Every program is linked with its runtime info at the same address       *)
(* (0x8001fd00 on o32t and oi10, 0x7f000 on basis): `info' is one variable, *)
(* and start-up of a program clears what its caller kept there, among it   *)
(* the heaps and the jump buffer that exit() goes through.                 *)
(***************************************************************************)
EXTENDS Heap, Sequences

CONSTANTS
    Programs,    \* programs that can run
    Boot,        \* the one that reset starts
    Layout,      \* Layout[p]: the heaps that setup of p registers, in order
    Statuses,    \* exit codes
    Requests,    \* arguments of malloc: length, alignment, misalignment
    EarlyPanics, \* whether constructors may panic
    MaxRuns,     \* bound on starts of programs
    MaxBlocks,   \* bound on the blocks of one program
    MaxTests,    \* bound on the tests of one program
    MaxMarks     \* bound on saves of heaps inside each other

ASSUME ProgramAssumption ==
    /\ Boot \in Programs
    /\ \A p \in Programs :
          /\ Len(Layout[p]) \in Nat /\ DOMAIN Layout[p] = 1 .. Len(Layout[p])
          /\ \A k \in DOMAIN Layout[p] :
                Layout[p][k].start \in Address /\ Layout[p][k].end \in Address
    /\ Statuses \subseteq Int
    /\ Requests \subseteq [len : Nat, align : Nat, mis : Nat]
    /\ MaxRuns \in Nat \ {0} /\ {MaxBlocks, MaxTests, MaxMarks} \subseteq Nat

VARIABLES
    info,     \* the shared runtime info: heaps and exit_trampoline
    frames,   \* the programs that have been called, the running one last
    runs,     \* how many programs have been started
    last      \* the program that returned last: its exit code, and what its caller got

vars == <<info, frames, runs, last>>

-----------------------------------------------------------------------------
(* A frame is an activation of rumboot_main().                             *)

NoFrame == 0            \* what the memset leaves in the jump buffer
PanicCode == 13

Frame(p, k) ==
    [prog |-> p, id |-> k,
     pc     |-> "setup",     \* setup, ctors, main, exiting, landed, astray, halted
     reg    |-> 1,           \* the next heap of Layout[p] to register
     val    |-> 0,           \* the status to exit with, or what setjmp returned
     code   |-> 0,           \* the status the program exited with
     reached |-> FALSE,      \* whether setjmp has been called
     ran    |-> FALSE,       \* whether it has called another program
     blocks |-> {},          \* the blocks it holds, while the heaps are its own
     marks  |-> <<>>,        \* saves of the heaps that it has not restored
     total  |-> 0]           \* tests of its test suites that it has done

Top    == Len(frames)
Now    == frames[Top]
Set(f) == frames' = [frames EXCEPT ![Top] = f]

\* rumboot_platform_panic(): exit(13), from whatever is running.
Exiting(f, status) == [f EXCEPT !.pc = "exiting", !.val = status, !.code = status]

-----------------------------------------------------------------------------
(* Start-up                                                                *)

\* Mutant: the caller's heaps are not cleared.
StartKeepsHeaps(p) ==
    /\ info' = [info EXCEPT !.tramp = NoFrame]
    /\ runs' = runs + 1

\* rumboot_main() up to rumboot_platform_setup().
Start(p) ==
    /\ info' = [heaps |-> NoHeaps, tramp |-> NoFrame]
    /\ runs' = runs + 1

\* One rumboot_malloc_register_heap() of rumboot_platform_setup().
Setup ==
    /\ Now.pc = "setup"
    /\ Now.reg <= Len(Layout[Now.prog])
    /\ LET l == Layout[Now.prog][Now.reg]
           r == Register(info.heaps, l.name, l.start, l.end)
       IN  /\ info' = [info EXCEPT !.heaps = r.heaps]
           /\ Set(IF r.panic THEN Exiting(Now, PanicCode)
                  ELSE [Now EXCEPT !.reg = @ + 1])
    /\ UNCHANGED <<runs, last>>

\* rumboot_init_array(), whose constructors are the program's own.
Constructors ==
    /\ Now.pc = "setup"
    /\ Now.reg > Len(Layout[Now.prog])
    /\ \/ Set([Now EXCEPT !.pc = "ctors"])
       \/ EarlyPanics /\ Set(Exiting(Now, PanicCode))
    /\ UNCHANGED <<info, runs, last>>

\* Mutant: setjmp is left to the first program.
CallMainOnce ==
    /\ Now.pc = "ctors"
    /\ info' = IF Top = 1 THEN [info EXCEPT !.tramp = Now.id] ELSE info
    /\ Set([Now EXCEPT !.pc = "main", !.reached = TRUE])
    /\ UNCHANGED <<runs, last>>

\* setjmp(exit_trampoline) == 0, and main() is called.
CallMain ==
    /\ Now.pc = "ctors"
    /\ info' = [info EXCEPT !.tramp = Now.id]
    /\ Set([Now EXCEPT !.pc = "main", !.reached = TRUE])
    /\ UNCHANGED <<runs, last>>

-----------------------------------------------------------------------------
(* main()                                                                  *)

\* rumboot_malloc_from_heap_misaligned() and what is built on it.
Allocate ==
    /\ Now.pc = "main"
    /\ Cardinality(Now.blocks) < MaxBlocks
    /\ \E id \in {i \in Slots : i < info.heaps.num}, q \in Requests :
          LET r == Malloc(info.heaps, id, q.len, q.align, q.mis)
          IN  /\ info' = [info EXCEPT !.heaps = r.heaps]
              /\ Set(IF r.panic THEN Exiting(Now, PanicCode)
                     ELSE [Now EXCEPT !.blocks = IF Now.ran THEN @ ELSE @ \cup
                              {[heap |-> id, at |-> r.ret, len |-> q.len, align |-> q.align,
                                mis |-> q.mis, level |-> Len(Now.marks)]}])
    /\ UNCHANGED <<runs, last>>

Mark(kind) == [kind |-> kind, pos |-> Positions(info.heaps), nested |-> FALSE]

\* rumboot_malloc_update_heaps(true): by a program, or by a test suite.
Save(kind) ==
    /\ Now.pc = "main"
    /\ Len(Now.marks) < MaxMarks
    /\ \A k \in DOMAIN Now.marks : Now.marks[k].kind # "test" \/ kind # "test"
    /\ info' = [info EXCEPT !.heaps = UpdateHeaps(@, TRUE)]
    /\ LET outer == [k \in DOMAIN Now.marks |-> [Now.marks[k] EXCEPT !.nested = TRUE]]
       IN  Set([Now EXCEPT !.marks = Append(outer, Mark(kind))])
    /\ UNCHANGED <<runs, last>>

\* What was allocated since the save is gone, and not the program's any more.
Dropped(f) ==
    [f EXCEPT !.marks  = SubSeq(@, 1, Len(@) - 1),
              !.blocks = {b \in @ : b.level < Len(f.marks)}]

\* rumboot_malloc_update_heaps(false)
Restoring(kind, f) ==
    /\ Now.pc = "main"
    /\ Now.marks # <<>> /\ Now.marks[Len(Now.marks)].kind = kind
    /\ info' = [info EXCEPT !.heaps = UpdateHeaps(@, FALSE)]
    /\ Set(f)
    /\ UNCHANGED <<runs, last>>

SaveHeaps    == Save("user")
RestoreHeaps == Restoring("user", Dropped(Now))

\* test_suite_run_single(): the check function runs between save and restore.
\* Its result goes into the verdict of the suite and the log, and no further.
BeginTest == Now.total < MaxTests /\ Save("test")

EndTest == Restoring("test", [Dropped(Now) EXCEPT !.total = @ + 1])

\* A test whose should_skip() says so touches no heap.
SkipTest ==
    /\ Now.pc = "main"
    /\ Now.total < MaxTests
    /\ \A k \in DOMAIN Now.marks : Now.marks[k].kind # "test"
    /\ Set([Now EXCEPT !.total = @ + 1])
    /\ UNCHANGED <<info, runs, last>>

\* Its heaps are gone when another program has started: so are its blocks, and
\* what it has saved is no longer what will be restored.
Forgotten(f) ==
    [f EXCEPT !.ran = TRUE, !.blocks = {},
              !.marks = [k \in DOMAIN @ |-> [@[k] EXCEPT !.pos = Positions(NoHeaps)]]]

\* An image is executed: rumboot_main() of another program, on the same stack.
Call ==
    /\ Now.pc = "main"
    /\ runs < MaxRuns
    /\ \E p \in Programs :
          /\ Start(p)
          /\ frames' = Append([frames EXCEPT ![Top] = Forgotten(Now)], Frame(p, runs + 1))
    /\ UNCHANGED last

\* exit() or a return from main().
Exit ==
    /\ Now.pc = "main"
    /\ \E s \in Statuses : Set(Exiting(Now, s))
    /\ UNCHANGED <<info, runs, last>>

-----------------------------------------------------------------------------
(* _exit()                                                                 *)

\* The value setjmp returns after longjmp(buf, v): never 0.
JumpValue(v) == IF v = 0 THEN 1 ELSE v

\* Mutant: the status as it is.
Unmangled(status) == status

\* The status as it is passed to longjmp().
Mangled(status) == 256 + status

\* exit() runs the destructors, and _exit() jumps through the jump buffer.
\* The frame there may be one that has returned, or none at all: control is
\* then wherever stale or cleared registers take it.
LongJump ==
    /\ Now.pc = "exiting"
    /\ Set(IF info.tramp = Now.id
           THEN [Now EXCEPT !.pc = "landed", !.val = JumpValue(Mangled(Now.val))]
           ELSE [Now EXCEPT !.pc = "astray"])
    /\ UNCHANGED <<info, runs, last>>

\* The rest of rumboot_main(): return ret - 256 to the caller.
Return ==
    /\ Now.pc = "landed"
    /\ last' = [code |-> Now.code, ret |-> Now.val - 256]
    /\ IF Top > 1 THEN frames' = SubSeq(frames, 1, Top - 1)
       ELSE Set([Now EXCEPT !.pc = "halted"])
    /\ UNCHANGED <<info, runs>>

\* The start-up code of the boot program halts; nothing is known of the other.
Stopped ==
    /\ Now.pc \in {"halted", "astray"}
    /\ UNCHANGED vars

-----------------------------------------------------------------------------
Init ==
    /\ info = [heaps |-> NoHeaps, tramp |-> NoFrame]
    /\ frames = <<Frame(Boot, 1)>>
    /\ runs = 1
    /\ last = [code |-> 0, ret |-> 0]

Runtime == Setup \/ Constructors \/ CallMain \/ LongJump \/ Return
Main    == \/ Allocate \/ SaveHeaps \/ RestoreHeaps \/ BeginTest \/ EndTest
           \/ SkipTest \/ Call \/ Exit

Next == Runtime \/ Main \/ Stopped

Spec == Init /\ [][Next]_vars

-----------------------------------------------------------------------------
(* Properties                                                              *)

Names == {NoName} \cup UNION {{Layout[p][k].name : k \in DOMAIN Layout[p]} : p \in Programs}

TypeOK ==
    /\ info.heaps.num \in 0 .. NumHeaps
    /\ Now.ran \/ info.heaps.num < Now.reg
    /\ info.heaps.slot \in [Slots -> [name : Names, start : Address, end : Address,
                                     pos : Address, save : Address]]
    /\ info.tramp \in 0 .. MaxRuns
    /\ runs \in 1 .. MaxRuns /\ Top \in 1 .. runs
    /\ last.code \in Int /\ last.ret \in Int
    /\ \A k \in DOMAIN frames :
          /\ frames[k].prog \in Programs /\ frames[k].id \in 1 .. runs
          /\ frames[k].pc \in {"setup", "ctors", "main", "exiting", "landed", "astray", "halted"}
          /\ Len(frames[k].marks) <= MaxMarks
          /\ k < Top => frames[k].pc = "main" /\ frames[k].ran

\* A program that has called no other yet: the runtime info is its own.
OwnsInfo(f) == f = Now /\ ~f.ran

\* The blocks a program holds are within the heap it asked, aligned as it
\* asked, and apart from each other, whatever its tests have allocated and
\* given back in between (malloc.c:9, testsuite.c:31).
Inside(b) ==
    /\ HeapByAddr(info.heaps, b.at) = b.heap
    /\ b.at + b.len <= info.heaps.slot[b.heap].end
Aligned(b) == b.align = 0 \/ (b.at - b.mis) % b.align = 0
Apart(b, c) == b.at + b.len <= c.at \/ c.at + c.len <= b.at
BlocksSound ==
    OwnsInfo(Now) =>
        \A b \in Now.blocks :
            /\ Inside(b) /\ Aligned(b)
            /\ \A c \in Now.blocks \ {b} : Apart(b, c)

\* Every heap that a program has registered is found under its name, with the
\* memory it was registered with (rumboot.h:35, "The heap id that was just
\* registered"; malloc.c:96).
HeapsAreFound ==
    OwnsInfo(Now) =>
        \A k \in 1 .. Now.reg - 1 :
            LET l == Layout[Now.prog][k]
                i == HeapByName(info.heaps, l.name)
            IN  l.start # l.end =>
                    /\ i # -1
                    /\ info.heaps.slot[i].start = l.start
                    /\ info.heaps.slot[i].end = l.end

\* A test or a save that contains no other leaves the heaps as it found them;
\* one that contains others may leak, but never gives back what is not its
\* own (malloc.c:138: there is one saved position, not a stack of them).
Given(f) == f.marks[Len(f.marks)]
TestsReleaseMemory ==
    [][(/\ Len(frames') = Top /\ OwnsInfo(Now)
        /\ Len(frames'[Top].marks) < Len(Now.marks)) =>
           \A i \in Slots :
               IF Given(Now).nested
               THEN info'.heaps.slot[i].pos >= Given(Now).pos[i]
               ELSE info'.heaps.slot[i].pos = Given(Now).pos[i]]_vars

\* A program that got to main() and called no other program is left only
\* through its own rumboot_main(), however deep it was and whether it
\* returned, exited or panicked (rumboot_main.c:101, newlib-stubs.c:66).
LeavesComeHome ==
    Now.pc = "astray" => ~Now.reached \/ Now.ran

\* Its caller gets the status it left with.  The one that cannot come back is
\* -256, which longjmp() takes for 0 (rumboot_main.c:120).
CallerGetsStatus ==
    last.ret = last.code \/ (last.code = -256 /\ last.ret = -255)

\* rumboot_main.c:94-97 and platform.h:110-112 say that exit() jumps back to
\* the rumboot_main() of the program, which returns to its caller: that no
\* exit goes astray.
ExitReturnsToCaller == Now.pc # "astray"
=============================================================================
