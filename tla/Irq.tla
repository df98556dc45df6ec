-------------------------------- MODULE Irq --------------------------------
(***************************************************************************)
(* The interrupt subsystem, irq.c, on a PowerPC core with an MPIC128: the  *)
(* calls a program makes to set up tables and lines, the dispatch of       *)
(* interrupts by rumboot_irq_core_dispatch(), and the way a critical       *)
(* interrupt preempts all of it.                                           *)
(*                                                                         *)
(* `stack' is the stack of the core.  Its first frame is the program's;    *)
(* each interrupt that is taken pushes one, which passes through           *)
(*                                                                         *)
(*   enter -> classify -> begin -> lookup -> handler -> account -> end     *)
(*         -> leave (-> epilogue, if critical) -> rfi                      *)
(*                                                                         *)
(* and is popped.  Only the topmost frame executes, and only when no       *)
(* interrupt can be taken: the core takes one before its next instruction. *)
(***************************************************************************)
EXTENDS Integers, Sequences, FiniteSets

CONSTANTS
    Line,           \* interrupt lines of the controller
    Spurious,       \* the vector it reads as when nothing is pending
    NumIrqs,        \* RUMBOOT_PLATFORM_NUM_IRQS
    Table,          \* tables the program may create
    Handler,        \* handlers; each is installed with an argument of its own
    NoTable,        \* NULL
    NoHandler,      \* NULL
    MinPriority, MaxPriority, DefaultPriority,
    Level,          \* lines that are level-sensitive
    CriticalBorder, \* lines of this priority and above are critical
    Wanted,         \* priorities the program asks for
    MainCalls,      \* calls the program makes
    IsrCalls,       \* calls its handlers make
    MaxDepth,       \* bound: frames on the stack and interrupts pending
    CountMod        \* bound: counters are kept modulo this

Vector == Line \cup {Spurious}
Call   == {"set", "activate", "enable", "disable", "adjust", "create", "reset"}

ASSUME IrqAssumption ==
    /\ Vector \subseteq Nat /\ Spurious \notin Line
    /\ Line # {} /\ \A i \in Line : i < NumIrqs
    /\ NumIrqs \in Nat
    /\ NoTable \notin Table /\ NoHandler \notin Handler
    /\ {MinPriority, MaxPriority, DefaultPriority} \subseteq Nat
    /\ MinPriority <= DefaultPriority /\ DefaultPriority <= MaxPriority
    /\ DefaultPriority > 0
    /\ CriticalBorder \in Nat /\ DefaultPriority < CriticalBorder
    /\ Wanted \subseteq Nat /\ Level \subseteq Line
    /\ MainCalls \subseteq Call /\ IsrCalls \subseteq Call
    /\ MaxDepth \in Nat \ {0} /\ CountMod \in Nat \ {0}

VARIABLES
    stack,      \* frames, the program's first
    ee, ce,     \* MSR[EE], MSR[CE]
    srr, csrr,  \* where rfi and rfci return to, and with which MSR
    table,      \* table -> vector -> entry
    made,       \* tables that rumboot_irq_create() has returned
    active,     \* irq_handler_table
    type,       \* irq_type
    context,    \* irq_context_counter
    line,       \* line -> its VP register: unmasked?, priority
    pending,    \* lines whose interrupt has not been acknowledged
    service,    \* acknowledged interrupts that wait for their EOI
    panic       \* why the core has stopped: what rumboot_platform_panic()
                \* was called for, or a return that went astray

cpu  == <<ee, ce, srr, csrr>>
data == <<table, made, active>>
mpic == <<line, pending, service>>
vars == <<stack, cpu, data, type, context, mpic, panic>>

Entry   == [ handler : Handler \cup {NoHandler}, arg : Handler \cup {NoHandler},
             priority : Nat, count : 0 .. CountMod - 1 ]
Unset   == [ handler |-> NoHandler, arg |-> NoHandler, priority |-> 0, count |-> 0 ]
Ref     == Table \cup {NoTable}
Class   == {"normal", "critical"}
IrqType == Class \cup {"notirq"}
State   == [ to : Nat, ee : BOOLEAN, ce : BOOLEAN ]
Stage   == {"program", "enter", "classify", "begin", "lookup", "handler",
            "account", "end", "leave", "epilogue", "rfi"}

\* The call of irq.c that a frame is in: its next step, its locals, the MSR[EE]
\* that RUMBOOT_ATOMIC_BLOCK() restores and, for rumboot_irq_enable() called
\* by rumboot_irq_table_activate(), the step that follows it.
Step    == {"none", "store", "argument", "switch", "scan", "configure", "adjust"}
Calling == [ step : Step, then : {"none", "scan"}, tbl : Ref, fetched : Ref, line : Vector,
             todo : SUBSET Line, handler : Handler \cup {NoHandler}, on : BOOLEAN,
             priority : Nat, ee : BOOLEAN ]
NoCall  == [ step |-> "none", then |-> "none", tbl |-> NoTable, fetched |-> NoTable,
             line |-> Spurious, todo |-> {}, handler |-> NoHandler, on |-> FALSE,
             priority |-> 0, ee |-> FALSE ]

Frame ==
    [ kind : {"main"} \cup Class, at : Stage, line : Vector, tbl : Ref,
      handler : Handler \cup {NoHandler}, arg : Handler \cup {NoHandler},
      prev : IrqType, saved : State, op : Calling ]

Reset == [ to |-> 0, ee |-> FALSE, ce |-> FALSE ]

NewFrame(k, at, s) ==
    [ kind |-> k, at |-> at, line |-> Spurious, tbl |-> NoTable,
      handler |-> NoHandler, arg |-> NoHandler, prev |-> "notirq",
      saved |-> s, op |-> NoCall ]

TypeOK ==
    /\ stack \in Seq(Frame) /\ stack # << >>
    /\ ee \in BOOLEAN /\ ce \in BOOLEAN
    /\ srr \in State /\ csrr \in State
    /\ table \in [Table -> [Vector -> Entry]]
    /\ made \subseteq Table
    /\ active \in made \cup {NoTable}
    /\ type \in IrqType
    /\ context \in 0 .. Len(stack)
    /\ line \in [Line -> [ on : BOOLEAN, priority : Nat ]]
    /\ pending \subseteq Line
    /\ service \in Seq([ line : Line, class : Class, priority : Nat ])
    /\ panic \in {"no", "id", "table", "lost"}

Depth == Len(stack)
Top   == stack[Depth]

\* The topmost frame becomes f.
Now(f) == stack' = [stack EXCEPT ![Depth] = f]

Goto(at) == Now([Top EXCEPT !.at = at])

-----------------------------------------------------------------------------
(* The controller, as its driver sees it.                                  *)

ClassOf(i) == IF line[i].priority >= CriticalBorder THEN "critical" ELSE "normal"

InService == { service[k].line : k \in DOMAIN service }

\* Only what has priority over everything in service is signalled.
Signalled(c) ==
    { i \in pending : /\ line[i].on /\ ClassOf(i) = c
                      /\ line[i].priority > 0
                      /\ \A k \in DOMAIN service :
                            line[i].priority > service[k].priority }

Highest(S) == CHOOSE i \in S : \A j \in S :
    \/ line[i].priority > line[j].priority
    \/ line[i].priority = line[j].priority /\ i <= j

Taken(c) ==
    /\ Signalled(c) # {}
    /\ IF c = "critical" THEN ce ELSE ee

\* The core executes its next instructions.
Undisturbed == panic = "no" /\ \A c \in Class : ~Taken(c)

\* Bound: nothing more is raised once MaxDepth interrupts and frames are there.
Raise(i) ==
    /\ panic = "no"
    /\ i \notin pending
    /\ Depth + Cardinality(pending) < MaxDepth
    /\ pending' = pending \cup {i}
    /\ UNCHANGED <<stack, cpu, data, type, context, line, service, panic>>

\* A device withdraws its level-sensitive request.
Withdraw(i) ==
    /\ panic = "no"
    /\ i \in pending \cap Level
    /\ pending' = pending \ {i}
    /\ UNCHANGED <<stack, cpu, data, type, context, line, service, panic>>

\* The external interrupt vector.
TakeNormal ==
    /\ panic = "no"
    /\ Taken("normal") /\ ~Taken("critical")
    /\ srr' = [ to |-> Depth, ee |-> ee, ce |-> ce ]
    /\ ee' = FALSE
    /\ stack' = Append(stack, NewFrame("normal", "enter", Reset))
    /\ UNCHANGED <<ce, csrr, data, type, context, mpic, panic>>

\* The critical input vector: its prologue saves CSRR0 and CSRR1.
TakeCritical ==
    /\ panic = "no"
    /\ Taken("critical")
    /\ csrr' = [ to |-> Depth, ee |-> ee, ce |-> ce ]
    /\ ee' = FALSE /\ ce' = FALSE
    /\ stack' = Append(stack, NewFrame("critical", "enter", csrr'))
    /\ UNCHANGED <<srr, data, type, context, mpic, panic>>

-----------------------------------------------------------------------------
(* rumboot_irq_core_dispatch().                                            *)

Enter ==
    /\ Undisturbed
    /\ Top.at = "enter"
    /\ context' = context + 1
    /\ Goto("classify")
    /\ UNCHANGED <<cpu, data, type, mpic, panic>>

\* Mutant: the type is left to the driver.
KeepsType == type

NewType == "normal"

Classify ==
    /\ Undisturbed
    /\ Top.at = "classify"
    /\ Now([Top EXCEPT !.at = "begin", !.prev = type])
    /\ type' = NewType
    /\ UNCHANGED <<cpu, data, context, mpic, panic>>

\* Mutant: interrupts are enabled on top of it.
InterruptedEnabled == [csrr EXCEPT !.ee = TRUE]

\* The MSR a critical handler runs with: that of the interrupted code.
Interrupted == csrr

Acknowledge(i) ==
    /\ pending' = pending \ {i}
    /\ service' = Append(service, [ line |-> i, class |-> ClassOf(i),
                                    priority |-> line[i].priority ])
    /\ Now([Top EXCEPT !.at = "lookup", !.line = i])

\* mpic128_begin(): the critical acknowledge register is read first.
Begin ==
    /\ Undisturbed
    /\ Top.at = "begin"
    /\ \/ /\ Signalled("critical") # {}
          /\ Acknowledge(Highest(Signalled("critical")))
          /\ type' = "critical"
          /\ ee' = Interrupted.ee /\ ce' = Interrupted.ce
       \/ /\ Signalled("critical") = {} /\ Signalled("normal") # {}
          /\ Acknowledge(Highest(Signalled("normal")))
          /\ UNCHANGED <<type, ee, ce>>
       \/ /\ \A c \in Class : Signalled(c) = {}
          /\ Now([Top EXCEPT !.at = "lookup", !.line = Spurious])
          /\ UNCHANGED <<type, ee, ce, pending, service>>
    /\ UNCHANGED <<srr, csrr, data, context, line, panic>>

check_irq_id(id) == id <= NumIrqs

\* process_irq(): the handler of the table that is active now, with its
\* argument; a default handler is installed for the other lines.
Lookup ==
    /\ Undisturbed
    /\ Top.at = "lookup"
    /\ IF check_irq_id(Top.line)
         THEN /\ Now([Top EXCEPT
                   !.at      = "handler",
                   !.tbl     = active,
                   !.handler = IF active = NoTable THEN NoHandler
                               ELSE table[active][Top.line].handler,
                   !.arg     = IF active = NoTable THEN NoHandler
                               ELSE table[active][Top.line].arg])
              /\ UNCHANGED panic
         ELSE panic' = "id" /\ UNCHANGED stack
    /\ UNCHANGED <<cpu, data, type, context, mpic>>

HandlerReturns ==
    /\ Undisturbed
    /\ Top.at = "handler" /\ Top.op = NoCall
    /\ Goto("account")
    /\ UNCHANGED <<cpu, data, type, context, mpic, panic>>

\* `tbl[id].count++' in the table that was looked up.
Account ==
    /\ Undisturbed
    /\ Top.at = "account"
    /\ table' = IF Top.tbl = NoTable THEN table
                ELSE [table EXCEPT ![Top.tbl][Top.line].count = (@ + 1) % CountMod]
    /\ Goto("end")
    /\ UNCHANGED <<cpu, made, active, type, context, mpic, panic>>

\* The highest interrupt of class c is no longer in service.
EndOfInterrupt(c) ==
    LET ks == { k \in DOMAIN service : service[k].class = c } IN
    IF ks = {} THEN service
    ELSE LET k == CHOOSE k \in ks : \A j \in ks : j <= k
         IN  SubSeq(service, 1, k - 1) \o SubSeq(service, k + 1, Len(service))

\* Mutant: the test in mpic128_end() is inverted.
OtherClass == IF type = "critical" THEN "normal" ELSE "critical"

\* mpic128_end(): `irq_type' tells which EOI register to write.
EoiClass == IF type = "critical" THEN "critical" ELSE "normal"

End ==
    /\ Undisturbed
    /\ Top.at = "end"
    /\ service' = IF Top.line = Spurious THEN service ELSE EndOfInterrupt(EoiClass)
    /\ Goto("leave")
    /\ UNCHANGED <<cpu, data, type, context, line, pending, panic>>

\* Mutants: nesting is forgotten, or never ends.
ProgramType == "notirq"
NoContext   == 0
SameContext == context

PreviousType == Top.prev
OuterContext == context - 1

Leave ==
    /\ Undisturbed
    /\ Top.at = "leave"
    /\ type' = PreviousType
    /\ context' = OuterContext
    /\ Goto(IF Top.kind = "critical" THEN "epilogue" ELSE "rfi")
    /\ UNCHANGED <<cpu, data, mpic, panic>>

\* full_epilogue 1.
Epilogue ==
    /\ Undisturbed
    /\ Top.at = "epilogue"
    /\ csrr' = Top.saved
    /\ Goto("rfi")
    /\ UNCHANGED <<ee, ce, srr, data, type, context, mpic, panic>>

\* rfi and rfci.  A core that returns to what it has not interrupted is lost.
Return ==
    /\ Undisturbed
    /\ Top.at = "rfi"
    /\ LET r == IF Top.kind = "critical" THEN csrr ELSE srr IN
         /\ ee' = r.ee /\ ce' = r.ce
         /\ IF r.to < Depth
              THEN stack' = SubSeq(stack, 1, r.to) /\ UNCHANGED panic
              ELSE panic' = "lost" /\ UNCHANGED stack
    /\ UNCHANGED <<srr, csrr, data, type, context, mpic>>

-----------------------------------------------------------------------------
(* The calls of irq.c, made by the program or by a handler.                *)

Calls(c) ==
    /\ Undisturbed
    /\ Top.op = NoCall
    /\ \/ Top.at = "program" /\ c \in MainCalls
       \/ Top.at = "handler" /\ c \in IsrCalls

In(step) == Undisturbed /\ Top.op.step = step

\* The call goes on as op.
Continue(op) == Now([Top EXCEPT !.op = op])

Panic(why) == panic' = why /\ UNCHANGED stack

\* rumboot_irq_table_fetch(): tbl, or the active table.
Fetch(tbl) == IF tbl = NoTable THEN active ELSE tbl

\* rumboot_irq_create(): a copy of the given table, or of the active one.
Create(t, copyfrom) ==
    /\ Calls("create")
    /\ t \notin made
    /\ made' = made \cup {t}
    /\ table' = [table EXCEPT ![t] =
                    IF Fetch(copyfrom) = NoTable THEN [ v \in Vector |-> Unset ]
                    ELSE table[Fetch(copyfrom)]]
    /\ UNCHANGED <<stack, cpu, active, type, context, mpic, panic>>

\* rumboot_irq_reset_count().
ResetCount(i) ==
    /\ Calls("reset")
    /\ active # NoTable
    /\ table' = [table EXCEPT ![active][i].count = 0]
    /\ UNCHANGED <<stack, cpu, made, active, type, context, mpic, panic>>

\* Mutant: set_handler() and activate() do not begin an atomic block.
Unmasked == ee

\* RUMBOOT_ATOMIC_BLOCK() clears MSR[EE].
Masked == FALSE

\* Mutant: the block ends by enabling interrupts.
Enabled == TRUE

\* It ends by restoring MSR[EE].
Restored == Top.op.ee

SetHandler(t, i, h) ==
    /\ Calls("set")
    /\ ee' = Masked
    /\ Continue([NoCall EXCEPT !.step = "store", !.tbl = t, !.line = i,
                               !.handler = h, !.ee = ee])
    /\ UNCHANGED <<ce, srr, csrr, data, type, context, mpic, panic>>

Store ==
    /\ In("store")
    /\ LET op == Top.op
           tbl == Fetch(op.tbl)
       IN  IF tbl = NoTable
             THEN Panic("table") /\ UNCHANGED table
             ELSE /\ table' = [table EXCEPT ![tbl][op.line].handler = op.handler]
                  /\ Continue([op EXCEPT !.step = "argument", !.tbl = tbl])
                  /\ UNCHANGED panic
    /\ UNCHANGED <<cpu, made, active, type, context, mpic>>

Argument ==
    /\ In("argument")
    /\ LET op == Top.op IN
         /\ table' = [table EXCEPT ![op.tbl][op.line].arg = op.handler,
                                   ![op.tbl][op.line].priority = DefaultPriority]
         /\ ee' = Restored
    /\ Continue(NoCall)
    /\ UNCHANGED <<ce, srr, csrr, made, active, type, context, mpic, panic>>

\* rumboot_irq_table_activate().
Activate(t) ==
    /\ Calls("activate")
    /\ ee' = Masked
    /\ Continue([NoCall EXCEPT !.step = "switch", !.tbl = t, !.ee = ee])
    /\ UNCHANGED <<ce, srr, csrr, data, type, context, mpic, panic>>

Switch ==
    /\ In("switch")
    /\ active' = Top.op.tbl
    /\ Continue([Top.op EXCEPT !.step = "scan",
                    !.todo = IF Top.op.tbl = NoTable THEN {} ELSE Line])
    /\ UNCHANGED <<cpu, table, made, type, context, mpic, panic>>

\* Lines of the table that the loop has yet to enable.
ToEnable(op) == { i \in op.todo : table[op.tbl][i].handler # NoHandler }

Lowest(S) == CHOOSE i \in S : \A j \in S : i <= j

\* The loop goes to the next line that has a handler, or ends.
Scan ==
    /\ In("scan")
    /\ LET op == Top.op
           i  == Lowest(ToEnable(op))
       IN  \/ /\ ToEnable(op) = {}
              /\ ee' = Restored
              /\ Continue(NoCall)
              /\ UNCHANGED panic
           \/ /\ ToEnable(op) # {} /\ active # NoTable
              /\ Continue([op EXCEPT !.step = "configure", !.then = "scan",
                              !.on = TRUE, !.line = i, !.fetched = active,
                              !.todo = { j \in op.todo : j > i }])
              /\ UNCHANGED <<ee, panic>>
           \/ /\ ToEnable(op) # {} /\ active = NoTable
              /\ Panic("table")
              /\ UNCHANGED ee
    /\ UNCHANGED <<ce, srr, csrr, data, type, context, mpic>>

\* rumboot_irq_enable() and rumboot_irq_disable().
Able(c, i) ==
    /\ Calls(c)
    /\ IF active = NoTable THEN Panic("table")
       ELSE /\ Continue([NoCall EXCEPT !.step = "configure", !.line = i,
                                       !.fetched = active, !.on = (c = "enable")])
            /\ UNCHANGED panic
    /\ UNCHANGED <<cpu, data, type, context, mpic>>

\* enable_mpic128_vp_modify() spins while the line is active.
Modifiable(i) == i \notin InService

\* mpic128_configure(), at priority 1; enabling goes on with the priority.
Configure ==
    /\ In("configure")
    /\ LET op == Top.op IN
         /\ Modifiable(op.line)
         /\ line' = [line EXCEPT ![op.line] =
                        [ on |-> op.on, priority |-> DefaultPriority ]]
         /\ IF op.on
              THEN Continue([op EXCEPT !.step = "adjust",
                               !.priority = table[op.fetched][op.line].priority])
              ELSE Continue(NoCall)
    /\ UNCHANGED <<cpu, data, type, context, pending, service, panic>>

\* rumboot_irq_priority_adjust().
AdjustPriority(t, i, p) ==
    /\ Calls("adjust")
    /\ IF Fetch(t) = NoTable THEN Panic("table")
       ELSE /\ Continue([NoCall EXCEPT !.step = "adjust", !.fetched = Fetch(t),
                                       !.line = i, !.priority = p])
            /\ UNCHANGED panic
    /\ UNCHANGED <<cpu, data, type, context, mpic>>

\* 0 stands for the default; the rest is brought into the controller's range.
Clipped(p) ==
    LET q == IF p = 0 THEN DefaultPriority ELSE p
    IN  IF q > MaxPriority THEN MaxPriority
        ELSE IF q < MinPriority THEN MinPriority ELSE q

Adjust ==
    /\ In("adjust")
    /\ LET op == Top.op IN
         /\ table' = [table EXCEPT ![op.fetched][op.line].priority = Clipped(op.priority)]
         /\ IF op.fetched = active
              THEN /\ Modifiable(op.line)
                   /\ line' = [line EXCEPT ![op.line].priority = Clipped(op.priority)]
              ELSE UNCHANGED line
         /\ Continue(IF op.then = "scan"
                       THEN [op EXCEPT !.step = "scan", !.then = "none"] ELSE NoCall)
    /\ UNCHANGED <<cpu, made, active, type, context, pending, service, panic>>

-----------------------------------------------------------------------------

\* The platform has installed a default handler and the program, with all
\* interrupts enabled, has not set up any table yet.
Init ==
    /\ stack = << NewFrame("main", "program", Reset) >>
    /\ ee = TRUE /\ ce = TRUE
    /\ srr = Reset /\ csrr = Reset
    /\ table = [ t \in Table |-> [ v \in Vector |-> Unset ] ]
    /\ made = {} /\ active = NoTable
    /\ type = "notirq" /\ context = 0
    /\ line = [ i \in Line |-> [ on |-> FALSE, priority |-> 0 ] ]
    /\ pending = {} /\ service = <<>>
    /\ panic = "no"

Dispatch ==
    \/ Enter \/ Classify \/ Begin \/ Lookup \/ HandlerReturns
    \/ Account \/ End \/ Leave \/ Epilogue \/ Return

CallStep == Store \/ Argument \/ Switch \/ Scan \/ Configure \/ Adjust

NewCall ==
    \/ \E t \in Table, from \in made \cup {NoTable} : Create(t, from)
    \/ \E i \in Line : ResetCount(i)
    \/ \E t \in made \cup {NoTable}, i \in Line, h \in Handler : SetHandler(t, i, h)
    \/ \E t \in made \cup {NoTable} : Activate(t)
    \/ \E c \in {"enable", "disable"}, i \in Line : Able(c, i)
    \/ \E t \in made \cup {NoTable}, i \in Line, p \in Wanted : AdjustPriority(t, i, p)

Interrupt == TakeNormal \/ TakeCritical

\* rumboot_platform_panic() does not return.
Halted == panic # "no" /\ UNCHANGED vars

Next ==
    \/ \E i \in Line : Raise(i) \/ Withdraw(i)
    \/ Interrupt \/ Dispatch \/ CallStep \/ NewCall
    \/ Halted

Spec == Init /\ [][Next]_vars

\* The core does not stop while it has something to execute, and handlers
\* return: they make only so many calls.
FairSpec ==
    /\ Spec
    /\ WF_vars(Interrupt)
    /\ WF_vars(Dispatch \/ CallStep)
    /\ SF_vars(HandlerReturns)

-----------------------------------------------------------------------------
(* What the subsystem promises.                                            *)

\* rumboot_irq_get_context() tells how deep interrupts are nested, whatever
\* preempts the increments and decrements in rumboot_irq_core_dispatch().
ContextCounts ==
    context = Cardinality({ k \in 1 .. Depth :
                  stack[k].at \notin {"program", "enter", "epilogue", "rfi"} })

\* rumboot_irq_current_type() tells a handler the class of its own interrupt,
\* even after others have preempted it, and the program that it is no handler.
TypeTells ==
    /\ Top.at = "program" => type = "notirq"
    /\ Top.at = "handler" /\ Top.line # Spurious =>
          type = service[Len(service)].class

\* The EOI that rumboot_irq_core_dispatch() ends with is that of the interrupt
\* it began with, not that of one it has preempted.
EndsItsOwn ==
    Top.at = "end" /\ Top.line # Spurious =>
        /\ service # <<>>
        /\ EndOfInterrupt(EoiClass) = SubSeq(service, 1, Len(service) - 1)
        /\ service[Len(service)].line = Top.line

\* An external interrupt returns to the code it has interrupted: nothing that
\* uses SRR0 and SRR1 preempts it, for its handler runs with MSR[EE] cleared
\* and a critical one takes over the MSR it finds.
NormalReturns ==
    Top.at = "rfi" /\ Top.kind = "normal" => srr.to = Depth - 1

\* Atomic blocks nest: what the program and a normal handler find in MSR[EE]
\* when a call returns is what they had, whoever made calls meanwhile.
MaskNests ==
    Top.op = NoCall =>
        /\ Top.at = "program" => ee
        /\ Top.kind = "normal" => ~ee

\* The same for a critical interrupt, which saves and restores CSRR0 and CSRR1
\* itself.
CriticalReturns ==
    Top.at = "rfi" /\ Top.kind = "critical" => csrr.to = Depth - 1

\* A handler is called with the argument it was installed with: no interrupt
\* is dispatched in the middle of rumboot_irq_set_handler().
HandlerGetsItsArg ==
    Top.at = "handler" => Top.arg = Top.handler

\* An interrupt that is acknowledged is ended.
EveryInterruptEnds ==
    \A i \in Line : i \in InService ~> i \notin InService \/ panic # "no"

=============================================================================
