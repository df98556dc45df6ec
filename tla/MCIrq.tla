------------------------------- MODULE MCIrq -------------------------------
(* Small instances of Irq: lines, tables, handlers, priorities and calls.  *)
EXTENDS Irq

One       == {1}
Two       == {1, 2}
OneTable  == {"t"}
TwoTables == {"t", "u"}
Only      == {"h"}

\* Above the maximum.
Raised == {9}

None      == {}
Setup     == {"create", "set", "activate"}
Disabling == Setup \cup {"disable"}
Nested    == Setup \cup {"adjust"}
Changing  == {"set", "enable", "adjust", "reset"}
Setting   == {"set"}

(***************************************************************************)
(* A program that has set up its table before any interrupt was raised: it *)
(* has called rumboot_irq_create(), rumboot_irq_set_handler() for each     *)
(* line, rumboot_irq_table_activate(), and rumboot_irq_priority_adjust()   *)
(* to give line 2 the lowest critical priority.                            *)
(***************************************************************************)
Priority(i) == IF i = 2 THEN CriticalBorder ELSE DefaultPriority

Installed(i) == [ handler |-> "h", arg |-> "h", priority |-> Priority(i), count |-> 0 ]

Ready ==
    /\ stack = << NewFrame("main", "program", Reset) >>
    /\ ee = TRUE /\ ce = TRUE
    /\ srr = Reset /\ csrr = Reset
    /\ table = [ t \in Table |->
                  [ v \in Vector |-> IF v \in Line THEN Installed(v) ELSE Unset ] ]
    /\ made = Table /\ active = "t"
    /\ type = "notirq" /\ context = 0
    /\ line = [ i \in Line |-> [ on |-> TRUE, priority |-> Priority(i) ] ]
    /\ pending = {} /\ service = <<>>
    /\ panic = "no"

ReadySpec == Ready /\ [][Next]_vars
=============================================================================
