----------------------------- MODULE MCBootCpu ------------------------------
(* Small instances of BootCpu.                                             *)
EXTENDS BootCpu

\* Success, two failures, and statuses that the masks change.
MCStatuses == {0, 1, -1}
=============================================================================
