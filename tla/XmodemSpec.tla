----------------------------- MODULE XmodemSpec -----------------------------
(***************************************************************************)
(* What a receiver of an XMODEM transfer promises to the callback that     *)
(* stores the blocks (memory, or the pages of a flash): it gets them in    *)
(* order, each once, and none after the transfer is over.                  *)
(***************************************************************************)
EXTENDS Naturals, Sequences

CONSTANT Blocks     \* blocks that the sender cuts its data into

VARIABLES
    stored,         \* numbers of the blocks given to the callback
    over            \* xmodem_get_async() has returned

Init ==
    /\ stored = << >>
    /\ over = FALSE

Store ==
    /\ ~over
    /\ Len(stored) < Blocks
    /\ stored' = Append(stored, Len(stored) + 1)
    /\ UNCHANGED over

Finish ==
    /\ ~over
    /\ over' = TRUE
    /\ UNCHANGED stored

Next == Store \/ Finish

Spec == Init /\ [][Next]_<<stored, over>>
=============================================================================
