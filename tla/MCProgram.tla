----------------------------- MODULE MCProgram ------------------------------
(* A ROM and a program that it loads, on a board whose second memory is in  *)
(* both link scripts.                                                       *)
EXTENDS Program, TLC

CONSTANTS rom, spl, IM0, IM1, SRAM0, SDRAM

MCStatuses == {0, -256}

MCRequests == {[len |-> n, align |-> a, mis |-> m] :
                   <<n, a, m>> \in {<<2, 0, 0>>, <<3, 4, 1>>}}

MCHeap(n, a, b) == [name |-> n, start |-> a, end |-> b]

\* The ROM has three memories, one of them empty, so that the id of a heap is
\* not its place in the layout; the program has the other two, in the other
\* order.  The heaps begin at odd addresses too, and are small enough to run out.
MCLayout == (rom :> <<MCHeap(IM0, 5, 8), MCHeap(IM1, 12, 12), MCHeap(SDRAM, 16, 21)>>)
         @@ (spl :> <<MCHeap(SDRAM, 17, 20), MCHeap(IM1, 12, 15)>>)

\* lds/o32t/bootrom.lds:45-52: the heap of SRAM0 starts at address 0, in
\* the order of platform/o32t/glue.c:159-175.
ZeroLayout == (rom :> <<MCHeap(IM0, 24, 28), MCHeap(SRAM0, 0, 8), MCHeap(SDRAM, 8, 16)>>)
           @@ (spl :> <<MCHeap(SRAM0, 1, 8), MCHeap(SDRAM, 8, 16)>>)
=============================================================================
