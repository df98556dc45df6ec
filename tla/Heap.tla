-------------------------------- MODULE Heap --------------------------------
(***************************************************************************)
(* The heaps of the runtime info and the calls of lib/malloc.c on them.    *)
(* A heap is a stretch of memory with a position that only moves up, and a *)
(* saved position that it can be moved back to; nothing is ever freed.     *)
(*                                                                         *)
(* Addresses have the 32 bits of the targets, scaled: they are numbers     *)
(* below Word, and sums of them wrap.  Address 0 is NULL, and memory too.  *)
(***************************************************************************)
EXTENDS Integers, FiniteSetsExt

CONSTANTS
    NumHeaps,   \* RUMBOOT_PLATFORM_NUM_HEAPS
    Word,       \* stands for 2^32
    NoName      \* the NULL name of a slot that is not in use

ASSUME HeapAssumption == NumHeaps \in Nat \ {0} /\ Word \in Nat \ {0}

Address == 0 .. Word - 1
Slots   == 0 .. NumHeaps - 1

\* include/rumboot/platform.h:430, struct rumboot_heap after the memset.
NoHeap == [name |-> NoName, start |-> 0, end |-> 0, pos |-> 0, save |-> 0]

NoHeaps == [num |-> 0, slot |-> [i \in Slots |-> NoHeap]]

\* A call of malloc.c leaves the heaps, returns a value or panics.
Done(h, v)  == [heaps |-> h, ret |-> v, panic |-> FALSE]
Panicked(h) == [heaps |-> h, ret |-> 0, panic |-> TRUE]

-----------------------------------------------------------------------------
\* A slot is in use if its heap does not start at NULL.
IsFree(h, i) == h.slot[i].start = 0

\* rumboot_malloc_register_heap(): the first free slot.
Register(h, name, start, end) ==
    LET free == {i \in Slots : IsFree(h, i)}
    IN  IF start = end THEN Done(h, -1)
        ELSE IF end < start \/ free = {} THEN Panicked(h)
        ELSE LET i == Min(free)
             IN  Done([num  |-> h.num + 1,
                       slot |-> [h.slot EXCEPT ![i] =
                           [name |-> name, start |-> start, end |-> end,
                            pos |-> start, save |-> start]]],
                      i)

\* Mutant: the last heap is not looked at.
HeapButLastByName(h, name) ==
    LET found == {i \in Slots : i < h.num - 1 /\ h.slot[i].name = name}
    IN  IF found = {} THEN -1 ELSE Min(found)

\* rumboot_malloc_heap_by_name(): the slots below num_heaps, -1 if none.
HeapByName(h, name) ==
    LET found == {i \in Slots : i < h.num /\ h.slot[i].name = name}
    IN  IF found = {} THEN -1 ELSE Min(found)

\* rumboot_malloc_heap_by_addr()
HeapByAddr(h, addr) ==
    LET found == {i \in Slots : /\ i < h.num
                                /\ h.slot[i].start <= addr /\ addr < h.slot[i].end}
    IN  IF found = {} THEN -1 ELSE Min(found)

AlignUp(a, align) ==
    IF align = 0 \/ a % align = 0 THEN a ELSE a + (align - (a % align))

\* Mutant: the end is compared with the position before it moves.
MallocLateCheck(h, id, length, align, misalign) ==
    LET at == AlignUp(h.slot[id].pos, align) + misalign
        h2 == [h EXCEPT !.slot[id].pos = (at + length) % Word]
    IN  IF h.slot[id].pos >= h.slot[id].end THEN Panicked(h2) ELSE Done(h2, at)

\* rumboot_malloc_from_heap_misaligned(): the position has moved when it is
\* compared with the end, and a block may not reach the end itself.
Malloc(h, id, length, align, misalign) ==
    LET at   == (AlignUp(h.slot[id].pos, align) + misalign) % Word
        next == (at + length) % Word
        h2   == [h EXCEPT !.slot[id].pos = next]
    IN  IF next >= h.slot[id].end THEN Panicked(h2) ELSE Done(h2, at)

\* Mutant: the last heap is neither saved nor restored.
UpdateHeapsButLast(h, save) ==
    [h EXCEPT !.slot = [i \in Slots |->
        LET hp == h.slot[i]
        IN  IF i >= h.num - 1 THEN hp
            ELSE IF save THEN [hp EXCEPT !.save = hp.pos]
            ELSE [hp EXCEPT !.pos = hp.save]]]

\* rumboot_malloc_update_heaps()
UpdateHeaps(h, save) ==
    [h EXCEPT !.slot = [i \in Slots |->
        LET hp == h.slot[i]
        IN  IF i >= h.num THEN hp
            ELSE IF save THEN [hp EXCEPT !.save = hp.pos]
            ELSE [hp EXCEPT !.pos = hp.save]]]

Positions(h) == [i \in Slots |-> h.slot[i].pos]
=============================================================================
