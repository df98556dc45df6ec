--------------------------- MODULE ProgramProofs ----------------------------
(***************************************************************************)
(* Proofs about programs, their heaps and their exits, for every number of *)
(* heaps, every layout of them, and any programs, requests and statuses.   *)
(***************************************************************************)
EXTENDS Program, Arithmetic, SequenceTheorems

-----------------------------------------------------------------------------
(***************************************************************************)
(* The inductive invariant, in layers.  Control is what holds of any       *)
(* layout: types, that only the last of the frames runs, and that a        *)
(* program which has not called another one still has the jump buffer and  *)
(* the heaps it has registered.                                            *)
(***************************************************************************)
Phase      == {"setup", "ctors", "main", "exiting", "landed", "astray", "halted"}
HeapRecord == [name : Names, start : Address, end : Address, pos : Address, save : Address]
AllHeaps   == [num : Nat, slot : [Slots -> HeapRecord]]
Block      == [heap : Slots, at : Nat, len : Nat, align : Nat, mis : Nat, level : Nat]
Saved      == [kind : {"user", "test"}, pos : [Slots -> Address], nested : BOOLEAN]
Activation == [prog : Programs, id : 1 .. MaxRuns, pc : Phase, reg : Nat \ {0},
               val : Int, code : Int, reached : BOOLEAN, ran : BOOLEAN,
               blocks : SUBSET Block, marks : Seq(Saved),
               total : Nat]

Types ==
    /\ info \in [heaps : AllHeaps, tramp : 0 .. MaxRuns]
    /\ frames \in Seq(Activation)
    /\ runs \in 1 .. MaxRuns
    /\ Top \in 1 .. runs
    /\ last \in [code : Int, ret : Int]

\* What holds of each frame by itself.
Honest(f) ==
    /\ f.pc = "exiting" => f.val = f.code
    /\ f.pc = "landed" => f.val = JumpValue(256 + f.code)
    /\ Len(f.marks) <= MaxMarks

\* A frame that has called another program.
Caller(f) == f.pc = "main" /\ f.ran

\* What holds of the frame f that runs.
Runs(f) ==
    /\ f.pc \in {"setup", "ctors"} =>
           ~f.ran /\ ~f.reached /\ f.blocks = {} /\ f.marks = << >>
    /\ f.pc = "astray" => ~f.reached \/ f.ran
    /\ ~f.ran =>
           /\ f.reached => info.tramp = f.id
           /\ info.heaps.num < f.reg
           /\ f.reg <= Len(Layout[f.prog]) + 1

Control ==
    /\ Types
    /\ \A k \in 1 .. Top : Honest(frames[k]) /\ frames[k].id <= runs
    /\ \A k \in 1 .. Top : k < Top => Caller(frames[k])
    /\ Runs(Now)
    /\ CallerGetsStatus

-----------------------------------------------------------------------------
(***************************************************************************)
(* Slotted says where the slots' heaps come from: what the layout asks     *)
(* for, or nothing.                                                        *)
(***************************************************************************)
Is(hp, l) == hp.name = l.name /\ hp.start = l.start /\ hp.end = l.end

Empty(hp) == hp.start = 0 /\ hp.end = 0

Slotted ==
    ~Now.ran =>
        \A i \in Slots :
            \/ Empty(info.heaps.slot[i])
            \/ \E k \in 1 .. Now.reg - 1 :
                  /\ Is(info.heaps.slot[i], Layout[Now.prog][k])
                  /\ Layout[Now.prog][k].start < Layout[Now.prog][k].end

\* The heaps of a layout have names of their own, and none starts at NULL.
Named ==
    \A p \in Programs : \A k, m \in DOMAIN Layout[p] :
        /\ Layout[p][k].start # Layout[p][k].end => Layout[p][k].start # 0
        /\ Layout[p][k].name = Layout[p][m].name =>
              \/ Layout[p][k].start = Layout[p][k].end
              \/ Layout[p][m].start = Layout[p][m].end
              \/ k = m

\* Then the slots in use are the first ones, and hold all that is registered.
Registered ==
    ~Now.ran =>
        /\ info.heaps.num <= NumHeaps
        /\ \A i \in Slots : IsFree(info.heaps, i) <=> i >= info.heaps.num
        /\ \A k \in 1 .. Now.reg - 1 :
              Layout[Now.prog][k].start # Layout[Now.prog][k].end =>
                  \E i \in Slots : /\ i < info.heaps.num
                                   /\ Is(info.heaps.slot[i], Layout[Now.prog][k])

-----------------------------------------------------------------------------
(***************************************************************************)
(* Positioned says where the positions of the heaps are, and that the      *)
(* saved ones are not below those of any save still to be restored.        *)
(***************************************************************************)
\* No request is so long that it wraps around the address space: malloc does
\* not look for that.
NoWrap ==
    \A p \in Programs : \A k \in DOMAIN Layout[p] : \A q \in Requests :
        Layout[p][k].end + q.align + q.mis + q.len <= Word

Between(hp) ==
    /\ hp.start <= hp.save /\ hp.save <= hp.pos
    /\ hp.pos < hp.end \/ (hp.pos = 0 /\ hp.end = 0)

Positioned ==
    ~Now.ran /\ Now.pc \in {"setup", "ctors", "main"} =>
        /\ \A i \in Slots : Between(info.heaps.slot[i])
        /\ \A n \in 1 .. Len(Now.marks) : \A i \in Slots :
              LET hp == info.heaps.slot[i]
                  m  == Now.marks[n]
              IN  /\ i < info.heaps.num => m.pos[i] <= hp.save
                  /\ i >= info.heaps.num => m.pos[i] = hp.pos
                  /\ n < Len(Now.marks) => m.nested
                  /\ ~m.nested /\ i < info.heaps.num => m.pos[i] = hp.save

\* The heaps of a layout do not overlap.
Disjoint(a, b) == a.end <= b.start \/ b.end <= a.start \/ a.start = a.end \/ b.start = b.end

Distinct ==
    \A p \in Programs : \A k, m \in DOMAIN Layout[p] :
        k # m => Disjoint(Layout[p][k], Layout[p][m])

\* What a program holds is below the position, and what it held at a save is
\* below the saved position.
Holds(b) ==
    /\ b.heap < info.heaps.num
    /\ info.heaps.slot[b.heap].start <= b.at
    /\ b.at + b.len < info.heaps.slot[b.heap].end
    /\ Aligned(b)
    /\ b.level <= Len(Now.marks)
    /\ Now.pc = "main" =>
          /\ b.at + b.len <= info.heaps.slot[b.heap].pos
          /\ b.level < Len(Now.marks) => b.at + b.len <= info.heaps.slot[b.heap].save

Held ==
    ~Now.ran =>
        /\ \A i, j \in Slots : i # j => Disjoint(info.heaps.slot[i], info.heaps.slot[j])
        /\ \A b \in Now.blocks : Holds(b)
        /\ \A b, c \in Now.blocks : b # c => Apart(b, c)

-----------------------------------------------------------------------------
(***************************************************************************)
(* The calls on heaps.                                                     *)
(***************************************************************************)
LEMMA MinIsLeast ==
    ASSUME NEW S \in SUBSET Nat, S # {}
    PROVE  Min(S) \in S /\ \A n \in S : Min(S) <= n
  BY LeastNatural DEF Min

\* What register_heap does: nothing, a panic, or the first free slot is filled.
Filled(h, i, l) ==
    [num  |-> h.num + 1,
     slot |-> [h.slot EXCEPT ![i] =
         [name |-> l.name, start |-> l.start, end |-> l.end,
          pos |-> l.start, save |-> l.start]]]

LEMMA RegisterCases ==
    ASSUME NEW h, NEW l, l.start \in Address, l.end \in Address
    PROVE  LET r == Register(h, l.name, l.start, l.end)
           IN  \/ /\ r = Done(h, -1)
                  /\ l.start = l.end
               \/ /\ r = Panicked(h)
                  /\ l.end < l.start \/ \A i \in Slots : ~IsFree(h, i)
               \/ \E i \in Slots :
                     /\ r = Done(Filled(h, i, l), i)
                     /\ l.start < l.end
                     /\ IsFree(h, i)
                     /\ \A j \in Slots : j < i => ~IsFree(h, j)
<1> DEFINE free == {i \in Slots : IsFree(h, i)}
<1>1. CASE l.start = l.end \/ l.end < l.start \/ free = {}
  BY <1>1 DEF Register
<1>2. CASE l.start < l.end /\ free # {}
  <2>1. free \in SUBSET Nat
    BY HeapAssumption DEF Slots
  <2>2. PICK i \in free : i = Min(free) /\ \A n \in free : i <= n
    <3> HIDE DEF free
    <3> QED
      BY <1>2, <2>1, MinIsLeast
  <2>3. Register(h, l.name, l.start, l.end) = Done(Filled(h, i, l), i)
    BY <1>2, <2>2 DEF Register, Filled, Address
  <2>4. \A j \in Slots : j < i => ~IsFree(h, j)
    BY <2>2 DEF Slots
  <2> QED
    BY <1>2, <2>2, <2>3, <2>4
<1> QED
  BY <1>1, <1>2 DEF Address

LEMMA RegisterTypes ==
    ASSUME NEW h \in AllHeaps, NEW l,
           l.name \in Names, l.start \in Address, l.end \in Address
    PROVE  LET r == Register(h, l.name, l.start, l.end)
           IN  /\ r.heaps \in AllHeaps
               /\ r.panic \in BOOLEAN
               /\ r.heaps.num <= h.num + 1
               /\ r.panic => r.heaps = h
<1> PICK r : r = Register(h, l.name, l.start, l.end)
  OBVIOUS
<1>1. CASE r = Done(h, -1) \/ r = Panicked(h)
  <2>1. r.heaps = h
    BY <1>1 DEF Done, Panicked
  <2>2. r.panic \in BOOLEAN
    <3>1. CASE r = Done(h, -1)
      BY <3>1 DEF Done
    <3>2. CASE r = Panicked(h)
      BY <3>2 DEF Panicked
    <3> QED
      BY <1>1, <3>1, <3>2
  <2> QED
    BY <2>1, <2>2 DEF AllHeaps
<1>2. ASSUME NEW i \in Slots, r = Done(Filled(h, i, l), i)
      PROVE  /\ r.heaps \in AllHeaps
             /\ r.panic \in BOOLEAN
             /\ r.heaps.num <= h.num + 1
             /\ r.panic => r.heaps = h
  <2>1. Filled(h, i, l) \in AllHeaps /\ Filled(h, i, l).num = h.num + 1
    BY DEF Filled, AllHeaps, HeapRecord
  <2> QED
    BY <1>2, <2>1 DEF Done, AllHeaps
<1> QED
  BY <1>1, <1>2, RegisterCases

\* What malloc and update_heaps do not touch.
SameHeaps(h, g) ==
    /\ g.num = h.num
    /\ \A i \in Slots : /\ g.slot[i].name  = h.slot[i].name
                        /\ g.slot[i].start = h.slot[i].start
                        /\ g.slot[i].end   = h.slot[i].end

LEMMA Wraps ==
    ASSUME NEW a \in Nat
    PROVE  a % Word \in Address
  BY HeapAssumption DEF Address

LEMMA AlignUpIsUp ==
    ASSUME NEW a \in Nat, NEW align \in Nat
    PROVE  /\ AlignUp(a, align) \in Nat
           /\ a <= AlignUp(a, align) /\ AlignUp(a, align) <= a + align
           /\ align # 0 => AlignUp(a, align) % align = 0
<1>1. CASE align = 0
  BY <1>1 DEF AlignUp
<1>2. CASE align # 0
  <2>1. PICK q \in Nat, r \in 0 .. align - 1 : r = a % align /\ a = align * q + r
    BY <1>2, Division
  <2>2. CASE r = 0
    BY <1>2, <2>1, <2>2 DEF AlignUp
  <2>3. CASE r # 0
    <3>1. AlignUp(a, align) = align * (q + 1) + 0
      BY <1>2, <2>1, <2>3 DEF AlignUp
    <3>2. PICK p \in Nat : p = q + 1
      BY <2>1
    <3>3. (align * p + 0) % align = 0
      BY <1>2, ModUnique
    <3>4. align * p + 0 = a + (align - r)
      BY <2>1, <3>2
    <3> QED
      BY <1>2, <2>1, <2>3, <3>1, <3>2, <3>3, <3>4 DEF AlignUp
  <2> QED
    BY <2>2, <2>3
<1> QED
  BY <1>1, <1>2

LEMMA MallocTypes ==
    ASSUME NEW h \in AllHeaps, NEW i \in Slots,
           NEW len \in Nat, NEW align \in Nat, NEW mis \in Nat,
           NEW at, at = (AlignUp(h.slot[i].pos, align) + mis) % Word,
           NEW next, next = (at + len) % Word,
           NEW r, r = Malloc(h, i, len, align, mis)
    PROVE  /\ at \in Address /\ next \in Address
           /\ r.heaps = [h EXCEPT !.slot[i].pos = next]
           /\ r.heaps \in AllHeaps
           /\ SameHeaps(h, r.heaps)
           /\ r.panic \in BOOLEAN
           /\ r.panic <=> next >= h.slot[i].end
           /\ ~r.panic => r.ret = at
<1>1. PICK pos \in Nat, end \in Nat : pos = h.slot[i].pos /\ end = h.slot[i].end
  BY HeapAssumption DEF AllHeaps, HeapRecord, Address
<1>2. PICK up \in Nat : up = AlignUp(pos, align)
  BY <1>1, AlignUpIsUp
<1>3. at \in Address /\ at = (up + mis) % Word
  BY <1>1, <1>2, Wraps
<1>4. next \in Address
  BY <1>3, Wraps, HeapAssumption DEF Address
<1>5. PICK g : g = [h EXCEPT !.slot[i].pos = next]
  OBVIOUS
<1>6. g \in AllHeaps /\ SameHeaps(h, g)
  BY <1>4, <1>5 DEF AllHeaps, HeapRecord, SameHeaps
<1>7. Malloc(h, i, len, align, mis) = IF next >= end THEN Panicked(g) ELSE Done(g, at)
  BY <1>1, <1>2, <1>3, <1>4, <1>5 DEF Malloc
<1>8. r.heaps = g /\ r.panic \in BOOLEAN /\ (r.panic <=> next >= end) /\ (~r.panic => r.ret = at)
  <2>1. CASE next >= end
    <3>1. r = Panicked(g)
      BY <1>7, <2>1
    <3>2. r.heaps = g /\ r.panic = TRUE
      BY <3>1 DEF Panicked
    <3> QED
      BY <2>1, <3>2
  <2>2. CASE ~(next >= end)
    <3>1. r = Done(g, at)
      BY <1>7, <2>2
    <3>2. r.heaps = g /\ r.panic = FALSE /\ r.ret = at
      BY <3>1 DEF Done
    <3> QED
      BY <2>2, <3>2
  <2> QED
    BY <2>1, <2>2
<1> QED
  BY <1>1, <1>3, <1>4, <1>5, <1>6, <1>8

LEMMA UpdateTypes ==
    ASSUME NEW h \in AllHeaps, NEW save \in BOOLEAN
    PROVE  LET g == UpdateHeaps(h, save)
           IN  /\ g \in AllHeaps
               /\ SameHeaps(h, g)
               /\ \A i \in Slots :
                     LET hp == h.slot[i]
                         gp == g.slot[i]
                     IN  /\ i >= h.num => gp = hp
                         /\ (i < h.num /\ save) => (gp.pos = hp.pos /\ gp.save = hp.pos)
                         /\ (i < h.num /\ ~save) => (gp.pos = hp.save /\ gp.save = hp.save)
<1>1. PICK g : g = UpdateHeaps(h, save)
  OBVIOUS
<1>2. \A i \in Slots :
          g.slot[i] = IF i >= h.num THEN h.slot[i]
                      ELSE IF save THEN [h.slot[i] EXCEPT !.save = h.slot[i].pos]
                      ELSE [h.slot[i] EXCEPT !.pos = h.slot[i].save]
  BY <1>1 DEF UpdateHeaps, AllHeaps
<1>3. g = [num |-> h.num, slot |-> [i \in Slots |-> g.slot[i]]]
  BY <1>1 DEF UpdateHeaps, AllHeaps
<1>4. \A i \in Slots : h.slot[i] \in HeapRecord /\ g.slot[i] \in HeapRecord
  BY <1>2, ZenonT(30) DEF AllHeaps, HeapRecord
<1>5. g \in AllHeaps
  BY <1>3, <1>4 DEF AllHeaps
<1>6. ASSUME NEW i \in Slots
      PROVE  /\ g.slot[i].name = h.slot[i].name
             /\ g.slot[i].start = h.slot[i].start
             /\ g.slot[i].end = h.slot[i].end
             /\ i >= h.num => g.slot[i] = h.slot[i]
             /\ (i < h.num /\ save) => (g.slot[i].pos = h.slot[i].pos /\ g.slot[i].save = h.slot[i].pos)
             /\ (i < h.num /\ ~save) => (g.slot[i].pos = h.slot[i].save /\ g.slot[i].save = h.slot[i].save)
  <2>1. h.slot[i] \in HeapRecord /\ i \in Nat /\ h.num \in Nat
    BY HeapAssumption DEF AllHeaps, Slots
  <2>2. CASE i >= h.num
    <3>1. g.slot[i] = h.slot[i]
      BY <1>2, <2>2
    <3> QED
      BY <2>1, <2>2, <3>1
  <2>3. CASE ~(i >= h.num) /\ save
    <3>1. g.slot[i] = [h.slot[i] EXCEPT !.save = h.slot[i].pos]
      BY <1>2, <2>3
    <3> QED
      BY <2>1, <2>3, <3>1 DEF HeapRecord
  <2>4. CASE ~(i >= h.num) /\ ~save
    <3>1. g.slot[i] = [h.slot[i] EXCEPT !.pos = h.slot[i].save]
      BY <1>2, <2>4
    <3> QED
      BY <2>1, <2>4, <3>1 DEF HeapRecord
  <2> QED
    BY <2>2, <2>3, <2>4
<1>7. g.num = h.num
  BY <1>3
<1> QED
  BY <1>1, <1>5, <1>6, <1>7 DEF SameHeaps

LEMMA PositionsTypes ==
    ASSUME NEW h \in AllHeaps
    PROVE  Positions(h) \in [Slots -> Address]
  BY DEF Positions, AllHeaps, HeapRecord

LEMMA NoHeapsTypes ==
    /\ NoHeaps \in AllHeaps /\ NoHeaps.num = 0
    /\ \A i \in Slots : i \in Nat /\ NoHeaps.slot[i] = NoHeap
<1>1. NoHeaps = [num |-> 0, slot |-> [i \in Slots |-> NoHeap]]
  BY DEF NoHeaps
<1>2. NoHeap \in HeapRecord
  BY HeapAssumption DEF NoHeap, HeapRecord, Address, Names
<1> QED
  BY <1>1, <1>2 DEF AllHeaps, Slots

-----------------------------------------------------------------------------
(***************************************************************************)
(* Steps of the frame that runs.                                           *)
(***************************************************************************)
LEMMA NowIsTyped ==
    ASSUME Types
    PROVE  /\ Now \in Activation
           /\ Top \in Nat \ {0} /\ Top = Len(frames)
           /\ \A k \in 1 .. Top : frames[k] \in Activation
<1>1. frames \in Seq(Activation) /\ Len(frames) \in Nat \ {0}
  BY DEF Types, Top
<1>2. \A k \in 1 .. Len(frames) : frames[k] \in Activation
  BY <1>1, ElementOfSeq
<1> QED
  BY <1>1, <1>2 DEF Now, Top

LEMMA SetChanges ==
    ASSUME Types, NEW f \in Activation, Set(f)
    PROVE  /\ frames' \in Seq(Activation)
           /\ Top' = Top
           /\ Now' = f
           /\ \A k \in 1 .. Top : k < Top => frames'[k] = frames[k]
<1>1. Top \in Nat \ {0} /\ Top = Len(frames) /\ frames \in Seq(Activation)
  BY NowIsTyped DEF Types
<1>2. frames' = [frames EXCEPT ![Top] = f]
  BY DEF Set
<1>3. frames' \in Seq(Activation) /\ Len(frames') = Len(frames)
  BY <1>1, <1>2
<1>4. Top' = Top
  BY <1>3 DEF Top
<1>5. DOMAIN frames = 1 .. Top /\ Top \in 1 .. Top
  BY <1>1
<1>6. frames'[Top] = f /\ \A k \in 1 .. Top : k < Top => frames'[k] = frames[k]
  BY <1>1, <1>2, <1>5
<1>7. Now' = f
  BY <1>4, <1>6 DEF Now
<1> QED
  BY <1>3, <1>4, <1>6, <1>7

\* A step that changes only the frame that runs.
LEMMA ControlChanges ==
    ASSUME Control, NEW f \in Activation, Set(f),
           runs' = runs, last' \in [code : Int, ret : Int], CallerGetsStatus',
           info' \in [heaps : AllHeaps, tramp : 0 .. MaxRuns],
           Honest(f), f.id = Now.id, Runs(f)'
    PROVE  Control'
<1>1. /\ frames' \in Seq(Activation)
      /\ Top' = Top
      /\ Now' = f
      /\ \A k \in 1 .. Top : k < Top => frames'[k] = frames[k]
  BY SetChanges DEF Control
<1>2. Top \in Nat /\ Top \in 1 .. Top /\ frames[Top] = Now /\ frames'[Top] = f
  <2>1. Top \in Nat \ {0}
    BY NowIsTyped DEF Control
  <2> QED
    BY <1>1, <2>1 DEF Now
<1>3. Types'
  BY <1>1 DEF Control, Types
<1>4. \A k \in 1 .. Top' : (Honest(frames[k]) /\ frames[k].id <= runs)'
  <2> SUFFICES ASSUME NEW k \in 1 .. Top
               PROVE  Honest(frames'[k]) /\ frames'[k].id <= runs
    BY <1>1 DEF Honest
  <2>1. CASE k < Top
    BY <1>1, <2>1 DEF Control
  <2>2. CASE k = Top
    BY <1>2, <2>2 DEF Control
  <2> QED
    BY <1>2, <2>1, <2>2
<1>5. \A k \in 1 .. Top' : k < Top' => Caller(frames[k])'
  BY <1>1 DEF Control, Caller
<1>6. Runs(Now)'
  BY <1>1 DEF Runs
<1> QED
  BY <1>3, <1>4, <1>5, <1>6 DEF Control

\* One that also keeps what the last program returned.
LEMMA ControlGoesOn ==
    ASSUME Control, NEW f \in Activation, Set(f),
           runs' = runs, last' = last,
           info' \in [heaps : AllHeaps, tramp : 0 .. MaxRuns],
           Honest(f), f.id = Now.id, Runs(f)'
    PROVE  Control'
<1>1. CallerGetsStatus'
  BY DEF Control, CallerGetsStatus
<1>2. last' \in [code : Int, ret : Int]
  BY DEF Control, Types
<1> QED
  BY <1>1, <1>2, ControlChanges

LEMMA ControlAtFirst ==
    ASSUME Init
    PROVE  Control
<1>1. PICK f : f = Frame(Boot, 1)
  OBVIOUS
<1>2. /\ f \in Activation
      /\ f.pc = "setup" /\ f.id = 1 /\ f.reg = 1 /\ f.prog = Boot
      /\ ~f.ran /\ ~f.reached /\ f.blocks = {} /\ f.marks = << >>
  BY <1>1, ProgramAssumption DEF Frame, Activation, Phase
<1>3. frames = <<f>> /\ Len(frames) = 1 /\ frames[1] = f /\ Top = 1 /\ Now = f
  BY <1>1 DEF Init, Top, Now
<1>4. frames \in Seq(Activation)
  BY <1>2, <1>3
<1>5. Types
  BY <1>3, <1>4, NoHeapsTypes, ProgramAssumption DEF Init, Types, NoFrame
<1>6. Honest(f)
  BY <1>2, ProgramAssumption DEF Honest
<1>7. Runs(f)
  BY <1>2, ProgramAssumption DEF Runs, Init, NoHeaps
<1>8. CallerGetsStatus
  BY DEF Init, CallerGetsStatus
<1> QED
  BY <1>2, <1>3, <1>5, <1>6, <1>7, <1>8 DEF Control, Init

LEMMA ExitingIsTyped ==
    ASSUME NEW f \in Activation, NEW status \in Int
    PROVE  LET g == Exiting(f, status)
           IN  /\ g \in Activation
               /\ g.pc = "exiting" /\ g.val = status /\ g.code = status
               /\ g.prog = f.prog /\ g.id = f.id /\ g.reg = f.reg
               /\ g.reached = f.reached /\ g.ran = f.ran
               /\ g.blocks = f.blocks /\ g.marks = f.marks
<1>1. PICK g : g = Exiting(f, status)
  OBVIOUS
<1>2. g = [f EXCEPT !.pc = "exiting", !.val = status, !.code = status]
  BY <1>1 DEF Exiting
<1>3. g \in Activation
  BY <1>2 DEF Activation, Phase
<1>4. /\ g.pc = "exiting" /\ g.val = status /\ g.code = status
      /\ g.prog = f.prog /\ g.id = f.id /\ g.reg = f.reg
      /\ g.reached = f.reached /\ g.ran = f.ran
      /\ g.blocks = f.blocks /\ g.marks = f.marks
  BY <1>2 DEF Activation
<1> QED
  BY <1>1, <1>3, <1>4

\* What Control says of the frame that runs.
LEMMA NowIsHonest ==
    ASSUME Control
    PROVE  /\ Now \in Activation /\ Honest(Now) /\ Now.id <= runs /\ Runs(Now)
           /\ info \in [heaps : AllHeaps, tramp : 0 .. MaxRuns]
           /\ info.heaps \in AllHeaps
<1>1. Types /\ Runs(Now) /\ \A k \in 1 .. Top : Honest(frames[k]) /\ frames[k].id <= runs
  BY DEF Control
<1>2. Top \in Nat \ {0} /\ Now \in Activation
  BY <1>1, NowIsTyped
<1>3. Top \in 1 .. Top
  BY <1>2
<1>4. Honest(Now) /\ Now.id <= runs
  BY <1>1, <1>3 DEF Now
<1> QED
  BY <1>1, <1>2, <1>4 DEF Types

\* A panic or an exit keeps Control, whatever became of the heaps.
LEMMA ControlAtExit ==
    ASSUME Control, NEW status \in Int, Set(Exiting(Now, status)),
           runs' = runs, last' = last,
           info' \in [heaps : AllHeaps, tramp : 0 .. MaxRuns],
           info'.tramp = info.tramp, info'.heaps.num = info.heaps.num
    PROVE  Control'
<1>1. PICK f : f = Exiting(Now, status)
  OBVIOUS
<1>2. Now \in Activation /\ Honest(Now) /\ Runs(Now)
  BY NowIsHonest
<1>3. /\ f \in Activation
      /\ f.pc = "exiting" /\ f.val = status /\ f.code = status
      /\ f.prog = Now.prog /\ f.id = Now.id /\ f.reg = Now.reg
      /\ f.reached = Now.reached /\ f.ran = Now.ran
      /\ f.blocks = Now.blocks /\ f.marks = Now.marks
  BY <1>1, <1>2, ExitingIsTyped
<1>4. Honest(f)
  BY <1>2, <1>3 DEF Honest
<1>5. Runs(f)'
  BY <1>2, <1>3 DEF Runs
<1> QED
  BY <1>1, <1>3, <1>4, <1>5, ControlGoesOn

LEMMA SetupKeepsControl ==
    ASSUME Control, Setup
    PROVE  Control'
<1>1. /\ Now \in Activation /\ Honest(Now) /\ Runs(Now)
      /\ info \in [heaps : AllHeaps, tramp : 0 .. MaxRuns] /\ info.heaps \in AllHeaps
  BY NowIsHonest
<1>2. Now.pc = "setup" /\ Now.reg <= Len(Layout[Now.prog]) /\ runs' = runs /\ last' = last
  BY DEF Setup
<1>3. Now.prog \in Programs /\ Now.reg \in Nat \ {0}
  BY <1>1 DEF Activation
<1>4. Now.reg \in DOMAIN Layout[Now.prog]
  BY <1>2, <1>3, ProgramAssumption
<1>5. PICK l : l = Layout[Now.prog][Now.reg]
  OBVIOUS
<1>6. l.name \in Names /\ l.start \in Address /\ l.end \in Address
  BY <1>3, <1>4, <1>5, ProgramAssumption DEF Names
<1>7. PICK r : r = Register(info.heaps, l.name, l.start, l.end)
  OBVIOUS
<1>8. /\ r.heaps \in AllHeaps /\ r.panic \in BOOLEAN /\ r.heaps.num <= info.heaps.num + 1
      /\ r.panic => r.heaps = info.heaps
  BY <1>1, <1>6, <1>7, RegisterTypes
<1>9. /\ info' = [info EXCEPT !.heaps = r.heaps]
      /\ Set(IF r.panic THEN Exiting(Now, PanicCode) ELSE [Now EXCEPT !.reg = @ + 1])
  BY <1>5, <1>7 DEF Setup
<1>10. /\ info' \in [heaps : AllHeaps, tramp : 0 .. MaxRuns]
       /\ info'.tramp = info.tramp /\ info'.heaps = r.heaps
  BY <1>1, <1>8, <1>9
<1>11. CASE r.panic
  <2>1. Set(Exiting(Now, PanicCode)) /\ PanicCode \in Int
    BY <1>9, <1>11 DEF PanicCode
  <2> QED
    BY <1>2, <1>8, <1>10, <1>11, <2>1, ControlAtExit
<1>12. CASE ~r.panic
  <2>1. PICK f : f = [Now EXCEPT !.reg = @ + 1]
    OBVIOUS
  <2>2. Set(f)
    BY <1>9, <1>12, <2>1
  <2>3. f \in Activation
    BY <1>1, <2>1, SMTT(20) DEF Activation
  <2>4. /\ f.pc = Now.pc /\ f.prog = Now.prog /\ f.id = Now.id /\ f.reg = Now.reg + 1
        /\ f.reached = Now.reached /\ f.ran = Now.ran
        /\ f.blocks = Now.blocks /\ f.marks = Now.marks
    BY <1>1, <2>1 DEF Activation
  <2>5. Honest(f)
    BY <1>1, <1>2, <2>4 DEF Honest
  <2>6. info.heaps.num \in Nat /\ r.heaps.num \in Nat /\ Len(Layout[Now.prog]) \in Nat
    BY <1>1, <1>3, <1>8, ProgramAssumption DEF AllHeaps
  <2>7. Runs(f)'
    BY <1>1, <1>2, <1>3, <1>8, <1>10, <2>4, <2>6 DEF Runs
  <2> QED
    BY <1>2, <1>10, <2>2, <2>3, <2>4, <2>5, <2>7, ControlGoesOn
<1> QED
  BY <1>8, <1>11, <1>12

LEMMA ConstructorsKeepControl ==
    ASSUME Control, Constructors
    PROVE  Control'
<1>1. /\ Now \in Activation /\ Honest(Now) /\ Runs(Now)
      /\ info \in [heaps : AllHeaps, tramp : 0 .. MaxRuns]
  BY NowIsHonest
<1>2. Now.pc = "setup" /\ info' = info /\ runs' = runs /\ last' = last
  BY DEF Constructors
<1>3. CASE Set([Now EXCEPT !.pc = "ctors"])
  <2>1. PICK f : f = [Now EXCEPT !.pc = "ctors"]
    OBVIOUS
  <2>2. f \in Activation
    BY <1>1, <2>1 DEF Activation, Phase
  <2>3. /\ f.pc = "ctors" /\ f.prog = Now.prog /\ f.id = Now.id /\ f.reg = Now.reg
        /\ f.reached = Now.reached /\ f.ran = Now.ran
        /\ f.blocks = Now.blocks /\ f.marks = Now.marks
    BY <1>1, <2>1 DEF Activation
  <2>4. Honest(f)
    BY <1>1, <2>3 DEF Honest
  <2>5. Runs(f)'
    BY <1>1, <1>2, <2>3 DEF Runs
  <2> QED
    BY <1>1, <1>2, <1>3, <2>1, <2>2, <2>3, <2>4, <2>5, ControlGoesOn
<1>4. CASE Set(Exiting(Now, PanicCode))
  <2>1. PanicCode \in Int
    BY DEF PanicCode
  <2> QED
    BY <1>1, <1>2, <1>4, <2>1, ControlAtExit
<1> QED
  BY <1>3, <1>4 DEF Constructors

LEMMA CallMainKeepsControl ==
    ASSUME Control, CallMain
    PROVE  Control'
<1>1. /\ Now \in Activation /\ Honest(Now) /\ Runs(Now)
      /\ info \in [heaps : AllHeaps, tramp : 0 .. MaxRuns]
  BY NowIsHonest
<1>2. /\ Now.pc = "ctors" /\ runs' = runs /\ last' = last
      /\ info' = [info EXCEPT !.tramp = Now.id]
      /\ Set([Now EXCEPT !.pc = "main", !.reached = TRUE])
  BY DEF CallMain
<1>3. PICK f : f = [Now EXCEPT !.pc = "main", !.reached = TRUE]
  OBVIOUS
<1>4. f \in Activation
  BY <1>1, <1>3 DEF Activation, Phase
<1>5. /\ f.pc = "main" /\ f.prog = Now.prog /\ f.id = Now.id /\ f.reg = Now.reg
      /\ f.ran = Now.ran /\ f.blocks = Now.blocks /\ f.marks = Now.marks
  BY <1>1, <1>3 DEF Activation
<1>6. /\ info' \in [heaps : AllHeaps, tramp : 0 .. MaxRuns]
      /\ info'.tramp = f.id /\ info'.heaps = info.heaps
  <2>1. Now.id \in 0 .. MaxRuns
    BY <1>1, ProgramAssumption DEF Activation
  <2> QED
    BY <1>1, <1>2, <1>5, <2>1
<1>7. Honest(f)
  BY <1>1, <1>5 DEF Honest
<1>8. Runs(f)'
  BY <1>1, <1>2, <1>5, <1>6 DEF Runs
<1> QED
  BY <1>2, <1>3, <1>4, <1>5, <1>6, <1>7, <1>8, ControlGoesOn

\* A step of main() that stays in it.
LEMMA ControlInMain ==
    ASSUME Control, Now.pc = "main", NEW f \in Activation, Set(f),
           runs' = runs, last' = last,
           info' \in [heaps : AllHeaps, tramp : 0 .. MaxRuns],
           info'.tramp = info.tramp, info'.heaps.num = info.heaps.num,
           f.pc = "main", f.prog = Now.prog, f.id = Now.id, f.reg = Now.reg,
           f.reached = Now.reached, f.ran = Now.ran,
           Len(f.marks) <= MaxMarks
    PROVE  Control'
<1>1. Runs(Now)
  BY NowIsHonest
<1>2. Honest(f)
  BY DEF Honest
<1>3. Runs(f)'
  BY <1>1 DEF Runs
<1> QED
  BY <1>2, <1>3, ControlGoesOn

\* The block that an allocation returns.
Got(id, q, at, level) ==
    [heap |-> id, at |-> at, len |-> q.len, align |-> q.align, mis |-> q.mis, level |-> level]

\* The position moves over a block that starts at `at'.
Takes(id, q, at, next) ==
    /\ id < info.heaps.num
    /\ at = (AlignUp(info.heaps.slot[id].pos, q.align) + q.mis) % Word
    /\ next = (at + q.len) % Word
    /\ info'.heaps = [info.heaps EXCEPT !.slot[id].pos = next]

\* What Allocate does: a block, or a panic.
LEMMA AllocateCases ==
    ASSUME Control, Allocate
    PROVE  \E id \in Slots, q \in Requests, at \in Address, next \in Address :
              /\ Takes(id, q, at, next)
              /\ SameHeaps(info.heaps, info'.heaps)
              /\ info' \in [heaps : AllHeaps, tramp : 0 .. MaxRuns]
              /\ info'.tramp = info.tramp
              /\ runs' = runs /\ last' = last /\ Now.pc = "main"
              /\ \/ /\ next >= info.heaps.slot[id].end
                    /\ Set(Exiting(Now, PanicCode))
                 \/ /\ next < info.heaps.slot[id].end
                    /\ Set([Now EXCEPT !.blocks =
                               IF Now.ran THEN @
                               ELSE @ \cup {Got(id, q, at, Len(Now.marks))}])
<1>1. info \in [heaps : AllHeaps, tramp : 0 .. MaxRuns] /\ info.heaps \in AllHeaps
  BY NowIsHonest
<1>2. PICK id \in {i \in Slots : i < info.heaps.num}, q \in Requests :
          LET r == Malloc(info.heaps, id, q.len, q.align, q.mis)
          IN  /\ info' = [info EXCEPT !.heaps = r.heaps]
              /\ Set(IF r.panic THEN Exiting(Now, PanicCode)
                     ELSE [Now EXCEPT !.blocks = IF Now.ran THEN @ ELSE @ \cup
                              {[heap |-> id, at |-> r.ret, len |-> q.len, align |-> q.align,
                                mis |-> q.mis, level |-> Len(Now.marks)]}])
  BY DEF Allocate
<1>3. id \in Slots /\ id < info.heaps.num /\ q.len \in Nat /\ q.align \in Nat /\ q.mis \in Nat
  BY ProgramAssumption
<1>4. PICK r : r = Malloc(info.heaps, id, q.len, q.align, q.mis)
  OBVIOUS
<1>5. PICK at, next :
          /\ at = (AlignUp(info.heaps.slot[id].pos, q.align) + q.mis) % Word
          /\ next = (at + q.len) % Word
  OBVIOUS
<1>6. /\ at \in Address /\ next \in Address
      /\ r.heaps = [info.heaps EXCEPT !.slot[id].pos = next]
      /\ r.heaps \in AllHeaps
      /\ SameHeaps(info.heaps, r.heaps)
      /\ r.panic \in BOOLEAN
      /\ r.panic <=> next >= info.heaps.slot[id].end
      /\ ~r.panic => r.ret = at
  <2>1. PICK h \in AllHeaps, len \in Nat, align \in Nat, mis \in Nat :
            h = info.heaps /\ len = q.len /\ align = q.align /\ mis = q.mis
    BY <1>1, <1>3
  <2>2. r = Malloc(h, id, len, align, mis)
    BY <1>4, <2>1
  <2>3. /\ at = (AlignUp(h.slot[id].pos, align) + mis) % Word
        /\ next = (at + len) % Word
    BY <1>5, <2>1
  <2>4. /\ at \in Address /\ next \in Address
        /\ r.heaps = [h EXCEPT !.slot[id].pos = next]
        /\ r.heaps \in AllHeaps
        /\ SameHeaps(h, r.heaps)
        /\ r.panic \in BOOLEAN
        /\ r.panic <=> next >= h.slot[id].end
        /\ ~r.panic => r.ret = at
    BY <1>3, <2>2, <2>3, MallocTypes
  <2> QED
    BY <2>1, <2>4
<1>7. /\ info' = [info EXCEPT !.heaps = r.heaps]
      /\ r.panic => Set(Exiting(Now, PanicCode))
      /\ ~r.panic => Set([Now EXCEPT !.blocks =
                               IF Now.ran THEN @
                               ELSE @ \cup {Got(id, q, at, Len(Now.marks))}])
  BY <1>2, <1>4, <1>6 DEF Got
<1>8. /\ info' \in [heaps : AllHeaps, tramp : 0 .. MaxRuns]
      /\ info'.tramp = info.tramp /\ info'.heaps = r.heaps
  BY <1>1, <1>6, <1>7
<1>9. runs' = runs /\ last' = last /\ Now.pc = "main"
  BY DEF Allocate
<1>10. next < info.heaps.slot[id].end \/ next >= info.heaps.slot[id].end
  BY <1>1, <1>3, <1>6, HeapAssumption DEF AllHeaps, HeapRecord, Address
<1> QED
  <2>1. Takes(id, q, at, next)
    BY <1>3, <1>5, <1>6, <1>8 DEF Takes
  <2> QED
    BY <1>3, <1>5, <1>6, <1>7, <1>8, <1>9, <1>10, <2>1

LEMMA AllocateKeepsControl ==
    ASSUME Control, Allocate
    PROVE  Control'
<1>1. /\ Now \in Activation /\ Honest(Now) /\ Runs(Now)
      /\ info \in [heaps : AllHeaps, tramp : 0 .. MaxRuns]
  BY NowIsHonest
<1>2. PICK id \in Slots, q \in Requests, at \in Address, next \in Address :
              /\ SameHeaps(info.heaps, info'.heaps)
              /\ info' \in [heaps : AllHeaps, tramp : 0 .. MaxRuns]
              /\ info'.tramp = info.tramp
              /\ runs' = runs /\ last' = last /\ Now.pc = "main"
              /\ \/ Set(Exiting(Now, PanicCode))
                 \/ Set([Now EXCEPT !.blocks =
                               IF Now.ran THEN @
                               ELSE @ \cup {Got(id, q, at, Len(Now.marks))}])
  BY AllocateCases
<1>3. info'.heaps.num = info.heaps.num
  BY <1>2 DEF SameHeaps
<1>4. CASE Set(Exiting(Now, PanicCode))
  <2>1. PanicCode \in Int
    BY DEF PanicCode
  <2> QED
    BY <1>2, <1>3, <1>4, <2>1, ControlAtExit
<1>5. ASSUME Set([Now EXCEPT !.blocks =
                     IF Now.ran THEN @ ELSE @ \cup {Got(id, q, at, Len(Now.marks))}])
      PROVE  Control'
  <2>1. PICK b : b = Got(id, q, at, Len(Now.marks))
    OBVIOUS
  <2>2. b \in Block
    <3>1. at \in Nat /\ Len(Now.marks) \in Nat
      BY <1>1, HeapAssumption DEF Address, Activation
    <3> QED
      BY <2>1, <3>1, ProgramAssumption DEF Got, Block
  <2>3. PICK bs \in SUBSET Block : bs = IF Now.ran THEN Now.blocks ELSE Now.blocks \cup {b}
    BY <1>1, <2>2 DEF Activation
  <2>4. PICK f : f = [Now EXCEPT !.blocks = bs]
    OBVIOUS
  <2>5. f \in Activation
    BY <1>1, <2>4 DEF Activation
  <2>6. /\ f.pc = Now.pc /\ f.prog = Now.prog /\ f.id = Now.id /\ f.reg = Now.reg
        /\ f.reached = Now.reached /\ f.ran = Now.ran /\ f.marks = Now.marks
    BY <1>1, <2>4 DEF Activation
  <2>7. Set(f)
    BY <1>5, <2>1, <2>3, <2>4
  <2>8. Len(f.marks) <= MaxMarks
    BY <1>1, <2>6 DEF Honest
  <2> QED
    BY <1>2, <1>3, <2>5, <2>6, <2>7, <2>8, ControlInMain
<1> QED
  BY <1>2, <1>4, <1>5

LEMMA SkipTestKeepsControl ==
    ASSUME Control, SkipTest
    PROVE  Control'
<1>1. /\ Now \in Activation /\ Honest(Now) /\ Runs(Now)
      /\ info \in [heaps : AllHeaps, tramp : 0 .. MaxRuns]
  BY NowIsHonest
<1>2. Now.pc = "main" /\ info' = info /\ runs' = runs /\ last' = last
  BY DEF SkipTest
<1>3. PICK t \in Nat : t = Now.total + 1
  BY <1>1 DEF Activation
<1>4. PICK f : f = [Now EXCEPT !.total = t]
  OBVIOUS
<1>5. f \in Activation
  BY <1>1, <1>4 DEF Activation
<1>6. /\ f.pc = Now.pc /\ f.prog = Now.prog /\ f.id = Now.id /\ f.reg = Now.reg
      /\ f.reached = Now.reached /\ f.ran = Now.ran /\ f.marks = Now.marks
  BY <1>1, <1>4 DEF Activation
<1>7. Len(f.marks) <= MaxMarks
  BY <1>1, <1>6 DEF Honest
<1>8. Set(f)
  BY <1>3, <1>4 DEF SkipTest
<1> QED
  BY <1>1, <1>2, <1>5, <1>6, <1>7, <1>8, ControlInMain

LEMMA ExitKeepsControl ==
    ASSUME Control, Exit
    PROVE  Control'
<1>1. PICK s \in Statuses : Set(Exiting(Now, s))
  BY DEF Exit
<1>2. info \in [heaps : AllHeaps, tramp : 0 .. MaxRuns] /\ s \in Int
  BY NowIsHonest, ProgramAssumption
<1>3. info' = info /\ runs' = runs /\ last' = last
  BY DEF Exit
<1> QED
  BY <1>1, <1>2, <1>3, ControlAtExit

LEMMA LongJumpKeepsControl ==
    ASSUME Control, LongJump
    PROVE  Control'
<1>1. /\ Now \in Activation /\ Honest(Now) /\ Runs(Now)
      /\ info \in [heaps : AllHeaps, tramp : 0 .. MaxRuns]
  BY NowIsHonest
<1>2. Now.pc = "exiting" /\ info' = info /\ runs' = runs /\ last' = last
  BY DEF LongJump
<1>3. PICK v \in Int : v = JumpValue(Mangled(Now.val)) /\ v = JumpValue(256 + Now.code)
  BY <1>1, <1>2 DEF Honest, Mangled, JumpValue, Activation
<1>4. PICK f : f = IF info.tramp = Now.id THEN [Now EXCEPT !.pc = "landed", !.val = v]
                   ELSE [Now EXCEPT !.pc = "astray"]
  OBVIOUS
<1>5. Set(f)
  BY <1>3, <1>4 DEF LongJump
<1>6. f \in Activation
  BY <1>1, <1>4 DEF Activation, Phase
<1>7. /\ f.prog = Now.prog /\ f.id = Now.id /\ f.reg = Now.reg /\ f.code = Now.code
      /\ f.reached = Now.reached /\ f.ran = Now.ran /\ f.marks = Now.marks
      /\ info.tramp = Now.id => f.pc = "landed" /\ f.val = v
      /\ info.tramp # Now.id => f.pc = "astray"
  BY <1>1, <1>4 DEF Activation
<1>8. Honest(f)
  BY <1>1, <1>3, <1>7 DEF Honest
<1>9. Runs(f)'
  BY <1>1, <1>2, <1>7 DEF Runs
<1> QED
  BY <1>1, <1>2, <1>5, <1>6, <1>7, <1>8, <1>9, ControlGoesOn

-----------------------------------------------------------------------------
(***************************************************************************)
(* Saves and restores of the heaps.                                        *)
(***************************************************************************)
Kind == {"user", "test"}

Outer(ms) == [k \in DOMAIN ms |-> [ms[k] EXCEPT !.nested = TRUE]]

LEMMA MarksGrow ==
    ASSUME NEW ms \in Seq(Saved), NEW m \in Saved
    PROVE  LET ns == Append(Outer(ms), m)
           IN  /\ ns \in Seq(Saved)
               /\ Len(ns) = Len(ms) + 1
               /\ \A k \in 1 .. Len(ms) : ns[k].pos = ms[k].pos /\ ns[k].nested = TRUE
               /\ ns[Len(ms) + 1] = m
<1>1. PICK os : os = Outer(ms)
  OBVIOUS
<1>2. DOMAIN ms = 1 .. Len(ms) /\ Len(ms) \in Nat
  OBVIOUS
<1>3. \A k \in 1 .. Len(ms) : ms[k] \in Saved
  BY ElementOfSeq
<1>4. os = [k \in 1 .. Len(ms) |-> [ms[k] EXCEPT !.nested = TRUE]]
  BY <1>1, <1>2 DEF Outer
<1>5. ASSUME NEW k \in 1 .. Len(ms)
      PROVE  os[k] \in Saved /\ os[k].pos = ms[k].pos /\ os[k].nested = TRUE
  <2>1. PICK o \in Saved : o = ms[k]
    BY <1>3
  <2>2. os[k] = [o EXCEPT !.nested = TRUE]
    BY <1>4, <2>1
  <2> QED
    BY <2>1, <2>2 DEF Saved
<1>6. os \in Seq(Saved) /\ Len(os) = Len(ms)
  <2>1. \A k \in 1 .. Len(ms) : os[k] \in Saved
    BY <1>5
  <2>2. DOMAIN os = 1 .. Len(ms) /\ os = [k \in 1 .. Len(ms) |-> os[k]]
    BY <1>4
  <2>3. os \in [1 .. Len(ms) -> Saved]
    BY <2>1, <2>2
  <2> QED
    BY <1>2, <2>2, <2>3
<1>7. PICK ns : ns = Append(os, m)
  OBVIOUS
<1>8. /\ ns \in Seq(Saved) /\ Len(ns) = Len(ms) + 1 /\ ns[Len(ms) + 1] = m
      /\ \A k \in 1 .. Len(ms) : ns[k] = os[k]
  BY <1>6, <1>7
<1> QED
  BY <1>1, <1>5, <1>7, <1>8

\* What SaveHeaps and BeginTest do.
LEMMA SaveCases ==
    ASSUME Control, SaveHeaps \/ BeginTest
    PROVE  \E kind \in Kind, f \in Activation, ms \in Seq(Saved), m \in Saved :
              /\ f = [Now EXCEPT !.marks = ms]
              /\ Set(f)
              /\ m.pos = Positions(info.heaps) /\ m.nested = FALSE
              /\ Len(ms) = Len(Now.marks) + 1 /\ Len(Now.marks) < MaxMarks
              /\ \A k \in 1 .. Len(Now.marks) :
                    ms[k].pos = Now.marks[k].pos /\ ms[k].nested = TRUE
              /\ ms[Len(Now.marks) + 1] = m
              /\ info' = [info EXCEPT !.heaps = UpdateHeaps(info.heaps, TRUE)]
              /\ runs' = runs /\ last' = last /\ Now.pc = "main"
<1>1. Now \in Activation /\ info.heaps \in AllHeaps
  BY NowIsHonest
<1>2. PICK kind \in Kind : Save(kind)
  BY DEF SaveHeaps, BeginTest, Kind
<1>3. PICK m : m = Mark(kind)
  OBVIOUS
<1>4. PICK ps \in [Slots -> Address] : ps = Positions(info.heaps)
  BY <1>1, PositionsTypes
<1>5. m = [kind |-> kind, pos |-> ps, nested |-> FALSE]
  BY <1>3, <1>4 DEF Mark
<1>6. m \in Saved /\ m.pos = Positions(info.heaps) /\ m.nested = FALSE
  BY <1>4, <1>5 DEF Saved, Kind
<1>7. PICK old \in Seq(Saved) : old = Now.marks
  BY <1>1 DEF Activation
<1>8. PICK ms : ms = Append(Outer(old), m)
  OBVIOUS
<1>9. /\ ms \in Seq(Saved) /\ Len(ms) = Len(old) + 1 /\ ms[Len(old) + 1] = m
      /\ \A k \in 1 .. Len(old) : ms[k].pos = old[k].pos /\ ms[k].nested = TRUE
  BY <1>6, <1>8, MarksGrow, ZenonT(30)
<1>10. PICK f : f = [Now EXCEPT !.marks = ms]
  OBVIOUS
<1>11. f \in Activation
  BY <1>1, <1>9, <1>10 DEF Activation
<1>12. Set(f)
  <2>1. Set([Now EXCEPT !.marks = Append(Outer(Now.marks), Mark(kind))])
    BY <1>2 DEF Save, Outer
  <2> QED
    BY <1>3, <1>7, <1>8, <1>10, <2>1
<1>13. /\ info' = [info EXCEPT !.heaps = UpdateHeaps(info.heaps, TRUE)]
       /\ runs' = runs /\ last' = last /\ Now.pc = "main" /\ Len(Now.marks) < MaxMarks
  BY <1>2 DEF Save
<1> QED
  BY <1>6, <1>7, <1>9, <1>10, <1>11, <1>12, <1>13

LEMMA SaveKeepsControl ==
    ASSUME Control, SaveHeaps \/ BeginTest
    PROVE  Control'
<1>1. /\ Now \in Activation /\ Honest(Now) /\ Runs(Now)
      /\ info \in [heaps : AllHeaps, tramp : 0 .. MaxRuns] /\ info.heaps \in AllHeaps
  BY NowIsHonest
<1>2. PICK f \in Activation, ms \in Seq(Saved) :
              /\ f = [Now EXCEPT !.marks = ms]
              /\ Set(f)
              /\ Len(ms) = Len(Now.marks) + 1 /\ Len(Now.marks) < MaxMarks
              /\ info' = [info EXCEPT !.heaps = UpdateHeaps(info.heaps, TRUE)]
              /\ runs' = runs /\ last' = last /\ Now.pc = "main"
  BY SaveCases
<1>3. PICK g : g = UpdateHeaps(info.heaps, TRUE)
  OBVIOUS
<1>4. g \in AllHeaps /\ g.num = info.heaps.num
  BY <1>1, <1>3, UpdateTypes DEF SameHeaps
<1>5. /\ info' \in [heaps : AllHeaps, tramp : 0 .. MaxRuns]
      /\ info'.tramp = info.tramp /\ info'.heaps = g
  BY <1>1, <1>2, <1>3, <1>4
<1>6. /\ f.pc = Now.pc /\ f.prog = Now.prog /\ f.id = Now.id /\ f.reg = Now.reg
      /\ f.reached = Now.reached /\ f.ran = Now.ran /\ f.marks = ms
  BY <1>1, <1>2 DEF Activation
<1>7. Len(Now.marks) \in Nat
  BY <1>1 DEF Activation
<1>8. Len(f.marks) <= MaxMarks
  BY <1>1, <1>2, <1>6, <1>7, ProgramAssumption DEF Honest
<1> QED
  BY <1>2, <1>4, <1>5, <1>6, <1>8, ControlInMain

\* What RestoreHeaps and EndTest do.
LEMMA RestoreCases ==
    ASSUME Control, RestoreHeaps \/ EndTest
    PROVE  \E f \in Activation, ms \in Seq(Saved) :
              /\ Set(f)
              /\ f.marks = ms
              /\ f.blocks = {b \in Now.blocks : b.level < Len(Now.marks)}
              /\ Len(Now.marks) > 0 /\ Len(ms) = Len(Now.marks) - 1
              /\ \A k \in 1 .. Len(ms) : ms[k] = Now.marks[k]
              /\ f.pc = Now.pc /\ f.prog = Now.prog /\ f.id = Now.id /\ f.reg = Now.reg
              /\ f.reached = Now.reached /\ f.ran = Now.ran
              /\ info' = [info EXCEPT !.heaps = UpdateHeaps(info.heaps, FALSE)]
              /\ runs' = runs /\ last' = last /\ Now.pc = "main"
<1>1. Now \in Activation
  BY NowIsHonest
<1>2. PICK old \in Seq(Saved) : old = Now.marks
  BY <1>1 DEF Activation
<1>3. /\ old # << >> /\ info' = [info EXCEPT !.heaps = UpdateHeaps(info.heaps, FALSE)]
      /\ runs' = runs /\ last' = last /\ Now.pc = "main"
  BY <1>2 DEF RestoreHeaps, EndTest, Restoring
<1>4. Len(old) \in Nat \ {0}
  BY <1>2, <1>3, EmptySeq
<1>5. PICK ms : ms = SubSeq(old, 1, Len(old) - 1)
  OBVIOUS
<1>6. ms \in Seq(Saved) /\ Len(ms) = Len(old) - 1 /\ \A k \in 1 .. Len(ms) : ms[k] = old[k]
  BY <1>2, <1>4, <1>5
<1>7. PICK bs \in SUBSET Block : bs = {b \in Now.blocks : b.level < Len(Now.marks)}
  BY <1>1 DEF Activation
<1>8. PICK d : d = [Now EXCEPT !.marks = ms, !.blocks = bs]
  OBVIOUS
<1>9. d = Dropped(Now)
  BY <1>2, <1>5, <1>7, <1>8 DEF Dropped
<1>10. d \in Activation
  BY <1>1, <1>6, <1>7, <1>8 DEF Activation
<1>11. /\ d.pc = Now.pc /\ d.prog = Now.prog /\ d.id = Now.id /\ d.reg = Now.reg
       /\ d.reached = Now.reached /\ d.ran = Now.ran /\ d.marks = ms /\ d.blocks = bs
  BY <1>1, <1>8 DEF Activation
<1>12. CASE RestoreHeaps
  <2>1. Set(d)
    BY <1>9, <1>12 DEF RestoreHeaps, Restoring
  <2> QED
    BY <1>2, <1>3, <1>4, <1>6, <1>7, <1>10, <1>11, <2>1
<1>13. CASE EndTest
  <2>1. PICK t \in Nat : t = d.total + 1
    BY <1>10 DEF Activation
  <2>2. PICK f : f = [d EXCEPT !.total = t]
    OBVIOUS
  <2>3. f \in Activation
    BY <1>10, <2>2 DEF Activation
  <2>4. /\ f.pc = Now.pc /\ f.prog = Now.prog /\ f.id = Now.id /\ f.reg = Now.reg
        /\ f.reached = Now.reached /\ f.ran = Now.ran /\ f.marks = ms /\ f.blocks = bs
    BY <1>10, <1>11, <2>2 DEF Activation
  <2>5. Set(f)
    BY <1>9, <1>13, <2>1, <2>2 DEF EndTest, Restoring
  <2> QED
    BY <1>2, <1>3, <1>4, <1>6, <1>7, <2>3, <2>4, <2>5
<1> QED
  BY <1>12, <1>13

LEMMA RestoreKeepsControl ==
    ASSUME Control, RestoreHeaps \/ EndTest
    PROVE  Control'
<1>1. /\ Now \in Activation /\ Honest(Now) /\ Runs(Now)
      /\ info \in [heaps : AllHeaps, tramp : 0 .. MaxRuns] /\ info.heaps \in AllHeaps
  BY NowIsHonest
<1>2. PICK f \in Activation, ms \in Seq(Saved) :
              /\ Set(f)
              /\ f.marks = ms
              /\ Len(Now.marks) > 0 /\ Len(ms) = Len(Now.marks) - 1
              /\ f.pc = Now.pc /\ f.prog = Now.prog /\ f.id = Now.id /\ f.reg = Now.reg
              /\ f.reached = Now.reached /\ f.ran = Now.ran
              /\ info' = [info EXCEPT !.heaps = UpdateHeaps(info.heaps, FALSE)]
              /\ runs' = runs /\ last' = last /\ Now.pc = "main"
  BY RestoreCases
<1>3. PICK g : g = UpdateHeaps(info.heaps, FALSE)
  OBVIOUS
<1>4. g \in AllHeaps /\ g.num = info.heaps.num
  BY <1>1, <1>3, UpdateTypes DEF SameHeaps
<1>5. /\ info' \in [heaps : AllHeaps, tramp : 0 .. MaxRuns]
      /\ info'.tramp = info.tramp /\ info'.heaps = g
  BY <1>1, <1>2, <1>3, <1>4
<1>6. Len(Now.marks) \in Nat /\ MaxMarks \in Nat
  BY ProgramAssumption, <1>1 DEF Activation
<1>7. Len(f.marks) <= MaxMarks
  BY <1>1, <1>2, <1>6 DEF Honest
<1> QED
  BY <1>2, <1>4, <1>5, <1>7, ControlInMain

-----------------------------------------------------------------------------
(***************************************************************************)
(* Calls and returns.                                                      *)
(***************************************************************************)
LEMMA ForgottenIsTyped ==
    ASSUME NEW f \in Activation, Honest(f), f.pc = "main"
    PROVE  LET g == Forgotten(f)
           IN  g \in Activation /\ g.id = f.id /\ Honest(g) /\ Caller(g)
<1>1. PICK ps \in [Slots -> Address] : ps = Positions(NoHeaps)
  BY NoHeapsTypes, PositionsTypes
<1>2. PICK old \in Seq(Saved) : old = f.marks
  BY DEF Activation
<1>3. DOMAIN old = 1 .. Len(old) /\ Len(old) \in Nat /\ \A k \in 1 .. Len(old) : old[k] \in Saved
  BY ElementOfSeq
<1>4. PICK ms : ms = [k \in 1 .. Len(old) |-> [old[k] EXCEPT !.pos = ps]]
  OBVIOUS
<1>5. \A k \in 1 .. Len(old) : ms[k] \in Saved
  BY <1>1, <1>3, <1>4 DEF Saved
<1>6. ms \in Seq(Saved) /\ Len(ms) = Len(old)
  <2>1. ms \in [1 .. Len(old) -> Saved] /\ DOMAIN ms = 1 .. Len(old)
    BY <1>4, <1>5
  <2> QED
    BY <1>3, <2>1
<1>7. PICK g : g = [f EXCEPT !.ran = TRUE, !.blocks = {}, !.marks = ms]
  OBVIOUS
<1>8. g = Forgotten(f)
  BY <1>1, <1>2, <1>3, <1>4, <1>7 DEF Forgotten
<1>9. g \in Activation
  BY <1>6, <1>7 DEF Activation
<1>10. /\ g.id = f.id /\ g.pc = f.pc /\ g.ran = TRUE /\ g.marks = ms
  BY <1>7 DEF Activation
<1>11. Honest(g) /\ Caller(g)
  BY <1>2, <1>6, <1>10 DEF Honest, Caller
<1> QED
  BY <1>8, <1>9, <1>10, <1>11

LEMMA NewFrame ==
    ASSUME NEW p \in Programs, NEW k \in 1 .. MaxRuns
    PROVE  LET f == Frame(p, k)
           IN  /\ f \in Activation /\ Honest(f)
               /\ f.pc = "setup" /\ f.id = k /\ f.reg = 1 /\ f.prog = p
               /\ ~f.ran /\ ~f.reached /\ f.blocks = {} /\ f.marks = << >>
<1>1. PICK f : f = Frame(p, k)
  OBVIOUS
<1>2. /\ f \in Activation
      /\ f.pc = "setup" /\ f.id = k /\ f.reg = 1 /\ f.prog = p
      /\ ~f.ran /\ ~f.reached /\ f.blocks = {} /\ f.marks = << >>
  BY <1>1, ProgramAssumption DEF Frame, Activation, Phase
<1>3. Honest(f)
  BY <1>2, ProgramAssumption DEF Honest
<1> QED
  BY <1>1, <1>2, <1>3

LEMMA CallKeepsControl ==
    ASSUME Control, Call
    PROVE  /\ Control'
           /\ Now'.pc = "setup" /\ Now'.reg = 1
           /\ ~Now'.ran /\ Now'.blocks = {} /\ Now'.marks = << >>
           /\ info'.heaps = NoHeaps
           /\ Len(frames') # Len(frames)
<1>1. /\ Now \in Activation /\ Honest(Now) /\ Now.id <= runs
      /\ info \in [heaps : AllHeaps, tramp : 0 .. MaxRuns]
  BY NowIsHonest
<1>2. PICK p \in Programs :
          /\ Start(p)
          /\ frames' = Append([frames EXCEPT ![Top] = Forgotten(Now)], Frame(p, runs + 1))
  BY DEF Call
<1>3. Now.pc = "main" /\ runs < MaxRuns /\ last' = last
  BY DEF Call
<1>4. runs \in Nat \ {0} /\ runs' = runs + 1 /\ runs + 1 \in 1 .. MaxRuns
  BY <1>2, <1>3, ProgramAssumption DEF Start, Control, Types
<1>5. info' = [heaps |-> NoHeaps, tramp |-> NoFrame]
  BY <1>2 DEF Start
<1>6. PICK g : g = Forgotten(Now)
  OBVIOUS
<1>7. g \in Activation /\ g.id = Now.id /\ Honest(g) /\ Caller(g)
  BY <1>1, <1>3, <1>6, ForgottenIsTyped
<1>8. PICK f : f = Frame(p, runs + 1)
  OBVIOUS
<1>9. /\ f \in Activation /\ Honest(f)
      /\ f.pc = "setup" /\ f.id = runs + 1 /\ f.reg = 1 /\ f.prog = p
      /\ ~f.ran /\ ~f.reached /\ f.blocks = {} /\ f.marks = << >>
  BY <1>4, <1>8, NewFrame
<1>10. PICK n \in Nat \ {0} : n = Top /\ n = Len(frames)
  BY NowIsTyped DEF Control
<1>11. PICK old : old = [frames EXCEPT ![n] = g]
  OBVIOUS
<1>12. /\ old \in Seq(Activation) /\ Len(old) = n /\ old[n] = g
       /\ \A k \in 1 .. n : k < n => old[k] = frames[k]
  <2>1. frames \in Seq(Activation)
    BY DEF Control, Types
  <2> QED
    BY <1>7, <1>10, <1>11, <2>1
<1>13. frames' = Append(old, f)
  BY <1>2, <1>6, <1>8, <1>10, <1>11
<1>14. /\ frames' \in Seq(Activation) /\ Len(frames') = n + 1
       /\ frames'[n + 1] = f
       /\ \A k \in 1 .. n : frames'[k] = old[k]
  BY <1>9, <1>12, <1>13
<1>15. Top' = n + 1 /\ Now' = f
  BY <1>14 DEF Top, Now
<1>16. n <= runs
  BY <1>10 DEF Control, Types
<1>17. Types'
  <2>1. info' \in [heaps : AllHeaps, tramp : 0 .. MaxRuns]
    BY <1>5, NoHeapsTypes, ProgramAssumption DEF NoFrame
  <2> QED
    BY <1>3, <1>4, <1>14, <1>15, <1>16, <2>1 DEF Control, Types
<1>18. ASSUME NEW k \in 1 .. n + 1
       PROVE  /\ Honest(frames'[k]) /\ frames'[k].id <= runs'
              /\ k < n + 1 => Caller(frames'[k])
  <2>1. CASE k < n
    <3>1. frames'[k] = frames[k] /\ k \in 1 .. Top /\ k < Top
      BY <1>10, <1>12, <1>14, <2>1
    <3>2. Honest(frames[k]) /\ frames[k].id <= runs /\ Caller(frames[k])
      BY <3>1 DEF Control
    <3>3. frames[k] \in Activation
      BY <3>1, NowIsTyped DEF Control
    <3> QED
      BY <1>4, <3>1, <3>2, <3>3 DEF Activation
  <2>2. CASE k = n
    <3>1. frames'[k] = g
      BY <1>12, <1>14, <2>2
    <3> QED
      BY <1>1, <1>4, <1>7, <3>1, SMTT(20) DEF Activation
  <2>3. CASE k = n + 1
    BY <1>4, <1>9, <1>14, <2>3
  <2> QED
    BY <2>1, <2>2, <2>3
<1>19. Runs(Now)'
  BY <1>5, <1>9, <1>15, ProgramAssumption DEF Runs, NoHeaps
<1>20. CallerGetsStatus'
  BY <1>3 DEF Control, CallerGetsStatus
<1>21. Control'
  <2>1. \A k \in 1 .. Top' : (Honest(frames[k]) /\ frames[k].id <= runs)'
    BY <1>15, <1>18 DEF Honest
  <2>2. \A k \in 1 .. Top' : k < Top' => Caller(frames[k])'
    BY <1>15, <1>18 DEF Caller
  <2> QED
    BY <1>17, <1>19, <1>20, <2>1, <2>2 DEF Control
<1> QED
  BY <1>5, <1>9, <1>10, <1>14, <1>15, <1>21

LEMMA ReturnKeepsControl ==
    ASSUME Control, Return
    PROVE  /\ Control'
           /\ info' = info
           /\ \/ Now'.ran /\ Len(frames') # Len(frames)
              \/ Now' = [Now EXCEPT !.pc = "halted"]
<1>1. /\ Now \in Activation /\ Honest(Now) /\ Runs(Now)
      /\ info \in [heaps : AllHeaps, tramp : 0 .. MaxRuns]
  BY NowIsHonest
<1>2. /\ Now.pc = "landed" /\ info' = info /\ runs' = runs
      /\ last' = [code |-> Now.code, ret |-> Now.val - 256]
  BY DEF Return
<1>3. PICK c \in Int, v \in Int : c = Now.code /\ v = Now.val /\ v = JumpValue(256 + c)
  BY <1>1, <1>2 DEF Honest, Activation
<1>4. last'.code = c /\ last'.ret = v - 256 /\ last' \in [code : Int, ret : Int]
  BY <1>2, <1>3
<1>5. CallerGetsStatus'
  BY <1>3, <1>4 DEF CallerGetsStatus, JumpValue
<1>6. PICK n \in Nat \ {0} : n = Top /\ n = Len(frames)
  BY NowIsTyped DEF Control
<1>7. CASE n > 1
  <2>1. frames' = SubSeq(frames, 1, n - 1)
    BY <1>6, <1>7 DEF Return
  <2>2. frames' \in Seq(Activation) /\ Len(frames') = n - 1
        /\ \A k \in 1 .. n - 1 : frames'[k] = frames[k]
    BY <1>6, <1>7, <2>1 DEF Control, Types
  <2>3. Top' = n - 1 /\ Now' = frames[n - 1]
    BY <1>7, <2>2 DEF Top, Now
  <2>4. Caller(frames[n - 1])
    BY <1>6, <1>7 DEF Control
  <2>5. Types'
    BY <1>1, <1>2, <1>4, <1>6, <1>7, <2>2, <2>3 DEF Control, Types
  <2>6. \A k \in 1 .. Top' : (Honest(frames[k]) /\ frames[k].id <= runs)'
    BY <1>2, <1>6, <1>7, <2>2, <2>3 DEF Control, Honest
  <2>7. \A k \in 1 .. Top' : k < Top' => Caller(frames[k])'
    BY <1>6, <1>7, <2>2, <2>3 DEF Control, Caller
  <2>8. Runs(Now)'
    BY <2>3, <2>4 DEF Runs, Caller
  <2>9. Control'
    BY <1>5, <2>5, <2>6, <2>7, <2>8 DEF Control
  <2> QED
    BY <1>2, <1>6, <2>2, <2>3, <2>4, <2>9 DEF Caller
<1>8. CASE ~(n > 1)
  <2>1. PICK f : f = [Now EXCEPT !.pc = "halted"]
    OBVIOUS
  <2>2. Set(f)
    BY <1>6, <1>8, <2>1 DEF Return
  <2>3. f \in Activation
    BY <1>1, <2>1 DEF Activation, Phase
  <2>4. /\ f.pc = "halted" /\ f.prog = Now.prog /\ f.id = Now.id /\ f.reg = Now.reg
        /\ f.reached = Now.reached /\ f.ran = Now.ran
        /\ f.blocks = Now.blocks /\ f.marks = Now.marks
    BY <1>1, <2>1 DEF Activation
  <2>5. Honest(f)
    BY <1>1, <2>4 DEF Honest
  <2>6. Runs(f)'
    BY <1>1, <1>2, <2>4 DEF Runs
  <2>7. Control'
    BY <1>1, <1>2, <1>4, <1>5, <2>2, <2>3, <2>4, <2>5, <2>6, ControlChanges
  <2>8. Now' = f
    BY <2>2, <2>3, SetChanges DEF Control
  <2> QED
    BY <1>2, <2>1, <2>7, <2>8
<1> QED
  BY <1>7, <1>8

LEMMA ControlStays ==
    Control /\ UNCHANGED vars => Control'
  BY DEF vars, Control, Types, Honest, Caller, Runs, Top, Now, CallerGetsStatus

LEMMA ControlIsInductive ==
    Control /\ [Next]_vars => Control'
<1> SUFFICES ASSUME Control, [Next]_vars PROVE Control'
  OBVIOUS
<1>1. CASE Runtime
  BY <1>1, SetupKeepsControl, ConstructorsKeepControl, CallMainKeepsControl,
     LongJumpKeepsControl, ReturnKeepsControl DEF Runtime
<1>2. CASE Main
  BY <1>2, AllocateKeepsControl, SaveKeepsControl, RestoreKeepsControl,
     SkipTestKeepsControl, CallKeepsControl, ExitKeepsControl DEF Main
<1>3. CASE Stopped \/ UNCHANGED vars
  BY <1>3, ControlStays DEF Stopped
<1> QED
  BY <1>1, <1>2, <1>3 DEF Next

LEMMA ControlIsInvariant == Spec => []Control
<1>1. Init => Control
  BY ControlAtFirst
<1> QED
  BY <1>1, ControlIsInductive, PTL DEF Spec

-----------------------------------------------------------------------------
(***************************************************************************)
(* What a step does to a program's heaps, blocks and saves, as long as     *)
(* they are its own.                                                       *)
(***************************************************************************)
Working == {"setup", "ctors", "main"}

SameProgram ==
    Now'.prog = Now.prog /\ Now'.reg = Now.reg /\ Now'.ran = Now.ran

QuietStep ==
    /\ SameProgram
    /\ info'.heaps = info.heaps
    /\ Now'.blocks = Now.blocks /\ Now'.marks = Now.marks
    /\ Now'.pc \in Working => Now.pc \in Working
    /\ Now'.pc = "main" => Now.pc = "main" \/ Now.blocks = {}

BeginStep ==
    /\ Now'.reg = 1 /\ ~Now'.ran /\ Now'.blocks = {} /\ Now'.marks = << >>
    /\ info'.heaps = NoHeaps
    /\ Len(frames') # Len(frames)

FillStep ==
    /\ Now.pc = "setup" /\ Now'.pc = "setup"
    /\ ~Now.ran /\ ~Now'.ran
    /\ Now'.blocks = {} /\ Now'.marks = << >>
    /\ Now'.prog = Now.prog /\ Now'.reg = Now.reg + 1
    /\ Now.reg \in DOMAIN Layout[Now.prog]
    /\ LET l == Layout[Now.prog][Now.reg]
       IN  \/ info'.heaps = info.heaps /\ l.start = l.end
           \/ \E i \in Slots :
                 /\ info'.heaps = Filled(info.heaps, i, l)
                 /\ l.start < l.end
                 /\ IsFree(info.heaps, i)
                 /\ \A j \in Slots : j < i => ~IsFree(info.heaps, j)

AllocateStep ==
    /\ SameProgram
    /\ Now.pc = "main" /\ Now'.marks = Now.marks
    /\ SameHeaps(info.heaps, info'.heaps)
    /\ \E id \in Slots, q \in Requests, at \in Address, next \in Address :
          /\ Takes(id, q, at, next)
          /\ \/ Now'.pc = "exiting" /\ Now'.blocks = Now.blocks
             \/ /\ next < info.heaps.slot[id].end
                /\ Now'.pc = "main"
                /\ ~Now.ran => Now'.blocks = Now.blocks \cup {Got(id, q, at, Len(Now.marks))}

SaveStep ==
    /\ SameProgram
    /\ Now.pc = "main" /\ Now'.pc = "main" /\ Now'.blocks = Now.blocks
    /\ info'.heaps = UpdateHeaps(info.heaps, TRUE)
    /\ Len(Now'.marks) = Len(Now.marks) + 1
    /\ \A k \in 1 .. Len(Now.marks) :
          Now'.marks[k].pos = Now.marks[k].pos /\ Now'.marks[k].nested = TRUE
    /\ Now'.marks[Len(Now.marks) + 1].pos = Positions(info.heaps)
    /\ Now'.marks[Len(Now.marks) + 1].nested = FALSE

RestoreStep ==
    /\ SameProgram
    /\ Now.pc = "main" /\ Now'.pc = "main"
    /\ Now'.blocks = {b \in Now.blocks : b.level < Len(Now.marks)}
    /\ info'.heaps = UpdateHeaps(info.heaps, FALSE)
    /\ Len(Now.marks) > 0 /\ Len(Now'.marks) = Len(Now.marks) - 1
    /\ \A k \in 1 .. Len(Now'.marks) : Now'.marks[k] = Now.marks[k]

HeapStep ==
    \/ Now'.ran /\ Len(frames') # Len(frames) /\ info'.heaps = info.heaps
    \/ QuietStep \/ BeginStep \/ FillStep
    \/ AllocateStep \/ SaveStep \/ RestoreStep

LEMMA ExitIsQuiet ==
    ASSUME Control, NEW status \in Int, Set(Exiting(Now, status)), info'.heaps = info.heaps
    PROVE  QuietStep
<1>1. Now \in Activation /\ Types
  BY NowIsHonest DEF Control
<1>2. PICK f : f = Exiting(Now, status)
  OBVIOUS
<1>3. /\ f \in Activation /\ f.pc = "exiting"
      /\ f.prog = Now.prog /\ f.reg = Now.reg /\ f.ran = Now.ran
      /\ f.blocks = Now.blocks /\ f.marks = Now.marks
  BY <1>1, <1>2, ExitingIsTyped
<1>4. Now' = f
  BY <1>1, <1>2, <1>3, SetChanges
<1> QED
  BY <1>3, <1>4 DEF QuietStep, SameProgram, Working

LEMMA SetupIsAStep ==
    ASSUME Control, Setup
    PROVE  HeapStep
<1>1. /\ Now \in Activation /\ Runs(Now) /\ info.heaps \in AllHeaps /\ Types
      /\ info \in [heaps : AllHeaps, tramp : 0 .. MaxRuns]
  BY NowIsHonest DEF Control
<1>2. Now.pc = "setup" /\ Now.reg <= Len(Layout[Now.prog])
  BY DEF Setup
<1>3. Now.prog \in Programs /\ Now.reg \in Nat \ {0}
  BY <1>1 DEF Activation
<1>4. Now.reg \in DOMAIN Layout[Now.prog]
  BY <1>2, <1>3, ProgramAssumption
<1>5. PICK l : l = Layout[Now.prog][Now.reg]
  OBVIOUS
<1>6. l.start \in Address /\ l.end \in Address
  BY <1>3, <1>4, <1>5, ProgramAssumption
<1>7. PICK h : h = info.heaps
  OBVIOUS
<1>8. PICK r : r = Register(h, l.name, l.start, l.end)
  OBVIOUS
<1>9. /\ info' = [info EXCEPT !.heaps = r.heaps]
      /\ Set(IF r.panic THEN Exiting(Now, PanicCode) ELSE [Now EXCEPT !.reg = @ + 1])
  BY <1>5, <1>7, <1>8 DEF Setup
<1>10. info'.heaps = r.heaps
  BY <1>1, <1>9
<1>11. PICK f : f = [Now EXCEPT !.reg = @ + 1]
  OBVIOUS
<1>12. f \in Activation
  BY <1>1, <1>11, SMTT(60) DEF Activation
<1>13. /\ f.pc = Now.pc /\ f.prog = Now.prog /\ f.reg = Now.reg + 1 /\ f.ran = Now.ran
       /\ f.blocks = Now.blocks /\ f.marks = Now.marks
  BY <1>1, <1>11 DEF Activation
<1>14. ~Now.ran /\ Now.blocks = {} /\ Now.marks = << >>
  BY <1>1, <1>2 DEF Runs
<1>15. ASSUME Set(f)
       PROVE  /\ Now'.pc = "setup" /\ ~Now'.ran /\ Now'.blocks = {} /\ Now'.marks = << >>
              /\ Now'.prog = Now.prog /\ Now'.reg = Now.reg + 1
  <2>1. Now' = f
    BY <1>1, <1>12, <1>15, SetChanges
  <2> QED
    BY <1>2, <1>13, <1>14, <2>1
<1>16. CASE r = Done(h, -1) /\ l.start = l.end
  <2>1. r.heaps = h /\ r.panic = FALSE
    BY <1>16 DEF Done
  <2>2. Set(f)
    BY <1>9, <1>11, <2>1
  <2> QED
    BY <1>2, <1>4, <1>5, <1>7, <1>10, <1>14, <1>15, <1>16, <2>1, <2>2 DEF HeapStep, FillStep
<1>17. CASE r = Panicked(h)
  <2>1. r.heaps = h /\ r.panic = TRUE
    BY <1>17 DEF Panicked
  <2>2. Set(Exiting(Now, PanicCode)) /\ PanicCode \in Int
    BY <1>9, <2>1 DEF PanicCode
  <2> QED
    BY <1>7, <1>10, <2>1, <2>2, ExitIsQuiet DEF HeapStep
<1>18. ASSUME NEW i \in Slots,
              r = Done(Filled(h, i, l), i), l.start < l.end, IsFree(h, i),
              \A j \in Slots : j < i => ~IsFree(h, j)
       PROVE  HeapStep
  <2>1. r.heaps = Filled(h, i, l) /\ r.panic = FALSE
    BY <1>18 DEF Done
  <2>2. Set(f)
    BY <1>9, <1>11, <2>1
  <2>3. FillStep
    BY <1>2, <1>4, <1>5, <1>7, <1>10, <1>14, <1>15, <1>18, <2>1, <2>2 DEF FillStep
  <2> QED
    BY <2>3 DEF HeapStep
<1> QED
  <2>1. \/ r = Done(h, -1) /\ l.start = l.end
        \/ r = Panicked(h)
        \/ \E i \in Slots : /\ r = Done(Filled(h, i, l), i)
                            /\ l.start < l.end /\ IsFree(h, i)
                            /\ \A j \in Slots : j < i => ~IsFree(h, j)
    BY <1>6, <1>8, RegisterCases
  <2> QED
    BY <1>16, <1>17, <1>18, <2>1

LEMMA AllocateIsAStep ==
    ASSUME Control, Allocate
    PROVE  HeapStep
<1>1. Now \in Activation /\ Types
  BY NowIsHonest DEF Control
<1>2. PICK id \in Slots, q \in Requests, at \in Address, next \in Address :
              /\ Takes(id, q, at, next)
              /\ SameHeaps(info.heaps, info'.heaps)
              /\ Now.pc = "main"
              /\ \/ /\ next >= info.heaps.slot[id].end
                    /\ Set(Exiting(Now, PanicCode))
                 \/ /\ next < info.heaps.slot[id].end
                    /\ Set([Now EXCEPT !.blocks =
                               IF Now.ran THEN @
                               ELSE @ \cup {Got(id, q, at, Len(Now.marks))}])
  BY AllocateCases
<1>3. CASE Set(Exiting(Now, PanicCode))
  <2>1. PICK f : f = Exiting(Now, PanicCode)
    OBVIOUS
  <2>2. /\ f \in Activation /\ f.pc = "exiting"
        /\ f.prog = Now.prog /\ f.reg = Now.reg /\ f.ran = Now.ran
        /\ f.blocks = Now.blocks /\ f.marks = Now.marks
    BY <1>1, <2>1, ExitingIsTyped DEF PanicCode
  <2>3. Now' = f
    BY <1>1, <1>3, <2>1, <2>2, SetChanges
  <2>4. AllocateStep
    BY <1>2, <2>2, <2>3 DEF AllocateStep, SameProgram
  <2> QED
    BY <2>4 DEF HeapStep
<1>4. ASSUME next < info.heaps.slot[id].end,
             Set([Now EXCEPT !.blocks =
                     IF Now.ran THEN @ ELSE @ \cup {Got(id, q, at, Len(Now.marks))}])
      PROVE  HeapStep
  <2>1. PICK b : b = Got(id, q, at, Len(Now.marks))
    OBVIOUS
  <2>2. b \in Block
    <3>1. at \in Nat /\ Len(Now.marks) \in Nat
      BY <1>1, HeapAssumption DEF Address, Activation
    <3> QED
      BY <2>1, <3>1, ProgramAssumption DEF Got, Block
  <2>3. PICK bs \in SUBSET Block : bs = IF Now.ran THEN Now.blocks ELSE Now.blocks \cup {b}
    BY <1>1, <2>2 DEF Activation
  <2>4. PICK f : f = [Now EXCEPT !.blocks = bs]
    OBVIOUS
  <2>5. f \in Activation
    BY <1>1, <2>4 DEF Activation
  <2>6. /\ f.pc = Now.pc /\ f.prog = Now.prog /\ f.reg = Now.reg /\ f.ran = Now.ran
        /\ f.marks = Now.marks /\ f.blocks = bs
    BY <1>1, <2>4 DEF Activation
  <2>7. Set(f)
    BY <1>4, <2>1, <2>3, <2>4
  <2>8. Now' = f
    BY <1>1, <2>5, <2>7, SetChanges
  <2>9. ~Now.ran => Now'.blocks = Now.blocks \cup {Got(id, q, at, Len(Now.marks))}
    BY <2>1, <2>3, <2>6, <2>8
  <2>10. AllocateStep
    BY <1>2, <1>4, <2>6, <2>8, <2>9 DEF AllocateStep, SameProgram
  <2> QED
    BY <2>10 DEF HeapStep
<1> QED
  BY <1>2, <1>3, <1>4

LEMMA SaveIsAStep ==
    ASSUME Control, SaveHeaps \/ BeginTest
    PROVE  SaveStep
<1>1. Now \in Activation /\ info \in [heaps : AllHeaps, tramp : 0 .. MaxRuns] /\ Types
  BY NowIsHonest DEF Control
<1>2. PICK f \in Activation, ms \in Seq(Saved), m \in Saved :
              /\ f = [Now EXCEPT !.marks = ms]
              /\ Set(f)
              /\ m.pos = Positions(info.heaps) /\ m.nested = FALSE
              /\ Len(ms) = Len(Now.marks) + 1
              /\ \A k \in 1 .. Len(Now.marks) :
                    ms[k].pos = Now.marks[k].pos /\ ms[k].nested = TRUE
              /\ ms[Len(Now.marks) + 1] = m
              /\ info' = [info EXCEPT !.heaps = UpdateHeaps(info.heaps, TRUE)]
              /\ Now.pc = "main"
  BY SaveCases
<1>3. /\ f.pc = Now.pc /\ f.prog = Now.prog /\ f.reg = Now.reg /\ f.ran = Now.ran
      /\ f.marks = ms /\ f.blocks = Now.blocks
  BY <1>1, <1>2 DEF Activation
<1>4. Now' = f
  BY <1>1, <1>2, SetChanges
<1>5. info'.heaps = UpdateHeaps(info.heaps, TRUE)
  BY <1>1, <1>2
<1> QED
  BY <1>2, <1>3, <1>4, <1>5 DEF SaveStep, SameProgram

LEMMA RestoreIsAStep ==
    ASSUME Control, RestoreHeaps \/ EndTest
    PROVE  RestoreStep
<1>1. Now \in Activation /\ info \in [heaps : AllHeaps, tramp : 0 .. MaxRuns] /\ Types
  BY NowIsHonest DEF Control
<1>2. PICK f \in Activation, ms \in Seq(Saved) :
              /\ Set(f)
              /\ f.marks = ms
              /\ f.blocks = {b \in Now.blocks : b.level < Len(Now.marks)}
              /\ Len(Now.marks) > 0 /\ Len(ms) = Len(Now.marks) - 1
              /\ \A k \in 1 .. Len(ms) : ms[k] = Now.marks[k]
              /\ f.pc = Now.pc /\ f.prog = Now.prog /\ f.reg = Now.reg
              /\ f.ran = Now.ran
              /\ info' = [info EXCEPT !.heaps = UpdateHeaps(info.heaps, FALSE)]
              /\ Now.pc = "main"
  BY RestoreCases
<1>3. Now' = f
  BY <1>1, <1>2, SetChanges
<1>4. info'.heaps = UpdateHeaps(info.heaps, FALSE)
  BY <1>1, <1>2
<1> QED
  BY <1>2, <1>3, <1>4 DEF RestoreStep, SameProgram

\* The other actions leave the heaps alone.
LEMMA OthersAreQuiet ==
    ASSUME Control, Constructors \/ CallMain \/ LongJump \/ SkipTest \/ Exit
    PROVE  QuietStep
<1>1. /\ Now \in Activation /\ info \in [heaps : AllHeaps, tramp : 0 .. MaxRuns] /\ Types
      /\ Runs(Now)
  BY NowIsHonest DEF Control
<1>2. info'.heaps = info.heaps
  BY <1>1 DEF Constructors, CallMain, LongJump, SkipTest, Exit
<1>3. PanicCode \in Int /\ \A s \in Statuses : s \in Int
  BY ProgramAssumption DEF PanicCode
<1>4. ASSUME NEW f \in Activation, Set(f),
             f.prog = Now.prog, f.reg = Now.reg, f.ran = Now.ran,
             f.blocks = Now.blocks, f.marks = Now.marks,
             f.pc \in Working => Now.pc \in Working,
             f.pc = "main" => Now.pc = "main" \/ Now.blocks = {}
      PROVE  QuietStep
  <2>1. Now' = f
    BY <1>1, <1>4, SetChanges
  <2> QED
    BY <1>2, <1>4, <2>1 DEF QuietStep, SameProgram
<1>5. CASE Constructors
  <2>1. CASE Set(Exiting(Now, PanicCode))
    BY <1>2, <1>3, <2>1, ExitIsQuiet
  <2>2. CASE Set([Now EXCEPT !.pc = "ctors"])
    <3>1. PICK f : f = [Now EXCEPT !.pc = "ctors"]
      OBVIOUS
    <3>2. f \in Activation
      BY <1>1, <3>1 DEF Activation, Phase
    <3>3. /\ f.pc = "ctors" /\ f.prog = Now.prog /\ f.reg = Now.reg /\ f.ran = Now.ran
          /\ f.blocks = Now.blocks /\ f.marks = Now.marks
      BY <1>1, <3>1 DEF Activation
    <3>4. Now.pc \in Working
      BY <1>5 DEF Constructors, Working
    <3> QED
      BY <1>4, <2>2, <3>1, <3>2, <3>3, <3>4
  <2> QED
    BY <1>5, <2>1, <2>2 DEF Constructors
<1>6. CASE CallMain
  <2>1. PICK f : f = [Now EXCEPT !.pc = "main", !.reached = TRUE]
    OBVIOUS
  <2>2. f \in Activation
    BY <1>1, <2>1 DEF Activation, Phase
  <2>3. /\ f.pc = "main" /\ f.prog = Now.prog /\ f.reg = Now.reg /\ f.ran = Now.ran
        /\ f.blocks = Now.blocks /\ f.marks = Now.marks
    BY <1>1, <2>1 DEF Activation
  <2>4. Now.pc \in Working /\ Now.blocks = {}
    BY <1>1, <1>6 DEF CallMain, Working, Runs
  <2>5. Set(f)
    BY <1>6, <2>1 DEF CallMain
  <2> QED
    BY <1>4, <2>2, <2>3, <2>4, <2>5
<1>7. CASE LongJump
  <2>1. PICK v \in Int : v = JumpValue(Mangled(Now.val))
    BY <1>1 DEF Activation, JumpValue, Mangled
  <2>2. PICK f : f = IF info.tramp = Now.id THEN [Now EXCEPT !.pc = "landed", !.val = v]
                     ELSE [Now EXCEPT !.pc = "astray"]
    OBVIOUS
  <2>3. f \in Activation
    BY <1>1, <2>2 DEF Activation, Phase
  <2>4. /\ f.pc \in {"landed", "astray"} /\ f.prog = Now.prog /\ f.reg = Now.reg
        /\ f.ran = Now.ran /\ f.blocks = Now.blocks /\ f.marks = Now.marks
    BY <1>1, <2>2 DEF Activation
  <2>5. Set(f)
    BY <1>7, <2>1, <2>2 DEF LongJump
  <2> QED
    BY <1>4, <2>3, <2>4, <2>5 DEF Working
<1>8. CASE SkipTest
  <2>1. PICK t \in Nat : t = Now.total + 1
    BY <1>1 DEF Activation
  <2>2. PICK f : f = [Now EXCEPT !.total = t]
    OBVIOUS
  <2>3. f \in Activation
    BY <1>1, <2>2 DEF Activation
  <2>4. /\ f.pc = Now.pc /\ f.prog = Now.prog /\ f.reg = Now.reg /\ f.ran = Now.ran
        /\ f.blocks = Now.blocks /\ f.marks = Now.marks
    BY <1>1, <2>2 DEF Activation
  <2>5. Set(f)
    BY <1>8, <2>1, <2>2 DEF SkipTest
  <2> QED
    BY <1>4, <2>3, <2>4, <2>5
<1>9. CASE Exit
  BY <1>2, <1>3, <1>9, ExitIsQuiet DEF Exit
<1> QED
  BY <1>5, <1>6, <1>7, <1>8, <1>9

LEMMA EveryStep ==
    ASSUME Control, [Next]_vars
    PROVE  HeapStep
<1>1. CASE Runtime /\ ~Return
  BY <1>1, SetupIsAStep, OthersAreQuiet DEF Runtime, HeapStep
<1>2. CASE Return
  <2>1. Now \in Activation
    BY NowIsHonest
  <2>2. CASE Now'.ran /\ Len(frames') # Len(frames) /\ info' = info
    BY <2>2 DEF HeapStep
  <2>3. CASE Now' = [Now EXCEPT !.pc = "halted"] /\ info' = info
    <3>1. PICK f : f = [Now EXCEPT !.pc = "halted"]
      OBVIOUS
    <3>2. /\ f.pc = "halted" /\ f.prog = Now.prog /\ f.reg = Now.reg /\ f.ran = Now.ran
          /\ f.blocks = Now.blocks /\ f.marks = Now.marks
      BY <2>1, <3>1 DEF Activation
    <3>3. QuietStep
      BY <2>3, <3>1, <3>2 DEF QuietStep, SameProgram, Working
    <3> QED
      BY <3>3 DEF HeapStep
  <2> QED
    BY <1>2, <2>2, <2>3, ReturnKeepsControl
<1>3. CASE Main /\ ~Call
  BY <1>3, AllocateIsAStep, SaveIsAStep, RestoreIsAStep, OthersAreQuiet DEF Main, HeapStep
<1>4. CASE Call
  BY <1>4, CallKeepsControl DEF HeapStep, BeginStep
<1>5. CASE Stopped \/ UNCHANGED vars
  <2>1. UNCHANGED vars
    BY <1>5 DEF Stopped
  <2>2. Now' = Now /\ info' = info
    BY <2>1 DEF vars, Now, Top
  <2> QED
    BY <2>2 DEF HeapStep, QuietStep, SameProgram
<1> QED
  BY <1>1, <1>2, <1>3, <1>4, <1>5 DEF Next

-----------------------------------------------------------------------------
(***************************************************************************)
(* The slots.                                                              *)
(***************************************************************************)
LEMMA SameHeapsStep ==
    ASSUME Control, QuietStep \/ AllocateStep \/ SaveStep \/ RestoreStep
    PROVE  SameProgram /\ SameHeaps(info.heaps, info'.heaps)
<1>1. PICK h \in AllHeaps : h = info.heaps
  BY NowIsHonest
<1>2. CASE QuietStep
  BY <1>2 DEF QuietStep, SameHeaps
<1>3. CASE AllocateStep
  BY <1>3 DEF AllocateStep
<1>4. CASE SaveStep
  BY <1>1, <1>4, UpdateTypes DEF SaveStep
<1>5. CASE RestoreStep
  BY <1>1, <1>5, UpdateTypes DEF RestoreStep
<1> QED
  BY <1>2, <1>3, <1>4, <1>5

\* What FillStep does to the slots.
LEMMA FilledSlots ==
    ASSUME NEW h \in AllHeaps, NEW i \in Slots, NEW l, NEW g, g = Filled(h, i, l)
    PROVE  /\ g.num = h.num + 1
           /\ Is(g.slot[i], l)
           /\ g.slot[i].start = l.start /\ g.slot[i].end = l.end
           /\ g.slot[i].pos = l.start /\ g.slot[i].save = l.start
           /\ \A j \in Slots : j # i => g.slot[j] = h.slot[j]
  BY DEF Filled, AllHeaps, Is

LEMMA SlottedIsInductive ==
    ASSUME Control, Slotted, HeapStep
    PROVE  Slotted'
<1>1. PICK h \in AllHeaps, g \in {info'.heaps} : h = info.heaps
  BY NowIsHonest
<1>2. CASE Now'.ran
  BY <1>2 DEF Slotted
<1>3. CASE QuietStep \/ AllocateStep \/ SaveStep \/ RestoreStep
  <2>1. SameProgram /\ SameHeaps(info.heaps, info'.heaps)
    BY <1>3, SameHeapsStep
  <2> QED
    BY <2>1 DEF Slotted, SameProgram, SameHeaps, Empty, Is
<1>4. CASE BeginStep
  BY <1>4, NoHeapsTypes DEF BeginStep, Slotted, Empty, NoHeap
<1>5. CASE FillStep
  <2> DEFINE l == Layout[Now.prog][Now.reg]
             Good(hp, n) ==
                 \/ Empty(hp)
                 \/ \E k \in 1 .. n - 1 :
                       /\ Is(hp, Layout[Now.prog][k])
                       /\ Layout[Now.prog][k].start < Layout[Now.prog][k].end
  <2>1. Now.reg \in Nat \ {0} /\ Now'.reg = Now.reg + 1 /\ Now'.prog = Now.prog
    BY <1>5, NowIsHonest DEF FillStep, Activation
  <2>2. \A i \in Slots : Good(h.slot[i], Now.reg)
    BY <1>1, <1>5 DEF FillStep, Slotted
  <2>3. \A hp : Good(hp, Now.reg) => Good(hp, Now'.reg)
    BY <2>1
  <2>4. \A i \in Slots : Good(g.slot[i], Now'.reg)
    <3>1. CASE g = h
      BY <2>2, <2>3, <3>1
    <3>2. ASSUME NEW i \in Slots, g = Filled(h, i, l), l.start < l.end
          PROVE  \A j \in Slots : Good(g.slot[j], Now'.reg)
      <4>1. Is(g.slot[i], l) /\ \A j \in Slots : j # i => g.slot[j] = h.slot[j]
        BY <3>2, FilledSlots
      <4>2. Good(g.slot[i], Now'.reg)
        <5>1. Now.reg \in 1 .. Now'.reg - 1
          BY <2>1
        <5> QED
          BY <3>2, <4>1, <5>1
      <4> HIDE DEF Good
      <4> QED
        BY <2>2, <2>3, <4>1, <4>2
    <3> QED
      BY <1>1, <1>5, <3>1, <3>2 DEF FillStep
  <2> QED
    BY <1>1, <2>1, <2>4 DEF Slotted
<1> QED
  BY <1>2, <1>3, <1>4, <1>5 DEF HeapStep

LEMMA RegisteredIsInductive ==
    ASSUME Named, Control, Registered, HeapStep
    PROVE  Registered'
<1>1. PICK h \in AllHeaps, g \in {info'.heaps} : h = info.heaps
  BY NowIsHonest
<1>2. CASE Now'.ran
  BY <1>2 DEF Registered
<1>3. CASE QuietStep \/ AllocateStep \/ SaveStep \/ RestoreStep
  <2>1. SameProgram /\ SameHeaps(info.heaps, info'.heaps)
    BY <1>3, SameHeapsStep
  <2> QED
    BY <2>1 DEF Registered, SameProgram, SameHeaps, IsFree, Is
<1>4. CASE BeginStep
  <2>1. /\ info'.heaps.num = 0
        /\ \A i \in Slots : info'.heaps.slot[i].start = 0 /\ i >= 0
        /\ Now'.reg = 1
    BY <1>4, NoHeapsTypes DEF BeginStep, NoHeap, NoHeaps, Slots
  <2> QED
    BY <2>1, HeapAssumption DEF Registered, IsFree
<1>5. CASE FillStep
  <2>1. PICK l : l = Layout[Now.prog][Now.reg]
    OBVIOUS
  <2>2. PICK p \in Programs, n \in Nat \ {0} :
            /\ p = Now.prog /\ n = Now.reg /\ Now'.prog = p /\ Now'.reg = n + 1
            /\ n \in DOMAIN Layout[p]
    BY <1>5, NowIsHonest DEF FillStep, Activation
  <2>3. /\ h.num <= NumHeaps
        /\ \A i \in Slots : h.slot[i].start = 0 <=> i >= h.num
        /\ \A k \in 1 .. n - 1 :
              Layout[p][k].start # Layout[p][k].end =>
                  \E i \in Slots : i < h.num /\ Is(h.slot[i], Layout[p][k])
    BY <1>1, <1>5, <2>2 DEF FillStep, Registered, IsFree
  <2>4. CASE g = h /\ l.start = l.end
    <3>1. \A k \in 1 .. n :
              Layout[p][k].start # Layout[p][k].end =>
                  \E i \in Slots : i < g.num /\ Is(g.slot[i], Layout[p][k])
      BY <2>1, <2>2, <2>3, <2>4
    <3> QED
      BY <1>1, <2>2, <2>3, <2>4, <3>1 DEF Registered, IsFree
  <2>5. ASSUME NEW i \in Slots, g = Filled(h, i, l), l.start < l.end, IsFree(h, i),
               \A j \in Slots : j < i => ~IsFree(h, j)
        PROVE  Registered'
    <3>1. i \in Nat /\ i < NumHeaps /\ h.num \in Nat /\ NumHeaps \in Nat
      BY HeapAssumption DEF Slots, AllHeaps
    <3>2. i = h.num
      <4>1. i >= h.num
        BY <2>3, <2>5 DEF IsFree
      <4>2. ~(h.num < i)
        <5>1. SUFFICES ASSUME h.num < i PROVE FALSE
          OBVIOUS
        <5>2. h.num \in Slots /\ h.num >= h.num
          BY <3>1, <5>1 DEF Slots
        <5> QED
          BY <2>3, <2>5, <5>1, <5>2 DEF IsFree
      <4> QED
        BY <3>1, <4>1, <4>2
    <3>3. /\ g.num = h.num + 1
          /\ g.slot[i].start = l.start /\ Is(g.slot[i], l)
          /\ \A j \in Slots : j # i => g.slot[j] = h.slot[j]
      BY <2>5, FilledSlots
    <3>4. l.start # 0
      <4>1. l.start # l.end
        <5>1. l.start \in Nat /\ l.end \in Nat
          BY <2>1, <2>2, ProgramAssumption, HeapAssumption DEF Address
        <5> QED
          BY <2>5, <5>1
      <4> QED
        BY <2>1, <2>2, <4>1 DEF Named
    <3>5. ASSUME NEW j \in Slots PROVE g.slot[j].start = 0 <=> j >= g.num
      <4>1. j \in Nat
        BY DEF Slots
      <4>2. CASE j = i
        BY <3>1, <3>2, <3>3, <3>4, <4>2
      <4>3. CASE j # i
        BY <2>3, <3>1, <3>2, <3>3, <4>1, <4>3
      <4> QED
        BY <4>2, <4>3
    <3>6. ASSUME NEW k \in 1 .. n, Layout[p][k].start # Layout[p][k].end
          PROVE  \E j \in Slots : j < g.num /\ Is(g.slot[j], Layout[p][k])
      <4>1. CASE k = n
        BY <2>1, <2>2, <3>1, <3>2, <3>3, <4>1
      <4>2. CASE k # n
        <5>1. PICK j \in Slots : j < h.num /\ Is(h.slot[j], Layout[p][k])
          BY <2>3, <3>6, <4>2
        <5>2. j # i /\ j < g.num
          BY <3>1, <3>2, <3>3, <5>1 DEF Slots
        <5> QED
          BY <3>3, <5>1, <5>2
      <4> QED
        BY <4>1, <4>2
    <3>7. g.num <= NumHeaps
      BY <3>1, <3>2, <3>3
    <3> QED
      BY <1>1, <2>2, <3>5, <3>6, <3>7 DEF Registered, IsFree
  <2> QED
    BY <1>1, <1>5, <2>1, <2>4, <2>5 DEF FillStep
<1> QED
  BY <1>2, <1>3, <1>4, <1>5 DEF HeapStep

LEMMA AtFirstNoHeaps ==
    ASSUME Init
    PROVE  /\ info.heaps = NoHeaps
           /\ Now.reg = 1 /\ Now.blocks = {} /\ Now.marks = << >>
           /\ Now.pc = "setup" /\ ~Now.ran
<1>1. PICK f : f = Frame(Boot, 1)
  OBVIOUS
<1>2. f.reg = 1 /\ f.blocks = {} /\ f.marks = << >> /\ f.pc = "setup" /\ ~f.ran
  BY <1>1, ProgramAssumption, NewFrame
<1>3. Now = f
  BY <1>1 DEF Init, Now, Top
<1> QED
  BY <1>2, <1>3 DEF Init

LEMMA SlottedIsInvariant == Spec => []Slotted
<1>1. Init => Slotted
  BY AtFirstNoHeaps, NoHeapsTypes DEF Slotted, Empty, NoHeap
<1>2. Slotted /\ Control /\ [Next]_vars => Slotted'
  BY EveryStep, SlottedIsInductive
<1> QED
  BY <1>1, <1>2, ControlIsInvariant, PTL DEF Spec

LEMMA RegisteredIsInvariant ==
    Named => (Spec => []Registered)
<1> SUFFICES ASSUME Named PROVE Spec => []Registered
  OBVIOUS
<1>1. Init => Registered
  <2> SUFFICES ASSUME Init PROVE Registered
    OBVIOUS
  <2>1. /\ info.heaps.num = 0 /\ Now.reg = 1
        /\ \A i \in Slots : info.heaps.slot[i].start = 0 /\ i >= 0
    BY AtFirstNoHeaps, NoHeapsTypes DEF NoHeap
  <2> QED
    BY <2>1, HeapAssumption DEF Registered, IsFree
<1>2. Registered /\ Control /\ [Next]_vars => Registered'
  BY EveryStep, RegisteredIsInductive
<1> QED
  BY <1>1, <1>2, ControlIsInvariant, PTL DEF Spec

\* Every heap that a program has registered is found by its name, with the
\* memory it was registered with (malloc.c:67, 96), if the heaps have names of
\* their own and none starts at address 0, which register_heap takes for a
\* free slot.
THEOREM RegisteredHeapsAreFound == Named => (Spec => []HeapsAreFound)
<1> SUFFICES ASSUME Named PROVE Spec => []HeapsAreFound
  OBVIOUS
<1>1. ASSUME Control, Slotted, Registered
      PROVE  HeapsAreFound
  <2> SUFFICES ASSUME ~Now.ran,
                      NEW k \in 1 .. Now.reg - 1,
                      Layout[Now.prog][k].start # Layout[Now.prog][k].end
               PROVE  LET l == Layout[Now.prog][k]
                          i == HeapByName(info.heaps, l.name)
                      IN  /\ i # -1
                          /\ info.heaps.slot[i].start = l.start
                          /\ info.heaps.slot[i].end = l.end
    BY DEF HeapsAreFound, OwnsInfo
  <2>1. PICK p \in Programs, n \in Nat \ {0}, h \in AllHeaps :
            p = Now.prog /\ n = Now.reg /\ h = info.heaps /\ n <= Len(Layout[p]) + 1
    BY <1>1, NowIsHonest DEF Activation, Runs
  <2>2. PICK l : l = Layout[p][k]
    OBVIOUS
  <2>3. DOMAIN Layout[p] = 1 .. Len(Layout[p]) /\ Len(Layout[p]) \in Nat
    BY ProgramAssumption
  <2>4. PICK F \in SUBSET Slots : F = {i \in Slots : i < h.num /\ h.slot[i].name = l.name}
    OBVIOUS
  <2>5. F # {} /\ F \in SUBSET Nat
    BY <1>1, <2>1, <2>2, <2>4 DEF Registered, Is, Slots
  <2>6. PICK i \in F : i = Min(F)
    BY <2>5, MinIsLeast
  <2>7. HeapByName(h, l.name) = i
    BY <2>4, <2>5, <2>6 DEF HeapByName
  <2>8. i \in Slots /\ i < h.num /\ h.slot[i].name = l.name /\ i \in Nat /\ h.num \in Nat
    BY <2>4, <2>5 DEF AllHeaps
  <2>9. h.slot[i].start # 0
    BY <1>1, <2>1, <2>8 DEF Registered, IsFree
  <2>10. PICK m \in 1 .. n - 1 : Is(h.slot[i], Layout[p][m]) /\ Layout[p][m].start < Layout[p][m].end
    BY <1>1, <2>1, <2>8, <2>9 DEF Slotted, Empty
  <2>11. k \in DOMAIN Layout[p] /\ m \in DOMAIN Layout[p]
    BY <2>1, <2>3
  <2>12. Layout[p][m].start # Layout[p][m].end
    <3>1. Layout[p][m].start \in Nat /\ Layout[p][m].end \in Nat
      BY <2>11, ProgramAssumption, HeapAssumption DEF Address
    <3> QED
      BY <2>10, <3>1
  <2>13. k = m
    BY <2>1, <2>2, <2>8, <2>10, <2>11, <2>12 DEF Named, Is
  <2> QED
    BY <2>1, <2>2, <2>7, <2>8, <2>10, <2>13 DEF Is
<1> QED
  BY <1>1, ControlIsInvariant, SlottedIsInvariant, RegisteredIsInvariant, PTL

-----------------------------------------------------------------------------
(***************************************************************************)
(* The positions.                                                          *)
(***************************************************************************)
\* What an allocation does that does not wrap.
LEMMA NoWrapInMalloc ==
    ASSUME NoWrap, Control, Slotted, ~Now.ran,
           NEW id \in Slots, NEW q \in Requests, NEW at \in Address, NEW next \in Address,
           Takes(id, q, at, next), Between(info.heaps.slot[id]),
           next < info.heaps.slot[id].end
    PROVE  /\ at = AlignUp(info.heaps.slot[id].pos, q.align) + q.mis
           /\ next = at + q.len
           /\ info.heaps.slot[id].pos <= at
<1>1. /\ info.heaps \in AllHeaps /\ info.heaps.slot[id] \in HeapRecord
      /\ Now \in Activation /\ Now.reg <= Len(Layout[Now.prog]) + 1
  BY NowIsHonest DEF AllHeaps, Runs
<1>2. PICK pos \in Nat, end \in Nat : pos = info.heaps.slot[id].pos /\ end = info.heaps.slot[id].end
  BY <1>1, HeapAssumption DEF HeapRecord, Address
<1>3. PICK len \in Nat, align \in Nat, mis \in Nat : len = q.len /\ align = q.align /\ mis = q.mis
  BY ProgramAssumption
<1>4. at \in Nat /\ next \in Nat /\ Word \in Nat \ {0}
  BY HeapAssumption DEF Address
<1>5. PICK up \in Nat : up = AlignUp(pos, align) /\ pos <= up /\ up <= pos + align
  BY AlignUpIsUp
<1>6. end # 0 /\ pos < end
  BY <1>2, <1>4 DEF Between
<1>7. end + align + mis + len <= Word
  <2>1. PICK k \in 1 .. Now.reg - 1 : Is(info.heaps.slot[id], Layout[Now.prog][k])
    BY <1>2, <1>6 DEF Slotted, Empty
  <2>2. Now.prog \in Programs /\ Now.reg \in Nat
    BY <1>1 DEF Activation
  <2>3. Len(Layout[Now.prog]) \in Nat /\ DOMAIN Layout[Now.prog] = 1 .. Len(Layout[Now.prog])
    BY <2>2, ProgramAssumption
  <2>4. k \in DOMAIN Layout[Now.prog]
    BY <1>1, <2>2, <2>3
  <2>5. Layout[Now.prog][k].end = end
    BY <1>2, <2>1 DEF Is
  <2> QED
    BY <1>3, <2>2, <2>4, <2>5 DEF NoWrap
<1>8. at = (up + mis) % Word /\ next = (at + len) % Word
  BY <1>2, <1>3, <1>5 DEF Takes
<1>9. up + mis < Word /\ up + mis \in Nat
  BY <1>3, <1>4, <1>5, <1>6, <1>7
<1>10. at = up + mis
  BY <1>4, <1>8, <1>9
<1>11. next = at + len
  <2>1. at + len < Word /\ at + len \in Nat
    BY <1>3, <1>4, <1>5, <1>6, <1>7, <1>10
  <2> QED
    BY <1>4, <1>8, <2>1
<1> QED
  BY <1>2, <1>3, <1>5, <1>10, <1>11

\* Each heap's positions, and each save.
Marked(h, ms) ==
    \A n \in 1 .. Len(ms) : \A i \in Slots :
        /\ i < h.num => ms[n].pos[i] <= h.slot[i].save
        /\ i >= h.num => ms[n].pos[i] = h.slot[i].pos
        /\ n < Len(ms) => ms[n].nested
        /\ (~ms[n].nested /\ i < h.num) => ms[n].pos[i] = h.slot[i].save

LEMMA PositionedParts ==
    Positioned <=>
        (~Now.ran /\ Now.pc \in Working =>
            /\ \A i \in Slots : Between(info.heaps.slot[i])
            /\ Marked(info.heaps, Now.marks))
  BY DEF Positioned, Marked, Working

LEMMA PositionedIsInductive ==
    ASSUME NoWrap, Control, Control', Slotted, Positioned, HeapStep
    PROVE  Positioned'
<1> SUFFICES ASSUME ~Now'.ran, Now'.pc \in Working
             PROVE  /\ \A i \in Slots : Between(info'.heaps.slot[i])
                    /\ Marked(info'.heaps, Now'.marks)
  BY DEF Positioned, Marked, Working
<1>1. PICK h \in AllHeaps : h = info.heaps
  BY NowIsHonest
<1>2. PICK g \in AllHeaps : g = info'.heaps
  BY DEF Control, Types
<1>3. PICK old \in Seq(Saved), new \in Seq(Saved) : old = Now.marks /\ new = Now'.marks
  <2>1. Now.marks \in Seq(Saved)
    BY NowIsHonest DEF Activation
  <2>2. Now'.marks \in Seq(Saved)
    <3>1. Now' \in Activation
      <4>1. Types' /\ Top' = Len(frames') /\ Now' = frames'[Len(frames')]
        BY DEF Control, Top, Now
      <4>2. frames' \in Seq(Activation) /\ Len(frames') \in 1 .. Len(frames')
        BY <4>1 DEF Types
      <4> QED
        BY <4>1, <4>2, ElementOfSeq
    <3> QED
      BY <3>1 DEF Activation
  <2> QED
    BY <2>1, <2>2
<1>4. /\ \A i \in Slots : /\ i \in Nat
                          /\ h.slot[i] \in HeapRecord /\ g.slot[i] \in HeapRecord
                          /\ {h.slot[i].start, h.slot[i].end, h.slot[i].pos, h.slot[i].save} \subseteq Nat
                          /\ {g.slot[i].start, g.slot[i].end, g.slot[i].pos, g.slot[i].save} \subseteq Nat
      /\ h.num \in Nat /\ Len(old) \in Nat /\ Len(new) \in Nat
      /\ \A n \in 1 .. Len(old) : \A i \in Slots : old[n].pos[i] \in Nat
  <2>1. \A a \in Address : a \in Nat
    BY HeapAssumption DEF Address
  <2>2. \A i \in Slots : h.slot[i] \in HeapRecord /\ g.slot[i] \in HeapRecord /\ i \in Nat
    BY HeapAssumption DEF AllHeaps, Slots
  <2>3. \A hp \in HeapRecord : {hp.start, hp.end, hp.pos, hp.save} \subseteq Nat
    BY <2>1 DEF HeapRecord
  <2>4. ASSUME NEW n \in 1 .. Len(old), NEW i \in Slots
        PROVE  old[n].pos[i] \in Nat
    <3>1. old[n] \in Saved
      BY ElementOfSeq
    <3> QED
      BY <2>1, <3>1 DEF Saved
  <2>5. h.num \in Nat /\ Len(old) \in Nat /\ Len(new) \in Nat
    BY DEF AllHeaps
  <2> QED
    BY <2>2, <2>3, <2>4, <2>5
<1>5. (~Now.ran /\ Now.pc \in Working) =>
          (\A i \in Slots : Between(h.slot[i])) /\ Marked(h, old)
  BY <1>1, <1>3, PositionedParts
<1>6. CASE QuietStep
  BY <1>1, <1>3, <1>5, <1>6 DEF QuietStep, SameProgram
<1>7. CASE BeginStep
  <2>1. \A i \in Slots : Between(NoHeap)
    BY DEF Between, NoHeap
  <2>2. Marked(NoHeaps, << >>)
    BY DEF Marked
  <2> QED
    BY <1>7, <2>1, <2>2, NoHeapsTypes DEF BeginStep
<1>8. CASE FillStep
  <2>1. PICK l : l = Layout[Now.prog][Now.reg]
    OBVIOUS
  <2>2. l.start \in Nat /\ l.end \in Nat
    <3>1. Now.prog \in Programs /\ Now.reg \in DOMAIN Layout[Now.prog]
      BY <1>8, NowIsHonest DEF FillStep, Activation
    <3> QED
      BY <2>1, <3>1, ProgramAssumption, HeapAssumption DEF Address
  <2>3. Marked(g, << >>)
    BY DEF Marked
  <2>4. \A i \in Slots : Between(h.slot[i])
    BY <1>5, <1>8 DEF FillStep, Working
  <2>5. ASSUME NEW i \in Slots, g = Filled(h, i, l), l.start < l.end,
               NEW j \in Slots
        PROVE  Between(g.slot[j])
    <3>1. /\ g.slot[i].start = l.start /\ g.slot[i].end = l.end
          /\ g.slot[i].pos = l.start /\ g.slot[i].save = l.start
          /\ \A m \in Slots : m # i => g.slot[m] = h.slot[m]
      BY <2>5, FilledSlots
    <3> QED
      BY <2>2, <2>4, <2>5, <3>1 DEF Between
  <2> QED
    BY <1>1, <1>2, <1>8, <2>1, <2>3, <2>4, <2>5 DEF FillStep
<1>9. CASE AllocateStep
  <2>1. /\ ~Now.ran /\ Now.pc = "main" /\ Now.pc \in Working /\ new = old /\ SameHeaps(h, g)
    BY <1>1, <1>2, <1>3, <1>9 DEF AllocateStep, SameProgram, Working
  <2>2. PICK id \in Slots, q \in Requests, at \in Address, next \in Address :
            Takes(id, q, at, next) /\ next < h.slot[id].end
    BY <1>1, <1>9 DEF AllocateStep, Working
  <2>3. Between(h.slot[id])
    BY <1>5, <2>1
  <2>4. id < h.num /\ g = [h EXCEPT !.slot[id].pos = next]
    BY <1>1, <1>2, <2>2 DEF Takes
  <2>5. h.slot[id].pos <= at /\ next = at + q.len /\ q.len \in Nat
    BY <1>1, <2>1, <2>2, <2>3, NoWrapInMalloc, ProgramAssumption
  <2>6. at \in Nat /\ next \in Nat
    BY HeapAssumption DEF Address
  <2>7. /\ g.num = h.num
        /\ g.slot[id] = [h.slot[id] EXCEPT !.pos = next]
        /\ \A j \in Slots : j # id => g.slot[j] = h.slot[j]
    BY <2>4 DEF AllHeaps
  <2>8. /\ g.slot[id].start = h.slot[id].start /\ g.slot[id].end = h.slot[id].end
        /\ g.slot[id].pos = next /\ g.slot[id].save = h.slot[id].save
    BY <1>4, <2>7 DEF HeapRecord
  <2>9. \A i \in Slots : g.slot[i].save = h.slot[i].save /\ (i >= h.num => g.slot[i] = h.slot[i])
    BY <1>4, <2>4, <2>7, <2>8
  <2>10. Marked(g, new)
    BY <1>5, <2>1, <2>7, <2>9 DEF Marked
  <2>11. ASSUME NEW i \in Slots PROVE Between(g.slot[i])
    <3>1. CASE i = id
      <4>1. /\ h.slot[id].save \in Nat /\ h.slot[id].pos \in Nat
            /\ h.slot[id].start <= h.slot[id].save /\ h.slot[id].save <= h.slot[id].pos
        BY <1>4, <2>3 DEF Between
      <4>2. h.slot[id].save <= next
        BY <2>5, <2>6, <4>1
      <4> QED
        BY <2>2, <2>8, <3>1, <4>1, <4>2 DEF Between
    <3>2. CASE i # id
      BY <1>5, <2>1, <2>7, <3>2
    <3> QED
      BY <3>1, <3>2
  <2> QED
    BY <1>2, <1>3, <2>10, <2>11
<1>10. CASE SaveStep
  <2>1. /\ ~Now.ran /\ Now.pc = "main" /\ Now.pc \in Working /\ g = UpdateHeaps(h, TRUE)
        /\ Len(new) = Len(old) + 1
        /\ \A n \in 1 .. Len(old) : new[n].pos = old[n].pos /\ new[n].nested = TRUE
        /\ new[Len(old) + 1].pos = Positions(h)
        /\ new[Len(old) + 1].nested = FALSE
    BY <1>1, <1>2, <1>3, <1>10 DEF SaveStep, SameProgram, Working
  <2>2. /\ SameHeaps(h, g)
        /\ \A i \in Slots :
              /\ i >= h.num => g.slot[i] = h.slot[i]
              /\ i < h.num => (g.slot[i].pos = h.slot[i].pos /\ g.slot[i].save = h.slot[i].pos)
    BY <2>1, UpdateTypes
  <2>3. (\A i \in Slots : Between(h.slot[i])) /\ Marked(h, old)
    BY <1>5, <2>1
  <2>4. ASSUME NEW i \in Slots PROVE Between(g.slot[i])
    <3>1. CASE i >= h.num
      BY <2>2, <2>3, <3>1
    <3>2. CASE i < h.num
      BY <1>4, <2>2, <2>3, <3>2 DEF Between, SameHeaps
    <3> QED
      BY <1>4, <3>1, <3>2
  <2>5. ASSUME NEW n \in 1 .. Len(new), NEW i \in Slots
        PROVE  /\ i < g.num => new[n].pos[i] <= g.slot[i].save
               /\ i >= g.num => new[n].pos[i] = g.slot[i].pos
               /\ n < Len(new) => new[n].nested
               /\ (~new[n].nested /\ i < g.num) => new[n].pos[i] = g.slot[i].save
    <3>1. g.num = h.num
      BY <2>2 DEF SameHeaps
    <3>2. CASE n = Len(old) + 1
      <4>1. new[n].pos[i] = h.slot[i].pos /\ n = Len(new)
        BY <2>1, <3>2 DEF Positions
      <4>2. h.slot[i].pos \in Nat /\ i \in Nat /\ h.num \in Nat /\ Len(new) \in Nat
        BY <1>4
      <4>3. /\ i >= h.num => g.slot[i].pos = h.slot[i].pos
            /\ i < h.num => g.slot[i].save = h.slot[i].pos
        BY <2>2
      <4> QED
        BY <3>1, <4>1, <4>2, <4>3
    <3>3. CASE n \in 1 .. Len(old)
      <4>1. /\ i < h.num => old[n].pos[i] <= h.slot[i].save
            /\ i >= h.num => old[n].pos[i] = h.slot[i].pos
        BY <2>3, <3>3 DEF Marked
      <4>2. h.slot[i].save <= h.slot[i].pos
        BY <2>3 DEF Between
      <4>3. old[n].pos[i] \in Nat /\ h.slot[i].save \in Nat /\ h.slot[i].pos \in Nat
        BY <1>4, <3>3
      <4>4. /\ i >= h.num => g.slot[i].pos = h.slot[i].pos
            /\ i < h.num => g.slot[i].save = h.slot[i].pos
        BY <2>2
      <4>5. new[n].pos[i] = old[n].pos[i] /\ new[n].nested = TRUE
        BY <2>1, <3>3
      <4> QED
        BY <3>1, <4>1, <4>2, <4>3, <4>4, <4>5
    <3>4. n = Len(old) + 1 \/ n \in 1 .. Len(old)
      BY <1>4, <2>1
    <3> QED
      BY <3>2, <3>3, <3>4
  <2>6. Marked(g, new)
    BY <2>5 DEF Marked
  <2> QED
    BY <1>2, <1>3, <2>4, <2>6
<1>11. CASE RestoreStep
  <2>1. /\ ~Now.ran /\ Now.pc = "main" /\ Now.pc \in Working /\ g = UpdateHeaps(h, FALSE)
        /\ Len(new) = Len(old) - 1
        /\ \A n \in 1 .. Len(new) : new[n] = old[n]
    BY <1>1, <1>2, <1>3, <1>11 DEF RestoreStep, SameProgram, Working
  <2>2. /\ SameHeaps(h, g)
        /\ \A i \in Slots :
              /\ i >= h.num => g.slot[i] = h.slot[i]
              /\ i < h.num => (g.slot[i].pos = h.slot[i].save /\ g.slot[i].save = h.slot[i].save)
    BY <2>1, UpdateTypes
  <2>3. (\A i \in Slots : Between(h.slot[i])) /\ Marked(h, old)
    BY <1>5, <2>1
  <2>4. ASSUME NEW i \in Slots PROVE Between(g.slot[i])
    <3>1. CASE i >= h.num
      BY <2>2, <2>3, <3>1
    <3>2. CASE i < h.num
      BY <1>4, <2>2, <2>3, <3>2 DEF Between, SameHeaps
    <3> QED
      BY <1>4, <3>1, <3>2
  <2>5. ASSUME NEW n \in 1 .. Len(new), NEW i \in Slots
        PROVE  /\ i < g.num => new[n].pos[i] <= g.slot[i].save
               /\ i >= g.num => new[n].pos[i] = g.slot[i].pos
               /\ n < Len(new) => new[n].nested
               /\ (~new[n].nested /\ i < g.num) => new[n].pos[i] = g.slot[i].save
    <3>1. g.num = h.num
      BY <2>2 DEF SameHeaps
    <3>2. n \in 1 .. Len(old) /\ n < Len(old) /\ new[n] = old[n]
      BY <1>4, <2>1
    <3>3. /\ i < h.num => old[n].pos[i] <= h.slot[i].save
          /\ i >= h.num => old[n].pos[i] = h.slot[i].pos
          /\ old[n].nested
      BY <2>3, <3>2 DEF Marked
    <3> QED
      BY <2>2, <3>1, <3>2, <3>3
  <2>6. Marked(g, new)
    BY <2>5 DEF Marked
  <2> QED
    BY <1>2, <1>3, <2>4, <2>6
<1> QED
  BY <1>6, <1>7, <1>8, <1>9, <1>10, <1>11 DEF HeapStep

LEMMA PositionedIsInvariant ==
    NoWrap => (Spec => []Positioned)
<1> SUFFICES ASSUME NoWrap PROVE Spec => []Positioned
  OBVIOUS
<1>1. Init => Positioned
  <2> SUFFICES ASSUME Init PROVE Positioned
    OBVIOUS
  <2>1. /\ info.heaps = NoHeaps /\ Now.marks = << >>
        /\ \A i \in Slots : NoHeaps.slot[i] = NoHeap
    BY AtFirstNoHeaps, NoHeapsTypes
  <2>2. Between(NoHeap)
    BY DEF Between, NoHeap
  <2>3. Marked(NoHeaps, << >>)
    BY DEF Marked
  <2> QED
    BY <2>1, <2>2, <2>3, PositionedParts
<1>2. Control /\ Control' /\ Slotted /\ Positioned /\ [Next]_vars => Positioned'
  BY EveryStep, PositionedIsInductive
<1> QED
  BY <1>1, <1>2, ControlIsInvariant, SlottedIsInvariant, PTL DEF Spec

\* A test or a save that contains no other leaves the heaps as it found them,
\* and one that contains others never gives back what is not its own
\* (malloc.c:138, testsuite.c:31), if no allocation wraps around the address
\* space.
THEOREM TestsGiveBackWhatTheyTake == NoWrap => (Spec => TestsReleaseMemory)
<1> SUFFICES ASSUME NoWrap PROVE Spec => TestsReleaseMemory
  OBVIOUS
<1>1. ASSUME Control, Positioned, [Next]_vars,
             Len(frames') = Top, OwnsInfo(Now),
             Len(frames'[Top].marks) < Len(Now.marks),
             NEW i \in Slots
      PROVE  IF Given(Now).nested
             THEN info'.heaps.slot[i].pos >= Given(Now).pos[i]
             ELSE info'.heaps.slot[i].pos = Given(Now).pos[i]
  <2>1. PICK h \in AllHeaps, g \in {info'.heaps} : h = info.heaps
    BY <1>1, NowIsHonest
  <2>2. PICK ms \in Seq(Saved) : ms = Now.marks
    BY <1>1, NowIsHonest DEF Activation
  <2>3. ~Now.ran /\ Now'.marks = frames'[Top].marks /\ Len(frames') = Len(frames)
    BY <1>1 DEF OwnsInfo, Now, Top
  <2>4. Len(ms) \in Nat /\ h.num \in Nat /\ i \in Nat
    BY HeapAssumption DEF AllHeaps, Slots
  <2>5. RestoreStep
    <3>1. HeapStep
      BY <1>1, EveryStep
    <3>2. ~QuietStep /\ ~AllocateStep
      BY <1>1, <2>2, <2>3, <2>4 DEF QuietStep, AllocateStep
    <3>3. ~FillStep
      <4>1. Runs(Now)
        BY <1>1, NowIsHonest
      <4> QED
        BY <1>1, <2>2, <2>3, <2>4, <4>1 DEF FillStep, Runs
    <3>4. ~SaveStep
      <4>1. Len(Now'.marks) < Len(Now.marks) /\ Len(Now.marks) \in Nat
        BY <1>1, <2>2, <2>3, <2>4
      <4>2. Len(Now'.marks) \in Nat
        BY <1>1, NowIsHonest, <2>3, SMTT(20) DEF Activation, OwnsInfo, Now, Top
      <4>3. Len(Now'.marks) # Len(Now.marks) + 1
        BY <4>1, <4>2
      <4> QED
        BY <4>3 DEF SaveStep
    <3>5. ~BeginStep
      BY <2>3 DEF BeginStep
    <3> QED
      BY <2>3, <3>1, <3>2, <3>3, <3>4, <3>5 DEF HeapStep
  <2>6. Now.pc \in Working /\ Len(ms) > 0 /\ g = UpdateHeaps(h, FALSE)
    BY <2>1, <2>2, <2>5 DEF RestoreStep, Working
  <2>7. Marked(h, ms)
    BY <1>1, <2>1, <2>2, <2>3, <2>6, PositionedParts
  <2>8. PICK m : m = ms[Len(ms)] /\ m = Given(Now)
    BY <2>2 DEF Given
  <2>9. /\ i < h.num => m.pos[i] <= h.slot[i].save
        /\ i >= h.num => m.pos[i] = h.slot[i].pos
        /\ (~m.nested /\ i < h.num) => m.pos[i] = h.slot[i].save
    <3>1. Len(ms) \in 1 .. Len(ms)
      BY <2>4, <2>6
    <3> QED
      BY <2>7, <2>8, <3>1 DEF Marked
  <2>10. /\ i >= h.num => g.slot[i] = h.slot[i]
         /\ i < h.num => g.slot[i].pos = h.slot[i].save
    BY <2>6, UpdateTypes
  <2>11. m.pos[i] \in Nat /\ h.slot[i].save \in Nat /\ h.slot[i].pos \in Nat
    <3>1. m \in Saved
      <4>1. Len(ms) \in 1 .. Len(ms)
        BY <2>4, <2>6
      <4> QED
        BY <2>8, <4>1, ElementOfSeq
    <3> QED
      BY <3>1, HeapAssumption DEF Saved, AllHeaps, HeapRecord, Address
  <2>12. g.slot[i].pos >= m.pos[i] /\ (~m.nested => g.slot[i].pos = m.pos[i])
    <3>1. CASE i < h.num
      BY <2>9, <2>10, <2>11, <3>1
    <3>2. CASE i >= h.num
      BY <2>9, <2>10, <2>11, <3>2
    <3> QED
      BY <2>4, <3>1, <3>2
  <2> QED
    BY <2>1, <2>8, <2>12
<1>2. Control /\ Positioned /\ [Next]_vars =>
          [(/\ Len(frames') = Top /\ OwnsInfo(Now)
            /\ Len(frames'[Top].marks) < Len(Now.marks)) =>
               \A i \in Slots :
                   IF Given(Now).nested
                   THEN info'.heaps.slot[i].pos >= Given(Now).pos[i]
                   ELSE info'.heaps.slot[i].pos = Given(Now).pos[i]]_vars
  BY <1>1
<1> QED
  BY <1>2, ControlIsInvariant, PositionedIsInvariant, PTL DEF Spec, TestsReleaseMemory

-----------------------------------------------------------------------------
(***************************************************************************)
(* What Control says of verdicts and exits.                                *)
(***************************************************************************)

\* A program that got to main() and called no other is left only through its
\* own rumboot_main() (rumboot_main.c:101, newlib-stubs.c:66).
THEOREM ProgramsComeHome == Spec => []LeavesComeHome
<1>1. Control => LeavesComeHome
  BY DEF Control, Runs, LeavesComeHome
<1> QED
  BY <1>1, ControlIsInvariant, PTL

\* What a caller gets is the status the program it called left with, except
\* for -256 (rumboot_main.c:120).
THEOREM CallersGetTheStatus == Spec => []CallerGetsStatus
<1>1. Control => CallerGetsStatus
  BY DEF Control
<1> QED
  BY <1>1, ControlIsInvariant, PTL

-----------------------------------------------------------------------------
(***************************************************************************)
(* Types.                                                                  *)
(***************************************************************************)
\* No program registers more heaps than there are slots.
LayoutFits == \A p \in Programs : Len(Layout[p]) <= NumHeaps

HeapsFit == info.heaps.num <= NumHeaps

LEMMA HeapsFitIsInductive ==
    ASSUME LayoutFits, Control, Control', HeapsFit, HeapStep
    PROVE  HeapsFit'
<1>1. PICK h \in AllHeaps : h = info.heaps
  BY NowIsHonest
<1>2. PICK g \in AllHeaps : g = info'.heaps
  BY DEF Control, Types
<1>3. h.num \in Nat /\ g.num \in Nat /\ h.num <= NumHeaps
  BY <1>1 DEF AllHeaps, HeapsFit
<1>4. CASE g.num = h.num
  BY <1>2, <1>3, <1>4 DEF HeapsFit
<1>5. CASE g = NoHeaps
  BY <1>2, <1>5, NoHeapsTypes, HeapAssumption DEF HeapsFit
<1>6. CASE ~Now'.ran
  <2>1. Now' \in Activation /\ Runs(Now)'
    <3>1. Types' /\ Top' = Len(frames') /\ Now' = frames'[Len(frames')] /\ Runs(Now)'
      BY DEF Control, Top, Now
    <3>2. frames' \in Seq(Activation) /\ Len(frames') \in 1 .. Len(frames')
      BY <3>1 DEF Types
    <3> QED
      BY <3>1, <3>2, ElementOfSeq
  <2>2. PICK r \in Nat, p \in Programs : r = Now'.reg /\ p = Now'.prog
    BY <2>1 DEF Activation
  <2>3. g.num < r /\ r <= Len(Layout[p]) + 1
    BY <1>2, <1>6, <2>1, <2>2 DEF Runs
  <2>4. Len(Layout[p]) \in Nat /\ Len(Layout[p]) <= NumHeaps
    BY ProgramAssumption DEF LayoutFits
  <2> QED
    BY <1>2, <1>3, <2>2, <2>3, <2>4, HeapAssumption DEF HeapsFit
<1>7. CASE QuietStep \/ AllocateStep \/ SaveStep \/ RestoreStep
  BY <1>1, <1>2, <1>4, <1>7, SameHeapsStep DEF SameHeaps
<1>8. CASE BeginStep \/ FillStep
  BY <1>6, <1>8 DEF BeginStep, FillStep
<1>9. CASE info'.heaps = info.heaps
  BY <1>1, <1>2, <1>4, <1>9
<1> QED
  BY <1>7, <1>8, <1>9 DEF HeapStep

\* Every variable keeps its type, no start-up runs out of slots, only the last
\* of the frames runs and the ones below it wait in main() for a program they
\* called, if no program registers more heaps than there are slots
\* (platform.h:430, rumboot_main.c:74).
THEOREM ProgramsKeepTypes == LayoutFits => (Spec => []TypeOK)
<1> SUFFICES ASSUME LayoutFits PROVE Spec => []TypeOK
  OBVIOUS
<1>1. Init => HeapsFit
  BY AtFirstNoHeaps, NoHeapsTypes, HeapAssumption DEF HeapsFit
<1>2. Control /\ Control' /\ HeapsFit /\ [Next]_vars => HeapsFit'
  BY EveryStep, HeapsFitIsInductive
<1>3. Control /\ HeapsFit => TypeOK
  <2> SUFFICES ASSUME Control, HeapsFit PROVE TypeOK
    OBVIOUS
  <2>1. /\ Types /\ Now \in Activation /\ Runs(Now)
        /\ info \in [heaps : AllHeaps, tramp : 0 .. MaxRuns]
    BY NowIsHonest DEF Control
  <2>2. info.heaps.num \in 0 .. NumHeaps
    BY <2>1, HeapAssumption DEF AllHeaps, HeapsFit
  <2>3. Now.ran \/ info.heaps.num < Now.reg
    BY <2>1 DEF Runs
  <2>4. info.heaps.slot \in [Slots -> [name : Names, start : Address, end : Address,
                                       pos : Address, save : Address]]
    BY <2>1 DEF AllHeaps, HeapRecord
  <2>5. /\ info.tramp \in 0 .. MaxRuns
        /\ runs \in 1 .. MaxRuns /\ Top \in 1 .. runs
        /\ last.code \in Int /\ last.ret \in Int
    BY <2>1 DEF Types
  <2>6. ASSUME NEW k \in DOMAIN frames
        PROVE  /\ frames[k].prog \in Programs /\ frames[k].id \in 1 .. runs
               /\ frames[k].pc \in Phase
               /\ Len(frames[k].marks) <= MaxMarks
               /\ k < Top => frames[k].pc = "main" /\ frames[k].ran
    <3>1. k \in 1 .. Top
      BY <2>1 DEF Types, Top
    <3>2. frames[k] \in Activation
      BY <2>1, <3>1, NowIsTyped
    <3>3. Honest(frames[k]) /\ frames[k].id <= runs /\ (k < Top => Caller(frames[k]))
      BY <3>1 DEF Control
    <3> QED
      BY <2>5, <3>2, <3>3, ProgramAssumption DEF Activation, Honest, Caller
  <2> QED
    BY <2>2, <2>3, <2>4, <2>5, <2>6 DEF TypeOK, Phase
<1> QED
  BY <1>1, <1>2, <1>3, ControlIsInvariant, PTL DEF Spec

-----------------------------------------------------------------------------
(***************************************************************************)
(* The blocks.                                                             *)
(***************************************************************************)
Kept(h, b, n) ==
    /\ b.heap < h.num
    /\ h.slot[b.heap].start <= b.at /\ b.at + b.len < h.slot[b.heap].end
    /\ Aligned(b)
    /\ b.level <= n

Below(h, b, n) ==
    /\ b.at + b.len <= h.slot[b.heap].pos
    /\ b.level < n => b.at + b.len <= h.slot[b.heap].save

SlotsApart(h) == \A i, j \in Slots : i # j => Disjoint(h.slot[i], h.slot[j])

LEMMA HeldParts ==
    Held <=>
        (~Now.ran =>
            /\ SlotsApart(info.heaps)
            /\ \A b \in Now.blocks : /\ Kept(info.heaps, b, Len(Now.marks))
                                     /\ Now.pc = "main" => Below(info.heaps, b, Len(Now.marks))
            /\ \A b, c \in Now.blocks : b # c => Apart(b, c))
  BY DEF Held, Holds, Kept, Below, SlotsApart

LEMMA SlotNumbers ==
    ASSUME NEW h \in AllHeaps
    PROVE  /\ h.num \in Nat
           /\ \A i \in Slots : /\ i \in Nat /\ h.slot[i] \in HeapRecord
                               /\ h.slot[i].start \in Nat /\ h.slot[i].end \in Nat
                               /\ h.slot[i].pos \in Nat /\ h.slot[i].save \in Nat
<1>1. \A a \in Address : a \in Nat
  BY HeapAssumption DEF Address
<1>2. \A i \in Slots : h.slot[i] \in HeapRecord /\ i \in Nat
  BY HeapAssumption DEF AllHeaps, Slots
<1>3. \A hp \in HeapRecord : hp.start \in Nat /\ hp.end \in Nat /\ hp.pos \in Nat /\ hp.save \in Nat
  BY <1>1 DEF HeapRecord
<1>4. h.num \in Nat
  BY DEF AllHeaps
<1> QED
  BY <1>2, <1>3, <1>4

\* What keeps the bounds of the heaps keeps them apart, and the blocks inside.
LEMMA BoundsStay ==
    ASSUME NEW h \in AllHeaps, NEW g \in AllHeaps, SameHeaps(h, g)
    PROVE  /\ SlotsApart(h) => SlotsApart(g)
           /\ \A b \in Block : \A n, m \in Nat :
                 (Kept(h, b, n) /\ b.level <= m) => Kept(g, b, m)
<1>1. SlotsApart(h) => SlotsApart(g)
  BY DEF SlotsApart, Disjoint, SameHeaps
<1>2. ASSUME NEW b \in Block, NEW n \in Nat, NEW m \in Nat, Kept(h, b, n), b.level <= m
      PROVE  Kept(g, b, m)
  <2>1. b.heap \in Slots
    BY DEF Block
  <2> QED
    BY <1>2, <2>1 DEF Kept, SameHeaps
<1> QED
  BY <1>1, <1>2

\* A block at the position of its heap, apart from all below the positions.
LEMMA NewBlockIsApart ==
    ASSUME NEW h \in AllHeaps, SlotsApart(h), NEW n \in Nat,
           NEW b \in Block, Kept(h, b, n), h.slot[b.heap].pos <= b.at,
           NEW c \in Block, Kept(h, c, n), Below(h, c, n)
    PROVE  Apart(b, c) /\ Apart(c, b)
<1>1. PICK i \in Slots, j \in Slots : i = b.heap /\ j = c.heap
  BY DEF Block
<1>2. b.at \in Nat /\ b.len \in Nat /\ c.at \in Nat /\ c.len \in Nat
  BY DEF Block
<1>3. /\ h.slot[i].start \in Nat /\ h.slot[i].end \in Nat /\ h.slot[i].pos \in Nat
      /\ h.slot[j].start \in Nat /\ h.slot[j].end \in Nat /\ h.slot[j].pos \in Nat
  BY SlotNumbers
<1>4. CASE i = j
  <2>1. c.at + c.len <= b.at
    BY <1>1, <1>2, <1>3, <1>4 DEF Below
  <2> QED
    BY <2>1 DEF Apart
<1>5. CASE i # j
  <2>1. Disjoint(h.slot[i], h.slot[j])
    BY <1>5 DEF SlotsApart
  <2>2. /\ h.slot[i].start <= b.at /\ b.at + b.len < h.slot[i].end
        /\ h.slot[j].start <= c.at /\ c.at + c.len < h.slot[j].end
    BY <1>1 DEF Kept
  <2> QED
    BY <1>2, <1>3, <2>1, <2>2 DEF Disjoint, Apart
<1> QED
  BY <1>4, <1>5

LEMMA HeldIsInductive ==
    ASSUME NoWrap, Distinct, Control, Control', Slotted, Positioned, Held, HeapStep
    PROVE  Held'
<1> SUFFICES ASSUME ~Now'.ran
             PROVE  /\ SlotsApart(info'.heaps)
                    /\ \A b \in Now'.blocks :
                          /\ Kept(info'.heaps, b, Len(Now'.marks))
                          /\ Now'.pc = "main" => Below(info'.heaps, b, Len(Now'.marks))
                    /\ \A b, c \in Now'.blocks : b # c => Apart(b, c)
  BY DEF Held, Holds, Kept, Below, SlotsApart
<1>1. PICK h \in AllHeaps : h = info.heaps
  BY NowIsHonest
<1>2. PICK g \in AllHeaps : g = info'.heaps
  BY DEF Control, Types
<1>3. PICK B \in SUBSET Block, n \in Nat : B = Now.blocks /\ n = Len(Now.marks)
  <2>1. Now.blocks \in SUBSET Block /\ Now.marks \in Seq(Saved)
    BY NowIsHonest DEF Activation
  <2> QED
    BY <2>1
<1>4. PICK C \in SUBSET Block, m \in Nat : C = Now'.blocks /\ m = Len(Now'.marks)
  <2>1. Types' /\ Top' = Len(frames') /\ Now' = frames'[Len(frames')]
    BY DEF Control, Top, Now
  <2>2. frames' \in Seq(Activation) /\ Len(frames') \in 1 .. Len(frames')
    BY <2>1 DEF Types
  <2>3. Now' \in Activation
    BY <2>1, <2>2, ElementOfSeq
  <2>4. Now'.blocks \in SUBSET Block /\ Now'.marks \in Seq(Saved)
    BY <2>3 DEF Activation
  <2> QED
    BY <2>4
<1>5. ~Now.ran =>
          /\ SlotsApart(h)
          /\ \A b \in B : Kept(h, b, n) /\ (Now.pc = "main" => Below(h, b, n))
          /\ \A b, c \in B : b # c => Apart(b, c)
  BY <1>1, <1>3, HeldParts
<1> SUFFICES /\ SlotsApart(g)
             /\ \A b \in C : Kept(g, b, m) /\ (Now'.pc = "main" => Below(g, b, m))
             /\ \A b, c \in C : b # c => Apart(b, c)
  BY <1>2, <1>4
<1>6. CASE QuietStep
  <2>1. /\ ~Now.ran /\ g = h /\ C = B /\ m = n
        /\ Now'.pc = "main" => (Now.pc = "main" \/ B = {})
    BY <1>1, <1>2, <1>3, <1>4, <1>6 DEF QuietStep, SameProgram
  <2> QED
    BY <1>5, <2>1
<1>7. CASE BeginStep
  <2>1. g = NoHeaps /\ C = {}
    BY <1>2, <1>4, <1>7 DEF BeginStep
  <2>2. \A i \in Slots : g.slot[i].start = 0 /\ g.slot[i].end = 0
    BY <2>1, NoHeapsTypes DEF NoHeap
  <2> QED
    BY <2>1, <2>2 DEF SlotsApart, Disjoint
<1>8. CASE FillStep
  <2>1. PICK p \in Programs, r \in Nat, l \in {Layout[Now.prog][Now.reg]} :
            p = Now.prog /\ r = Now.reg /\ l = Layout[p][r]
    BY NowIsHonest DEF Activation
  <2>2. /\ C = {} /\ ~Now.ran /\ r \in DOMAIN Layout[p]
        /\ Len(Layout[p]) \in Nat /\ DOMAIN Layout[p] = 1 .. Len(Layout[p])
        /\ \/ g = h
           \/ \E i \in Slots : g = Filled(h, i, l)
    BY <1>1, <1>2, <1>4, <1>8, <2>1, ProgramAssumption DEF FillStep
  <2>3. ASSUME NEW j \in Slots
        PROVE  /\ Disjoint(h.slot[j], l)
               /\ Disjoint(l, h.slot[j])
    <3>1. CASE Empty(h.slot[j])
      BY <3>1 DEF Empty, Disjoint
    <3>2. ASSUME NEW k \in 1 .. r - 1, Is(h.slot[j], Layout[p][k])
          PROVE  Disjoint(h.slot[j], l) /\ Disjoint(l, h.slot[j])
      <4>1. k \in DOMAIN Layout[p] /\ k # r
        BY <2>2
      <4>2. Disjoint(Layout[p][k], l) /\ Disjoint(l, Layout[p][k])
        BY <2>1, <2>2, <4>1 DEF Distinct
      <4> QED
        BY <3>2, <4>2 DEF Is, Disjoint
    <3> QED
      BY <1>1, <2>1, <2>2, <3>1, <3>2 DEF Slotted
  <2>4. ASSUME NEW i \in Slots, g = Filled(h, i, l)
        PROVE  SlotsApart(g)
    <3>1. /\ g.slot[i].start = l.start /\ g.slot[i].end = l.end
          /\ \A j \in Slots : j # i => g.slot[j] = h.slot[j]
      BY <2>4, FilledSlots
    <3>2. SlotsApart(h)
      BY <1>5, <2>2
    <3>3. ASSUME NEW j \in Slots, NEW k \in Slots, j # k
          PROVE  Disjoint(g.slot[j], g.slot[k])
      <4>1. CASE j = i
        BY <2>3, <3>1, <3>3, <4>1 DEF Disjoint
      <4>2. CASE k = i
        BY <2>3, <3>1, <3>3, <4>2 DEF Disjoint
      <4>3. CASE j # i /\ k # i
        BY <3>1, <3>2, <3>3, <4>3 DEF SlotsApart
      <4> QED
        BY <4>1, <4>2, <4>3
    <3> QED
      BY <3>3 DEF SlotsApart
  <2> QED
    BY <1>5, <2>2, <2>4
<1>9. CASE AllocateStep
  <2>1. /\ ~Now.ran /\ Now.pc = "main" /\ m = n /\ SameHeaps(h, g)
    BY <1>1, <1>2, <1>3, <1>4, <1>9 DEF AllocateStep, SameProgram
  <2>2. PICK id \in Slots, q \in Requests, at \in Address, next \in Address :
            /\ Takes(id, q, at, next)
            /\ \/ Now'.pc = "exiting" /\ C = B
               \/ /\ next < h.slot[id].end
                  /\ C = B \cup {Got(id, q, at, n)}
    BY <1>1, <1>3, <1>4, <1>9, <2>1 DEF AllocateStep
  <2>3. /\ SlotsApart(h) /\ \A b \in B : Kept(h, b, n) /\ Below(h, b, n)
        /\ \A b, c \in B : b # c => Apart(b, c)
    BY <1>5, <2>1
  <2>4. SlotsApart(g) /\ \A b \in B : Kept(g, b, n)
    <3>1. \A b \in B : b.level <= n
      BY <2>3 DEF Kept
    <3> QED
      BY <2>1, <2>3, <3>1, BoundsStay
  <2>5. CASE Now'.pc = "exiting" /\ C = B
    BY <2>1, <2>3, <2>4, <2>5
  <2>6. CASE next < h.slot[id].end /\ C = B \cup {Got(id, q, at, n)}
    <3>1. Between(h.slot[id])
      BY <1>1, <2>1, PositionedParts DEF Working
    <3>2. /\ at = AlignUp(h.slot[id].pos, q.align) + q.mis
          /\ next = at + q.len
          /\ h.slot[id].pos <= at
      BY <1>1, <2>1, <2>2, <2>6, <3>1, NoWrapInMalloc
    <3>3. PICK len \in Nat, align \in Nat, mis \in Nat : len = q.len /\ align = q.align /\ mis = q.mis
      BY ProgramAssumption
    <3>4. PICK b : b = Got(id, q, at, n)
      OBVIOUS
    <3>5. at \in Nat /\ next \in Nat
      BY HeapAssumption DEF Address
    <3>6. /\ b \in Block
          /\ b.heap = id /\ b.at = at /\ b.len = len /\ b.align = align /\ b.mis = mis /\ b.level = n
      BY <3>3, <3>4, <3>5 DEF Got, Block
    <3>7. PICK pos \in Nat, start \in Nat, end \in Nat :
              pos = h.slot[id].pos /\ start = h.slot[id].start /\ end = h.slot[id].end
      BY SlotNumbers
    <3>8. Aligned(b)
      <4>1. PICK up \in Nat : up = AlignUp(pos, align) /\ (align # 0 => up % align = 0)
        BY AlignUpIsUp
      <4>2. at - mis = up
        BY <3>2, <3>3, <3>7, <4>1
      <4> QED
        BY <3>6, <4>1, <4>2 DEF Aligned
    <3>9. start <= pos
      BY <3>1, <3>7, SlotNumbers DEF Between
    <3>10. id < h.num /\ g = [h EXCEPT !.slot[id].pos = next]
      BY <1>1, <1>2, <2>2 DEF Takes
    <3>11. Kept(h, b, n)
      BY <2>6, <3>2, <3>3, <3>5, <3>6, <3>7, <3>8, <3>9, <3>10 DEF Kept
    <3>12. Kept(g, b, n)
      BY <2>1, <3>6, <3>11, BoundsStay DEF Kept
    <3>13. /\ g.slot[id].pos = next /\ g.slot[id].save = h.slot[id].save
           /\ \A j \in Slots : j # id => g.slot[j] = h.slot[j]
      <4>1. /\ g.slot[id] = [h.slot[id] EXCEPT !.pos = next]
            /\ \A j \in Slots : j # id => g.slot[j] = h.slot[j]
        BY <3>10 DEF AllHeaps
      <4>2. h.slot[id] \in HeapRecord
        BY SlotNumbers
      <4> QED
        BY <4>1, <4>2 DEF HeapRecord
    <3>14. Below(g, b, n)
      BY <3>2, <3>3, <3>5, <3>6, <3>13 DEF Below
    <3>15. ASSUME NEW c \in B PROVE Below(g, c, n)
      <4>1. Below(h, c, n) /\ c.at \in Nat /\ c.len \in Nat /\ c.heap \in Slots
        BY <2>3 DEF Block
      <4>2. CASE c.heap = id
        <5>1. c.at + c.len <= pos
          BY <3>7, <4>1, <4>2 DEF Below
        <5>2. c.at + c.len <= next
          BY <3>2, <3>3, <3>5, <3>7, <4>1, <5>1
        <5> QED
          BY <3>13, <4>1, <4>2, <5>2 DEF Below
      <4>3. CASE c.heap # id
        BY <3>13, <4>1, <4>3 DEF Below
      <4> QED
        BY <4>2, <4>3
    <3>16. ASSUME NEW c \in B PROVE Apart(b, c) /\ Apart(c, b)
      <4>1. h.slot[b.heap].pos <= b.at
        BY <3>2, <3>6
      <4>2. Kept(h, c, n) /\ Below(h, c, n)
        BY <2>3
      <4> QED
        BY <2>3, <3>6, <3>11, <4>1, <4>2, NewBlockIsApart
    <3>17. C = B \cup {b}
      BY <2>6, <3>4
    <3> QED
      BY <2>1, <2>3, <2>4, <3>12, <3>14, <3>15, <3>16, <3>17
  <2> QED
    BY <2>2, <2>5, <2>6
<1>10. CASE SaveStep
  <2>1. /\ ~Now.ran /\ Now.pc = "main" /\ g = UpdateHeaps(h, TRUE) /\ C = B
        /\ m = n + 1
    BY <1>1, <1>2, <1>3, <1>4, <1>10 DEF SaveStep, SameProgram
  <2>2. /\ SameHeaps(h, g)
        /\ \A i \in Slots :
              i < h.num => (g.slot[i].pos = h.slot[i].pos /\ g.slot[i].save = h.slot[i].pos)
    BY <2>1, UpdateTypes
  <2>3. /\ SlotsApart(h) /\ \A b \in B : Kept(h, b, n) /\ Below(h, b, n)
        /\ \A b, c \in B : b # c => Apart(b, c)
    BY <1>5, <2>1
  <2>4. ASSUME NEW b \in B PROVE Kept(g, b, m) /\ Below(g, b, m)
    <3>1. b.level <= n /\ b.heap < h.num /\ b.at + b.len <= h.slot[b.heap].pos
      BY <2>3 DEF Kept, Below
    <3>2. b.level \in Nat /\ b.heap \in Slots
      BY DEF Block
    <3>3. b.level <= m
      BY <2>1, <3>1, <3>2
    <3> QED
      BY <2>2, <2>3, <3>1, <3>2, <3>3, BoundsStay DEF Below
  <2> QED
    BY <2>1, <2>2, <2>3, <2>4, BoundsStay
<1>11. CASE RestoreStep
  <2>1. /\ ~Now.ran /\ Now.pc = "main" /\ g = UpdateHeaps(h, FALSE)
        /\ C = {b \in B : b.level < n}
        /\ m = n - 1
    BY <1>1, <1>2, <1>3, <1>4, <1>11 DEF RestoreStep, SameProgram
  <2>2. /\ SameHeaps(h, g)
        /\ \A i \in Slots :
              i < h.num => (g.slot[i].pos = h.slot[i].save /\ g.slot[i].save = h.slot[i].save)
    BY <2>1, UpdateTypes
  <2>3. /\ SlotsApart(h) /\ \A b \in B : Kept(h, b, n) /\ Below(h, b, n)
        /\ \A b, c \in B : b # c => Apart(b, c)
    BY <1>5, <2>1
  <2>4. ASSUME NEW b \in B, b.level < n PROVE Kept(g, b, m) /\ Below(g, b, m)
    <3>1. b.heap < h.num /\ b.at + b.len <= h.slot[b.heap].save
      BY <2>3, <2>4 DEF Kept, Below
    <3>2. b.level \in Nat /\ b.heap \in Slots
      BY DEF Block
    <3>3. b.level <= m
      BY <2>1, <2>4, <3>2
    <3> QED
      BY <2>2, <2>3, <3>1, <3>2, <3>3, BoundsStay DEF Below
  <2> QED
    BY <2>1, <2>2, <2>3, <2>4, BoundsStay
<1> QED
  BY <1>6, <1>7, <1>8, <1>9, <1>10, <1>11 DEF HeapStep

LEMMA HeldIsInvariant ==
    NoWrap /\ Distinct => (Spec => []Held)
<1> SUFFICES ASSUME NoWrap, Distinct PROVE Spec => []Held
  OBVIOUS
<1>1. Init => Held
  <2> SUFFICES ASSUME Init PROVE Held
    OBVIOUS
  <2>1. info.heaps = NoHeaps /\ Now.blocks = {}
    BY AtFirstNoHeaps
  <2>2. \A i \in Slots : NoHeaps.slot[i].start = 0 /\ NoHeaps.slot[i].end = 0
    BY NoHeapsTypes DEF NoHeap
  <2>3. SlotsApart(NoHeaps)
    BY <2>2 DEF SlotsApart, Disjoint
  <2> QED
    BY <2>1, <2>3, HeldParts
<1>2. /\ Control /\ Control' /\ Slotted /\ Positioned /\ Held /\ [Next]_vars
      => Held'
  BY EveryStep, HeldIsInductive
<1> QED
  BY <1>1, <1>2, ControlIsInvariant, SlottedIsInvariant, PositionedIsInvariant, PTL DEF Spec

\* A block that is kept is found in its own heap.
LEMMA KeptIsInside ==
    ASSUME NEW h \in AllHeaps, SlotsApart(h), NEW b \in Block, NEW n \in Nat, Kept(h, b, n)
    PROVE  HeapByAddr(h, b.at) = b.heap /\ b.at + b.len <= h.slot[b.heap].end
<1>1. PICK id \in Slots, at \in Nat, len \in Nat : id = b.heap /\ at = b.at /\ len = b.len
  BY DEF Block
<1>2. /\ h.num \in Nat
      /\ \A i \in Slots : i \in Nat /\ h.slot[i].start \in Nat /\ h.slot[i].end \in Nat
  BY SlotNumbers
<1>3. id < h.num /\ h.slot[id].start <= at /\ at + len < h.slot[id].end
  BY <1>1 DEF Kept
<1> DEFINE found == {i \in Slots : /\ i < h.num
                                   /\ h.slot[i].start <= at /\ at < h.slot[i].end}
<1>4. id \in found
  BY <1>1, <1>2, <1>3
<1>5. \A i \in found : i = id
  <2> SUFFICES ASSUME NEW i \in found, i # id PROVE FALSE
    OBVIOUS
  <2>1. Disjoint(h.slot[i], h.slot[id])
    BY DEF SlotsApart
  <2>2. h.slot[i].start <= at /\ at < h.slot[i].end /\ i \in Slots
    OBVIOUS
  <2> QED
    BY <1>2, <1>3, <2>1, <2>2 DEF Disjoint
<1>6. Min(found) = id
  <2>1. found \in SUBSET Nat
    BY <1>2
  <2> HIDE DEF found
  <2> QED
    BY <1>4, <1>5, <2>1, MinIsLeast
<1>7. HeapByAddr(h, b.at) = id
  BY <1>1, <1>4, <1>6 DEF HeapByAddr
<1>8. at + len <= h.slot[id].end
  BY <1>2, <1>3
<1> QED
  BY <1>1, <1>7, <1>8

\* The blocks a program holds are inside the heap it asked, aligned as it
\* asked and apart from each other, whatever its tests and its saves have
\* given back in between (malloc.c:9, testsuite.c:31), if no allocation wraps
\* around the address space and the heaps of each layout are apart.
THEOREM BlocksAreSound == NoWrap /\ Distinct => (Spec => []BlocksSound)
<1> SUFFICES ASSUME NoWrap, Distinct PROVE Spec => []BlocksSound
  OBVIOUS
<1>1. Control /\ Held => BlocksSound
  <2> SUFFICES ASSUME Control, Held, OwnsInfo(Now), NEW b \in Now.blocks
               PROVE  /\ Inside(b) /\ Aligned(b)
                      /\ \A c \in Now.blocks \ {b} : Apart(b, c)
    BY DEF BlocksSound
  <2>1. PICK h \in AllHeaps : h = info.heaps
    BY NowIsHonest
  <2>2. /\ SlotsApart(h) /\ Kept(h, b, Len(Now.marks))
        /\ \A c \in Now.blocks : b # c => Apart(b, c)
    BY <2>1, HeldParts DEF OwnsInfo
  <2>3. b \in Block /\ Len(Now.marks) \in Nat
    <3>1. Now.blocks \in SUBSET Block /\ Now.marks \in Seq(Saved)
      BY NowIsHonest DEF Activation
    <3> QED
      BY <3>1
  <2>4. Inside(b)
    <3>1. PICK n \in Nat : n = Len(Now.marks)
      BY <2>3
    <3>2. HeapByAddr(h, b.at) = b.heap /\ b.at + b.len <= h.slot[b.heap].end
      BY <2>2, <2>3, <3>1, KeptIsInside
    <3> QED
      BY <2>1, <3>2 DEF Inside
  <2> QED
    BY <2>2, <2>4 DEF Kept
<1> QED
  BY <1>1, ControlIsInvariant, HeldIsInvariant, PTL

=============================================================================
