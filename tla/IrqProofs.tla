------------------------------ MODULE IrqProofs ------------------------------
(***************************************************************************)
(* Proofs about the interrupt subsystem, for every number of lines,        *)
(* tables and handlers, all priorities, and however deep interrupts are    *)
(* nested.                                                                 *)
(***************************************************************************)
EXTENDS Irq, SequenceTheorems, FiniteSetTheorems, Arithmetic

-----------------------------------------------------------------------------
(***************************************************************************)
(* The inductive invariant.  A frame of the stack knows only part of what  *)
(* it will find when it is returned to: E, T and P tell, for every frame,  *)
(* the MSR[EE], the `irq_type' and the number of interrupts in service     *)
(* that it left when it was interrupted, and for the topmost what they     *)
(* are.                                                                    *)
(***************************************************************************)

\* The operands of the call a frame is in.
OpOK(op) ==
    /\ op.tbl \in made \cup {NoTable}
    /\ op.tbl = NoTable => op.todo = {}
    /\ op.step \in {"store", "argument", "configure", "adjust"} => op.line \in Line
    /\ op.step = "argument" => op.tbl \in made
    /\ op.step \in {"configure", "adjust"} => op.fetched \in made
    /\ op.then = "scan" => op.step \in {"configure", "adjust"} /\ op.on

\* What is true of the k-th frame, whoever preempts it.
Fits(f, k) ==
    /\ k = 1 => f.kind = "main" /\ f.at = "program"
    /\ k # 1 => f.kind \in Class /\ f.at # "program"
    /\ f.at = "epilogue" => f.kind = "critical"
    /\ f.at \notin {"program", "handler"} => f.op = NoCall
    /\ OpOK(f.op)
    /\ f.tbl \in made \cup {NoTable}

Shapes == \A k \in 1 .. Depth : Fits(stack[k], k)

\* The call is within RUMBOOT_ATOMIC_BLOCK().
Atomic(op) ==
    op.step \in {"store", "argument", "switch", "scan"} \/ op.then = "scan"

\* MSR[EE] is e in frame f, and will be when its call returns.
Mask(f, e) ==
    /\ f.kind = "main" => (e <=> ~Atomic(f.op)) /\ (Atomic(f.op) => f.op.ee)
    /\ f.kind = "normal" => ~e /\ ~f.op.ee
    /\ f.kind = "critical" => (e \/ f.op.ee => f.saved.ee)

Serving == {"lookup", "handler", "account", "end"}
Typed   == Serving \cup {"begin", "leave"}
Starting == {"enter", "classify", "begin"}

Acked(f) == f.at \in Serving /\ f.line # Spurious

\* A frame and the one it has interrupted.
Link(k, E, T, P) ==
    LET f == stack[k] IN
    /\ f.kind = "critical" =>
           f.saved.to = k - 1 /\ f.saved.ee = E[k - 1] /\ f.saved.ce
    /\ f.kind = "normal" => E[k - 1] /\ srr.to = k - 1 /\ srr.ee /\ srr.ce
    /\ f.at \in Typed => f.prev = T[k - 1]
    /\ f.at \notin Typed => T[k] = T[k - 1]
    /\ f.at = "begin" => T[k] = "normal"
    /\ ~Acked(f) => P[k] = P[k - 1]
    /\ Acked(f) => /\ P[k] = P[k - 1] + 1
                   /\ service[P[k]].line = f.line /\ service[P[k]].class = T[k]
    /\ f.kind = "critical" /\ f.at = "rfi" => csrr = f.saved \/ csrr.to >= k
    /\ f.kind = "critical" /\ f.at \in Starting =>
           k = Depth /\ ~ee /\ ~ce /\ csrr = f.saved

Nest(E, T, P) ==
    /\ E \in [1 .. Depth -> BOOLEAN] /\ T \in [1 .. Depth -> IrqType]
    /\ P \in [1 .. Depth -> Nat]
    /\ panic # "lost" => (E[Depth] <=> ee)
    /\ T[Depth] = type /\ P[Depth] = Len(service)
    /\ T[1] = "notirq" /\ P[1] = 0
    /\ \A k \in 1 .. Depth : Mask(stack[k], E[k])
    /\ \A k \in 2 .. Depth : Link(k, E, T, P)
    /\ \A k \in 1 .. Depth : E[k] => \A j \in 1 .. k : stack[j].kind # "normal"
    /\ \A k \in 1 .. Depth : \A j \in 1 .. k : P[j] <= P[k]

Core ==
    /\ panic # "lost" => (ee \/ Top.op.ee => ce) /\ (Top.kind # "critical" => ce)
    /\ panic = "lost" => Top.kind = "critical" /\ Top.at = "rfi"

Nested ==
    \E E \in [1 .. Depth -> BOOLEAN], T \in [1 .. Depth -> IrqType],
       P \in [1 .. Depth -> Nat] : Nest(E, T, P)

-----------------------------------------------------------------------------
(* How the stack changes.                                                  *)

LEMMA StackType ==
    ASSUME stack \in Seq(Frame), stack # << >>
    PROVE  /\ Depth \in Nat \ {0} /\ Top \in Frame
           /\ \A k \in 1 .. Depth : stack[k] \in Frame
BY EmptySeq, LenProperties, ElementOfSeq DEF Depth, Top

\* The topmost frame is replaced.
LEMMA Replaced ==
    ASSUME stack \in Seq(Frame), stack # << >>, NEW f \in Frame, Now(f)
    PROVE  /\ stack' \in Seq(Frame) /\ stack' # << >>
           /\ Depth' = Depth /\ Top' = f
           /\ \A k \in 1 .. Depth - 1 : stack'[k] = stack[k]
           /\ stack'[Depth] = f
<1>1. Depth \in Nat \ {0} /\ Depth \in 1 .. Depth
  BY StackType
<1>2. /\ stack' \in Seq(Frame) /\ Len(stack') = Len(stack)
      /\ \A j \in 1 .. Len(stack) : stack'[j] = IF j = Depth THEN f ELSE stack[j]
  BY <1>1, ExceptSeq DEF Now, Depth
<1>3. stack' # << >>
  BY <1>1, <1>2, EmptySeq DEF Depth
<1> QED
  BY <1>1, <1>2, <1>3 DEF Depth, Top

\* A frame is pushed.
LEMMA Pushed ==
    ASSUME stack \in Seq(Frame), stack # << >>, NEW f \in Frame, stack' = Append(stack, f)
    PROVE  /\ stack' \in Seq(Frame) /\ stack' # << >>
           /\ Depth' = Depth + 1 /\ Top' = f
           /\ \A k \in 1 .. Depth : stack'[k] = stack[k]
           /\ stack'[Depth + 1] = f
BY StackType, AppendProperties DEF Depth, Top

\* The topmost frame is popped.
LEMMA Popped ==
    ASSUME stack \in Seq(Frame), stack # << >>, Depth > 1,
           stack' = SubSeq(stack, 1, Depth - 1)
    PROVE  /\ stack' \in Seq(Frame) /\ stack' # << >>
           /\ Depth' = Depth - 1 /\ Top' = stack[Depth - 1]
           /\ \A k \in 1 .. Depth - 1 : stack'[k] = stack[k]
<1>1. Depth \in Nat \ {0} /\ \A k \in 1 .. Depth - 1 : stack[k] \in Frame
  BY StackType
<1>2. /\ stack' \in Seq(Frame) /\ Len(stack') = Depth - 1
      /\ \A i \in 1 .. Depth - 1 : stack'[i] = stack[i]
  BY <1>1, SubSeqProperties
<1>3. stack' # << >>
  BY <1>1, <1>2, EmptySeq
<1> QED
  BY <1>1, <1>2, <1>3 DEF Depth, Top

-----------------------------------------------------------------------------
(* How the nesting is kept.                                                *)

\* The topmost frame goes on.
LEMMA TopGoesOn ==
    ASSUME stack \in Seq(Frame), stack # << >>, Shapes, NEW E, NEW T, NEW P, Nest(E, T, P),
           NEW d, d = Depth, NEW f \in Frame, Now(f),
           panic # "lost", panic' # "lost",
           ee' \in BOOLEAN, type' \in IrqType, Len(service') \in Nat,
           f.kind = Top.kind, f.saved = Top.saved, Mask(f, ee'),
           d = 1 => type' = "notirq" /\ Len(service') = 0,
           d > 1 =>
               /\ f.at \in Typed => f.prev = T[d - 1]
               /\ f.at \notin Typed => type' = T[d - 1]
               /\ f.at = "begin" => type' = "normal"
               /\ ~Acked(f) => Len(service') = P[d - 1]
               /\ Acked(f) =>
                      /\ Len(service') = P[d - 1] + 1
                      /\ service'[Len(service')].line = f.line
                      /\ service'[Len(service')].class = type'
               /\ f.kind = "critical" /\ f.at = "rfi" => csrr' = f.saved
               /\ f.kind = "critical" /\ f.at \in Starting =>
                      ~ee' /\ ~ce' /\ csrr' = f.saved,
           srr' = srr,
           csrr'.to \in Nat, csrr' = csrr \/ csrr'.to >= d - 1,
           \A k \in 2 .. d - 1 : Acked(stack[k]) => service'[P[k]] = service[P[k]]
    PROVE  Nested'
<1>1. d \in Nat \ {0} /\ d \in 1 .. d
  BY StackType
<1>2. /\ Depth' = d /\ stack'[d] = f /\ stack[d] = Top
      /\ \A k \in 1 .. d - 1 : stack'[k] = stack[k]
  BY Replaced DEF Top
<1>3. PICK e \in BOOLEAN, t \in IrqType, p \in Nat :
          e = ee' /\ t = type' /\ p = Len(service')
  OBVIOUS
<1>4. PICK F \in [1 .. d -> BOOLEAN] : F = [E EXCEPT ![d] = e]
  BY <1>1 DEF Nest
<1>5. PICK U \in [1 .. d -> IrqType] : U = [T EXCEPT ![d] = t]
  BY <1>1 DEF Nest
<1>6. PICK Q \in [1 .. d -> Nat] : Q = [P EXCEPT ![d] = p]
  BY <1>1 DEF Nest
<1>7. /\ F[d] = e /\ \A k \in 1 .. d - 1 : F[k] = E[k]
      /\ U[d] = t /\ \A k \in 1 .. d - 1 : U[k] = T[k]
      /\ Q[d] = p /\ \A k \in 1 .. d - 1 : Q[k] = P[k]
  BY <1>1, <1>4, <1>5, <1>6 DEF Nest
<1> HIDE <1>4, <1>5, <1>6
<1>8. U[1] = "notirq" /\ Q[1] = 0
  BY <1>1, <1>3, <1>7 DEF Nest
<1>9. \A k \in 1 .. d : Mask(stack'[k], F[k])
  <2>1. Mask(stack'[d], F[d])
    BY <1>2, <1>3, <1>7
  <2>2. ASSUME NEW k \in 1 .. d - 1
        PROVE  Mask(stack'[k], F[k])
    BY <1>1, <1>2, <1>7 DEF Nest
  <2> QED
    BY <1>1, <2>1, <2>2
<1>0. d > 1 => f.kind \in Class
  BY <1>1, <1>2 DEF Shapes, Fits
<1>10. d > 1 => /\ f.kind = "critical" =>
                       f.saved.to = d - 1 /\ f.saved.ee = E[d - 1] /\ f.saved.ce
                /\ f.kind = "normal" => E[d - 1] /\ srr.to = d - 1 /\ srr.ee /\ srr.ce
  BY <1>1, <1>2 DEF Nest, Link
<1>11. ASSUME NEW k \in 2 .. d
       PROVE  Link(k, F, U, Q)'
  <2>1. CASE k = d
    <3>1. d > 1 /\ d - 1 \in 1 .. d - 1
      BY <1>1, <2>1
    <3>2. /\ F[d - 1] = E[d - 1] /\ U[d - 1] = T[d - 1] /\ Q[d - 1] = P[d - 1]
          /\ U[d] = type' /\ Q[d] = Len(service')
      BY <1>3, <1>7, <3>1
    <3> QED
      BY <1>2, <1>10, <2>1, <3>1, <3>2 DEF Link
  <2>2. CASE k < d
    <3>1. Link(k, E, T, P) /\ k \in 2 .. d - 1 /\ k - 1 \in 1 .. d - 1 /\ k \in 1 .. d - 1
      BY <1>1, <2>2 DEF Nest
    <3>2. /\ stack'[k] = stack[k] /\ F[k - 1] = E[k - 1] /\ U[k - 1] = T[k - 1]
          /\ U[k] = T[k] /\ Q[k] = P[k] /\ Q[k - 1] = P[k - 1]
      BY <1>2, <1>7, <3>1
    <3>3. csrr' = csrr \/ csrr'.to >= k
      BY <1>1, <2>2
    <3>4. ~(stack[k].kind = "critical" /\ stack[k].at \in Starting)
      BY <2>2, <3>1 DEF Link
    <3>5. Acked(stack[k]) => service'[P[k]] = service[P[k]]
      BY <3>1
    <3>6. srr' = srr
      OBVIOUS
    <3> QED
      BY <3>1, <3>2, <3>3, <3>4, <3>5, <3>6 DEF Link
  <2> QED
    BY <1>1, <2>1, <2>2
<1>a. \A k \in 1 .. d : E[k] => \A j \in 1 .. k : stack[j].kind # "normal"
  BY DEF Nest
<1>12. \A k \in 1 .. d : F[k] => \A j \in 1 .. k : stack'[j].kind # "normal"
  <2>1. ASSUME NEW k \in 1 .. d - 1, F[k], NEW j \in 1 .. k
        PROVE  stack'[j].kind # "normal"
    <3>1. k \in 1 .. d /\ j \in 1 .. d - 1
      BY <1>1
    <3>2. E[k] /\ stack'[j] = stack[j]
      BY <1>2, <1>7, <2>1, <3>1
    <3> QED
      BY <1>a, <3>1, <3>2
  <2>2. ASSUME e, NEW j \in 1 .. d
        PROVE  stack'[j].kind # "normal"
    <3>1. f.kind # "normal"
      BY <1>3, <2>2 DEF Mask
    <3>2. CASE j = d
      BY <1>2, <3>1, <3>2
    <3>3. CASE j < d
      <4>1. d > 1 /\ d - 1 \in 1 .. d - 1 /\ j \in 1 .. d - 1
        BY <1>1, <3>3
      <4>2. f.kind = "critical" => E[d - 1]
        BY <1>3, <1>10, <2>2, <4>1 DEF Mask
      <4>3. CASE f.kind = "critical"
        <5>1. d - 1 \in 1 .. d /\ j \in 1 .. d - 1 /\ stack'[j] = stack[j]
          BY <1>1, <1>2, <4>1
        <5> QED
          BY <1>a, <4>2, <4>3, <5>1
      <4>4. CASE f.kind # "critical"
        BY <1>0, <3>1, <4>1, <4>4 DEF Class
      <4> QED
        BY <4>3, <4>4
    <3> QED
      BY <1>1, <3>2, <3>3
  <2> QED
    BY <1>1, <1>7, <2>1, <2>2
<1>13. \A k \in 1 .. d : \A j \in 1 .. k : Q[j] <= Q[k]
  <2>1. d > 1 => p >= P[d - 1]
    BY <1>1, <1>3 DEF Nest
  <2>2. ASSUME NEW k \in 1 .. d, NEW j \in 1 .. k
        PROVE  Q[j] <= Q[k]
    <3>1. CASE k < d
      <4>1. k \in 1 .. d - 1 /\ j \in 1 .. d - 1
        BY <1>1, <3>1
      <4> QED
        BY <1>1, <1>7, <4>1 DEF Nest
    <3>2. CASE k = d /\ j < d
      <4>1. d > 1 /\ d - 1 \in 1 .. d /\ j \in 1 .. d - 1
        BY <1>1, <3>2
      <4>2. P[j] <= P[d - 1] /\ P[j] \in Nat /\ P[d - 1] \in Nat
        BY <1>1, <4>1 DEF Nest
      <4> QED
        BY <1>7, <2>1, <3>2, <4>1, <4>2
    <3>3. CASE k = d /\ j = d
      BY <1>7, <3>3
    <3> QED
      BY <1>1, <3>1, <3>2, <3>3
  <2> QED
    BY <2>2
<1>14. Nest(F, U, Q)'
  BY <1>2, <1>3, <1>7, <1>8, <1>9, <1>11, <1>12, <1>13 DEF Nest
<1> QED
  BY <1>2, <1>14 DEF Nested

\* Nothing that the nesting is about changes, or the core is lost.
LEMMA NestStays ==
    ASSUME NEW E, NEW T, NEW P, Nest(E, T, P), stack \in Seq(Frame), stack # << >>,
           UNCHANGED <<stack, srr, csrr, type, service>>,
           \/ panic # "lost" /\ panic' # "lost" /\ UNCHANGED <<ee, ce>>
           \/ panic' = "lost" /\ Top.at = "rfi"
    PROVE  Nest(E, T, P)'
<1>1. Depth' = Depth /\ Depth \in Nat \ {0} /\ Top = stack[Depth]
  BY StackType DEF Depth, Top
<1>2. ASSUME NEW k \in 2 .. Depth
      PROVE  Link(k, E, T, P)'
  <2>1. Link(k, E, T, P)
    BY DEF Nest
  <2>2. stack[k].kind = "critical" /\ stack[k].at \in Starting => UNCHANGED <<ee, ce>>
    BY <1>1, <2>1 DEF Link, Starting
  <2> QED
    BY <1>1, <2>1, <2>2 DEF Link
<1>3. panic' # "lost" => (E[Depth] <=> ee')
  BY DEF Nest
<1> QED
  BY <1>1, <1>2, <1>3 DEF Nest

\* An interrupt is taken.
LEMMA FramePushed ==
    ASSUME stack \in Seq(Frame), stack # << >>, NEW E, NEW T, NEW P, Nest(E, T, P),
           NEW f \in Frame, stack' = Append(stack, f),
           panic # "lost", panic' # "lost",
           f.kind \in Class, f.at = "enter", f.op = NoCall, ee' = FALSE,
           UNCHANGED <<type, service>>, type \in IrqType, Len(service) \in Nat,
           ee \in BOOLEAN, ce, csrr.to \in Nat,
           f.kind = "normal" =>
               /\ ee /\ srr'.to = Depth /\ srr'.ee /\ srr'.ce
               /\ UNCHANGED <<ce, csrr>>,
           f.kind = "critical" =>
               /\ ce' = FALSE /\ csrr' = f.saved
               /\ f.saved.to = Depth /\ f.saved.ee = ee /\ f.saved.ce
               /\ UNCHANGED srr
    PROVE  Nested'
<1>1. PICK d \in Nat \ {0} : d = Depth
  BY StackType
<1>2. /\ Depth' = d + 1 /\ stack'[d + 1] = f
      /\ \A k \in 1 .. d : stack'[k] = stack[k]
  BY <1>1, Pushed
<1>3. /\ E \in [1 .. d -> BOOLEAN] /\ T \in [1 .. d -> IrqType] /\ P \in [1 .. d -> Nat]
      /\ (E[d] <=> ee) /\ T[d] = type /\ P[d] = Len(service)
      /\ T[1] = "notirq" /\ P[1] = 0
  BY <1>1 DEF Nest
<1> DEFINE F == [k \in 1 .. d + 1 |-> IF k <= d THEN E[k] ELSE FALSE]
           U == [k \in 1 .. d + 1 |-> IF k <= d THEN T[k] ELSE T[d]]
           Q == [k \in 1 .. d + 1 |-> IF k <= d THEN P[k] ELSE P[d]]
<1>4. \A k \in 1 .. d + 1 : k \in 1 .. d \/ (~(k <= d) /\ k = d + 1)
  BY <1>1
<1>5. d \in 1 .. d /\ d + 1 \in 1 .. d + 1 /\ ~(d + 1 <= d)
      /\ \A k \in 1 .. d : k <= d /\ k \in 1 .. d + 1
  BY <1>1
<1>6. /\ F \in [1 .. d + 1 -> BOOLEAN] /\ U \in [1 .. d + 1 -> IrqType]
      /\ Q \in [1 .. d + 1 -> Nat]
  <2>1. F \in [1 .. d + 1 -> BOOLEAN]
    BY <1>3, <1>4
  <2>2. U \in [1 .. d + 1 -> IrqType]
    BY <1>3, <1>4, <1>5
  <2>3. Q \in [1 .. d + 1 -> Nat]
    BY <1>3, <1>4, <1>5
  <2> QED
    BY <2>1, <2>2, <2>3
<1>7. /\ ~F[d + 1] /\ \A k \in 1 .. d : F[k] = E[k]
      /\ U[d + 1] = T[d] /\ \A k \in 1 .. d : U[k] = T[k]
      /\ Q[d + 1] = P[d] /\ \A k \in 1 .. d : Q[k] = P[k]
  BY <1>5
<1> HIDE DEF F, U, Q
<1>8. \A k \in 1 .. d + 1 : Mask(stack'[k], F[k])
  <2>1. Mask(f, F[d + 1])
    BY <1>7 DEF Mask, Class, NoCall
  <2>2. \A k \in 1 .. d : Mask(stack'[k], F[k])
    BY <1>1, <1>2, <1>7 DEF Nest
  <2> QED
    BY <1>2, <1>4, <2>1, <2>2
<1>9. \A k \in 1 .. d : E[k] => \A j \in 1 .. k : stack[j].kind # "normal"
  BY <1>1 DEF Nest
<1>10. ASSUME NEW k \in 2 .. d + 1
       PROVE  Link(k, F, U, Q)'
  <2>1. CASE k = d + 1
    <3>1. k - 1 = d /\ d \in 1 .. d /\ k = Depth'
      BY <1>1, <1>2, <2>1, SMTT(20)
    <3>2. /\ F[k - 1] = E[d] /\ U[k - 1] = T[d] /\ Q[k - 1] = P[d]
          /\ U[k] = T[d] /\ Q[k] = P[d]
      BY <1>7, <2>1, <3>1
    <3>3. f.at \notin Typed /\ ~Acked(f) /\ f.at # "begin" /\ f.at # "rfi"
      BY DEF Typed, Serving, Acked
    <3>4. f.kind = "critical" =>
              /\ f.saved.to = k - 1 /\ f.saved.ee = F[k - 1] /\ f.saved.ce
              /\ k = Depth' /\ ~ee' /\ ~ce' /\ csrr' = f.saved
      <4>1. d \in 1 .. d /\ E[d] = ee
        BY <1>3, <3>1
      <4> QED
        BY <1>1, <3>1, <3>2, <4>1
    <3>5. f.kind = "normal" => F[k - 1] /\ srr'.to = k - 1 /\ srr'.ee /\ srr'.ce
      BY <1>1, <1>3, <3>1, <3>2
    <3> QED
      BY <1>2, <2>1, <3>2, <3>3, <3>4, <3>5 DEF Link
  <2>2. CASE k <= d
    <3>1. Link(k, E, T, P) /\ k \in 2 .. d /\ k - 1 \in 1 .. d /\ k \in 1 .. d
      BY <1>1, <2>2 DEF Nest
    <3>2. /\ stack'[k] = stack[k] /\ F[k - 1] = E[k - 1] /\ U[k - 1] = T[k - 1]
          /\ U[k] = T[k] /\ Q[k] = P[k] /\ Q[k - 1] = P[k - 1]
      BY <1>2, <1>7, <3>1
    <3>3. csrr' = csrr \/ csrr'.to >= k
      BY <1>1, <2>2 DEF Class
    <3>4. ~(stack[k].kind = "critical" /\ stack[k].at \in Starting)
      BY <3>1 DEF Link
    <3>5. srr' = srr \/ stack[k].kind # "normal"
      BY <1>3, <1>5, <1>9, <3>1 DEF Class
    <3>6. csrr'.to \in Nat
      BY <1>1 DEF Class
    <3> QED
      BY <3>1, <3>2, <3>3, <3>4, <3>5, <3>6 DEF Link
  <2> QED
    BY <1>1, <2>1, <2>2
<1>11. \A k \in 1 .. d + 1 : F[k] => \A j \in 1 .. k : stack'[j].kind # "normal"
  <2>1. ASSUME NEW k \in 1 .. d + 1, F[k], NEW j \in 1 .. k
        PROVE  stack'[j].kind # "normal"
    <3>1. k \in 1 .. d /\ j \in 1 .. d
      BY <1>1, <1>7, <2>1
    <3> QED
      BY <1>2, <1>7, <1>9, <2>1, <3>1
  <2> QED
    BY <2>1
<1>12. \A k \in 1 .. d + 1 : \A j \in 1 .. k : Q[j] <= Q[k]
  <2>1. \A k \in 1 .. d : \A j \in 1 .. k : P[j] <= P[k]
    BY <1>1 DEF Nest
  <2>2. ASSUME NEW k \in 1 .. d + 1, NEW j \in 1 .. k
        PROVE  Q[j] <= Q[k]
    <3>1. CASE k <= d
      <4>1. k \in 1 .. d /\ j \in 1 .. d
        BY <1>1, <3>1
      <4> QED
        BY <1>7, <2>1, <4>1
    <3>2. CASE k = d + 1 /\ j <= d
      <4>1. d \in 1 .. d /\ j \in 1 .. d
        BY <1>1, <3>2
      <4> QED
        BY <1>7, <2>1, <3>2, <4>1
    <3>3. CASE k = d + 1 /\ j = d + 1
      BY <1>3, <1>7, <3>3
    <3> QED
      BY <1>1, <3>1, <3>2, <3>3
  <2> QED
    BY <2>2
<1>13. U[1] = "notirq" /\ Q[1] = 0 /\ ~ee'
  BY <1>1, <1>3, <1>7
<1>14. Nest(F, U, Q)'
  BY <1>2, <1>3, <1>6, <1>7, <1>8, <1>10, <1>11, <1>12, <1>13 DEF Nest
<1> QED
  BY <1>2, <1>6, <1>14 DEF Nested

\* An interrupt returns.
LEMMA FramePopped ==
    ASSUME stack \in Seq(Frame), stack # << >>, NEW E, NEW T, NEW P, Nest(E, T, P),
           NEW d, d = Depth, d > 1, stack' = SubSeq(stack, 1, d - 1), Top.at = "rfi",
           panic # "lost", panic' # "lost", ee' = E[d - 1],
           UNCHANGED <<srr, csrr, type, service>>
    PROVE  Nested'
<1>1. d \in Nat \ {0} /\ d - 1 \in 1 .. d /\ d \in 1 .. d /\ d \in 2 .. d
  BY StackType
<1>2. Depth' = d - 1 /\ \A k \in 1 .. d - 1 : stack'[k] = stack[k]
  BY Popped
<1>3. /\ E \in [1 .. d -> BOOLEAN] /\ T \in [1 .. d -> IrqType] /\ P \in [1 .. d -> Nat]
      /\ T[d] = type /\ P[d] = Len(service) /\ T[1] = "notirq" /\ P[1] = 0
  BY DEF Nest
<1>4. Link(d, E, T, P) /\ stack[d] = Top
  BY <1>1 DEF Nest, Top
<1>5. T[d - 1] = type /\ P[d - 1] = Len(service)
  BY <1>3, <1>4 DEF Link, Typed, Serving, Acked
<1> DEFINE F == [k \in 1 .. d - 1 |-> E[k]]
           U == [k \in 1 .. d - 1 |-> T[k]]
           Q == [k \in 1 .. d - 1 |-> P[k]]
<1>6. \A k \in 1 .. d - 1 : k \in 1 .. d
  BY <1>1
<1>7. /\ F \in [1 .. d - 1 -> BOOLEAN] /\ U \in [1 .. d - 1 -> IrqType]
      /\ Q \in [1 .. d - 1 -> Nat]
  BY <1>3, <1>6
<1>9. \A k \in 1 .. d - 1 : F[k] = E[k] /\ U[k] = T[k] /\ Q[k] = P[k]
  OBVIOUS
<1> HIDE DEF F, U, Q
<1>10. ASSUME NEW k \in 2 .. d - 1
       PROVE  Link(k, F, U, Q)'
  <2>1. Link(k, E, T, P) /\ k - 1 \in 1 .. d - 1 /\ k \in 1 .. d - 1 /\ k # d
    BY <1>1 DEF Nest
  <2>2. /\ stack'[k] = stack[k] /\ F[k - 1] = E[k - 1] /\ U[k - 1] = T[k - 1]
        /\ U[k] = T[k] /\ Q[k] = P[k] /\ Q[k - 1] = P[k - 1]
    BY <1>2, <1>9, <2>1
  <2>3. ~(stack[k].kind = "critical" /\ stack[k].at \in Starting)
    BY <2>1 DEF Link
  <2> QED
    BY <2>1, <2>2, <2>3 DEF Link
<1>11. \A k \in 1 .. d - 1 : Mask(stack'[k], F[k])
  BY <1>1, <1>2, <1>9 DEF Nest
<1>12. \A k \in 1 .. d - 1 : F[k] => \A j \in 1 .. k : stack'[j].kind # "normal"
  <2>1. \A k \in 1 .. d : E[k] => \A j \in 1 .. k : stack[j].kind # "normal"
    BY DEF Nest
  <2>2. ASSUME NEW k \in 1 .. d - 1, F[k], NEW j \in 1 .. k
        PROVE  stack'[j].kind # "normal"
    <3>1. k \in 1 .. d /\ j \in 1 .. d - 1
      BY <1>1
    <3> QED
      BY <1>2, <1>9, <2>1, <2>2, <3>1
  <2> QED
    BY <2>2
<1>13. \A k \in 1 .. d - 1 : \A j \in 1 .. k : Q[j] <= Q[k]
  <2>1. \A k \in 1 .. d : \A j \in 1 .. k : P[j] <= P[k]
    BY DEF Nest
  <2>2. ASSUME NEW k \in 1 .. d - 1, NEW j \in 1 .. k
        PROVE  Q[j] <= Q[k]
    <3>1. k \in 1 .. d /\ j \in 1 .. d - 1
      BY <1>1
    <3> QED
      BY <1>9, <2>1, <3>1
  <2> QED
    BY <2>2
<1>14. Nest(F, U, Q)'
  <2>1. d - 1 \in 1 .. d - 1 /\ 1 \in 1 .. d - 1
    BY <1>1
  <2>2. (F[d - 1] <=> ee') /\ U[d - 1] = type' /\ Q[d - 1] = Len(service')
        /\ U[1] = "notirq" /\ Q[1] = 0
    BY <1>3, <1>5, <1>9, <2>1
  <2> QED
    BY <1>2, <1>7, <2>2, <1>10, <1>11, <1>12, <1>13 DEF Nest
<1> QED
  BY <1>2, <1>7, <1>14 DEF Nested

-----------------------------------------------------------------------------
(* What frames and calls are made of, and the ways they change.            *)

LEMMA FrameFields ==
    ASSUME NEW f \in Frame
    PROVE  /\ f.kind \in {"main"} \cup Class /\ f.at \in Stage /\ f.line \in Vector
           /\ f.tbl \in Ref /\ f.handler \in Handler \cup {NoHandler}
           /\ f.arg \in Handler \cup {NoHandler}
           /\ f.prev \in IrqType /\ f.saved \in State /\ f.op \in Calling
BY DEF Frame

LEMMA FrameGoesTo ==
    ASSUME NEW f \in Frame, NEW a \in Stage, NEW g, g = [f EXCEPT !.at = a]
    PROVE  /\ g \in Frame /\ g.at = a
           /\ g.kind = f.kind /\ g.line = f.line /\ g.tbl = f.tbl /\ g.prev = f.prev
           /\ g.saved = f.saved /\ g.op = f.op
BY DEF Frame

LEMMA FrameCalls ==
    ASSUME NEW f \in Frame, NEW op \in Calling, NEW g, g = [f EXCEPT !.op = op]
    PROVE  /\ g \in Frame /\ g.op = op
           /\ g.at = f.at /\ g.kind = f.kind /\ g.line = f.line /\ g.tbl = f.tbl
           /\ g.handler = f.handler /\ g.arg = f.arg
           /\ g.prev = f.prev /\ g.saved = f.saved
BY DEF Frame

LEMMA CallFields ==
    ASSUME NEW op \in Calling
    PROVE  /\ op.step \in Step /\ op.then \in {"none", "scan"} /\ op.tbl \in Ref
           /\ op.fetched \in Ref /\ op.line \in Vector /\ op.todo \in SUBSET Line
           /\ op.handler \in Handler \cup {NoHandler} /\ op.on \in BOOLEAN
           /\ op.priority \in Nat /\ op.ee \in BOOLEAN
BY DEF Calling

LEMMA NoCallType == NoCall \in Calling /\ NoCall.ee = FALSE /\ ~Atomic(NoCall) /\ OpOK(NoCall)
BY DEF NoCall, Calling, Ref, Vector, Step, Atomic, OpOK

-----------------------------------------------------------------------------
(* The invariant, and what a step of each sort does to it.                 *)

CpuOK == /\ ee \in BOOLEAN /\ ce \in BOOLEAN
         /\ srr \in State /\ csrr \in State

DataOK == /\ table \in [Table -> [Vector -> Entry]]
          /\ made \subseteq Table /\ active \in made \cup {NoTable}

MpicOK == /\ line \in [Line -> [ on : BOOLEAN, priority : Nat ]]
          /\ \A i \in Line : line[i].priority <= MaxPriority
          /\ pending \subseteq Line
          /\ service \in Seq([ line : Line, class : Class, priority : Nat ])

StackOK == stack \in Seq(Frame) /\ stack # << >>

IrqInv ==
    /\ StackOK /\ CpuOK /\ DataOK /\ MpicOK
    /\ type \in IrqType /\ panic \in {"no", "id", "table", "lost"}
    /\ Shapes /\ Core /\ Nested /\ ContextCounts

Counted(f) == f.at \notin {"program", "enter", "epilogue", "rfi"}

LEMMA CountIsBounded ==
    ASSUME NEW s \in Seq(Frame)
    PROVE  /\ IsFiniteSet({ k \in 1 .. Len(s) : Counted(s[k]) })
           /\ Cardinality({ k \in 1 .. Len(s) : Counted(s[k]) }) \in 0 .. Len(s)
<1>1. Len(s) \in Nat
  BY LenProperties
<1>2. IsFiniteSet(1 .. Len(s)) /\ Cardinality(1 .. Len(s)) = Len(s)
  BY <1>1, FS_Interval
<1> DEFINE C == { k \in 1 .. Len(s) : Counted(s[k]) }
<1>3. C \in SUBSET (1 .. Len(s))
  OBVIOUS
<1> HIDE DEF C
<1>4. IsFiniteSet(C) /\ Cardinality(C) <= Cardinality(1 .. Len(s)) /\ Cardinality(C) \in Nat
  BY <1>2, <1>3, FS_Subset, FS_CardinalityType
<1> QED
  BY <1>1, <1>2, <1>4 DEF C

LEMMA InvIsTyped == IrqInv => TypeOK
<1>1. ASSUME IrqInv
      PROVE  TypeOK
  <2>1. context \in 0 .. Len(stack)
    BY <1>1, CountIsBounded DEF IrqInv, StackOK, ContextCounts, Depth, Counted
  <2> QED
    BY <1>1, <2>1 DEF IrqInv, StackOK, CpuOK, DataOK, MpicOK, TypeOK
<1> QED
  BY <1>1

\* The count, when the topmost frame becomes f.
LEMMA CountGoesOn ==
    ASSUME StackOK, ContextCounts, NEW f \in Frame, Now(f),
           \/ Counted(f) /\ ~Counted(Top) /\ context' = context + 1
           \/ ~Counted(f) /\ Counted(Top) /\ context' = context - 1
           \/ (Counted(f) <=> Counted(Top)) /\ context' = context
    PROVE  ContextCounts'
<1>1. /\ Depth' = Depth /\ Depth \in Nat \ {0} /\ Depth \in 1 .. Depth
      /\ \A k \in 1 .. Depth - 1 : stack'[k] = stack[k]
      /\ stack'[Depth] = f /\ Top = stack[Depth]
  BY StackType, Replaced DEF Top, StackOK
<1> DEFINE C == { k \in 1 .. Depth : Counted(stack[k]) }
           D == { k \in 1 .. Depth : Counted(stack'[k]) }
<1>2. IsFiniteSet(C) /\ context = Cardinality(C) /\ Cardinality(C) \in Nat
  BY CountIsBounded, FS_CardinalityType DEF ContextCounts, Counted, Depth, StackOK
<1>3. ASSUME NEW k \in 1 .. Depth, k # Depth
      PROVE  k \in C <=> k \in D
  BY <1>1, <1>3
<1>4. (Depth \in C <=> Counted(Top)) /\ (Depth \in D <=> Counted(f))
  BY <1>1
<1>5. C \subseteq 1 .. Depth /\ D \subseteq 1 .. Depth
  OBVIOUS
<1>6. ContextCounts' <=> context' = Cardinality(D)
  BY <1>1 DEF ContextCounts, Counted
<1> HIDE DEF C, D
<1>7. CASE Counted(f) /\ ~Counted(Top) /\ context' = context + 1
  <2>1. D = C \cup {Depth}
    BY <1>1, <1>3, <1>4, <1>5, <1>7
  <2> QED
    BY <1>2, <1>4, <1>6, <1>7, <2>1, FS_AddElement
<1>8. CASE ~Counted(f) /\ Counted(Top) /\ context' = context - 1
  <2>1. D = C \ {Depth}
    BY <1>1, <1>3, <1>4, <1>5, <1>8
  <2> QED
    BY <1>2, <1>4, <1>6, <1>8, <2>1, FS_RemoveElement
<1>9. CASE (Counted(f) <=> Counted(Top)) /\ context' = context
  <2>1. Depth \in C <=> Depth \in D
    BY <1>4, <1>9
  <2>2. \A k \in 1 .. Depth : k \in C <=> k \in D
    BY <1>3, <2>1
  <2>3. D = C
    BY <1>5, <2>2
  <2> QED
    BY <1>2, <1>6, <1>9, <2>3
<1> QED
  BY <1>7, <1>8, <1>9

LEMMA CountPushed ==
    ASSUME StackOK, ContextCounts, NEW f \in Frame, stack' = Append(stack, f),
           ~Counted(f), context' = context
    PROVE  ContextCounts'
<1>1. /\ Depth' = Depth + 1 /\ Depth \in Nat \ {0} /\ stack'[Depth + 1] = f
      /\ \A k \in 1 .. Depth : stack'[k] = stack[k]
  BY StackType, Pushed DEF StackOK
<1>2. { k \in 1 .. Depth : Counted(stack[k]) } = { k \in 1 .. Depth + 1 : Counted(stack'[k]) }
  <2>1. \A k \in 1 .. Depth + 1 : k \in 1 .. Depth \/ k = Depth + 1
    BY <1>1
  <2>2. \A k \in 1 .. Depth : k \in 1 .. Depth + 1
    BY <1>1
  <2> QED
    BY <1>1, <2>1, <2>2
<1> QED
  BY <1>1, <1>2 DEF ContextCounts, Counted

LEMMA CountPopped ==
    ASSUME StackOK, ContextCounts, Depth > 1, stack' = SubSeq(stack, 1, Depth - 1),
           ~Counted(Top), context' = context
    PROVE  ContextCounts'
<1>1. /\ Depth' = Depth - 1 /\ Depth \in Nat \ {0} /\ Top = stack[Depth]
      /\ \A k \in 1 .. Depth - 1 : stack'[k] = stack[k]
  BY StackType, Popped DEF StackOK, Top
<1>2. { k \in 1 .. Depth : Counted(stack[k]) } = { k \in 1 .. Depth - 1 : Counted(stack'[k]) }
  <2>1. \A k \in 1 .. Depth : k \in 1 .. Depth - 1 \/ k = Depth
    BY <1>1
  <2>2. \A k \in 1 .. Depth - 1 : k \in 1 .. Depth
    BY <1>1
  <2> QED
    BY <1>1, <2>1, <2>2
<1> QED
  BY <1>1, <1>2 DEF ContextCounts, Counted

\* Frames fit when more tables are made.
LEMMA FitsStay ==
    ASSUME NEW f, NEW k, Fits(f, k), made \subseteq made'
    PROVE  Fits(f, k)'
BY DEF Fits, OpOK

LEMMA ShapesGoOn ==
    ASSUME StackOK, Shapes, made \subseteq made', NEW f \in Frame, Now(f),
           NEW d, d = Depth, Fits(f, d)'
    PROVE  Shapes'
<1>1. /\ Depth' = d /\ d \in Nat \ {0} /\ stack'[d] = f
      /\ \A k \in 1 .. d - 1 : stack'[k] = stack[k]
  BY StackType, Replaced DEF StackOK
<1>2. ASSUME NEW k \in 1 .. d
      PROVE  Fits(stack[k], k)'
  <2>1. CASE k = d
    BY <1>1, <2>1
  <2>2. CASE k < d
    <3>1. k \in 1 .. d - 1 /\ Fits(stack[k], k)
      BY <1>1, <2>2 DEF Shapes
    <3>2. PICK g : g = stack[k] /\ g = stack'[k]
      BY <1>1, <3>1
    <3>3. Fits(g, k)'
      BY <3>1, <3>2, FitsStay
    <3> QED
      BY <3>2, <3>3
  <2> QED
    BY <1>1, <2>1, <2>2
<1> QED
  BY <1>1, <1>2 DEF Shapes

\* The topmost frame knows where it is, and what it is.
LEMMA TopFits ==
    ASSUME StackOK, Shapes
    PROVE  /\ Fits(Top, Depth) /\ Depth \in Nat \ {0} /\ Top \in Frame
           /\ Top.at \in {"program", "handler"} \/ Top.op = NoCall
           /\ Top.at = "program" <=> Depth = 1
           /\ Top.kind = "main" <=> Depth = 1
           /\ Depth > 1 => Top.kind \in Class
<1>1. Depth \in Nat \ {0} /\ Depth \in 1 .. Depth /\ Top = stack[Depth] /\ Top \in Frame
  BY StackType DEF StackOK, Top
<1>2. Fits(Top, Depth)
  BY <1>1 DEF Shapes
<1> QED
  BY <1>1, <1>2 DEF Fits, Class

\* A call of irq.c goes on, or begins, or ends.
LEMMA CallGoesOn ==
    ASSUME IrqInv, panic = "no", panic' = "no",
           Top.at \in {"program", "handler"}, NEW op \in Calling,
           Now([Top EXCEPT !.op = op]), OpOK(op)', made \subseteq made',
           UNCHANGED <<ce, srr, csrr, type, service, context>>, ee' \in BOOLEAN,
           Top.kind = "main" => (ee' <=> ~Atomic(op)) /\ (Atomic(op) => op.ee),
           Top.kind # "main" => (ee' \/ op.ee => ee \/ Top.op.ee)
    PROVE  StackOK' /\ Shapes' /\ Core' /\ Nested' /\ ContextCounts'
<1>1. PICK f : f = [Top EXCEPT !.op = op]
  OBVIOUS
<1>2. /\ f \in Frame /\ f.op = op /\ f.at = Top.at /\ f.kind = Top.kind
      /\ f.line = Top.line /\ f.tbl = Top.tbl /\ f.prev = Top.prev /\ f.saved = Top.saved
  BY <1>1, TopFits, FrameCalls DEF IrqInv
<1>3. Now(f)
  BY <1>1
<1>4. PICK E \in [1 .. Depth -> BOOLEAN], T \in [1 .. Depth -> IrqType],
           P \in [1 .. Depth -> Nat] : Nest(E, T, P)
  BY DEF IrqInv, Nested
<1>5. PICK d \in Nat \ {0} : d = Depth
  BY TopFits DEF IrqInv
<1>6. StackOK' /\ Top' = f /\ Depth' = Depth
  BY <1>2, <1>3, Replaced DEF IrqInv, StackOK
<1>7. Shapes'
  <2>1. Fits(Top, d) /\ d \in Nat
    BY <1>5, TopFits DEF IrqInv
  <2>2. Fits(f, d)'
    BY <1>2, <2>1 DEF Fits
  <2> QED
    BY <1>2, <1>3, <1>5, <2>2, ShapesGoOn DEF IrqInv
<1>8. Core'
  <2>1. (ee \/ Top.op.ee => ce) /\ (Top.kind # "critical" => ce)
    BY DEF IrqInv, Core
  <2> QED
    BY <1>2, <1>6, <2>1 DEF Core
<1>9. ContextCounts'
  BY <1>2, <1>3, CountGoesOn DEF IrqInv, Counted
<1>10. Nested'
  <2>1. Mask(Top, E[d]) /\ (E[d] <=> ee) /\ T[d] = type /\ P[d] = Len(service)
    BY <1>4, <1>5 DEF Nest, Top
  <2>2. Mask(f, ee')
    <3>1. f.kind = "main" => (ee' <=> ~Atomic(f.op)) /\ (Atomic(f.op) => f.op.ee)
      BY <1>2
    <3>2. f.kind = "normal" => ~ee' /\ ~f.op.ee
      BY <1>2, <2>1 DEF Mask
    <3>3. f.kind = "critical" => (ee' \/ f.op.ee => f.saved.ee)
      BY <1>2, <2>1 DEF Mask
    <3> QED
      BY <3>1, <3>2, <3>3 DEF Mask
  <2>3. d > 1 => Link(d, E, T, P) /\ stack[d] = Top
    BY <1>4, <1>5 DEF Nest, Top
  <2>4. d = 1 => type = "notirq" /\ Len(service) = 0
    BY <1>4, <1>5 DEF Nest
  <2>5. f.at \notin Starting /\ f.at # "begin" /\ f.at # "rfi"
    BY <1>2 DEF Starting
  <2>6. d > 1 =>
            /\ f.at \in Typed => f.prev = T[d - 1]
            /\ f.at \notin Typed => type' = T[d - 1]
            /\ ~Acked(f) => Len(service') = P[d - 1]
            /\ Acked(f) => /\ Len(service') = P[d - 1] + 1
                           /\ service'[Len(service')].line = f.line
                           /\ service'[Len(service')].class = type'
    <3>1. Acked(f) <=> Acked(Top)
      BY <1>2 DEF Acked
    <3> QED
      BY <1>2, <2>1, <2>3, <3>1 DEF Link
  <2>7. csrr'.to \in Nat /\ Len(service') \in Nat /\ type' \in IrqType
    BY LenProperties DEF IrqInv, CpuOK, MpicOK, State
  <2> QED
    BY <1>2, <1>3, <1>4, <1>5, <2>2, <2>4, <2>5, <2>6, <2>7, TopGoesOn
       DEF IrqInv, StackOK
<1> QED
  BY <1>6, <1>7, <1>8, <1>9, <1>10

\* An interrupt's dispatch goes on.
LEMMA DispatchGoesOn ==
    ASSUME IrqInv, panic = "no", panic' = "no",
           NEW E, NEW T, NEW P, Nest(E, T, P), NEW d, d = Depth,
           Top.at # "program", Top.op = NoCall,
           NEW f \in Frame, Now(f), f.op = NoCall, f.at # "program",
           f.kind = Top.kind, f.saved = Top.saved, f.tbl \in made \cup {NoTable},
           f.at = "epilogue" => f.kind = "critical",
           UNCHANGED <<srr, made>>,
           ee' \in BOOLEAN, type' \in IrqType, Len(service') \in Nat,
           csrr' = csrr \/ csrr'.to = d - 1,
           \/ UNCHANGED <<ee, ce>>
           \/ Top.kind = "critical" /\ ee' = Top.saved.ee /\ ce',
           /\ f.at \in Typed => f.prev = T[d - 1]
           /\ f.at \notin Typed => type' = T[d - 1]
           /\ f.at = "begin" => type' = "normal"
           /\ ~Acked(f) => Len(service') = P[d - 1]
           /\ Acked(f) => /\ Len(service') = P[d - 1] + 1
                          /\ service'[Len(service')].line = f.line
                          /\ service'[Len(service')].class = type'
           /\ f.kind = "critical" /\ f.at = "rfi" => csrr' = f.saved
           /\ f.kind = "critical" /\ f.at \in Starting =>
                  ~ee' /\ ~ce' /\ csrr' = f.saved,
           csrr'.to \in Nat,
           \A n \in 1 .. P[d - 1] : service'[n] = service[n]
    PROVE  StackOK' /\ Shapes' /\ Core' /\ Nested'
<1>1. d \in Nat /\ d > 1 /\ Fits(Top, d) /\ Top.kind \in Class /\ Top = stack[d]
  <2>1. Depth # 1 /\ Depth \in Nat \ {0}
    BY TopFits DEF IrqInv
  <2> QED
    BY <2>1, TopFits DEF IrqInv, Top
<1>2. StackOK' /\ Top' = f /\ Depth' = d
  BY Replaced DEF IrqInv, StackOK
<1>3. Shapes'
  <2>1. Fits(f, d)'
    <3>1. OpOK(NoCall)'
      BY DEF OpOK, NoCall
    <3> QED
      BY <1>1, <3>1 DEF Fits
  <2> QED
    BY <2>1, ShapesGoOn DEF IrqInv
<1>4. Core'
  <2>1. (ee \/ Top.op.ee => ce) /\ (Top.kind # "critical" => ce)
    BY DEF IrqInv, Core
  <2>2. Top'.op.ee = FALSE
    BY <1>2, NoCallType
  <2> QED
    BY <1>2, <2>1, <2>2 DEF Core
<1>5. Mask(f, ee')
  <2>1. Mask(Top, E[d]) /\ (E[d] <=> ee)
    BY <1>1 DEF Nest, Top
  <2>2. f.kind = "normal" => ~ee' /\ ~f.op.ee
    BY <2>1, NoCallType DEF Mask
  <2>3. f.kind = "critical" => (ee' \/ f.op.ee => f.saved.ee)
    BY <2>1, NoCallType DEF Mask
  <2> QED
    BY <1>1, <2>2, <2>3 DEF Mask, Class
<1>6. \A k \in 2 .. d - 1 : Acked(stack[k]) => service'[P[k]] = service[P[k]]
  <2>1. ASSUME NEW k \in 2 .. d - 1, Acked(stack[k])
        PROVE  P[k] \in 1 .. P[d - 1]
    <3>1. Link(k, E, T, P)
      BY <1>1 DEF Nest
    <3>2. k - 1 \in 1 .. d /\ k \in 1 .. d /\ d - 1 \in 1 .. d /\ k \in 1 .. d - 1
      BY <1>1
    <3>3. P[k] = P[k - 1] + 1
      BY <2>1, <3>1 DEF Link
    <3>4. P[k] <= P[d - 1] /\ P[k] \in Nat /\ P[k - 1] \in Nat /\ P[d - 1] \in Nat
      BY <3>2 DEF Nest
    <3> QED
      BY <3>3, <3>4
  <2> QED
    BY <2>1
<1>7. csrr' = csrr \/ csrr'.to >= d - 1
  BY <1>1
<1>8. Nested'
  BY <1>1, <1>5, <1>6, <1>7, TopGoesOn DEF IrqInv, StackOK
<1> QED
  BY <1>2, <1>3, <1>4, <1>8

\* Nothing of the stack changes, or the core is lost.
LEMMA StackStays ==
    ASSUME IrqInv, made \subseteq made',
           UNCHANGED <<stack, srr, csrr, type, service, context>>,
           \/ panic # "lost" /\ panic' # "lost" /\ UNCHANGED <<ee, ce>>
           \/ panic' = "lost" /\ Top.kind = "critical" /\ Top.at = "rfi"
    PROVE  StackOK' /\ Shapes' /\ Core' /\ Nested' /\ ContextCounts'
<1>1. Depth' = Depth /\ Top' = Top
  BY DEF Depth, Top
<1>2. Shapes'
  <2>1. ASSUME NEW k \in 1 .. Depth
        PROVE  Fits(stack[k], k)'
    <3>1. Fits(stack[k], k)
      BY DEF IrqInv, Shapes
    <3> QED
      BY <3>1 DEF Fits, OpOK
  <2> QED
    BY <1>1, <2>1 DEF Shapes
<1>3. Core'
  BY <1>1 DEF IrqInv, Core
<1>4. PICK E \in [1 .. Depth -> BOOLEAN], T \in [1 .. Depth -> IrqType],
           P \in [1 .. Depth -> Nat] : Nest(E, T, P)
  BY DEF IrqInv, Nested
<1>5. Nest(E, T, P)'
  BY <1>4, NestStays DEF IrqInv, StackOK
<1> QED
  BY <1>1, <1>2, <1>3, <1>4, <1>5 DEF IrqInv, StackOK, Nested, ContextCounts

-----------------------------------------------------------------------------
(* The tables.                                                             *)

LEMMA EntryFields ==
    ASSUME NEW t \in Table, NEW v \in Vector, DataOK
    PROVE  /\ table[t] \in [Vector -> Entry] /\ table[t][v] \in Entry
           /\ table[t][v].handler \in Handler \cup {NoHandler}
           /\ table[t][v].arg \in Handler \cup {NoHandler}
           /\ table[t][v].priority \in Nat /\ table[t][v].count \in 0 .. CountMod - 1
BY DEF DataOK, Entry

\* One entry of one table becomes e.
LEMMA EntryReplaced ==
    ASSUME DataOK, NEW t \in Table, NEW v \in Vector, NEW e \in Entry
    PROVE  [table EXCEPT ![t] = [table[t] EXCEPT ![v] = e]] \in [Table -> [Vector -> Entry]]
BY EntryFields DEF DataOK

LEMMA TableChanges ==
    ASSUME DataOK, NEW t \in Table, NEW v \in Vector, NEW h \in Handler \cup {NoHandler},
           NEW p \in Nat, NEW n \in 0 .. CountMod - 1
    PROVE  /\ [table EXCEPT ![t][v].count = n] \in [Table -> [Vector -> Entry]]
           /\ [table EXCEPT ![t][v].handler = h] \in [Table -> [Vector -> Entry]]
           /\ [table EXCEPT ![t][v].priority = p] \in [Table -> [Vector -> Entry]]
           /\ [table EXCEPT ![t][v].arg = h, ![t][v].priority = p]
                  \in [Table -> [Vector -> Entry]]
<1>1. table[t][v] \in Entry
  BY EntryFields
<1>2. /\ [table[t][v] EXCEPT !.count = n] \in Entry
      /\ [table[t][v] EXCEPT !.handler = h] \in Entry
      /\ [table[t][v] EXCEPT !.priority = p] \in Entry
      /\ [table[t][v] EXCEPT !.arg = h, !.priority = p] \in Entry
  BY <1>1 DEF Entry
<1>3. [table EXCEPT ![t][v].count = n] \in [Table -> [Vector -> Entry]]
  BY <1>2, EntryReplaced
<1>4. [table EXCEPT ![t][v].handler = h] \in [Table -> [Vector -> Entry]]
  BY <1>2, EntryReplaced
<1>5. [table EXCEPT ![t][v].priority = p] \in [Table -> [Vector -> Entry]]
  BY <1>2, EntryReplaced
<1>6. [table EXCEPT ![t][v].arg = h, ![t][v].priority = p] \in [Table -> [Vector -> Entry]]
  <2>1. [table EXCEPT ![t][v].arg = h, ![t][v].priority = p] =
            [table EXCEPT ![t] = [table[t] EXCEPT ![v] =
                [table[t][v] EXCEPT !.arg = h, !.priority = p]]]
    BY DEF DataOK
  <2>2. PICK e \in Entry : e = [table[t][v] EXCEPT !.arg = h, !.priority = p]
    BY <1>2
  <2>3. [table EXCEPT ![t] = [table[t] EXCEPT ![v] = e]] \in [Table -> [Vector -> Entry]]
    BY <2>2, EntryReplaced
  <2> QED
    BY <2>1, <2>2, <2>3
<1> QED
  BY <1>3, <1>4, <1>5, <1>6

-----------------------------------------------------------------------------
(* Every step keeps the invariant: the devices, and the calls.             *)

LEMMA RaiseStep ==
    ASSUME IrqInv, NEW i \in Line, Raise(i) \/ Withdraw(i)
    PROVE  IrqInv'
<1>1. StackOK' /\ Shapes' /\ Core' /\ Nested' /\ ContextCounts'
  BY StackStays DEF Raise, Withdraw, cpu, data
<1>2. CpuOK' /\ DataOK' /\ MpicOK' /\ type' \in IrqType /\ panic' = panic
  BY DEF IrqInv, Raise, Withdraw, cpu, data, CpuOK, DataOK, MpicOK
<1> QED
  BY <1>1, <1>2 DEF IrqInv

\* rumboot_platform_panic().
LEMMA PanicStep ==
    ASSUME IrqInv, panic = "no", panic' \in {"id", "table"},
           UNCHANGED <<stack, cpu, data, type, context, mpic>>
    PROVE  IrqInv'
<1>1. StackOK' /\ Shapes' /\ Core' /\ Nested' /\ ContextCounts'
  BY StackStays DEF cpu, data, mpic
<1>2. CpuOK' /\ DataOK' /\ MpicOK' /\ type' \in IrqType
  BY DEF IrqInv, cpu, data, mpic, CpuOK, DataOK, MpicOK
<1> QED
  BY <1>1, <1>2 DEF IrqInv

LEMMA CreateStep ==
    ASSUME IrqInv, NEW t \in Table, NEW from \in made \cup {NoTable}, Create(t, from)
    PROVE  IrqInv'
<1>1. made \subseteq made' /\ panic = "no" /\ panic' = "no"
  BY DEF Create, Calls, Undisturbed
<1>2. StackOK' /\ Shapes' /\ Core' /\ Nested' /\ ContextCounts'
  BY <1>1, StackStays DEF Create, cpu, mpic
<1>3. [ v \in Vector |-> Unset ] \in [Vector -> Entry]
  <2>1. Unset \in Entry
    BY IrqAssumption DEF Unset, Entry
  <2> QED
    BY <2>1
<1>4. Fetch(from) # NoTable => table[Fetch(from)] \in [Vector -> Entry]
  BY DEF IrqInv, DataOK, Fetch
<1>5. DataOK'
  BY <1>3, <1>4 DEF IrqInv, DataOK, Create
<1>6. CpuOK' /\ MpicOK' /\ type' \in IrqType
  BY DEF IrqInv, Create, cpu, mpic, CpuOK, MpicOK
<1> QED
  BY <1>1, <1>2, <1>5, <1>6 DEF IrqInv

LEMMA ResetCountStep ==
    ASSUME IrqInv, NEW i \in Line, ResetCount(i)
    PROVE  IrqInv'
<1>1. panic = "no" /\ panic' = "no" /\ made' = made
  BY DEF ResetCount, Calls, Undisturbed
<1>2. StackOK' /\ Shapes' /\ Core' /\ Nested' /\ ContextCounts'
  BY <1>1, StackStays DEF ResetCount, cpu, mpic
<1>3. active \in Table /\ i \in Vector /\ 0 \in 0 .. CountMod - 1
  BY IrqAssumption DEF IrqInv, DataOK, ResetCount, Vector
<1>4. [table EXCEPT ![active][i].count = 0] \in [Table -> [Vector -> Entry]]
  BY <1>3, TableChanges, IrqAssumption DEF IrqInv, DataOK
<1>5. DataOK'
  BY <1>4 DEF IrqInv, DataOK, ResetCount
<1>6. CpuOK' /\ MpicOK' /\ type' \in IrqType
  BY DEF IrqInv, ResetCount, cpu, mpic, CpuOK, MpicOK
<1> QED
  BY <1>1, <1>2, <1>5, <1>6 DEF IrqInv

\* Where a call can begin, and what a frame in a call is.
LEMMA CallBegins ==
    ASSUME IrqInv, NEW c, Calls(c)
    PROVE  /\ panic = "no" /\ Top.at \in {"program", "handler"} /\ Top \in Frame
           /\ Top.op = NoCall /\ (Top.kind = "main" => ee)
<1>1. Top.at \in {"program", "handler"} /\ Top.op = NoCall /\ panic = "no" /\ Top \in Frame
  BY TopFits DEF Calls, Undisturbed, IrqInv
<1>2. PICK E \in [1 .. Depth -> BOOLEAN], T \in [1 .. Depth -> IrqType],
           P \in [1 .. Depth -> Nat] : Nest(E, T, P)
  BY DEF IrqInv, Nested
<1>3. Mask(Top, E[Depth]) /\ (E[Depth] <=> ee)
  BY <1>1, <1>2, TopFits DEF Nest, Top, IrqInv
<1> QED
  BY <1>1, <1>3, NoCallType DEF Mask

LEMMA InCall ==
    ASSUME IrqInv, NEW s \in Step \ {"none"}, In(s)
    PROVE  /\ panic = "no" /\ Top.at \in {"program", "handler"} /\ Top \in Frame
           /\ Top.op \in Calling /\ Top.op.step = s /\ OpOK(Top.op)
           /\ Top.kind = "main" => (ee <=> ~Atomic(Top.op)) /\ (Atomic(Top.op) => Top.op.ee)
<1>1. panic = "no" /\ Top.op.step = s /\ Top \in Frame /\ Fits(Top, Depth)
  BY TopFits DEF In, Undisturbed, IrqInv
<1>2. Top.at \in {"program", "handler"}
  BY <1>1 DEF Fits, NoCall
<1>3. PICK E \in [1 .. Depth -> BOOLEAN], T \in [1 .. Depth -> IrqType],
           P \in [1 .. Depth -> Nat] : Nest(E, T, P)
  BY DEF IrqInv, Nested
<1>4. Mask(Top, E[Depth]) /\ (E[Depth] <=> ee)
  BY <1>1, <1>3, TopFits DEF Nest, Top, IrqInv
<1> QED
  BY <1>1, <1>2, <1>4, FrameFields DEF Mask, Fits

LEMMA SetHandlerStep ==
    ASSUME IrqInv, NEW t \in made \cup {NoTable}, NEW i \in Line, NEW h \in Handler,
           SetHandler(t, i, h)
    PROVE  IrqInv'
<1>1. /\ panic = "no" /\ panic' = "no" /\ made' = made /\ ee' = FALSE
      /\ Top.at \in {"program", "handler"}
      /\ Top.op = NoCall /\ (Top.kind = "main" => ee)
  BY CallBegins DEF SetHandler, data, Masked
<1>2. PICK op : op = [NoCall EXCEPT !.step = "store", !.tbl = t, !.line = i,
                                    !.handler = h, !.ee = ee]
  OBVIOUS
<1>3. /\ op \in Calling /\ op.step = "store" /\ op.tbl = t /\ op.line = i /\ op.ee = ee
      /\ op.todo = {} /\ op.then = "none"
  BY <1>2 DEF NoCall, Calling, IrqInv, CpuOK, DataOK, Ref, Vector, Step
<1>4. OpOK(op)'
  BY <1>1, <1>3 DEF OpOK
<1>5. Atomic(op)
  BY <1>3 DEF Atomic
<1>6. Now([Top EXCEPT !.op = op])
  BY <1>2 DEF SetHandler, Continue
<1>7. StackOK' /\ Shapes' /\ Core' /\ Nested' /\ ContextCounts'
  BY <1>1, <1>3, <1>4, <1>5, <1>6, CallGoesOn DEF SetHandler, mpic
<1>8. CpuOK' /\ DataOK' /\ MpicOK' /\ type' \in IrqType
  BY <1>1 DEF IrqInv, SetHandler, CpuOK, DataOK, MpicOK, data, mpic
<1> QED
  BY <1>1, <1>7, <1>8 DEF IrqInv

LEMMA StoreStep ==
    ASSUME IrqInv, Store
    PROVE  IrqInv'
<1>1. /\ panic = "no" /\ made' = made /\ Top.at \in {"program", "handler"}
      /\ Top.op \in Calling /\ Top.op.step = "store" /\ OpOK(Top.op)
      /\ (Top.kind = "main" => (ee <=> ~Atomic(Top.op)) /\ (Atomic(Top.op) => Top.op.ee))
  BY InCall DEF Store, Step
<1>2. CASE Fetch(Top.op.tbl) = NoTable
  BY <1>1, <1>2, PanicStep DEF Store, Panic, data, mpic
<1>3. CASE Fetch(Top.op.tbl) # NoTable
  <2>1. PICK tbl : tbl = Fetch(Top.op.tbl)
    OBVIOUS
  <2>2. tbl \in made /\ tbl \in Table
    BY <1>1, <1>3, <2>1 DEF Fetch, OpOK, IrqInv, DataOK
  <2>3. PICK op : op = [Top.op EXCEPT !.step = "argument", !.tbl = tbl]
    OBVIOUS
  <2>4. /\ op \in Calling /\ op.step = "argument" /\ op.tbl = tbl /\ op.line = Top.op.line
        /\ op.ee = Top.op.ee /\ op.then = Top.op.then
    BY <1>1, <2>2, <2>3 DEF Calling, Ref, Step
  <2>5. op.line \in Line /\ op.then = "none" /\ tbl # NoTable
    BY <1>1, <2>2, <2>4, IrqAssumption, CallFields DEF OpOK
  <2>6. OpOK(op)'
    BY <1>1, <2>2, <2>4, <2>5 DEF OpOK
  <2>7. Atomic(op) /\ Atomic(Top.op)
    BY <1>1, <2>4 DEF Atomic
  <2>8. /\ Now([Top EXCEPT !.op = op]) /\ panic' = "no" /\ ee' = ee
        /\ table' = [table EXCEPT ![tbl][Top.op.line].handler = Top.op.handler]
    BY <1>1, <1>3, <2>1, <2>3 DEF Store, Continue, cpu
  <2>9. StackOK' /\ Shapes' /\ Core' /\ Nested' /\ ContextCounts'
    BY <1>1, <2>4, <2>6, <2>7, <2>8, CallGoesOn DEF Store, cpu, mpic, IrqInv, CpuOK
  <2>10. table' \in [Table -> [Vector -> Entry]]
    <3>1. Top.op.line \in Vector /\ Top.op.handler \in Handler \cup {NoHandler}
      BY <1>1, CallFields
    <3>2. 0 \in Nat /\ 0 \in 0 .. CountMod - 1
      BY IrqAssumption
    <3> QED
      BY <2>2, <2>8, <3>1, <3>2, TableChanges DEF IrqInv
  <2>11. CpuOK' /\ DataOK' /\ MpicOK' /\ type' \in IrqType
    BY <2>10 DEF IrqInv, Store, CpuOK, DataOK, MpicOK, cpu, mpic
  <2> QED
    BY <2>8, <2>9, <2>11 DEF IrqInv
<1> QED
  BY <1>2, <1>3

LEMMA ArgumentStep ==
    ASSUME IrqInv, Argument
    PROVE  IrqInv'
<1>1. /\ panic = "no" /\ panic' = "no" /\ made' = made /\ Top.at \in {"program", "handler"}
      /\ Top.op \in Calling /\ Top.op.step = "argument" /\ OpOK(Top.op)
      /\ (Top.kind = "main" => (ee <=> ~Atomic(Top.op)) /\ (Atomic(Top.op) => Top.op.ee))
      /\ ee' = Top.op.ee
  BY InCall DEF Argument, Step, Restored
<1>2. Atomic(Top.op) /\ ee' \in BOOLEAN
  BY <1>1, CallFields DEF Atomic
<1>3. PICK op : op = NoCall
  OBVIOUS
<1>4. op \in Calling /\ OpOK(op)' /\ ~Atomic(op) /\ op.ee = FALSE
  BY <1>3, NoCallType DEF OpOK, NoCall
<1>5. Now([Top EXCEPT !.op = op])
  BY <1>3 DEF Argument, Continue
<1>6. StackOK' /\ Shapes' /\ Core' /\ Nested' /\ ContextCounts'
  BY <1>1, <1>2, <1>4, <1>5, CallGoesOn DEF Argument, mpic
<1>7. table' \in [Table -> [Vector -> Entry]]
  <2>1. /\ Top.op.line \in Vector /\ Top.op.handler \in Handler \cup {NoHandler}
        /\ Top.op.tbl \in Table /\ DefaultPriority \in Nat /\ 0 \in 0 .. CountMod - 1
    BY <1>1, CallFields, IrqAssumption DEF OpOK, IrqInv, DataOK
  <2>2. table' = [table EXCEPT ![Top.op.tbl][Top.op.line].arg = Top.op.handler,
                               ![Top.op.tbl][Top.op.line].priority = DefaultPriority]
    BY DEF Argument
  <2> QED
    BY <2>1, <2>2, TableChanges DEF IrqInv
<1>8. CpuOK' /\ DataOK' /\ MpicOK' /\ type' \in IrqType
  BY <1>2, <1>7 DEF IrqInv, Argument, CpuOK, DataOK, MpicOK, mpic
<1> QED
  BY <1>1, <1>6, <1>8 DEF IrqInv

LEMMA LowestIsOne ==
    ASSUME NEW S \in SUBSET Line, S # {}
    PROVE  Lowest(S) \in S
<1>1. S \in SUBSET Nat
  BY IrqAssumption DEF Vector
<1> QED
  BY <1>1, LeastNatural DEF Lowest

LEMMA ActivateStep ==
    ASSUME IrqInv, NEW t \in made \cup {NoTable}, Activate(t)
    PROVE  IrqInv'
<1>1. /\ panic = "no" /\ panic' = "no" /\ made' = made /\ ee' = FALSE
      /\ Top.at \in {"program", "handler"}
      /\ Top.op = NoCall /\ (Top.kind = "main" => ee)
  BY CallBegins DEF Activate, data, Masked
<1>2. PICK op : op = [NoCall EXCEPT !.step = "switch", !.tbl = t, !.ee = ee]
  OBVIOUS
<1>3. /\ op \in Calling /\ op.step = "switch" /\ op.tbl = t /\ op.ee = ee
      /\ op.todo = {} /\ op.then = "none"
  BY <1>2 DEF NoCall, Calling, IrqInv, CpuOK, DataOK, Ref, Vector, Step
<1>4. OpOK(op)'
  BY <1>1, <1>3 DEF OpOK
<1>5. Atomic(op)
  BY <1>3 DEF Atomic
<1>6. Now([Top EXCEPT !.op = op])
  BY <1>2 DEF Activate, Continue
<1>7. StackOK' /\ Shapes' /\ Core' /\ Nested' /\ ContextCounts'
  BY <1>1, <1>3, <1>4, <1>5, <1>6, CallGoesOn DEF Activate, mpic
<1>8. CpuOK' /\ DataOK' /\ MpicOK' /\ type' \in IrqType
  BY <1>1 DEF IrqInv, Activate, CpuOK, DataOK, MpicOK, data, mpic
<1> QED
  BY <1>1, <1>7, <1>8 DEF IrqInv

LEMMA SwitchStep ==
    ASSUME IrqInv, Switch
    PROVE  IrqInv'
<1>1. /\ panic = "no" /\ panic' = "no" /\ made' = made /\ ee' = ee
      /\ Top.at \in {"program", "handler"}
      /\ Top.op \in Calling /\ Top.op.step = "switch" /\ OpOK(Top.op)
      /\ (Top.kind = "main" => (ee <=> ~Atomic(Top.op)) /\ (Atomic(Top.op) => Top.op.ee))
  BY InCall DEF Switch, Step, cpu
<1>2. PICK op : op = [Top.op EXCEPT !.step = "scan",
                          !.todo = IF Top.op.tbl = NoTable THEN {} ELSE Line]
  OBVIOUS
<1>3. /\ op \in Calling /\ op.step = "scan" /\ op.tbl = Top.op.tbl /\ op.ee = Top.op.ee
      /\ (op.tbl = NoTable => op.todo = {}) /\ op.then = Top.op.then
  BY <1>1, <1>2 DEF Calling, Step
<1>4. op.then = "none" /\ op.tbl \in made \cup {NoTable}
  BY <1>1, <1>3, CallFields DEF OpOK
<1>5. OpOK(op)' /\ Atomic(op) /\ Atomic(Top.op)
  BY <1>1, <1>3, <1>4 DEF OpOK, Atomic
<1>6. Now([Top EXCEPT !.op = op])
  BY <1>2 DEF Switch, Continue
<1>7. StackOK' /\ Shapes' /\ Core' /\ Nested' /\ ContextCounts'
  BY <1>1, <1>3, <1>5, <1>6, CallGoesOn DEF Switch, mpic, cpu, IrqInv, CpuOK
<1>8. CpuOK' /\ DataOK' /\ MpicOK' /\ type' \in IrqType
  BY <1>1, <1>3, <1>4 DEF IrqInv, Switch, CpuOK, DataOK, MpicOK, cpu, mpic
<1> QED
  BY <1>1, <1>7, <1>8 DEF IrqInv

LEMMA ScanStep ==
    ASSUME IrqInv, Scan
    PROVE  IrqInv'
<1>1. /\ panic = "no" /\ UNCHANGED <<made, ce, srr, csrr>> /\ Top.at \in {"program", "handler"}
      /\ Top.op \in Calling /\ Top.op.step = "scan" /\ OpOK(Top.op)
      /\ (Top.kind = "main" => (ee <=> ~Atomic(Top.op)) /\ (Atomic(Top.op) => Top.op.ee))
  BY InCall DEF Scan, Step, data
<1>2. Atomic(Top.op) /\ Top.op.then = "none" /\ Top.op.ee \in BOOLEAN
  BY <1>1, CallFields DEF Atomic, OpOK
<1>3. CASE ToEnable(Top.op) = {} /\ ee' = Restored /\ Continue(NoCall) /\ UNCHANGED panic
  <2>1. PICK op : op = NoCall
    OBVIOUS
  <2>2. op \in Calling /\ OpOK(op)' /\ ~Atomic(op) /\ op.ee = FALSE
    BY <2>1, NoCallType DEF OpOK, NoCall
  <2>3. Now([Top EXCEPT !.op = op]) /\ ee' = Top.op.ee
    BY <1>3, <2>1 DEF Continue, Restored
  <2>4. StackOK' /\ Shapes' /\ Core' /\ Nested' /\ ContextCounts'
    BY <1>1, <1>2, <1>3, <2>2, <2>3, CallGoesOn DEF Scan, mpic
  <2>5. CpuOK' /\ DataOK' /\ MpicOK' /\ type' \in IrqType
    BY <1>1, <1>2, <2>3 DEF IrqInv, Scan, CpuOK, DataOK, MpicOK, data, mpic
  <2> QED
    BY <1>1, <1>3, <2>4, <2>5 DEF IrqInv
<1>4. CASE ToEnable(Top.op) # {} /\ active = NoTable /\ Panic("table") /\ UNCHANGED ee
  BY <1>1, <1>4, PanicStep DEF Scan, Panic, cpu
<1>5. CASE /\ ToEnable(Top.op) # {} /\ active # NoTable /\ UNCHANGED <<ee, panic>>
           /\ Continue([Top.op EXCEPT !.step = "configure", !.then = "scan",
                            !.on = TRUE, !.line = Lowest(ToEnable(Top.op)), !.fetched = active,
                            !.todo = { j \in Top.op.todo : j > Lowest(ToEnable(Top.op)) }])
  <2>1. PICK i : i = Lowest(ToEnable(Top.op))
    OBVIOUS
  <2>2. i \in Line
    <3>1. ToEnable(Top.op) \in SUBSET Line
      BY <1>1, CallFields DEF ToEnable
    <3> QED
      BY <1>5, <2>1, <3>1, LowestIsOne
  <2>3. PICK todo \in SUBSET Line : todo = { j \in Top.op.todo : j > i }
    BY <1>1, CallFields
  <2>4. active \in made /\ active \in Ref /\ i \in Vector
    BY <1>5, <2>2 DEF IrqInv, DataOK, Ref, Vector
  <2>5. PICK op : op = [Top.op EXCEPT !.step = "configure", !.then = "scan", !.on = TRUE,
                                      !.line = i, !.fetched = active, !.todo = todo]
    OBVIOUS
  <2>6. /\ op \in Calling /\ op.step = "configure" /\ op.then = "scan" /\ op.line = i
        /\ op.fetched = active /\ op.todo = todo /\ op.tbl = Top.op.tbl /\ op.ee = Top.op.ee
        /\ op.on
    BY <1>1, <2>3, <2>4, <2>5 DEF Calling, Step
  <2>7. OpOK(op)'
    BY <1>1, <2>2, <2>3, <2>4, <2>6 DEF OpOK
  <2>8. Now([Top EXCEPT !.op = op]) /\ Atomic(op)
    BY <1>5, <2>1, <2>3, <2>5, <2>6 DEF Continue, Atomic
  <2>9. StackOK' /\ Shapes' /\ Core' /\ Nested' /\ ContextCounts'
    BY <1>1, <1>2, <1>5, <2>6, <2>7, <2>8, CallGoesOn DEF Scan, mpic, IrqInv, CpuOK
  <2>10. CpuOK' /\ DataOK' /\ MpicOK' /\ type' \in IrqType
    BY <1>1, <1>5 DEF IrqInv, Scan, CpuOK, DataOK, MpicOK, data, mpic
  <2> QED
    BY <1>1, <1>5, <2>9, <2>10 DEF IrqInv
<1> QED
  BY <1>3, <1>4, <1>5 DEF Scan

LEMMA AbleStep ==
    ASSUME IrqInv, NEW c \in {"enable", "disable"}, NEW i \in Line, Able(c, i)
    PROVE  IrqInv'
<1>1. /\ panic = "no" /\ UNCHANGED <<made, ee, ce, srr, csrr>>
      /\ Top.at \in {"program", "handler"}
      /\ Top.op = NoCall /\ (Top.kind = "main" => ee)
  BY CallBegins DEF Able, data, cpu
<1>2. CASE active = NoTable
  BY <1>1, <1>2, PanicStep DEF Able, Panic
<1>3. CASE active # NoTable
  <2>1. active \in made /\ active \in Ref /\ i \in Vector
    BY <1>3 DEF IrqInv, DataOK, Ref, Vector
  <2>2. PICK op : op = [NoCall EXCEPT !.step = "configure", !.line = i,
                                      !.fetched = active, !.on = (c = "enable")]
    OBVIOUS
  <2>3. /\ op \in Calling /\ op.step = "configure" /\ op.then = "none" /\ op.line = i
        /\ op.fetched = active /\ op.todo = {} /\ op.tbl = NoTable /\ op.ee = FALSE
    BY <2>1, <2>2 DEF Calling, NoCall, Step, Ref
  <2>4. OpOK(op)' /\ ~Atomic(op)
    BY <1>1, <2>1, <2>3 DEF OpOK, Atomic
  <2>5. Now([Top EXCEPT !.op = op]) /\ panic' = "no"
    BY <1>1, <1>3, <2>2 DEF Able, Continue
  <2>6. StackOK' /\ Shapes' /\ Core' /\ Nested' /\ ContextCounts'
    BY <1>1, <2>3, <2>4, <2>5, CallGoesOn DEF Able, mpic, IrqInv, CpuOK
  <2>7. CpuOK' /\ DataOK' /\ MpicOK' /\ type' \in IrqType
    BY <1>1 DEF IrqInv, Able, CpuOK, DataOK, MpicOK, data, mpic
  <2> QED
    BY <2>5, <2>6, <2>7 DEF IrqInv
<1> QED
  BY <1>2, <1>3

LEMMA ConfigureStep ==
    ASSUME IrqInv, Configure
    PROVE  IrqInv'
<1>1. /\ panic = "no" /\ panic' = "no" /\ UNCHANGED <<made, ee, ce, srr, csrr>>
      /\ Top.at \in {"program", "handler"}
      /\ Top.op \in Calling /\ Top.op.step = "configure" /\ OpOK(Top.op)
      /\ (Top.kind = "main" => (ee <=> ~Atomic(Top.op)) /\ (Atomic(Top.op) => Top.op.ee))
  BY InCall DEF Configure, Step, data, cpu
<1>2. Top.op.line \in Line /\ Top.op.line \in Vector /\ Top.op.fetched \in Table
  BY <1>1 DEF OpOK, IrqInv, DataOK, Vector
<1>3. MpicOK'
  <2>1. [ on |-> Top.op.on, priority |-> DefaultPriority ] \in [ on : BOOLEAN, priority : Nat ]
    BY <1>1, CallFields, IrqAssumption
  <2>2. line' = [line EXCEPT ![Top.op.line] =
                    [ on |-> Top.op.on, priority |-> DefaultPriority ]]
    BY DEF Configure
  <2>3. pending' = pending /\ service' = service
    BY DEF Configure
  <2>4. PICK v \in [ on : BOOLEAN, priority : Nat ] :
            v = [ on |-> Top.op.on, priority |-> DefaultPriority ] /\ v.priority <= MaxPriority
    BY <2>1, IrqAssumption
  <2>5. line' = [line EXCEPT ![Top.op.line] = v]
    BY <2>2, <2>4
  <2> QED
    BY <2>3, <2>4, <2>5 DEF IrqInv, MpicOK
<1>4. CpuOK' /\ DataOK' /\ type' \in IrqType
  BY <1>1 DEF IrqInv, Configure, CpuOK, DataOK, data
<1>5. CASE Top.op.on
  <2>1. PICK p \in Nat : p = table[Top.op.fetched][Top.op.line].priority
    BY <1>2, EntryFields DEF IrqInv
  <2>2. PICK op : op = [Top.op EXCEPT !.step = "adjust", !.priority = p]
    OBVIOUS
  <2>3. /\ op \in Calling /\ op.step = "adjust" /\ op.then = Top.op.then
        /\ op.line = Top.op.line /\ op.fetched = Top.op.fetched /\ op.todo = Top.op.todo
        /\ op.tbl = Top.op.tbl /\ op.ee = Top.op.ee /\ op.on
    BY <1>1, <1>5, <2>2 DEF Calling, Step
  <2>4. OpOK(op)' /\ (Atomic(op) <=> Atomic(Top.op))
    BY <1>1, <2>3 DEF OpOK, Atomic
  <2>5. Now([Top EXCEPT !.op = op])
    BY <1>5, <2>1, <2>2 DEF Configure, Continue
  <2>6. StackOK' /\ Shapes' /\ Core' /\ Nested' /\ ContextCounts'
    BY <1>1, <2>3, <2>4, <2>5, CallGoesOn DEF Configure, IrqInv, CpuOK
  <2> QED
    BY <1>1, <1>3, <1>4, <2>6 DEF IrqInv
<1>6. CASE ~Top.op.on
  <2>1. PICK op : op = NoCall
    OBVIOUS
  <2>2. op \in Calling /\ OpOK(op)' /\ ~Atomic(op) /\ op.ee = FALSE
    BY <2>1, NoCallType DEF OpOK, NoCall
  <2>3. Now([Top EXCEPT !.op = op])
    BY <1>6, <2>1 DEF Configure, Continue
  <2>4. ~Atomic(Top.op)
    BY <1>1, <1>6 DEF OpOK, Atomic
  <2>5. StackOK' /\ Shapes' /\ Core' /\ Nested' /\ ContextCounts'
    BY <1>1, <2>2, <2>3, <2>4, CallGoesOn DEF Configure, IrqInv, CpuOK
  <2> QED
    BY <1>1, <1>3, <1>4, <2>5 DEF IrqInv
<1> QED
  BY <1>5, <1>6

LEMMA AdjustPriorityStep ==
    ASSUME IrqInv, NEW t \in made \cup {NoTable}, NEW i \in Line, NEW p \in Wanted,
           AdjustPriority(t, i, p)
    PROVE  IrqInv'
<1>1. /\ panic = "no" /\ UNCHANGED <<made, ee, ce, srr, csrr>>
      /\ Top.at \in {"program", "handler"}
      /\ Top.op = NoCall /\ (Top.kind = "main" => ee)
  BY CallBegins DEF AdjustPriority, data, cpu
<1>2. CASE Fetch(t) = NoTable
  BY <1>1, <1>2, PanicStep DEF AdjustPriority, Panic
<1>3. CASE Fetch(t) # NoTable
  <2>1. PICK u \in made : u = Fetch(t)
    BY <1>3 DEF IrqInv, DataOK, Fetch
  <2>2. u \in Ref /\ i \in Vector /\ p \in Nat
    BY IrqAssumption DEF IrqInv, DataOK, Ref, Vector
  <2>3. PICK op : op = [NoCall EXCEPT !.step = "adjust", !.fetched = u,
                                      !.line = i, !.priority = p]
    OBVIOUS
  <2>4. /\ op \in Calling /\ op.step = "adjust" /\ op.then = "none" /\ op.line = i
        /\ op.fetched = u /\ op.todo = {} /\ op.tbl = NoTable /\ op.ee = FALSE
    BY <2>2, <2>3 DEF Calling, NoCall, Step, Ref
  <2>5. OpOK(op)' /\ ~Atomic(op)
    BY <1>1, <2>4 DEF OpOK, Atomic
  <2>6. Now([Top EXCEPT !.op = op]) /\ panic' = "no"
    BY <1>1, <1>3, <2>1, <2>3 DEF AdjustPriority, Continue
  <2>7. StackOK' /\ Shapes' /\ Core' /\ Nested' /\ ContextCounts'
    BY <1>1, <2>4, <2>5, <2>6, CallGoesOn DEF AdjustPriority, mpic, IrqInv, CpuOK
  <2>8. CpuOK' /\ DataOK' /\ MpicOK' /\ type' \in IrqType
    BY <1>1 DEF IrqInv, AdjustPriority, CpuOK, DataOK, MpicOK, data, mpic
  <2> QED
    BY <2>6, <2>7, <2>8 DEF IrqInv
<1> QED
  BY <1>2, <1>3

LEMMA ClippedType ==
    ASSUME NEW p \in Nat
    PROVE  Clipped(p) \in Nat /\ Clipped(p) <= MaxPriority
BY IrqAssumption DEF Clipped

LEMMA AdjustStep ==
    ASSUME IrqInv, Adjust
    PROVE  IrqInv'
<1>1. /\ panic = "no" /\ panic' = "no" /\ UNCHANGED <<made, active, ee, ce, srr, csrr>>
      /\ Top.at \in {"program", "handler"}
      /\ Top.op \in Calling /\ Top.op.step = "adjust" /\ OpOK(Top.op)
      /\ (Top.kind = "main" => (ee <=> ~Atomic(Top.op)) /\ (Atomic(Top.op) => Top.op.ee))
  BY InCall DEF Adjust, Step, cpu
<1>2. Top.op.line \in Line /\ Top.op.line \in Vector /\ Top.op.fetched \in Table
  BY <1>1 DEF OpOK, IrqInv, DataOK, Vector
<1>3. PICK p \in Nat : p = Clipped(Top.op.priority) /\ p <= MaxPriority
  BY <1>1, CallFields, ClippedType
<1>4. MpicOK'
  <2>1. line' = line \/ line' = [line EXCEPT ![Top.op.line].priority = p]
    BY <1>3 DEF Adjust
  <2>2. pending' = pending /\ service' = service
    BY DEF Adjust
  <2> QED
    BY <1>2, <1>3, <2>1, <2>2 DEF IrqInv, MpicOK
<1>5. DataOK'
  <2>1. table' = [table EXCEPT ![Top.op.fetched][Top.op.line].priority = p]
    BY <1>3 DEF Adjust
  <2>2. NoHandler \in Handler \cup {NoHandler} /\ 0 \in 0 .. CountMod - 1
    BY IrqAssumption
  <2>3. table' \in [Table -> [Vector -> Entry]]
    BY <1>2, <2>1, <2>2, TableChanges DEF IrqInv
  <2> QED
    BY <1>1, <2>3 DEF IrqInv, DataOK
<1>6. CpuOK' /\ type' \in IrqType
  BY <1>1 DEF IrqInv, Adjust, CpuOK
<1>7. PICK op : op = IF Top.op.then = "scan"
                       THEN [Top.op EXCEPT !.step = "scan", !.then = "none"] ELSE NoCall
  OBVIOUS
<1>8. Now([Top EXCEPT !.op = op])
  BY <1>7 DEF Adjust, Continue
<1>9. /\ op \in Calling /\ OpOK(op)' /\ (Atomic(op) <=> Atomic(Top.op))
      /\ op.ee \in {Top.op.ee, FALSE} /\ (Atomic(op) => op.ee = Top.op.ee)
  <2>1. CASE Top.op.then = "scan"
    <3>1. op = [Top.op EXCEPT !.step = "scan", !.then = "none"]
      BY <1>7, <2>1
    <3>2. /\ op \in Calling /\ op.step = "scan" /\ op.then = "none" /\ op.tbl = Top.op.tbl
          /\ op.todo = Top.op.todo /\ op.ee = Top.op.ee
      BY <1>1, <3>1 DEF Calling, Step
    <3> QED
      BY <1>1, <2>1, <3>2 DEF OpOK, Atomic
  <2>2. CASE Top.op.then # "scan"
    <3>1. op = NoCall /\ ~Atomic(Top.op)
      BY <1>1, <1>7, <2>2 DEF Atomic
    <3> QED
      BY <3>1, NoCallType DEF OpOK, NoCall
  <2> QED
    BY <2>1, <2>2
<1>10. StackOK' /\ Shapes' /\ Core' /\ Nested' /\ ContextCounts'
  BY <1>1, <1>8, <1>9, CallGoesOn DEF Adjust, IrqInv, CpuOK
<1> QED
  BY <1>1, <1>4, <1>5, <1>6, <1>10 DEF IrqInv

-----------------------------------------------------------------------------
(* Every step keeps the invariant: the dispatch.                           *)

LEMMA Dispatching ==
    ASSUME IrqInv, panic = "no", Top.at # "program"
    PROVE  /\ Depth \in Nat /\ Depth > 1 /\ Top \in Frame /\ Top.kind \in Class
           /\ Top.saved \in State /\ Top.tbl \in made \cup {NoTable}
           /\ ee \in BOOLEAN /\ type \in IrqType /\ Len(service) \in Nat
           /\ csrr.to \in Nat
           /\ \E E \in [1 .. Depth -> BOOLEAN], T \in [1 .. Depth -> IrqType],
                 P \in [1 .. Depth -> Nat] :
                  /\ Nest(E, T, P) /\ Link(Depth, E, T, P) /\ stack[Depth] = Top
                  /\ type = T[Depth] /\ Len(service) = P[Depth] /\ (E[Depth] <=> ee)
                  /\ T[Depth - 1] \in IrqType /\ P[Depth - 1] \in Nat
<1>1. /\ Depth \in Nat /\ Depth > 1 /\ Depth \in 2 .. Depth /\ Depth - 1 \in 1 .. Depth
      /\ Top \in Frame /\ Top.kind \in Class /\ Top.tbl \in made \cup {NoTable}
  <2>1. Depth \in Nat /\ Depth > 1 /\ Top \in Frame /\ Top.kind \in Class /\ Fits(Top, Depth)
    BY TopFits DEF IrqInv
  <2> QED
    BY <2>1 DEF Fits
<1>2. PICK E \in [1 .. Depth -> BOOLEAN], T \in [1 .. Depth -> IrqType],
           P \in [1 .. Depth -> Nat] : Nest(E, T, P)
  BY DEF IrqInv, Nested
<1>3. /\ Link(Depth, E, T, P) /\ stack[Depth] = Top
      /\ type = T[Depth] /\ Len(service) = P[Depth] /\ (E[Depth] <=> ee)
      /\ T[Depth - 1] \in IrqType /\ P[Depth - 1] \in Nat
  BY <1>1, <1>2 DEF Nest, Top
<1>4. ee \in BOOLEAN /\ type \in IrqType /\ Len(service) \in Nat /\ csrr.to \in Nat
  BY LenProperties DEF IrqInv, CpuOK, MpicOK, State
<1>5. Top.saved \in State
  BY <1>1, FrameFields
<1> QED
  BY <1>1, <1>2, <1>3, <1>4, <1>5

\* The topmost frame is not in a call.
LEMMA NotInCall ==
    ASSUME IrqInv, Undisturbed, Top.at \notin {"program", "handler"} \/ Top.op = NoCall
    PROVE  panic = "no" /\ Top.op = NoCall
BY TopFits DEF IrqInv, Undisturbed

LEMMA EnterStep ==
    ASSUME IrqInv, Enter
    PROVE  IrqInv'
<1>1. /\ panic = "no" /\ panic' = "no" /\ Top.op = NoCall /\ Top.at = "enter"
      /\ UNCHANGED <<ee, ce, srr, csrr, made, type, service>>
  BY NotInCall DEF Enter, cpu, data, mpic
<1>2. PICK d \in Nat : d = Depth /\ d > 1
  BY <1>1, Dispatching
<1>3. PICK E, T, P : /\ Nest(E, T, P) /\ Link(d, E, T, P) /\ stack[d] = Top
                     /\ type = T[d] /\ Len(service) = P[d]
  BY <1>1, <1>2, Dispatching
<1>4. PICK f : f = [Top EXCEPT !.at = "classify"]
  OBVIOUS
<1>5. /\ f \in Frame /\ f.at = "classify" /\ f.kind = Top.kind /\ f.tbl = Top.tbl
      /\ f.saved = Top.saved /\ f.op = NoCall /\ Now(f)
  BY <1>1, <1>4, Dispatching, FrameGoesTo DEF Stage, Enter, Goto
<1>6. /\ f.at \notin Typed /\ f.at \in Starting /\ ~Acked(f) /\ f.at \notin {"rfi", "epilogue"}
      /\ Top.at \notin Typed /\ Top.at \in Starting /\ ~Acked(Top)
  BY <1>1, <1>5 DEF Typed, Serving, Starting, Acked
<1>7. /\ type = T[d - 1] /\ Len(service) = P[d - 1]
      /\ Top.kind = "critical" => ~ee /\ ~ce /\ csrr = Top.saved
  BY <1>3, <1>6 DEF Link
<1>8. StackOK' /\ Shapes' /\ Core' /\ Nested'
  BY <1>1, <1>2, <1>3, <1>5, <1>6, <1>7, Dispatching, DispatchGoesOn
<1>9. ContextCounts'
  BY <1>1, <1>5, CountGoesOn DEF IrqInv, Counted, Enter
<1>10. CpuOK' /\ DataOK' /\ MpicOK' /\ type' \in IrqType
  BY DEF IrqInv, Enter, CpuOK, DataOK, MpicOK, cpu, data, mpic
<1> QED
  BY <1>1, <1>8, <1>9, <1>10 DEF IrqInv

LEMMA ClassifyStep ==
    ASSUME IrqInv, Classify
    PROVE  IrqInv'
<1>1. /\ panic = "no" /\ panic' = "no" /\ Top.op = NoCall /\ Top.at = "classify"
      /\ UNCHANGED <<ee, ce, srr, csrr, made, service>> /\ type' = "normal"
  BY NotInCall DEF Classify, cpu, data, mpic, NewType
<1>2. PICK d \in Nat : d = Depth /\ d > 1
  BY <1>1, Dispatching
<1>3. PICK E, T, P : /\ Nest(E, T, P) /\ Link(d, E, T, P) /\ stack[d] = Top
                     /\ type = T[d] /\ Len(service) = P[d]
  BY <1>1, <1>2, Dispatching
<1>4. PICK f : f = [Top EXCEPT !.at = "begin", !.prev = type]
  OBVIOUS
<1>5. /\ f \in Frame /\ f.at = "begin" /\ f.kind = Top.kind /\ f.tbl = Top.tbl
      /\ f.saved = Top.saved /\ f.op = NoCall /\ f.prev = type /\ Now(f)
  <2>1. Now(f)
    BY <1>4 DEF Classify
  <2>2. "begin" \in Stage /\ Top \in Frame /\ type \in IrqType
    BY <1>1, Dispatching DEF Stage
  <2>3. PICK g \in Frame, t \in IrqType : g = Top /\ t = type
    BY <2>2
  <2>4. f = [g EXCEPT !.at = "begin", !.prev = t]
    BY <1>4, <2>3
  <2>5. /\ f \in Frame /\ f.at = "begin" /\ f.kind = g.kind /\ f.tbl = g.tbl
        /\ f.saved = g.saved /\ f.op = g.op /\ f.prev = t
    BY <2>2, <2>4 DEF Frame
  <2> QED
    BY <1>1, <2>1, <2>3, <2>5
<1>6. /\ f.at \in Typed /\ f.at \in Starting /\ ~Acked(f) /\ f.at \notin {"rfi", "epilogue"}
      /\ Top.at \notin Typed /\ Top.at \in Starting /\ ~Acked(Top)
  BY <1>1, <1>5 DEF Typed, Serving, Starting, Acked
<1>7. /\ type = T[d - 1] /\ Len(service) = P[d - 1]
      /\ Top.kind = "critical" => ~ee /\ ~ce /\ csrr = Top.saved
  BY <1>3, <1>6 DEF Link
<1>8. type' \in IrqType
  BY <1>1 DEF IrqType, Class
<1>9. StackOK' /\ Shapes' /\ Core' /\ Nested'
  <2>1. /\ csrr'.to \in Nat /\ ee' \in BOOLEAN /\ Len(service') \in Nat
        /\ f.tbl \in made \cup {NoTable} /\ Top.at # "program"
    BY <1>1, <1>5, Dispatching
  <2> QED
    BY <1>1, <1>2, <1>3, <1>5, <1>6, <1>7, <1>8, <2>1, DispatchGoesOn
<1>10. ContextCounts'
  BY <1>1, <1>5, CountGoesOn DEF IrqInv, Counted, Classify
<1>11. CpuOK' /\ DataOK' /\ MpicOK'
  BY DEF IrqInv, Classify, CpuOK, DataOK, MpicOK, cpu, data, mpic
<1> QED
  BY <1>1, <1>8, <1>9, <1>10, <1>11 DEF IrqInv

\* A handler's frame goes on from one stage to another.
LEMMA ServingGoesOn ==
    ASSUME IrqInv, panic = "no", panic' = "no", Top.op = NoCall, Top.at \in Serving,
           NEW f \in Frame, Now(f), f.op = NoCall, f.at \in Serving,
           f.kind = Top.kind, f.saved = Top.saved, f.line = Top.line, f.prev = Top.prev,
           f.tbl \in made \cup {NoTable}, DataOK',
           UNCHANGED <<cpu, made, type, context, mpic>>
    PROVE  IrqInv'
<1>1. UNCHANGED <<ee, ce, srr, csrr, line, pending, service>> /\ Top.at # "program"
  BY DEF cpu, mpic, Serving
<1>2. PICK d \in Nat : d = Depth /\ d > 1
  BY <1>1, Dispatching
<1>3. PICK E, T, P : /\ Nest(E, T, P) /\ Link(d, E, T, P) /\ stack[d] = Top
                     /\ type = T[d] /\ Len(service) = P[d]
  BY <1>1, <1>2, Dispatching
<1>4. /\ f.at \in Typed /\ f.at \notin Starting /\ f.at \notin {"begin", "rfi", "program", "epilogue"}
      /\ Top.at \in Typed /\ (Acked(f) <=> Acked(Top))
  BY DEF Typed, Serving, Starting, Acked
<1>5. /\ f.prev = T[d - 1]
      /\ ~Acked(f) => Len(service) = P[d - 1]
      /\ Acked(f) => /\ Len(service) = P[d - 1] + 1
                     /\ service[Len(service)].line = f.line
                     /\ service[Len(service)].class = type
  BY <1>3, <1>4 DEF Link
<1>6. StackOK' /\ Shapes' /\ Core' /\ Nested'
  BY <1>1, <1>2, <1>3, <1>4, <1>5, Dispatching, DispatchGoesOn
<1>7. ContextCounts'
  BY CountGoesOn DEF IrqInv, Counted, Serving
<1>8. CpuOK' /\ MpicOK' /\ type' \in IrqType
  BY <1>1 DEF IrqInv, CpuOK, MpicOK
<1> QED
  BY <1>6, <1>7, <1>8 DEF IrqInv

LEMMA HighestIsOne ==
    ASSUME MpicOK, NEW S \in SUBSET Line, S # {}
    PROVE  Highest(S) \in S
<1> DEFINE W == { MaxPriority - line[i].priority : i \in S }
<1>1. \A i \in S : line[i].priority \in Nat /\ line[i].priority <= MaxPriority /\ i \in Nat
  BY IrqAssumption DEF MpicOK, Vector
<1>2. W \in SUBSET Nat /\ W # {}
  BY <1>1, IrqAssumption
<1>3. PICK n \in W : \A m \in W : n <= m
  <2> HIDE DEF W
  <2> QED
    BY <1>2, LeastNatural
<1> DEFINE B == { i \in S : MaxPriority - line[i].priority = n }
<1>4. B \in SUBSET Nat /\ B # {}
  BY <1>1, <1>3
<1>5. PICK i \in B : \A j \in B : i <= j
  <2> HIDE DEF B
  <2> QED
    BY <1>4, LeastNatural
<1>6. i \in S /\ MaxPriority - line[i].priority = n
  OBVIOUS
<1>7. ASSUME NEW j \in S
      PROVE  \/ line[i].priority > line[j].priority
             \/ line[i].priority = line[j].priority /\ i <= j
  <2>1. n <= MaxPriority - line[j].priority
    BY <1>3
  <2>2. MaxPriority - line[j].priority = n => i <= j
    BY <1>5
  <2> QED
    BY <1>1, <1>6, <2>1, <2>2, IrqAssumption
<1> HIDE DEF W, B
<1> QED
  BY <1>6, <1>7 DEF Highest

\* The frame that acknowledges a critical interrupt, rather than being
\* preempted by it, has been taken for one.
LEMMA CriticalIsAcknowledged ==
    ASSUME IrqInv, Undisturbed, Top.at = "begin", Signalled("critical") # {}
    PROVE  /\ Top.kind = "critical" /\ csrr = Top.saved /\ csrr.ce
           /\ ~ee
<1>1. panic = "no" /\ ~ce
  BY DEF Undisturbed, Taken, Class
<1>2. Top.kind = "critical"
  BY <1>1, NotInCall DEF IrqInv, Core
<1>3. PICK E, T, P : Link(Depth, E, T, P) /\ stack[Depth] = Top
  BY <1>1, Dispatching
<1> QED
  BY <1>2, <1>3 DEF Link, Starting

\* mpic128_begin() returns line i, or Spurious.
LEMMA BeginGoesOn ==
    ASSUME IrqInv, Undisturbed, panic' = "no", Top.at = "begin",
           NEW i \in Vector, Now([Top EXCEPT !.at = "lookup", !.line = i]),
           UNCHANGED <<srr, csrr, data, context, line>>,
           \/ UNCHANGED <<ee, ce>>
           \/ Top.kind = "critical" /\ csrr = Top.saved /\ ee' = csrr.ee /\ ce' = csrr.ce /\ csrr.ce,
           \/ i = Spurious /\ service' = service /\ type' = type
           \/ /\ i \in Line /\ type' \in Class
              /\ service' = Append(service, [ line |-> i, class |-> type',
                                              priority |-> line[i].priority ])
    PROVE  StackOK' /\ Shapes' /\ Core' /\ Nested' /\ ContextCounts'
<1>1. panic = "no" /\ Top.op = NoCall /\ made' = made
  BY NotInCall DEF data
<1>2. PICK d \in Nat : d = Depth /\ d > 1
  BY <1>1, Dispatching
<1>3. PICK E, T, P : /\ Nest(E, T, P) /\ Link(d, E, T, P) /\ stack[d] = Top
                     /\ type = T[d] /\ Len(service) = P[d] /\ P[d - 1] \in Nat
  BY <1>1, <1>2, Dispatching
<1>4. PICK f : f = [Top EXCEPT !.at = "lookup", !.line = i]
  OBVIOUS
<1>5. /\ f \in Frame /\ f.at = "lookup" /\ f.line = i /\ f.kind = Top.kind /\ f.tbl = Top.tbl
      /\ f.saved = Top.saved /\ f.op = NoCall /\ f.prev = Top.prev
  <2>1. "lookup" \in Stage /\ Top \in Frame
    BY <1>1, Dispatching DEF Stage
  <2> QED
    BY <1>1, <1>4, <2>1 DEF Frame
<1>6. Now(f)
  BY <1>4
<1>7. /\ f.at \in Typed /\ f.at \notin Starting /\ (Acked(f) <=> i # Spurious)
      /\ f.at \notin {"begin", "rfi", "program", "epilogue"}
      /\ Top.at \in Typed /\ Top.at \in Starting /\ ~Acked(Top)
  BY <1>5 DEF Typed, Serving, Starting, Acked
<1>8. Top.prev = T[d - 1] /\ Len(service) = P[d - 1] /\ type = "normal"
  BY <1>3, <1>7 DEF Link
<1>9. i \in Line => i # Spurious
  BY IrqAssumption
<1>10. /\ Len(service') \in Nat
       /\ ~Acked(f) => Len(service') = P[d - 1]
       /\ Acked(f) => /\ Len(service') = P[d - 1] + 1
                      /\ service'[Len(service')].line = i
                      /\ service'[Len(service')].class = type'
       /\ \A n \in 1 .. P[d - 1] : service'[n] = service[n]
  <2>1. CASE i = Spurious /\ service' = service
    BY <1>3, <1>7, <1>8, <2>1
  <2>2. CASE i # Spurious
    <3>1. PICK e \in [ line : Line, class : Class, priority : Nat ] :
             e = [ line |-> i, class |-> type', priority |-> line[i].priority ]
      BY <1>9, <2>2 DEF IrqInv, MpicOK
    <3>2. service' = Append(service, e)
      BY <1>9, <2>2, <3>1
    <3>3. /\ Len(service') = Len(service) + 1 /\ service'[Len(service) + 1] = e
          /\ \A n \in 1 .. Len(service) : service'[n] = service[n]
      BY <3>2, AppendProperties DEF IrqInv, MpicOK
    <3> QED
      BY <1>3, <1>7, <1>8, <2>2, <3>1, <3>3
  <2> QED
    BY <1>9, <2>1, <2>2
<1>11. type' \in IrqType /\ ee' \in BOOLEAN /\ ce' \in BOOLEAN
  BY DEF IrqInv, CpuOK, State, IrqType
<1>12. UNCHANGED <<ee, ce>> \/ (Top.kind = "critical" /\ ee' = Top.saved.ee /\ ce')
  OBVIOUS
<1>13. csrr' = csrr /\ csrr'.to \in Nat /\ srr' = srr /\ f.tbl \in made \cup {NoTable}
  BY <1>1, <1>5, Dispatching
<1>14. StackOK' /\ Shapes' /\ Core' /\ Nested'
  BY <1>1, <1>2, <1>3, <1>5, <1>6, <1>7, <1>8, <1>10, <1>11, <1>12, <1>13, DispatchGoesOn
<1>15. ContextCounts'
  BY <1>5, <1>6, CountGoesOn DEF IrqInv, Counted
<1> QED
  BY <1>14, <1>15

LEMMA BeginStep ==
    ASSUME IrqInv, Begin
    PROVE  IrqInv'
<1>1. /\ Undisturbed /\ Top.at = "begin" /\ panic = "no" /\ panic' = "no"
      /\ UNCHANGED <<srr, csrr, data, context, line>>
  BY DEF Begin, Undisturbed
<1>2. DataOK'
  BY <1>1 DEF IrqInv, DataOK, data
<1>3. ASSUME NEW c \in Class, Signalled(c) # {}, Acknowledge(Highest(Signalled(c))),
             type' = c,
             \/ UNCHANGED <<ee, ce>>
             \/ /\ Top.kind = "critical" /\ csrr = Top.saved
                /\ ee' = csrr.ee /\ ce' = csrr.ce /\ csrr.ce
      PROVE  IrqInv'
  <2>1. PICK i \in Line : i = Highest(Signalled(c)) /\ i \in Signalled(c)
    <3>1. Signalled(c) \in SUBSET Line
      BY DEF Signalled, IrqInv, MpicOK
    <3> QED
      BY <1>3, <3>1, HighestIsOne DEF IrqInv
  <2>2. ClassOf(i) = c /\ i \in Vector
    BY <2>1 DEF Signalled, Vector
  <2>3. /\ Now([Top EXCEPT !.at = "lookup", !.line = i])
        /\ service' = Append(service, [ line |-> i, class |-> type',
                                        priority |-> line[i].priority ])
        /\ pending' = pending \ {i}
    BY <1>3, <2>1, <2>2 DEF Acknowledge
  <2>4. StackOK' /\ Shapes' /\ Core' /\ Nested' /\ ContextCounts'
    BY <1>1, <1>3, <2>2, <2>3, BeginGoesOn
  <2>5. MpicOK'
    <3>1. [ line |-> i, class |-> type', priority |-> line[i].priority ]
              \in [ line : Line, class : Class, priority : Nat ]
      BY <1>3 DEF IrqInv, MpicOK
    <3>2. service' \in Seq([ line : Line, class : Class, priority : Nat ])
      BY <2>3, <3>1, AppendProperties DEF IrqInv, MpicOK
    <3> QED
      BY <1>1, <2>3, <3>2 DEF IrqInv, MpicOK
  <2>6. CpuOK' /\ type' \in IrqType
    BY <1>1, <1>3 DEF IrqInv, CpuOK, State, IrqType
  <2> QED
    BY <1>1, <1>2, <2>4, <2>5, <2>6 DEF IrqInv
<1>4. CASE /\ Signalled("critical") # {}
           /\ Acknowledge(Highest(Signalled("critical")))
           /\ type' = "critical"
           /\ ee' = Interrupted.ee /\ ce' = Interrupted.ce
  <2>1. Top.kind = "critical" /\ csrr = Top.saved /\ csrr.ce
    BY <1>1, <1>4, CriticalIsAcknowledged
  <2> QED
    BY <1>3, <1>4, <2>1 DEF Class, Interrupted
<1>5. CASE /\ Signalled("critical") = {} /\ Signalled("normal") # {}
           /\ Acknowledge(Highest(Signalled("normal")))
           /\ UNCHANGED <<type, ee, ce>>
  <2>1. type = "normal"
    <3>1. Top.at # "program"
      BY <1>1
    <3>2. PICK E, T, P : Link(Depth, E, T, P) /\ stack[Depth] = Top /\ type = T[Depth]
      BY <1>1, <3>1, Dispatching
    <3> QED
      BY <1>1, <3>2 DEF Link
  <2> QED
    BY <1>3, <1>5, <2>1 DEF Class
<1>6. CASE /\ \A c \in Class : Signalled(c) = {}
           /\ Now([Top EXCEPT !.at = "lookup", !.line = Spurious])
           /\ UNCHANGED <<type, ee, ce, pending, service>>
  <2>1. Spurious \in Vector
    BY DEF Vector
  <2>2. StackOK' /\ Shapes' /\ Core' /\ Nested' /\ ContextCounts'
    BY <1>1, <1>6, <2>1, BeginGoesOn
  <2>3. CpuOK' /\ MpicOK' /\ type' \in IrqType
    BY <1>1, <1>6 DEF IrqInv, CpuOK, MpicOK
  <2> QED
    BY <1>1, <1>2, <2>2, <2>3 DEF IrqInv
<1> QED
  BY <1>4, <1>5, <1>6 DEF Begin

LEMMA LookupStep ==
    ASSUME IrqInv, Lookup
    PROVE  IrqInv'
<1>1. /\ panic = "no" /\ Top.op = NoCall /\ Top.at = "lookup"
      /\ UNCHANGED <<cpu, data, type, context, mpic>>
  BY NotInCall DEF Lookup
<1>2. CASE ~check_irq_id(Top.line)
  BY <1>1, <1>2, PanicStep DEF Lookup
<1>3. CASE check_irq_id(Top.line)
  <2>1. /\ Top \in Frame /\ Top.line \in Vector /\ active \in made \cup {NoTable}
        /\ active \in Ref /\ (active # NoTable => active \in Table)
    BY <1>1, Dispatching, FrameFields DEF IrqInv, DataOK, Ref
  <2>2. PICK h \in Handler \cup {NoHandler} :
            h = IF active = NoTable THEN NoHandler ELSE table[active][Top.line].handler
    BY <2>1, EntryFields DEF IrqInv
  <2>3. PICK r \in Handler \cup {NoHandler} :
            r = IF active = NoTable THEN NoHandler ELSE table[active][Top.line].arg
    BY <2>1, EntryFields DEF IrqInv
  <2>4. PICK f : f = [Top EXCEPT !.at = "handler", !.tbl = active,
                                 !.handler = h, !.arg = r]
    OBVIOUS
  <2>5. /\ f \in Frame /\ f.at = "handler" /\ f.tbl = active /\ f.kind = Top.kind
        /\ f.line = Top.line /\ f.saved = Top.saved /\ f.op = NoCall /\ f.prev = Top.prev
    <3>1. "handler" \in Stage
      BY DEF Stage
    <3> QED
      BY <1>1, <2>1, <2>4, <3>1 DEF Frame
  <2>6. Now(f) /\ panic' = "no"
    BY <1>1, <1>3, <2>2, <2>3, <2>4 DEF Lookup
  <2>7. Top.at \in Serving /\ f.at \in Serving /\ DataOK' /\ made' = made
    BY <1>1, <2>5 DEF Serving, IrqInv, DataOK, data
  <2> QED
    BY <1>1, <2>1, <2>5, <2>6, <2>7, ServingGoesOn
<1> QED
  BY <1>2, <1>3

LEMMA HandlerReturnsStep ==
    ASSUME IrqInv, HandlerReturns
    PROVE  IrqInv'
<1>1. /\ panic = "no" /\ panic' = "no" /\ Top.op = NoCall /\ Top.at = "handler"
      /\ UNCHANGED <<cpu, data, type, context, mpic>>
  BY DEF HandlerReturns, Undisturbed
<1>2. Top \in Frame /\ Top.tbl \in made \cup {NoTable} /\ "account" \in Stage
  BY <1>1, Dispatching DEF Stage
<1>3. PICK f : f = [Top EXCEPT !.at = "account"]
  OBVIOUS
<1>4. /\ f \in Frame /\ f.at = "account" /\ f.kind = Top.kind /\ f.tbl = Top.tbl
      /\ f.line = Top.line /\ f.saved = Top.saved /\ f.op = NoCall /\ f.prev = Top.prev
  BY <1>1, <1>2, <1>3, FrameGoesTo
<1>5. Now(f)
  BY <1>3 DEF HandlerReturns, Goto
<1>6. Top.at \in Serving /\ f.at \in Serving /\ DataOK' /\ made' = made
  BY <1>1, <1>4 DEF Serving, IrqInv, DataOK, data
<1> QED
  BY <1>1, <1>2, <1>4, <1>5, <1>6, ServingGoesOn

LEMMA AccountStep ==
    ASSUME IrqInv, Account
    PROVE  IrqInv'
<1>1. /\ panic = "no" /\ panic' = "no" /\ Top.op = NoCall /\ Top.at = "account"
      /\ UNCHANGED <<cpu, made, active, type, context, mpic>>
  BY NotInCall DEF Account
<1>2. Top \in Frame /\ Top.tbl \in made \cup {NoTable} /\ "end" \in Stage
  BY <1>1, Dispatching DEF Stage
<1>3. PICK f : f = [Top EXCEPT !.at = "end"]
  OBVIOUS
<1>4. /\ f \in Frame /\ f.at = "end" /\ f.kind = Top.kind /\ f.tbl = Top.tbl
      /\ f.line = Top.line /\ f.saved = Top.saved /\ f.op = NoCall /\ f.prev = Top.prev
  BY <1>1, <1>2, <1>3, FrameGoesTo
<1>5. Now(f)
  BY <1>3 DEF Account, Goto
<1>6. Top.at \in Serving /\ f.at \in Serving
  BY <1>1, <1>4 DEF Serving
<1>7. DataOK'
  <2>1. CASE Top.tbl = NoTable
    BY <1>1, <2>1 DEF Account, IrqInv, DataOK
  <2>2. CASE Top.tbl # NoTable
    <3>1. Top.tbl \in Table /\ Top.line \in Vector
      BY <1>2, <2>2, FrameFields DEF IrqInv, DataOK
    <3>2. PICK n \in 0 .. CountMod - 1 : n = (table[Top.tbl][Top.line].count + 1) % CountMod
      <4>1. table[Top.tbl][Top.line].count \in 0 .. CountMod - 1 /\ CountMod \in Nat \ {0}
        BY <3>1, EntryFields, IrqAssumption DEF IrqInv
      <4> QED
        BY <4>1
    <3>3. table' = [table EXCEPT ![Top.tbl][Top.line].count = n]
      BY <2>2, <3>2 DEF Account
    <3>4. NoHandler \in Handler \cup {NoHandler} /\ 0 \in Nat
      OBVIOUS
    <3>5. table' \in [Table -> [Vector -> Entry]]
      BY <3>1, <3>3, <3>4, TableChanges DEF IrqInv
    <3> QED
      BY <1>1, <3>5 DEF IrqInv, DataOK
  <2> QED
    BY <2>1, <2>2
<1> QED
  BY <1>1, <1>2, <1>4, <1>5, <1>6, <1>7, ServingGoesOn

\* The EOI of class c is that of the last interrupt in service, if c is its class.
LEMMA LastIsEnded ==
    ASSUME NEW S, service \in Seq(S), service # << >>,
           NEW c, service[Len(service)].class = c
    PROVE  EndOfInterrupt(c) = SubSeq(service, 1, Len(service) - 1)
<1>1. PICK n \in Nat \ {0} : n = Len(service)
  BY EmptySeq
<1> DEFINE ks == { k \in DOMAIN service : service[k].class = c }
<1>2. n \in ks /\ \A k \in ks : k \in Nat /\ k <= n
  BY <1>1, LenProperties
<1>3. n = CHOOSE k \in ks : \A j \in ks : j <= k
  <2>1. \E k \in ks : \A j \in ks : j <= k
    BY <1>2
  <2>2. PICK k \in ks : k = (CHOOSE m \in ks : \A j \in ks : j <= m) /\ \A j \in ks : j <= k
    BY <2>1
  <2> QED
    BY <1>1, <1>2, <2>2
<1>4. EndOfInterrupt(c) = SubSeq(service, 1, n - 1) \o SubSeq(service, n + 1, Len(service))
  BY <1>2, <1>3 DEF EndOfInterrupt
<1>5. SubSeq(service, n + 1, Len(service)) = << >>
  BY <1>1, SubSeqEmpty
<1>6. SubSeq(service, 1, n - 1) \in Seq(S)
  <2>1. \A k \in 1 .. n - 1 : service[k] \in S
    BY <1>1, ElementOfSeq
  <2> QED
    BY <1>1, <2>1, SubSeqProperties
<1> QED
  BY <1>1, <1>4, <1>5, <1>6, ConcatEmptySeq

LEMMA InServiceType ==
    ASSUME MpicOK, NEW k \in 1 .. Len(service)
    PROVE  service[k] \in [ line : Line, class : Class, priority : Nat ]
<1> DEFINE S == [ line : Line, class : Class, priority : Nat ]
<1>1. service \in Seq(S)
  BY DEF MpicOK
<1> HIDE DEF S
<1>2. service[k] \in S
  BY <1>1, ElementOfSeq
<1> QED
  BY <1>2 DEF S

LEMMA EndStep ==
    ASSUME IrqInv, End
    PROVE  IrqInv'
<1>1. /\ panic = "no" /\ panic' = "no" /\ Top.op = NoCall /\ Top.at = "end"
      /\ UNCHANGED <<ee, ce, srr, csrr, data, type, context, line, pending>>
  BY NotInCall DEF End, cpu
<1>2. PICK d \in Nat : d = Depth /\ d > 1
  BY <1>1, Dispatching
<1>3. PICK E, T, P : /\ Nest(E, T, P) /\ Link(d, E, T, P) /\ stack[d] = Top
                     /\ type = T[d] /\ Len(service) = P[d] /\ P[d - 1] \in Nat
  BY <1>1, <1>2, Dispatching
<1>4. PICK f : f = [Top EXCEPT !.at = "leave"]
  OBVIOUS
<1>5. /\ f \in Frame /\ f.at = "leave" /\ f.kind = Top.kind /\ f.tbl = Top.tbl
      /\ f.line = Top.line /\ f.saved = Top.saved /\ f.op = NoCall /\ f.prev = Top.prev
  BY <1>1, <1>4, Dispatching, FrameGoesTo DEF Stage
<1>6. Now(f)
  BY <1>4 DEF End, Goto
<1>7. /\ f.at \in Typed /\ f.at \notin Starting /\ ~Acked(f)
      /\ f.at \notin {"begin", "rfi", "program", "epilogue"}
      /\ Top.at \in Typed /\ (Acked(Top) <=> Top.line # Spurious)
  BY <1>1, <1>5 DEF Typed, Serving, Starting, Acked
<1>8. /\ Top.prev = T[d - 1]
      /\ Top.line = Spurious => Len(service) = P[d - 1]
      /\ Top.line # Spurious => Len(service) = P[d - 1] + 1 /\ service[Len(service)].class = type
  BY <1>3, <1>7 DEF Link
<1>9. /\ service' \in Seq([ line : Line, class : Class, priority : Nat ])
      /\ Len(service') = P[d - 1]
      /\ \A n \in 1 .. P[d - 1] : service'[n] = service[n]
  <2>1. CASE Top.line = Spurious
    BY <1>8, <2>1 DEF End, IrqInv, MpicOK
  <2>2. CASE Top.line # Spurious
    <3>1. service # << >> /\ Len(service) \in Nat \ {0}
      BY <1>3, <1>8, <2>2, EmptySeq
    <3>2. service[Len(service)] \in [ line : Line, class : Class, priority : Nat ]
      BY <3>1, InServiceType DEF IrqInv
    <3>3. service[Len(service)].class = EoiClass
      BY <1>8, <2>2, <3>2 DEF EoiClass, Class
    <3>4. service' = SubSeq(service, 1, Len(service) - 1)
      BY <2>2, <3>1, <3>3, LastIsEnded DEF End, IrqInv, MpicOK
    <3>5. \A k \in 1 .. Len(service) - 1 :
              service[k] \in [ line : Line, class : Class, priority : Nat ]
      BY <3>1, InServiceType DEF IrqInv
    <3> QED
      BY <1>3, <1>8, <2>2, <3>1, <3>4, <3>5, SubSeqProperties
  <2> QED
    BY <2>1, <2>2
<1>10. type \in IrqType /\ ee \in BOOLEAN /\ csrr.to \in Nat /\ Len(service') \in Nat
       /\ f.tbl \in made \cup {NoTable} /\ made' = made
  BY <1>1, <1>3, <1>5, <1>9, Dispatching DEF data
<1>11. StackOK' /\ Shapes' /\ Core' /\ Nested'
  BY <1>1, <1>2, <1>3, <1>5, <1>6, <1>7, <1>8, <1>9, <1>10, DispatchGoesOn
<1>12. ContextCounts'
  BY <1>1, <1>5, <1>6, CountGoesOn DEF IrqInv, Counted
<1>13. CpuOK' /\ DataOK' /\ MpicOK' /\ type' \in IrqType
  BY <1>1, <1>9 DEF IrqInv, CpuOK, DataOK, MpicOK, data
<1> QED
  BY <1>1, <1>11, <1>12, <1>13 DEF IrqInv

LEMMA LeaveStep ==
    ASSUME IrqInv, Leave
    PROVE  IrqInv'
<1>1. /\ panic = "no" /\ panic' = "no" /\ Top.op = NoCall /\ Top.at = "leave"
      /\ UNCHANGED <<ee, ce, srr, csrr, made, service>>
      /\ type' = Top.prev /\ context' = context - 1
  BY NotInCall DEF Leave, cpu, data, mpic, PreviousType, OuterContext
<1>2. PICK d \in Nat : d = Depth /\ d > 1
  BY <1>1, Dispatching
<1>3. PICK E, T, P : /\ Nest(E, T, P) /\ Link(d, E, T, P) /\ stack[d] = Top
                     /\ type = T[d] /\ Len(service) = P[d] /\ T[d - 1] \in IrqType
  BY <1>1, <1>2, Dispatching
<1>4. PICK a \in {"epilogue", "rfi"} : a = IF Top.kind = "critical" THEN "epilogue" ELSE "rfi"
  OBVIOUS
<1>5. PICK f : f = [Top EXCEPT !.at = a]
  OBVIOUS
<1>6. /\ f \in Frame /\ f.at = a /\ f.kind = Top.kind /\ f.tbl = Top.tbl
      /\ f.line = Top.line /\ f.saved = Top.saved /\ f.op = NoCall
  BY <1>1, <1>5, Dispatching, FrameGoesTo DEF Stage
<1>7. Now(f)
  BY <1>4, <1>5 DEF Leave, Goto
<1>8. /\ f.at \notin Typed /\ f.at \notin Starting /\ ~Acked(f)
      /\ f.at \notin {"begin", "program"} /\ ~(f.kind = "critical" /\ f.at = "rfi")
      /\ Top.at \in Typed /\ ~Acked(Top)
  BY <1>1, <1>4, <1>6 DEF Typed, Serving, Starting, Acked
<1>9. type' = T[d - 1] /\ Len(service) = P[d - 1]
  BY <1>1, <1>3, <1>8 DEF Link
<1>10. StackOK' /\ Shapes' /\ Core' /\ Nested'
  BY <1>1, <1>2, <1>3, <1>4, <1>6, <1>7, <1>8, <1>9, Dispatching, DispatchGoesOn, SMTT(20)
<1>11. ContextCounts'
  BY <1>1, <1>4, <1>6, <1>7, CountGoesOn DEF IrqInv, Counted
<1>12. CpuOK' /\ DataOK' /\ MpicOK' /\ type' \in IrqType
  BY <1>3, <1>9 DEF IrqInv, Leave, CpuOK, DataOK, MpicOK, cpu, data, mpic
<1> QED
  BY <1>1, <1>10, <1>11, <1>12 DEF IrqInv

LEMMA EpilogueStep ==
    ASSUME IrqInv, Epilogue
    PROVE  IrqInv'
<1>1. /\ panic = "no" /\ panic' = "no" /\ Top.op = NoCall /\ Top.at = "epilogue"
      /\ UNCHANGED <<ee, ce, srr, made, type, service, context>>
      /\ csrr' = Top.saved
  BY NotInCall DEF Epilogue, data, mpic
<1>2. PICK d \in Nat : d = Depth /\ d > 1
  BY <1>1, Dispatching
<1>3. PICK E, T, P : /\ Nest(E, T, P) /\ Link(d, E, T, P) /\ stack[d] = Top
                     /\ type = T[d] /\ Len(service) = P[d]
  BY <1>1, <1>2, Dispatching
<1>4. PICK f : f = [Top EXCEPT !.at = "rfi"]
  OBVIOUS
<1>5. /\ f \in Frame /\ f.at = "rfi" /\ f.kind = Top.kind /\ f.tbl = Top.tbl
      /\ f.line = Top.line /\ f.saved = Top.saved /\ f.op = NoCall
  BY <1>1, <1>4, Dispatching, FrameGoesTo DEF Stage
<1>6. Now(f)
  BY <1>4 DEF Epilogue, Goto
<1>7. /\ f.at \notin Typed /\ f.at \notin Starting /\ ~Acked(f)
      /\ f.at \notin {"begin", "program"}
      /\ Top.at \notin Typed /\ ~Acked(Top)
  BY <1>1, <1>5 DEF Typed, Serving, Starting, Acked
<1>8. type = T[d - 1] /\ Len(service) = P[d - 1] /\ Top.saved.to = d - 1
  <2>1. Top.kind = "critical"
    BY <1>1, TopFits DEF Fits, IrqInv
  <2> QED
    BY <1>3, <1>7, <2>1 DEF Link
<1>10. StackOK' /\ Shapes' /\ Core' /\ Nested'
  BY <1>1, <1>2, <1>3, <1>5, <1>6, <1>7, <1>8, Dispatching, DispatchGoesOn
<1>11. ContextCounts'
  BY <1>1, <1>5, <1>6, CountGoesOn DEF IrqInv, Counted
<1>12. CpuOK' /\ DataOK' /\ MpicOK' /\ type' \in IrqType
  BY <1>1, Dispatching DEF IrqInv, Epilogue, CpuOK, DataOK, MpicOK, data, mpic
<1> QED
  BY <1>1, <1>10, <1>11, <1>12 DEF IrqInv

\* rfi and rfci.
LEMMA ReturnStep ==
    ASSUME IrqInv, Return
    PROVE  IrqInv'
<1>1. /\ panic = "no" /\ Top.op = NoCall /\ Top.at = "rfi"
      /\ UNCHANGED <<srr, csrr, data, type, context, mpic>>
  BY NotInCall DEF Return
<1>2. PICK d \in Nat : d = Depth /\ d > 1
  BY <1>1, Dispatching
<1>3. PICK E, T, P : /\ Nest(E, T, P) /\ Link(d, E, T, P) /\ stack[d] = Top
                     /\ type = T[d] /\ Len(service) = P[d]
  BY <1>1, <1>2, Dispatching
<1>4. PICK r \in State : r = IF Top.kind = "critical" THEN csrr ELSE srr
  BY DEF IrqInv, CpuOK
<1>5. /\ ee' = r.ee /\ ce' = r.ce
      /\ \/ r.to < d /\ stack' = SubSeq(stack, 1, r.to) /\ panic' = "no"
         \/ ~(r.to < d) /\ panic' = "lost" /\ stack' = stack
  BY <1>1, <1>2, <1>4 DEF Return
<1>6. r.to \in Nat /\ r.ee \in BOOLEAN /\ r.ce \in BOOLEAN /\ Top.kind \in Class
  BY <1>1, Dispatching DEF State
<1>7. CpuOK' /\ DataOK' /\ MpicOK' /\ type' \in IrqType
  BY <1>1, <1>5, <1>6 DEF IrqInv, CpuOK, DataOK, MpicOK, data, mpic
<1>8. CASE r.to < d
  <2>1. r.to = d - 1 /\ r.ee = E[d - 1] /\ r.ce
    <3>1. CASE Top.kind = "critical"
      <4>1. csrr = Top.saved /\ Top.saved.to = d - 1 /\ Top.saved.ee = E[d - 1] /\ Top.saved.ce
        BY <1>1, <1>3, <1>4, <1>6, <1>8, <3>1 DEF Link
      <4> QED
        BY <1>4, <3>1, <4>1
    <3>2. CASE Top.kind = "normal"
      <4>1. srr.to = d - 1 /\ E[d - 1] /\ srr.ee /\ srr.ce
        BY <1>3, <3>2 DEF Link
      <4>2. d - 1 \in 1 .. d /\ E[d - 1] \in BOOLEAN
        BY <1>2, <1>3 DEF Nest
      <4> QED
        BY <1>4, <1>6, <3>2, <4>1, <4>2
    <3> QED
      BY <1>6, <3>1, <3>2 DEF Class
  <2>2. stack' = SubSeq(stack, 1, d - 1) /\ panic' = "no" /\ ee' = E[d - 1] /\ ce'
    BY <1>2, <1>5, <1>6, <1>8, <2>1
  <2>3. /\ StackOK' /\ Depth' = d - 1 /\ Top' = stack[d - 1]
        /\ \A k \in 1 .. d - 1 : stack'[k] = stack[k]
    BY <1>2, <2>2, Popped DEF IrqInv, StackOK
  <2>4. Shapes'
    <3>1. ASSUME NEW k \in 1 .. d - 1
          PROVE  Fits(stack[k], k)'
      <4>1. Fits(stack[k], k)
        BY <1>2 DEF IrqInv, Shapes
      <4>2. PICK g : g = stack[k] /\ g = stack'[k]
        BY <2>3
      <4>3. Fits(g, k)'
        BY <1>1, <4>1, <4>2, FitsStay DEF data
      <4> QED
        BY <4>2, <4>3
    <3> QED
      BY <2>3, <3>1 DEF Shapes
  <2>5. Core'
    BY <2>2 DEF Core
  <2>6. Nested'
    <3>1. UNCHANGED <<srr, csrr, type, service>>
      BY <1>1 DEF mpic
    <3> QED
      BY <1>1, <1>2, <1>3, <2>2, <3>1, FramePopped DEF IrqInv, StackOK
  <2>7. ContextCounts'
    BY <1>1, <1>2, <2>2, CountPopped DEF IrqInv, Counted
  <2> QED
    BY <1>7, <2>2, <2>3, <2>4, <2>5, <2>6, <2>7 DEF IrqInv
<1>9. CASE ~(r.to < d)
  <2>1. Top.kind = "critical"
    <3>1. CASE Top.kind = "normal"
      <4>1. srr.to = d - 1
        BY <1>3, <3>1 DEF Link
      <4> QED
        BY <1>2, <1>4, <1>9, <3>1, <4>1
    <3> QED
      BY <1>6, <3>1 DEF Class
  <2>2. panic' = "lost" /\ stack' = stack
    BY <1>5, <1>9
  <2>3. StackOK' /\ Shapes' /\ Core' /\ Nested' /\ ContextCounts'
    BY <1>1, <2>1, <2>2, StackStays DEF data, mpic
  <2> QED
    BY <1>7, <2>2, <2>3 DEF IrqInv
<1> QED
  BY <1>8, <1>9

LEMMA NewFrameType ==
    ASSUME NEW k \in Class, NEW s \in State
    PROVE  /\ NewFrame(k, "enter", s) \in Frame
           /\ NewFrame(k, "enter", s).kind = k /\ NewFrame(k, "enter", s).at = "enter"
           /\ NewFrame(k, "enter", s).op = NoCall /\ NewFrame(k, "enter", s).saved = s
           /\ NewFrame(k, "enter", s).tbl = NoTable
BY NoCallType DEF NewFrame, Frame, Stage, Vector, Ref, IrqType

\* A new frame fits.
LEMMA ShapesPushed ==
    ASSUME StackOK, Shapes, made' = made, NEW f \in Frame, stack' = Append(stack, f),
           f.kind \in Class, f.at = "enter", f.op = NoCall, f.tbl = NoTable
    PROVE  Shapes'
<1>1. PICK d \in Nat \ {0} : d = Depth
  BY StackType DEF StackOK
<1>2. Depth' = d + 1 /\ stack'[d + 1] = f /\ \A k \in 1 .. d : stack'[k] = stack[k]
  BY <1>1, Pushed DEF StackOK
<1>3. ASSUME NEW k \in 1 .. d + 1
      PROVE  Fits(stack[k], k)'
  <2>1. CASE k = d + 1
    <3>1. OpOK(NoCall)'
      BY DEF OpOK, NoCall
    <3>2. Fits(f, k)'
      BY <1>1, <2>1, <3>1 DEF Fits
    <3> QED
      BY <1>2, <2>1, <3>2
  <2>2. CASE k <= d
    <3>1. k \in 1 .. d /\ Fits(stack[k], k)
      BY <1>1, <2>2 DEF Shapes
    <3>2. PICK g : g = stack[k] /\ g = stack'[k]
      BY <1>2, <3>1
    <3>3. Fits(g, k)'
      BY <3>1, <3>2, FitsStay
    <3> QED
      BY <3>2, <3>3
  <2>3. k = d + 1 \/ k <= d
    OBVIOUS
  <2> QED
    BY <2>1, <2>2, <2>3
<1> QED
  BY <1>2, <1>3 DEF Shapes

LEMMA TakeStep ==
    ASSUME IrqInv, TakeNormal \/ TakeCritical
    PROVE  IrqInv'
<1>1. PICK E, T, P : Nest(E, T, P)
  BY DEF IrqInv, Nested
<1>2. /\ panic = "no" /\ panic' = "no" /\ ee' = FALSE
      /\ UNCHANGED <<data, type, context, line, pending, service, made>>
  BY DEF TakeNormal, TakeCritical, mpic, data
<1>3. /\ type \in IrqType /\ Len(service) \in Nat /\ ee \in BOOLEAN /\ ce \in BOOLEAN
      /\ csrr.to \in Nat /\ Depth \in Nat
  BY LenProperties, TopFits DEF IrqInv, CpuOK, MpicOK, State
<1>4. Reset \in State /\ [ to |-> Depth, ee |-> ee, ce |-> ce ] \in State
  BY <1>3 DEF Reset, State
<1>5. CpuOK' /\ DataOK' /\ MpicOK' /\ type' \in IrqType
  BY <1>2, <1>4 DEF IrqInv, TakeNormal, TakeCritical, CpuOK, DataOK, MpicOK, data
<1>6. CASE TakeNormal
  <2>1. /\ stack' = Append(stack, NewFrame("normal", "enter", Reset))
        /\ UNCHANGED <<ce, csrr>> /\ ee
        /\ srr' = [ to |-> Depth, ee |-> ee, ce |-> ce ]
    BY <1>6 DEF TakeNormal, Taken
  <2>2. ce
    BY <1>2, <2>1 DEF IrqInv, Core
  <2>3. PICK f \in Frame : f = NewFrame("normal", "enter", Reset)
    BY <1>4, NewFrameType DEF Class
  <2>4. f.kind = "normal" /\ f.at = "enter" /\ f.op = NoCall /\ f.tbl = NoTable
    BY <1>4, <2>3, NewFrameType DEF Class
  <2>5. stack' = Append(stack, f) /\ f.kind \in Class
    BY <2>1, <2>3, <2>4 DEF Class
  <2>6. StackOK' /\ Top' = f
    BY <2>5, Pushed DEF IrqInv, StackOK
  <2>7. Shapes'
    BY <1>2, <2>4, <2>5, ShapesPushed DEF IrqInv
  <2>8. Core'
    <3>1. Top'.op.ee = FALSE
      BY <2>4, <2>6, NoCallType
    <3> QED
      BY <1>2, <2>1, <2>2, <3>1 DEF Core
  <2>9. Nested'
    <3>1. srr'.to = Depth /\ srr'.ee /\ srr'.ce
      BY <2>1, <2>2
    <3> QED
      BY <1>1, <1>2, <1>3, <2>1, <2>2, <2>4, <2>5, <3>1, FramePushed DEF IrqInv, StackOK
  <2>10. ContextCounts'
    BY <1>2, <2>4, <2>5, CountPushed DEF IrqInv, Counted
  <2> QED
    BY <1>2, <1>5, <2>6, <2>7, <2>8, <2>9, <2>10 DEF IrqInv
<1>7. CASE TakeCritical
  <2>1. /\ stack' = Append(stack, NewFrame("critical", "enter", csrr'))
        /\ UNCHANGED srr /\ ce /\ ce' = FALSE
        /\ csrr' = [ to |-> Depth, ee |-> ee, ce |-> ce ]
    BY <1>7 DEF TakeCritical, Taken
  <2>2. PICK s \in State : s = csrr' /\ s.to = Depth /\ s.ee = ee /\ s.ce
    BY <1>4, <2>1
  <2>3. PICK f \in Frame : f = NewFrame("critical", "enter", s)
    BY NewFrameType DEF Class
  <2>4. f.kind = "critical" /\ f.at = "enter" /\ f.op = NoCall /\ f.tbl = NoTable /\ f.saved = s
    BY <2>3, NewFrameType DEF Class
  <2>5. stack' = Append(stack, f) /\ f.kind \in Class
    BY <2>1, <2>2, <2>3, <2>4 DEF Class
  <2>6. StackOK' /\ Top' = f
    BY <2>5, Pushed DEF IrqInv, StackOK
  <2>7. Shapes'
    BY <1>2, <2>4, <2>5, ShapesPushed DEF IrqInv
  <2>8. Core'
    <3>1. Top'.op.ee = FALSE /\ Top'.kind = "critical"
      BY <2>4, <2>6, NoCallType
    <3> QED
      BY <1>2, <3>1 DEF Core
  <2>9. Nested'
    BY <1>1, <1>2, <1>3, <2>1, <2>2, <2>4, <2>5, FramePushed DEF IrqInv, StackOK
  <2>10. ContextCounts'
    BY <1>2, <2>4, <2>5, CountPushed DEF IrqInv, Counted
  <2> QED
    BY <1>2, <1>5, <2>6, <2>7, <2>8, <2>9, <2>10 DEF IrqInv
<1> QED
  BY <1>6, <1>7

-----------------------------------------------------------------------------
(* The theorems.                                                           *)

LEMMA InitInv == Init => IrqInv
<1> SUFFICES ASSUME Init
             PROVE  IrqInv
  OBVIOUS
<1>1. PICK f : f = NewFrame("main", "program", Reset)
  OBVIOUS
<1>2. /\ f \in Frame /\ f.kind = "main" /\ f.at = "program" /\ f.op = NoCall
      /\ f.tbl = NoTable
  BY <1>1, NoCallType DEF NewFrame, Frame, Stage, Vector, Ref, IrqType, Reset, State
<1>3. stack = << f >>
  BY <1>1 DEF Init
<1>4. /\ StackOK /\ Depth = 1 /\ Top = f /\ stack[1] = f
  BY <1>2, <1>3 DEF StackOK, Depth, Top
<1>5. CpuOK
  BY DEF Init, CpuOK, Reset, State
<1>6. DataOK
  <2>1. Unset \in Entry
    BY IrqAssumption DEF Unset, Entry
  <2> QED
    BY <2>1 DEF Init, DataOK
<1>7. MpicOK
  BY IrqAssumption DEF Init, MpicOK
<1>8. Shapes
  <2>1. Fits(f, 1)
    BY <1>2, NoCallType DEF Fits
  <2> QED
    BY <1>4, <2>1 DEF Shapes
<1>9. Core
  BY <1>2, <1>4 DEF Core, Init
<1>10. Nested
  <2>1. PICK E, T, P : /\ E = [k \in 1 .. 1 |-> TRUE] /\ T = [k \in 1 .. 1 |-> "notirq"]
                       /\ P = [k \in 1 .. 1 |-> 0]
    OBVIOUS
  <2>2. /\ E \in [1 .. 1 -> BOOLEAN] /\ T \in [1 .. 1 -> IrqType] /\ P \in [1 .. 1 -> Nat]
        /\ E[1] = TRUE /\ T[1] = "notirq" /\ P[1] = 0
    BY <2>1 DEF IrqType
  <2>3. Mask(f, TRUE)
    BY <1>2, NoCallType DEF Mask
  <2>4. ee = TRUE /\ type = "notirq" /\ Len(service) = 0
    BY DEF Init
  <2>5. \A k \in 1 .. Depth : k = 1
    BY <1>4
  <2>6. /\ \A k \in 1 .. Depth : Mask(stack[k], E[k])
        /\ \A k \in 2 .. Depth : Link(k, E, T, P)
    <3>1. ASSUME NEW k \in 1 .. Depth
          PROVE  Mask(stack[k], E[k])
      <4>1. k = 1
        BY <2>5
      <4>2. stack[k] = f /\ E[k] = TRUE
        BY <1>4, <2>2, <4>1
      <4> QED
        BY <2>3, <4>2
    <3>2. 2 .. Depth = {}
      BY <1>4
    <3> QED
      BY <3>1, <3>2
  <2>7. \A k \in 1 .. Depth : \A j \in 1 .. k :
            j = 1 /\ stack[j].kind # "normal" /\ P[j] <= P[k]
    BY <1>2, <1>4, <2>2, <2>5
  <2>8. Nest(E, T, P)
    BY <1>4, <2>2, <2>4, <2>6, <2>7 DEF Nest
  <2> QED
    BY <1>4, <2>2, <2>8 DEF Nested
<1>11. ContextCounts
  <2>1. { k \in 1 .. Depth : stack[k].at \notin {"program", "enter", "epilogue", "rfi"} } = {}
    BY <1>2, <1>4
  <2> QED
    BY <2>1, FS_EmptySet DEF ContextCounts, Init
<1> QED
  BY <1>4, <1>5, <1>6, <1>7, <1>8, <1>9, <1>10, <1>11 DEF IrqInv, Init, IrqType

LEMMA StutterStep ==
    ASSUME IrqInv, UNCHANGED vars
    PROVE  IrqInv'
<1>1. UNCHANGED <<stack, ee, ce, srr, csrr, table, made, active, type, context,
                  line, pending, service, panic>>
  BY DEF vars, cpu, data, mpic
<1>2. Depth' = Depth /\ Top' = Top
  BY <1>1 DEF Depth, Top
<1>3. StackOK' /\ CpuOK' /\ DataOK' /\ MpicOK' /\ Core' /\ ContextCounts'
  BY <1>1, <1>2 DEF IrqInv, StackOK, CpuOK, DataOK, MpicOK, Core, ContextCounts
<1>4. Shapes'
  BY <1>1, <1>2 DEF IrqInv, Shapes, Fits, OpOK
<1>5. Nested'
  <2>1. PICK E \in [1 .. Depth -> BOOLEAN], T \in [1 .. Depth -> IrqType],
             P \in [1 .. Depth -> Nat] : Nest(E, T, P)
    BY DEF IrqInv, Nested
  <2>2. ASSUME NEW k \in 2 .. Depth
        PROVE  Link(k, E, T, P)'
    <3>1. Link(k, E, T, P)
      BY <2>1 DEF Nest
    <3> QED
      BY <1>1, <1>2, <3>1 DEF Link
  <2>3. Nest(E, T, P)'
    BY <1>1, <1>2, <2>1, <2>2 DEF Nest
  <2> QED
    BY <1>2, <2>1, <2>3 DEF Nested
<1> QED
  BY <1>1, <1>3, <1>4, <1>5 DEF IrqInv

\* What the frames, the CPU, the driver and the controller know of each other
\* holds in every state.
LEMMA Invariant == Spec => []IrqInv
<1>1. IrqInv /\ [Next]_vars => IrqInv'
  <2> SUFFICES ASSUME IrqInv, [Next]_vars
               PROVE  IrqInv'
    OBVIOUS
  <2>1. CASE UNCHANGED vars
    BY <2>1, StutterStep
  <2>2. CASE \E i \in Line : Raise(i) \/ Withdraw(i)
    BY <2>2, RaiseStep
  <2>3. CASE Interrupt
    BY <2>3, TakeStep DEF Interrupt
  <2>4. CASE Dispatch
    BY <2>4, EnterStep, ClassifyStep, BeginStep, LookupStep, HandlerReturnsStep,
       AccountStep, EndStep, LeaveStep, EpilogueStep, ReturnStep DEF Dispatch
  <2>5. CASE CallStep
    BY <2>5, StoreStep, ArgumentStep, SwitchStep, ScanStep, ConfigureStep, AdjustStep
       DEF CallStep
  <2>6. CASE NewCall
    BY <2>6, CreateStep, ResetCountStep, SetHandlerStep, ActivateStep, AbleStep,
       AdjustPriorityStep DEF NewCall
  <2>7. CASE Halted
    BY <2>7, StutterStep DEF Halted
  <2> QED
    BY <2>1, <2>2, <2>3, <2>4, <2>5, <2>6, <2>7 DEF Next
<1> QED
  BY <1>1, InitInv, PTL DEF Spec

\* Every variable keeps its type, however deep interrupts are nested.
THEOREM TypesAreKept == Spec => []TypeOK
BY Invariant, InvIsTyped, PTL

\* rumboot_irq_get_context() tells how deep interrupts are nested.
THEOREM ContextIsTheDepth == Spec => []ContextCounts
<1>1. IrqInv => ContextCounts
  BY DEF IrqInv
<1> QED
  BY <1>1, Invariant, PTL

\* The topmost frame, when it is an interrupt's.
LEMMA InnermostInterrupt ==
    ASSUME IrqInv, Top.at # "program"
    PROVE  /\ Acked(Top) => /\ service # << >> /\ service[Len(service)].line = Top.line
                            /\ service[Len(service)].class = type
           /\ Top.kind = "normal" => srr.to = Depth - 1
           /\ panic # "lost" /\ Top.kind = "normal" => ~ee
<1>1. PICK d \in Nat : d = Depth /\ d > 1 /\ stack[d] = Top
  BY TopFits DEF IrqInv, Top
<1>2. PICK E \in [1 .. d -> BOOLEAN], T \in [1 .. d -> IrqType],
           P \in [1 .. d -> Nat] : Nest(E, T, P)
  BY <1>1 DEF IrqInv, Nested
<1>3. /\ Link(d, E, T, P) /\ T[d] = type /\ P[d] = Len(service) /\ Mask(Top, E[d])
      /\ panic # "lost" => (E[d] <=> ee)
      /\ d - 1 \in 1 .. d
  BY <1>1, <1>2 DEF Nest
<1>4. /\ Top.kind = "normal" => srr.to = d - 1
      /\ Acked(Top) => /\ Len(service) = P[d - 1] + 1
                       /\ service[Len(service)].line = Top.line
                       /\ service[Len(service)].class = type
  BY <1>1, <1>3 DEF Link
<1>5. P[d - 1] \in Nat
  BY <1>2, <1>3
<1>6. Acked(Top) => service # << >>
  BY <1>4, <1>5, EmptySeq DEF IrqInv, MpicOK
<1>7. Top.kind = "normal" => ~E[d]
  BY <1>3 DEF Mask
<1> QED
  BY <1>1, <1>3, <1>4, <1>6, <1>7

\* rumboot_irq_current_type() tells a handler the class of its own interrupt,
\* even after others have preempted it, and the program that it is no handler.
THEOREM HandlersAreToldTheirType == Spec => []TypeTells
<1>1. ASSUME IrqInv
      PROVE  TypeTells
  <2>1. CASE Top.at = "program"
    <3>1. Depth = 1
      BY <1>1, <2>1, TopFits DEF IrqInv
    <3>2. PICK E, T, P : Nest(E, T, P)
      BY <1>1 DEF IrqInv, Nested
    <3>3. type = "notirq"
      BY <3>1, <3>2 DEF Nest
    <3> QED
      BY <2>1, <3>3 DEF TypeTells
  <2>2. CASE Top.at # "program"
    BY <1>1, <2>2, InnermostInterrupt DEF TypeTells, Acked, Serving
  <2> QED
    BY <2>1, <2>2
<1> QED
  BY <1>1, Invariant, PTL

\* The EOI that rumboot_irq_core_dispatch() ends with is that of the interrupt
\* it began with: the last that has been acknowledged, of its class.
THEOREM InterruptsEndTheirOwn == Spec => []EndsItsOwn
<1>1. ASSUME IrqInv, Top.at = "end", Top.line # Spurious
      PROVE  /\ service # << >>
             /\ EndOfInterrupt(EoiClass) = SubSeq(service, 1, Len(service) - 1)
             /\ service[Len(service)].line = Top.line
  <2>1. /\ service # << >> /\ service[Len(service)].line = Top.line
        /\ service[Len(service)].class = type
    BY <1>1, InnermostInterrupt DEF Acked, Serving
  <2>2. Len(service) \in 1 .. Len(service)
    BY <1>1, <2>1, EmptySeq DEF IrqInv, MpicOK
  <2>3. service[Len(service)] \in [ line : Line, class : Class, priority : Nat ]
    BY <1>1, <2>2, InServiceType DEF IrqInv
  <2>4. service[Len(service)].class = EoiClass
    BY <2>1, <2>3 DEF EoiClass, Class
  <2>5. EndOfInterrupt(EoiClass) = SubSeq(service, 1, Len(service) - 1)
    BY <1>1, <2>1, <2>4, LastIsEnded DEF IrqInv, MpicOK
  <2> QED
    BY <2>1, <2>5
<1>2. IrqInv => EndsItsOwn
  BY <1>1 DEF EndsItsOwn
<1> QED
  BY <1>2, Invariant, PTL

\* rfi returns an external interrupt to the code it has interrupted: whatever
\* preempts its handler leaves SRR0 and SRR1 as they are.
THEOREM ExternalInterruptsReturn == Spec => []NormalReturns
<1>1. ASSUME IrqInv, Top.at = "rfi", Top.kind = "normal"
      PROVE  srr.to = Depth - 1
  BY <1>1, InnermostInterrupt
<1>2. IrqInv => NormalReturns
  BY <1>1 DEF NormalReturns
<1> QED
  BY <1>2, Invariant, PTL

\* MSR[EE] is what it was whenever a call of irq.c has returned, whoever has
\* made calls of it meanwhile: set in the program, clear in a normal handler.
THEOREM AtomicBlocksNest == Spec => []MaskNests
<1>1. ASSUME IrqInv, Top.op = NoCall
      PROVE  /\ Top.at = "program" => ee
             /\ Top.kind = "normal" => ~ee
  <2>1. panic = "lost" => Top.kind = "critical" /\ Top.at = "rfi"
    BY <1>1 DEF IrqInv, Core
  <2>2. CASE Top.at = "program"
    <3>1. Depth = 1 /\ Top.kind = "main" /\ stack[Depth] = Top
      BY <1>1, <2>2, TopFits DEF IrqInv, Top
    <3>2. PICK E, T, P : Nest(E, T, P)
      BY <1>1 DEF IrqInv, Nested
    <3>3. Mask(Top, E[1]) /\ (E[1] <=> ee)
      BY <2>1, <2>2, <3>1, <3>2 DEF Nest
    <3>4. ee
      BY <1>1, <3>1, <3>3, NoCallType DEF Mask
    <3> QED
      BY <3>1, <3>4
  <2>3. CASE Top.at # "program"
    BY <1>1, <2>1, <2>3, InnermostInterrupt
  <2> QED
    BY <2>2, <2>3
<1>2. IrqInv => MaskNests
  BY <1>1 DEF MaskNests
<1> QED
  BY <1>2, Invariant, PTL

-----------------------------------------------------------------------------
(***************************************************************************)
(* Without critical interrupts, the atomic block of                        *)
(* rumboot_irq_set_handler() hides the moment between its two stores from  *)
(* every dispatch.  The next invariant says who can be in that moment: the *)
(* topmost frame only, and then its entry is the only one whose argument   *)
(* is not its handler's.                                                   *)
(***************************************************************************)

ArgInv ==
    /\ \A k \in 1 .. Depth :
          /\ stack[k].kind # "critical"
          /\ stack[k].at = "handler" => stack[k].arg = stack[k].handler
    /\ \A k \in 1 .. Depth - 1 : stack[k].op.step # "argument"
    /\ \A t \in Table, v \in Vector :
          \/ table[t][v].arg = table[t][v].handler
          \/ Top.op.step = "argument" /\ Top.op.tbl = t /\ Top.op.line = v
    /\ Top.op.step = "argument" => table[Top.op.tbl][Top.op.line].handler = Top.op.handler

\* The topmost frame goes on.
LEMMA ArgGoesOn ==
    ASSUME IrqInv, ArgInv, NEW f \in Frame, Now(f), f.kind = Top.kind,
           f.at = "handler" => f.arg = f.handler,
           \A t \in Table, v \in Vector :
              \/ table'[t][v].arg = table'[t][v].handler
              \/ f.op.step = "argument" /\ f.op.tbl = t /\ f.op.line = v,
           f.op.step = "argument" => table'[f.op.tbl][f.op.line].handler = f.op.handler
    PROVE  ArgInv'
<1>1. PICK d \in Nat \ {0} : d = Depth /\ Top = stack[d]
  BY StackType DEF IrqInv, StackOK, Top
<1>2. /\ Depth' = d /\ Top' = f /\ stack'[d] = f
      /\ \A k \in 1 .. d - 1 : stack'[k] = stack[k]
  BY <1>1, Replaced DEF IrqInv, StackOK
<1>3. ASSUME NEW k \in 1 .. d
      PROVE  /\ stack'[k].kind # "critical"
             /\ stack'[k].at = "handler" => stack'[k].arg = stack'[k].handler
  <2>1. CASE k = d
    <3>1. d \in 1 .. d
      BY <1>1
    <3> QED
      BY <1>1, <1>2, <2>1, <3>1 DEF ArgInv
  <2>2. CASE k # d
    <3>1. k \in 1 .. d - 1
      BY <1>1, <2>2
    <3> QED
      BY <1>1, <1>2, <3>1 DEF ArgInv
  <2> QED
    BY <2>1, <2>2
<1>4. \A k \in 1 .. d - 1 : stack'[k].op.step # "argument"
  BY <1>1, <1>2 DEF ArgInv
<1> QED
  BY <1>2, <1>3, <1>4 DEF ArgInv

\* An interrupt's dispatch goes on.
LEMMA ArgDispatched ==
    ASSUME IrqInv, ArgInv, Top.op = NoCall, NEW f \in Frame, Now(f), f.kind = Top.kind,
           f.at = "handler" => f.arg = f.handler, f.op = NoCall,
           table' = table
    PROVE  ArgInv'
<1>1. NoCall.step = "none"
  BY DEF NoCall
<1>2. \A t \in Table, v \in Vector : table[t][v].arg = table[t][v].handler
  BY <1>1 DEF ArgInv
<1> QED
  BY <1>1, <1>2, ArgGoesOn

\* A call goes on that does not store an argument.
LEMMA ArgCalls ==
    ASSUME IrqInv, ArgInv, Top.op.step # "argument", NEW op \in Calling,
           Now([Top EXCEPT !.op = op]), op.step # "argument",
           \A t \in Table, v \in Vector :
              /\ table'[t][v].arg = table[t][v].arg
              /\ table'[t][v].handler = table[t][v].handler
    PROVE  ArgInv'
<1>1. PICK f : f = [Top EXCEPT !.op = op]
  OBVIOUS
<1>2. Top \in Frame /\ Depth \in 1 .. Depth /\ Top = stack[Depth]
  BY StackType DEF IrqInv, StackOK, Top
<1>3. /\ f \in Frame /\ f.kind = Top.kind /\ f.at = Top.at /\ f.op = op
      /\ f.arg = Top.arg /\ f.handler = Top.handler /\ Now(f)
  BY <1>1, <1>2, FrameCalls
<1>4. Top.at = "handler" => Top.arg = Top.handler
  BY <1>2 DEF ArgInv
<1>5. \A t \in Table, v \in Vector : table[t][v].arg = table[t][v].handler
  BY DEF ArgInv
<1> QED
  BY <1>3, <1>4, <1>5, ArgGoesOn

\* No frame changes, and no table but one that is made.
LEMMA ArgStays ==
    ASSUME ArgInv, stack' = stack,
           \/ table' = table
           \/ /\ Top.op = NoCall
              /\ \A t \in Table, v \in Vector : table'[t][v].arg = table'[t][v].handler
    PROVE  ArgInv'
<1>1. Depth' = Depth /\ Top' = Top
  BY DEF Depth, Top
<1>2. NoCall.step = "none"
  BY DEF NoCall
<1> QED
  BY <1>1, <1>2 DEF ArgInv

\* The steps of the dispatch that neither look a handler up nor return.
LEMMA ArgDispatch ==
    ASSUME IrqInv, ArgInv,
           Enter \/ Classify \/ Begin \/ HandlerReturns \/ Account \/ End \/ Leave \/ Epilogue
    PROVE  ArgInv'
<1>1. Top.op = NoCall /\ panic = "no" /\ Top.at # "program" /\ Top \in Frame
  <2>1. Undisturbed /\ (Top.at \notin {"program", "handler"} \/ Top.op = NoCall)
        /\ Top.at # "program"
    BY DEF Enter, Classify, Begin, HandlerReturns, Account, End, Leave, Epilogue
  <2> QED
    BY <2>1, NotInCall, Dispatching
<1>2. type \in IrqType
  BY DEF IrqInv
<1>3. \E f \in Frame : Now(f) /\ f.kind = Top.kind /\ f.at # "handler" /\ f.op = NoCall
  <2>1. CASE Enter \/ HandlerReturns \/ Account \/ End \/ Epilogue \/ Leave
    <3>1. PICK a \in Stage \ {"handler"} : Now([Top EXCEPT !.at = a])
      BY <2>1 DEF Enter, HandlerReturns, Account, End, Epilogue, Leave, Goto, Stage
    <3>2. PICK f : f = [Top EXCEPT !.at = a]
      OBVIOUS
    <3> QED
      BY <1>1, <3>1, <3>2, FrameGoesTo
  <2>2. CASE Classify
    <3>1. PICK f : f = [Top EXCEPT !.at = "begin", !.prev = type]
      OBVIOUS
    <3>2. Now(f)
      BY <2>2, <3>1 DEF Classify
    <3>3. "begin" \in Stage
      BY DEF Stage
    <3>4. f \in Frame /\ f.kind = Top.kind /\ f.at = "begin" /\ f.op = Top.op
      BY <1>1, <1>2, <3>1, <3>3 DEF Frame
    <3> QED
      BY <1>1, <3>2, <3>4
  <2>3. CASE Begin
    <3>1. PICK i \in Vector : Now([Top EXCEPT !.at = "lookup", !.line = i])
      <4>1. \A c \in Class : Signalled(c) # {} => Highest(Signalled(c)) \in Vector
        <5>1. \A c \in Class : Signalled(c) \in SUBSET Line
          BY DEF Signalled, IrqInv, MpicOK
        <5> QED
          BY <5>1, HighestIsOne DEF IrqInv, Vector
      <4> QED
        BY <2>3, <4>1 DEF Begin, Acknowledge, Class, Vector
    <3>2. PICK f : f = [Top EXCEPT !.at = "lookup", !.line = i]
      OBVIOUS
    <3>3. "lookup" \in Stage
      BY DEF Stage
    <3>4. f \in Frame /\ f.kind = Top.kind /\ f.at = "lookup" /\ f.op = Top.op
      BY <1>1, <3>2, <3>3 DEF Frame
    <3> QED
      BY <1>1, <3>1, <3>2, <3>4
  <2> QED
    BY <2>1, <2>2, <2>3
<1>4. PICK f \in Frame : Now(f) /\ f.kind = Top.kind /\ f.at # "handler" /\ f.op = NoCall
  BY <1>3
<1>5. CASE table' = table
  BY <1>1, <1>4, <1>5, ArgDispatched
<1>6. CASE Account /\ Top.tbl # NoTable
  <2>1. Top.tbl \in Table /\ Top.line \in Vector
    BY <1>1, <1>6, Dispatching, FrameFields DEF IrqInv, DataOK
  <2>2. PICK n : n = (table[Top.tbl][Top.line].count + 1) % CountMod
    OBVIOUS
  <2>3. table' = [table EXCEPT ![Top.tbl][Top.line].count = n]
    BY <1>6, <2>2 DEF Account
  <2>4. \A t \in Table, v \in Vector : table[t][v].arg = table[t][v].handler
    BY <1>1 DEF ArgInv, NoCall
  <2>5. ASSUME NEW t \in Table, NEW v \in Vector
        PROVE  table'[t][v].arg = table'[t][v].handler
    BY <2>1, <2>3, <2>4 DEF IrqInv, DataOK, Entry
  <2>6. f.op.step # "argument"
    BY <1>4 DEF NoCall
  <2> QED
    BY <1>4, <2>5, <2>6, ArgGoesOn
<1> QED
  BY <1>5, <1>6 DEF Enter, Classify, Begin, HandlerReturns, Account, End, Leave, Epilogue, data

\* An interrupt is dispatched to the handler, and with the argument, that the
\* active table has for its line.
LEMMA ArgLookup ==
    ASSUME IrqInv, ArgInv, Lookup
    PROVE  ArgInv'
<1>1. /\ panic = "no" /\ Top.op = NoCall /\ Top.at = "lookup" /\ table' = table
      /\ Top \in Frame
  <2>1. panic = "no" /\ Top.op = NoCall /\ Top.at = "lookup" /\ table' = table
    BY NotInCall DEF Lookup, data
  <2> QED
    BY <2>1, Dispatching
<1>2. CASE ~check_irq_id(Top.line)
  BY <1>1, <1>2, ArgStays DEF Lookup
<1>3. CASE check_irq_id(Top.line)
  <2>1. /\ Top.line \in Vector /\ active \in Ref /\ (active # NoTable => active \in Table)
    BY <1>1, FrameFields DEF IrqInv, DataOK, Ref
  <2>2. PICK h \in Handler \cup {NoHandler} :
            /\ h = IF active = NoTable THEN NoHandler ELSE table[active][Top.line].handler
            /\ h = IF active = NoTable THEN NoHandler ELSE table[active][Top.line].arg
    <3>1. \A t \in Table, v \in Vector : table[t][v].arg = table[t][v].handler
      BY <1>1 DEF ArgInv, NoCall
    <3> QED
      BY <2>1, <3>1, EntryFields DEF IrqInv
  <2>3. PICK f : f = [Top EXCEPT !.at = "handler", !.tbl = active, !.handler = h, !.arg = h]
    OBVIOUS
  <2>4. "handler" \in Stage
    BY DEF Stage
  <2>5. /\ f \in Frame /\ f.kind = Top.kind /\ f.op = Top.op
        /\ f.handler = h /\ f.arg = h
    BY <1>1, <2>1, <2>3, <2>4 DEF Frame
  <2>6. Now(f)
    BY <1>3, <2>2, <2>3 DEF Lookup
  <2> QED
    BY <1>1, <2>5, <2>6, ArgDispatched
<1> QED
  BY <1>2, <1>3

\* The calls but rumboot_irq_set_handler()'s stores.
LEMMA ArgCall ==
    ASSUME IrqInv, ArgInv, Switch \/ Scan \/ Configure \/ Adjust \/ NewCall
    PROVE  ArgInv'
<1>1. NoCall \in Calling /\ NoCall.step = "none"
  BY NoCallType DEF NoCall
<1>2. CASE Switch
  <2>1. Top.op \in Calling /\ Top.op.step = "switch" /\ table' = table
    BY <1>2, InCall DEF Switch, Step
  <2>2. PICK op : op = [Top.op EXCEPT !.step = "scan",
                            !.todo = IF Top.op.tbl = NoTable THEN {} ELSE Line]
    OBVIOUS
  <2>3. op \in Calling /\ op.step = "scan"
    BY <2>1, <2>2 DEF Calling, Step
  <2>4. Now([Top EXCEPT !.op = op])
    BY <1>2, <2>2 DEF Switch, Continue
  <2> QED
    BY <2>1, <2>3, <2>4, ArgCalls
<1>3. CASE Scan
  <2>1. /\ Top.op \in Calling /\ Top.op.step = "scan" /\ table' = table
        /\ ToEnable(Top.op) \in SUBSET Line /\ active \in Ref
    BY <1>3, InCall, CallFields DEF Scan, Step, data, ToEnable, IrqInv, DataOK, Ref
  <2>2. CASE Continue(NoCall)
    BY <1>1, <2>1, <2>2, ArgCalls DEF Continue
  <2>3. CASE Panic("table")
    BY <2>1, <2>3, ArgStays DEF Panic
  <2>4. CASE /\ ToEnable(Top.op) # {}
             /\ Continue([Top.op EXCEPT !.step = "configure", !.then = "scan",
                            !.on = TRUE, !.line = Lowest(ToEnable(Top.op)), !.fetched = active,
                            !.todo = { j \in Top.op.todo : j > Lowest(ToEnable(Top.op)) }])
    <3>1. PICK i \in Vector : i = Lowest(ToEnable(Top.op))
      BY <2>1, <2>4, LowestIsOne DEF Vector
    <3>2. PICK todo \in SUBSET Line : todo = { j \in Top.op.todo : j > i }
      BY <2>1, CallFields
    <3>3. PICK op : op = [Top.op EXCEPT !.step = "configure", !.then = "scan", !.on = TRUE,
                                        !.line = i, !.fetched = active, !.todo = todo]
      OBVIOUS
    <3>4. op \in Calling /\ op.step = "configure"
      BY <2>1, <3>1, <3>2, <3>3 DEF Calling, Step
    <3>5. Now([Top EXCEPT !.op = op])
      BY <2>4, <3>1, <3>2, <3>3 DEF Continue
    <3> QED
      BY <2>1, <3>4, <3>5, ArgCalls
  <2> QED
    BY <1>3, <2>2, <2>3, <2>4 DEF Scan
<1>4. CASE Configure
  <2>1. /\ Top.op \in Calling /\ Top.op.step = "configure" /\ table' = table
        /\ Top.op.fetched \in Table /\ Top.op.line \in Vector
    BY <1>4, InCall DEF Configure, Step, data, OpOK, IrqInv, DataOK, Vector
  <2>2. CASE Continue(NoCall)
    BY <1>1, <2>1, <2>2, ArgCalls DEF Continue
  <2>3. CASE Continue([Top.op EXCEPT !.step = "adjust",
                           !.priority = table[Top.op.fetched][Top.op.line].priority])
    <3>1. PICK p \in Nat : p = table[Top.op.fetched][Top.op.line].priority
      BY <2>1, EntryFields DEF IrqInv
    <3>2. PICK op : op = [Top.op EXCEPT !.step = "adjust", !.priority = p]
      OBVIOUS
    <3>3. op \in Calling /\ op.step = "adjust"
      BY <2>1, <3>2 DEF Calling, Step
    <3>4. Now([Top EXCEPT !.op = op])
      BY <2>3, <3>1, <3>2 DEF Continue
    <3> QED
      BY <2>1, <3>3, <3>4, ArgCalls
  <2> QED
    BY <1>4, <2>2, <2>3 DEF Configure
<1>5. CASE Adjust
  <2>1. /\ Top.op \in Calling /\ Top.op.step = "adjust"
        /\ Top.op.fetched \in Table /\ Top.op.line \in Vector
    BY <1>5, InCall DEF Adjust, Step, data, OpOK, IrqInv, DataOK, Vector
  <2>2. PICK p : p = Clipped(Top.op.priority)
    OBVIOUS
  <2>3. table' = [table EXCEPT ![Top.op.fetched][Top.op.line].priority = p]
    BY <1>5, <2>2 DEF Adjust
  <2>4. ASSUME NEW t \in Table, NEW v \in Vector
        PROVE  /\ table'[t][v].arg = table[t][v].arg
               /\ table'[t][v].handler = table[t][v].handler
    BY <2>1, <2>3 DEF IrqInv, DataOK, Entry
  <2>5. PICK op : op = IF Top.op.then = "scan"
                         THEN [Top.op EXCEPT !.step = "scan", !.then = "none"] ELSE NoCall
    OBVIOUS
  <2>6. op \in Calling /\ op.step # "argument"
    <3>1. CASE Top.op.then = "scan"
      <4>1. op = [Top.op EXCEPT !.step = "scan", !.then = "none"]
        BY <2>5, <3>1
      <4>2. op \in Calling /\ op.step = "scan"
        BY <2>1, <4>1 DEF Calling, Step
      <4> QED
        BY <4>2
    <3> QED
      BY <1>1, <2>5, <3>1
  <2>7. Now([Top EXCEPT !.op = op])
    BY <1>5, <2>5 DEF Adjust, Continue
  <2> QED
    BY <2>1, <2>4, <2>6, <2>7, ArgCalls
<1>6. ASSUME NEW t \in made \cup {NoTable}, NEW i \in Line, NEW h \in Handler, SetHandler(t, i, h)
      PROVE  ArgInv'
  <2>1. Top.op = NoCall /\ table' = table
    BY <1>6, CallBegins DEF SetHandler, data
  <2>2. PICK op : op = [NoCall EXCEPT !.step = "store", !.tbl = t, !.line = i,
                                      !.handler = h, !.ee = ee]
    OBVIOUS
  <2>3. op \in Calling /\ op.step = "store"
    BY <2>2 DEF NoCall, Calling, IrqInv, CpuOK, DataOK, Ref, Vector, Step
  <2>4. Now([Top EXCEPT !.op = op])
    BY <1>6, <2>2 DEF SetHandler, Continue
  <2> QED
    BY <1>1, <2>1, <2>3, <2>4, ArgCalls
<1>7. ASSUME NEW t \in made \cup {NoTable}, Activate(t)
      PROVE  ArgInv'
  <2>1. Top.op = NoCall /\ table' = table
    BY <1>7, CallBegins DEF Activate, data
  <2>2. PICK op : op = [NoCall EXCEPT !.step = "switch", !.tbl = t, !.ee = ee]
    OBVIOUS
  <2>3. op \in Calling /\ op.step = "switch"
    BY <2>2 DEF NoCall, Calling, IrqInv, CpuOK, DataOK, Ref, Vector, Step
  <2>4. Now([Top EXCEPT !.op = op])
    BY <1>7, <2>2 DEF Activate, Continue
  <2> QED
    BY <1>1, <2>1, <2>3, <2>4, ArgCalls
<1>8. ASSUME NEW c \in {"enable", "disable"}, NEW i \in Line, Able(c, i)
      PROVE  ArgInv'
  <2>1. Top.op = NoCall /\ table' = table
    BY <1>8, CallBegins DEF Able, data
  <2>2. CASE active = NoTable
    BY <1>8, <2>1, <2>2, ArgStays DEF Able, Panic
  <2>3. CASE active # NoTable
    <3>1. active \in Ref /\ i \in Vector
      BY DEF IrqInv, DataOK, Ref, Vector
    <3>2. PICK op : op = [NoCall EXCEPT !.step = "configure", !.line = i,
                                        !.fetched = active, !.on = (c = "enable")]
      OBVIOUS
    <3>3. op \in Calling /\ op.step = "configure"
      BY <3>1, <3>2 DEF Calling, NoCall, Step, Ref
    <3>4. Now([Top EXCEPT !.op = op])
      BY <1>8, <2>3, <3>2 DEF Able, Continue
    <3> QED
      BY <1>1, <2>1, <3>3, <3>4, ArgCalls
  <2> QED
    BY <2>2, <2>3
<1>9. ASSUME NEW t \in made \cup {NoTable}, NEW i \in Line, NEW p \in Wanted,
             AdjustPriority(t, i, p)
      PROVE  ArgInv'
  <2>1. Top.op = NoCall /\ table' = table
    BY <1>9, CallBegins DEF AdjustPriority, data
  <2>2. CASE Fetch(t) = NoTable
    BY <1>9, <2>1, <2>2, ArgStays DEF AdjustPriority, Panic
  <2>3. CASE Fetch(t) # NoTable
    <3>1. PICK u \in Ref : u = Fetch(t)
      BY DEF IrqInv, DataOK, Fetch, Ref
    <3>2. i \in Vector /\ p \in Nat
      BY IrqAssumption DEF Vector
    <3>3. PICK op : op = [NoCall EXCEPT !.step = "adjust", !.fetched = u,
                                        !.line = i, !.priority = p]
      OBVIOUS
    <3>4. op \in Calling /\ op.step = "adjust"
      BY <3>2, <3>3 DEF Calling, NoCall, Step, Ref
    <3>5. Now([Top EXCEPT !.op = op])
      BY <1>9, <2>3, <3>1, <3>3 DEF AdjustPriority, Continue
    <3> QED
      BY <1>1, <2>1, <3>4, <3>5, ArgCalls
  <2> QED
    BY <2>2, <2>3
<1>10. ASSUME NEW i \in Line, ResetCount(i)
       PROVE  ArgInv'
  <2>1. Top.op = NoCall /\ active \in Table /\ i \in Vector
    BY <1>10, CallBegins DEF ResetCount, IrqInv, DataOK, Vector
  <2>2. table' = [table EXCEPT ![active][i].count = 0] /\ stack' = stack
    BY <1>10 DEF ResetCount
  <2>3. \A t \in Table, v \in Vector : table[t][v].arg = table[t][v].handler
    BY <1>1, <2>1 DEF ArgInv
  <2>4. ASSUME NEW t \in Table, NEW v \in Vector
        PROVE  table'[t][v].arg = table'[t][v].handler
    BY <2>1, <2>2, <2>3 DEF IrqInv, DataOK, Entry
  <2> QED
    BY <2>1, <2>2, <2>4, ArgStays
<1>11. ASSUME NEW u \in Table, NEW from \in made \cup {NoTable}, Create(u, from)
       PROVE  ArgInv'
  <2>1. Top.op = NoCall /\ stack' = stack
    BY <1>11, CallBegins DEF Create
  <2>2. table' = [table EXCEPT ![u] =
                    IF Fetch(from) = NoTable THEN [ v \in Vector |-> Unset ]
                    ELSE table[Fetch(from)]]
    BY <1>11 DEF Create
  <2>3. \A t \in Table, v \in Vector : table[t][v].arg = table[t][v].handler
    BY <1>1, <2>1 DEF ArgInv
  <2>4. Fetch(from) \in Table \/ Fetch(from) = NoTable
    BY DEF Fetch, IrqInv, DataOK
  <2>5. ASSUME NEW t \in Table, NEW v \in Vector
        PROVE  table'[t][v].arg = table'[t][v].handler
    BY <2>2, <2>3, <2>4 DEF IrqInv, DataOK, Unset
  <2> QED
    BY <2>1, <2>5, ArgStays
<1> QED
  BY <1>2, <1>3, <1>4, <1>5, <1>6, <1>7, <1>8, <1>9, <1>10, <1>11 DEF NewCall

\* The two stores.
LEMMA ArgStore ==
    ASSUME IrqInv, ArgInv, Store
    PROVE  ArgInv'
<1>1. /\ Top.op \in Calling /\ Top.op.step = "store" /\ Top.op.line \in Vector
      /\ Top.op.tbl \in made \cup {NoTable} /\ Top \in Frame
  BY InCall DEF Store, Step, OpOK, Vector
<1>2. CASE Fetch(Top.op.tbl) = NoTable
  BY <1>2, ArgStays DEF Store, Panic
<1>3. CASE Fetch(Top.op.tbl) # NoTable
  <2>1. PICK tbl \in Table : tbl = Fetch(Top.op.tbl)
    BY <1>1, <1>3 DEF Fetch, IrqInv, DataOK
  <2>2. table' = [table EXCEPT ![tbl][Top.op.line].handler = Top.op.handler]
    BY <1>3, <2>1 DEF Store
  <2>3. PICK op : op = [Top.op EXCEPT !.step = "argument", !.tbl = tbl]
    OBVIOUS
  <2>4. /\ op \in Calling /\ op.step = "argument" /\ op.tbl = tbl
        /\ op.line = Top.op.line /\ op.handler = Top.op.handler
    BY <1>1, <2>1, <2>3 DEF Calling, Step, Ref
  <2>5. PICK f : f = [Top EXCEPT !.op = op]
    OBVIOUS
  <2>6. /\ f \in Frame /\ f.kind = Top.kind /\ f.at = Top.at /\ f.op = op
        /\ f.arg = Top.arg /\ f.handler = Top.handler
    BY <1>1, <2>4, <2>5, FrameCalls
  <2>7. Now(f)
    BY <1>3, <2>1, <2>3, <2>5 DEF Store, Continue
  <2>8. Top.at = "handler" => Top.arg = Top.handler
    BY TopFits DEF ArgInv, Top, IrqInv
  <2>9. table'[tbl][Top.op.line].handler = Top.op.handler
    BY <1>1, <2>1, <2>2 DEF IrqInv, DataOK, Entry
  <2>10. \A t \in Table, v \in Vector : table[t][v].arg = table[t][v].handler
    BY <1>1 DEF ArgInv
  <2>11. ASSUME NEW t \in Table, NEW v \in Vector, ~(t = tbl /\ v = Top.op.line)
         PROVE  table'[t][v].arg = table'[t][v].handler
    BY <1>1, <2>1, <2>2, <2>10, <2>11 DEF IrqInv, DataOK
  <2> QED
    BY <2>4, <2>6, <2>7, <2>8, <2>9, <2>11, ArgGoesOn
<1> QED
  BY <1>2, <1>3

LEMMA ArgArgument ==
    ASSUME IrqInv, ArgInv, Argument
    PROVE  ArgInv'
<1>1. /\ Top.op \in Calling /\ Top.op.step = "argument" /\ Top.op.line \in Vector
      /\ Top.op.tbl \in Table /\ Top \in Frame
  BY InCall DEF Argument, Step, OpOK, Vector, IrqInv, DataOK
<1>2. PICK t0 \in Table, v0 \in Vector, h \in {Top.op.handler}, p \in {DefaultPriority} :
          /\ t0 = Top.op.tbl /\ v0 = Top.op.line /\ h = Top.op.handler /\ p = DefaultPriority
  BY <1>1
<1>3. table' = [table EXCEPT ![t0][v0].arg = h, ![t0][v0].priority = p]
  BY <1>2 DEF Argument
<1>4. PICK f : f = [Top EXCEPT !.op = NoCall]
  OBVIOUS
<1>5. /\ f \in Frame /\ f.kind = Top.kind /\ f.at = Top.at /\ f.op = NoCall
      /\ f.arg = Top.arg /\ f.handler = Top.handler
  BY <1>1, <1>4, FrameCalls, NoCallType
<1>6. Now(f)
  BY <1>4 DEF Argument, Continue
<1>7. Top.at = "handler" => Top.arg = Top.handler
  BY TopFits DEF ArgInv, Top, IrqInv
<1>8. table[t0][v0].handler = h
  BY <1>1, <1>2 DEF ArgInv
<1>9. table'[t0][v0].arg = h /\ table'[t0][v0].handler = h
  BY <1>3, <1>8 DEF IrqInv, DataOK, Entry
<1>10. ASSUME NEW t \in Table, NEW v \in Vector, ~(t = t0 /\ v = v0)
       PROVE  table'[t][v].arg = table'[t][v].handler
  <2>1. table[t][v].arg = table[t][v].handler
    BY <1>1, <1>2, <1>10 DEF ArgInv
  <2>2. table'[t][v] = table[t][v]
    BY <1>3, <1>10 DEF IrqInv, DataOK
  <2> QED
    BY <2>1, <2>2
<1>11. f.op.step # "argument"
  BY <1>5 DEF NoCall
<1> QED
  BY <1>5, <1>6, <1>7, <1>9, <1>10, <1>11, ArgGoesOn

\* An external interrupt is taken outside of an atomic block, and a critical
\* one never.
LEMMA ArgTake ==
    ASSUME MaxPriority < CriticalBorder, IrqInv, ArgInv, TakeNormal \/ TakeCritical
    PROVE  ArgInv'
<1>1. Signalled("critical") = {}
  BY IrqAssumption DEF Signalled, ClassOf, IrqInv, MpicOK
<1>2. /\ TakeNormal /\ table' = table /\ panic = "no" /\ ee
      /\ stack' = Append(stack, NewFrame("normal", "enter", Reset))
  BY <1>1 DEF TakeNormal, TakeCritical, Taken, data
<1>3. PICK f \in Frame : f = NewFrame("normal", "enter", Reset)
  BY NewFrameType DEF Class, Reset, State
<1>4. f.kind = "normal" /\ f.at = "enter" /\ f.op = NoCall
  BY <1>3, NewFrameType DEF Class, Reset, State
<1>5. PICK d \in Nat \ {0} : d = Depth /\ Top = stack[d]
  BY StackType DEF IrqInv, StackOK, Top
<1>6. /\ Depth' = d + 1 /\ Top' = f /\ stack'[d + 1] = f
      /\ \A k \in 1 .. d : stack'[k] = stack[k]
  BY <1>2, <1>3, <1>5, Pushed DEF IrqInv, StackOK
<1>7. Top.op.step # "argument"
  <2>1. PICK E \in [1 .. Depth -> BOOLEAN], T \in [1 .. Depth -> IrqType],
             P \in [1 .. Depth -> Nat] : Nest(E, T, P)
    BY DEF IrqInv, Nested
  <2>2. Mask(Top, E[d]) /\ E[d] /\ d \in 1 .. d
    BY <1>2, <1>5, <2>1 DEF Nest
  <2>3. Top.kind # "critical" /\ Top.kind \in {"main"} \cup Class
    BY <1>5, <2>2, TopFits, FrameFields DEF ArgInv, IrqInv
  <2> QED
    BY <2>2, <2>3 DEF Mask, Atomic, Class
<1>8. ASSUME NEW k \in 1 .. d + 1
      PROVE  /\ stack'[k].kind # "critical"
             /\ stack'[k].at = "handler" => stack'[k].arg = stack'[k].handler
             /\ k <= d => stack'[k].op.step # "argument"
  <2>1. CASE k = d + 1
    BY <1>4, <1>6, <2>1
  <2>2. CASE k # d + 1
    <3>1. k \in 1 .. d /\ (k = d \/ k \in 1 .. d - 1)
      BY <2>2
    <3> QED
      BY <1>5, <1>6, <1>7, <3>1 DEF ArgInv
  <2> QED
    BY <2>1, <2>2
<1>9. \A t \in Table, v \in Vector : table'[t][v].arg = table'[t][v].handler
  BY <1>2, <1>7 DEF ArgInv
<1>10. Top'.op.step # "argument"
  BY <1>4, <1>6 DEF NoCall
<1>11. \A k \in 1 .. Depth' - 1 : k \in 1 .. d + 1 /\ k <= d
  BY <1>6
<1> QED
  BY <1>6, <1>8, <1>9, <1>10, <1>11 DEF ArgInv

LEMMA ArgReturn ==
    ASSUME IrqInv, ArgInv, Return
    PROVE  ArgInv'
<1>1. /\ panic = "no" /\ Top.op = NoCall /\ Top.at = "rfi" /\ table' = table
  BY NotInCall DEF Return, data
<1>2. PICK d \in Nat : d = Depth /\ d > 1 /\ Top = stack[d]
  BY <1>1, Dispatching
<1>3. CASE stack' = stack
  BY <1>1, <1>3, ArgStays
<1>4. CASE stack' # stack
  <2>1. Top.kind = "normal"
    <3>1. Top.kind # "critical" /\ Top.kind \in Class
      BY <1>1, <1>2, Dispatching DEF ArgInv
    <3> QED
      BY <3>1 DEF Class
  <2>2. srr.to = d - 1
    BY <1>1, <1>2, <2>1, InnermostInterrupt
  <2>3. stack' = SubSeq(stack, 1, d - 1)
    BY <1>4, <2>1, <2>2 DEF Return
  <2>4. /\ Depth' = d - 1 /\ Top' = stack[d - 1]
        /\ \A k \in 1 .. d - 1 : stack'[k] = stack[k]
    BY <1>2, <2>3, Popped DEF IrqInv, StackOK
  <2>5. \A t \in Table, v \in Vector : table[t][v].arg = table[t][v].handler
    BY <1>1 DEF ArgInv, NoCall
  <2>6. \A k \in 1 .. d - 1 : stack[k].op.step # "argument"
    BY <1>2 DEF ArgInv
  <2>7. \A k \in 1 .. d - 1 : k \in 1 .. d
    BY <1>2
  <2>8. d - 1 \in 1 .. d - 1 /\ \A k \in 1 .. d - 2 : k \in 1 .. d - 1
    BY <1>2
  <2> QED
    BY <1>1, <1>2, <2>4, <2>5, <2>6, <2>7, <2>8 DEF ArgInv
<1> QED
  BY <1>3, <1>4

\* A handler is called with the argument it was installed with, where no
\* priority makes an interrupt critical, which is how mpic128_reset sets the
\* borders (irq-mpic128.c:37): the atomic block of rumboot_irq_set_handler does
\* not mask a critical interrupt, which runs between the two stores.
THEOREM HandlersGetTheirArgument ==
    MaxPriority < CriticalBorder => (Spec => []HandlerGetsItsArg)
<1> SUFFICES ASSUME MaxPriority < CriticalBorder
             PROVE  Spec => []HandlerGetsItsArg
  OBVIOUS
<1>1. Init => ArgInv
  BY DEF Init, ArgInv, NewFrame, NoCall, Depth, Top, Unset
<1>2. IrqInv /\ ArgInv /\ [Next]_vars => ArgInv'
  <2> SUFFICES ASSUME IrqInv, ArgInv, [Next]_vars
               PROVE  ArgInv'
    OBVIOUS
  <2>1. CASE UNCHANGED vars
    BY <2>1, ArgStays DEF vars, data
  <2>2. CASE \E i \in Line : Raise(i) \/ Withdraw(i)
    BY <2>2, ArgStays DEF Raise, Withdraw, data
  <2>3. CASE Interrupt
    BY <2>3, ArgTake DEF Interrupt
  <2>4. CASE Dispatch
    BY <2>4, ArgDispatch, ArgLookup, ArgReturn DEF Dispatch
  <2>5. CASE CallStep \/ NewCall
    BY <2>5, ArgStore, ArgArgument, ArgCall DEF CallStep
  <2>6. CASE Halted
    BY <2>6, ArgStays DEF Halted, vars, data
  <2> QED
    BY <2>1, <2>2, <2>3, <2>4, <2>5, <2>6 DEF Next
<1>3. IrqInv /\ ArgInv => HandlerGetsItsArg
  BY TopFits DEF ArgInv, IrqInv, HandlerGetsItsArg, Top
<1> QED
  BY <1>1, <1>2, <1>3, Invariant, PTL DEF Spec

=============================================================================
