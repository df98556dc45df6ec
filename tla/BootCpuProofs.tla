---------------------------- MODULE BootCpuProofs ---------------------------
(***************************************************************************)
(* Proofs about the boot CPU and the programs it starts, for FIFOs of any  *)
(* depth and any number of images, keys and words printed.                 *)
(***************************************************************************)
EXTENDS BootCpu, SequenceTheorems, TLAPS

Images  == [id : 0 .. MaxImages, kill : BOOLEAN, sync : BOOLEAN, even : BOOLEAN]
Progs   == [id : 0 .. MaxImages, state : {"reset", "run", "ended"}, did : 0 .. MaxOut, out : 0 .. MaxOut]

\* From one image to the next the boot CPU starts a program and waits for it.
Launching == pc \in {"kill", "start"}
Polling   == pc \in {"poll", "key", "write"}

\* A program that runs is that of an image, and prints no more often than it acts; what is
\* written is a key that came.
Typed ==
    /\ TypeOK
    /\ prog.out <= prog.did
    /\ prog.state = "run" => prog.id \in 1 .. MaxImages
    /\ pc # "idle" => img.id \in 1 .. MaxImages
    /\ pc = "write" => keys # 0

LEMMA Bounds ==
    /\ MaxImages \in Nat /\ MaxOut \in Nat /\ MaxKeys \in Nat
    /\ Statuses \subseteq Int /\ Capacity \in Nat \ {0}
BY BootCpuAssumption DEF Capacity

LEMMA WordFields ==
    ASSUME NEW w \in Words
    PROVE  /\ w.from \in 1 .. MaxImages /\ w.exit \in BOOLEAN /\ w.val \in Int
           /\ ~w.exit => w.val \in 1 .. MaxOut
<1>1. CASE \E k \in 1 .. MaxImages, n \in 1 .. MaxOut : w = Text(k, n)
  <2>1. PICK k \in 1 .. MaxImages, n \in 1 .. MaxOut : w = [from |-> k, exit |-> FALSE, val |-> n]
    BY <1>1 DEF Text
  <2>2. w.from = k /\ w.exit = FALSE /\ w.val = n
    BY <2>1
  <2>3. w.exit \in BOOLEAN
    BY <2>2
  <2>4. w.from \in 1 .. MaxImages /\ w.val \in 1 .. MaxOut /\ n \in Int
    BY <2>2, Bounds
  <2> QED
    BY <2>2, <2>3, <2>4
<1>2. CASE \E k \in 1 .. MaxImages, s \in Statuses : w = Status(k, s)
  <2>1. PICK k \in 1 .. MaxImages, s \in Statuses : w = [from |-> k, exit |-> TRUE, val |-> s]
    BY <1>2 DEF Status
  <2>2. w.from = k /\ w.exit = TRUE /\ w.val = s
    BY <2>1
  <2> QED
    BY <2>2, Bounds
<1> QED
  BY <1>1, <1>2 DEF Words

LEMMA MaskedIsAByte ==
    ASSUME NEW v \in Int
    PROVE  Masked(v) \in 0 .. 255
<1>1. v % 256 \in 0 .. 255 /\ v % 128 \in 0 .. 127
  OBVIOUS
<1>2. CASE cpu = "nmc"
  BY <1>1, <1>2 DEF Masked
<1>3. CASE cpu # "nmc"
  BY <1>1, <1>3 DEF Masked
<1> QED
  BY <1>2, <1>3

-----------------------------------------------------------------------------
(* What the steps do, field by field.                                      *)

\* A program is started, or is not although the boot CPU takes it for started.
Starts ==
    /\ pc = "start"
    /\ \/ /\ prog' \in Progs /\ prog'.id = img.id /\ prog'.state = "run"
          /\ prog'.did = 0 /\ prog'.out = 0
       \/ prog' = prog
    /\ AfterStart
    /\ UNCHANGED <<cpu, img, up, down, keys, printed, result>>

TakesText ==
    /\ pc = "poll" /\ pc' = "key"
    /\ up # << >> /\ Head(up) \in Words /\ up' = Tail(up)
    /\ ~Head(up).exit /\ printed' = Append(printed, Head(up))
    /\ UNCHANGED <<cpu, img, async, prog, down, keys, result>>

TakesStatus ==
    /\ pc = "poll" /\ pc' = "idle"
    /\ up # << >> /\ Head(up) \in Words /\ up' = Tail(up)
    /\ Head(up).exit /\ printed' = printed
    /\ result'.image = img.id /\ result'.from = Head(up).from /\ result'.ret \in 0 .. 255
    /\ UNCHANGED <<cpu, img, async, prog, down, keys>>

\* The boot CPU looks for words and keys and finds none.
Looks ==
    /\ Polling /\ Polling'
    /\ down' \in Seq(1 .. MaxKeys) /\ Len(down') <= Capacity
    /\ keys' \in 0 .. MaxKeys /\ (pc' = "write" => keys' # 0)
    /\ UNCHANGED <<cpu, img, async, prog, up, printed, result>>

\* The program goes on: it prints, reads, or ends.
Acts(state, out) ==
    /\ prog.state = "run"
    /\ prog' \in Progs /\ prog'.id = prog.id /\ prog'.state = state
    /\ prog'.out = out /\ out <= prog'.did
    /\ UNCHANGED <<cpu, pc, img, async, keys, printed, result>>

Prints ==
    /\ Acts("run", prog.out + 1)
    /\ \E w \in Words : w = Text(prog.id, prog.out + 1) /\ Send(w)
    /\ down' = down

Reads ==
    /\ Acts("run", prog.out)
    /\ down' \in Seq(1 .. MaxKeys) /\ Len(down') <= Capacity
    /\ up' = up

Ends ==
    /\ Acts("ended", prog.out)
    /\ \E w \in Words : w.from = prog.id /\ w.exit /\ Send(w)
    /\ down' = down

LEMMA TailIsShorter ==
    ASSUME NEW S, NEW q \in Seq(S), q # << >>, Len(q) <= Capacity
    PROVE  Tail(q) \in Seq(S) /\ Len(Tail(q)) <= Capacity /\ Head(q) \in S
<1>1. Len(q) \in Nat /\ Len(Tail(q)) = Len(q) - 1
  BY HeadTailProperties, LenProperties
<1>2. Len(Tail(q)) <= Capacity
  BY <1>1, Bounds
<1> QED
  BY <1>2, HeadTailProperties

LEMMA OneMoreFits ==
    ASSUME NEW S, NEW q \in Seq(S), NEW e \in S, Len(q) < Capacity
    PROVE  Append(q, e) \in Seq(S) /\ Len(Append(q, e)) <= Capacity
<1>1. Len(q) \in Nat /\ Len(Append(q, e)) = Len(q) + 1 /\ Append(q, e) \in Seq(S)
  BY AppendProperties, LenProperties
<1> QED
  BY <1>1, Bounds

LEMMA BootDoes ==
    ASSUME Typed, Boot
    PROVE  Kill \/ RefuseExt \/ Starts \/ TakesText \/ TakesStatus \/ Looks
<1>0. /\ prog \in Progs /\ img \in Images /\ keys \in 0 .. MaxKeys
      /\ up \in Seq(Words) /\ Len(up) <= Capacity
      /\ down \in Seq(1 .. MaxKeys) /\ Len(down) <= Capacity
      /\ pc # "idle" => img.id \in 1 .. MaxImages
      /\ pc = "write" => keys # 0
  BY DEF Typed, TypeOK, Progs, Images
<1>1. CASE StartNmc \/ StartExt
  <2>1. pc = "start" /\ AfterStart /\ UNCHANGED <<cpu, img, up, down, keys, printed, result>>
    BY <1>1 DEF StartNmc, StartExt
  <2>2. prog' = Launched(img.id) \/ prog' = prog
    BY <1>1 DEF StartNmc, StartExt
  <2>3. CASE prog' = Launched(img.id)
    <3>1. PICK k \in 0 .. MaxImages, z \in 0 .. MaxOut : k = img.id /\ z = 0
      BY <1>0, Bounds DEF Images
    <3>2. prog' = [id |-> k, state |-> "run", did |-> z, out |-> z]
      BY <2>3, <3>1 DEF Launched
    <3>3. /\ prog' \in Progs /\ prog'.id = k /\ prog'.state = "run"
          /\ prog'.did = z /\ prog'.out = z
      BY <3>2 DEF Progs
    <3> QED
      BY <2>1, <3>1, <3>3 DEF Starts
  <2> QED
    BY <2>1, <2>2, <2>3 DEF Starts
<1>2. CASE Poll
  <2>1. CASE up = << >>
    BY <1>0, <1>2, <2>1 DEF Poll, CanRead, Looks, Polling
  <2>2. CASE up # << >>
    <3>1. Head(up) \in Words /\ up' = Tail(up) /\ pc = "poll" /\ Take(Head(up))
      BY <1>0, <1>2, <2>2, TailIsShorter DEF Poll, CanRead
    <3>2. CASE Head(up).exit
      <4>1. PICK b \in 0 .. 255 : b = Masked(Head(up).val)
        BY <3>1, WordFields, MaskedIsAByte
      <4>2. result' = [image |-> img.id, from |-> Head(up).from, status |-> Head(up).val, ret |-> b]
        BY <3>1, <3>2, <4>1 DEF Take
      <4>3. result'.image = img.id /\ result'.from = Head(up).from /\ result'.ret \in 0 .. 255
        BY <4>2
      <4> QED
        BY <1>2, <2>2, <3>1, <3>2, <4>3 DEF Poll, Take, TakesStatus
    <3>3. CASE ~Head(up).exit
      BY <1>2, <2>2, <3>1, <3>3 DEF Poll, Take, TakesText
    <3> QED
      BY <3>2, <3>3
  <2> QED
    BY <2>1, <2>2
<1>3. CASE NoKey
  BY <1>0, <1>3 DEF NoKey, Looks, Polling
<1>4. CASE Key
  <2>1. keys + 1 \in 0 .. MaxKeys /\ keys + 1 # 0
    BY <1>0, <1>4, Bounds DEF Key
  <2> QED
    BY <1>0, <1>4, <2>1 DEF Key, Looks, Polling
<1>5. CASE Write
  <2>1. keys \in 1 .. MaxKeys
    BY <1>0, <1>5, Bounds DEF Write
  <2>2. down' \in Seq(1 .. MaxKeys) /\ Len(down') <= Capacity
    BY <1>0, <1>5, <2>1, OneMoreFits DEF Write, Room
  <2> QED
    BY <1>0, <1>5, <2>2 DEF Write, Looks, Polling
<1> QED
  BY <1>1, <1>2, <1>3, <1>4, <1>5 DEF Boot

LEMMA ProgramDoes ==
    ASSUME Typed, Program
    PROVE  Prints \/ Reads \/ Ends
<1>0. /\ prog \in Progs /\ down \in Seq(1 .. MaxKeys) /\ Len(down) <= Capacity
      /\ prog.did \in 0 .. MaxOut /\ prog.out \in 0 .. MaxOut /\ prog.out <= prog.did
      /\ prog.state = "run" => prog.id \in 1 .. MaxImages
  BY DEF Typed, TypeOK, Progs
<1>1. CASE Put
  <2>1. PICK d \in 0 .. MaxOut, n \in 1 .. MaxOut :
            d = prog.did + 1 /\ n = prog.out + 1 /\ n <= d /\ n \in 0 .. MaxOut
    BY <1>0, <1>1, Bounds DEF Put
  <2>2. prog' = [prog EXCEPT !.did = d, !.out = n]
    BY <1>1, <2>1 DEF Put
  <2>3. Acts("run", n)
    <3>1. /\ prog' \in Progs /\ prog'.id = prog.id /\ prog'.state = prog.state
          /\ prog'.did = d /\ prog'.out = n
      BY <1>0, <2>1, <2>2 DEF Progs
    <3> QED
      BY <1>1, <2>1, <3>1 DEF Put, Acts
  <2>4. Text(prog.id, n) \in Words
    BY <1>0, <1>1 DEF Put, Words
  <2> QED
    BY <1>1, <2>1, <2>3, <2>4 DEF Put, Prints
<1>2. CASE Get
  <2>1. PICK d \in 0 .. MaxOut, n \in 0 .. MaxOut : d = prog.did + 1 /\ n = prog.out /\ n <= d
    BY <1>0, <1>2, Bounds DEF Get
  <2>2. prog' = [prog EXCEPT !.did = d]
    BY <1>2, <2>1 DEF Get
  <2>3. Acts("run", n)
    <3>1. /\ prog' \in Progs /\ prog'.id = prog.id /\ prog'.state = prog.state
          /\ prog'.did = d /\ prog'.out = n
      BY <1>0, <2>1, <2>2 DEF Progs
    <3>2. up' = up
      BY <1>2 DEF Get
    <3> QED
      BY <1>2, <2>1, <3>1 DEF Get, Acts
  <2>4. down' \in Seq(1 .. MaxKeys) /\ Len(down') <= Capacity
    BY <1>0, <1>2, TailIsShorter DEF Get
  <2> QED
    BY <1>2, <2>1, <2>3, <2>4 DEF Get, Reads
<1>3. CASE Finish
  <2>1. PICK s \in Statuses : Send(Status(prog.id, s))
    BY <1>3 DEF Finish
  <2>2. prog' = [prog EXCEPT !.state = "ended"] /\ prog.state = "run"
    BY <1>3 DEF Finish
  <2>3. Acts("ended", prog.out)
    <3>1. /\ prog' \in Progs /\ prog'.id = prog.id /\ prog'.state = "ended"
          /\ prog'.did = prog.did /\ prog'.out = prog.out
      BY <1>0, <2>2 DEF Progs
    <3> QED
      BY <1>0, <1>3, <2>2, <3>1 DEF Finish, Acts
  <2>4. Status(prog.id, s) \in Words
    BY <1>0, <2>2 DEF Words
  <2>5. Status(prog.id, s).from = prog.id /\ Status(prog.id, s).exit
    BY DEF Status
  <2> QED
    BY <1>3, <2>1, <2>3, <2>4, <2>5 DEF Finish, Ends
<1> QED
  BY <1>1, <1>2, <1>3 DEF Program

\* Every step is one of these.
LEMMA StepKinds ==
    ASSUME Typed, [Next]_vars
    PROVE  \/ Execute \/ Kill \/ RefuseExt \/ Starts \/ TakesText \/ TakesStatus \/ Looks
           \/ Prints \/ Reads \/ Ends \/ UNCHANGED vars
BY BootDoes, ProgramDoes DEF Next

-----------------------------------------------------------------------------
(* Types.                                                                  *)

\* A new image is one of those it may be.
LEMMA Executed ==
    ASSUME Typed, Execute
    PROVE  /\ img' \in Images /\ img'.id = img.id + 1 /\ img'.id \in 1 .. MaxImages
           /\ pc = "idle" /\ pc' \in {"kill", "start"}
           /\ UNCHANGED <<cpu, async, prog, up, down, keys, printed, result>>
<1>1. img.id \in 0 .. MaxImages /\ img.id < MaxImages
  BY DEF Typed, TypeOK, Execute
<1>2. PICK i \in 1 .. MaxImages : i = img.id + 1 /\ i \in 0 .. MaxImages
  BY <1>1, Bounds
<1>3. PICK kill \in BOOLEAN, sync \in BOOLEAN, even \in BOOLEAN :
          img' = [id |-> i, kill |-> kill, sync |-> sync, even |-> even]
  BY <1>2 DEF Execute
<1>4. img' \in Images /\ img'.id = i
  BY <1>2, <1>3 DEF Images
<1> QED
  BY <1>2, <1>4 DEF Execute

LEMMA StepsKeepTypes ==
    ASSUME Typed, [Next]_vars
    PROVE  Typed'
<1>0. /\ prog \in Progs /\ img \in Images /\ keys \in 0 .. MaxKeys
      /\ pc \in {"idle", "kill", "start", "poll", "key", "write"}
      /\ up \in Seq(Words) /\ Len(up) <= Capacity /\ printed \in Seq(Words)
      /\ down \in Seq(1 .. MaxKeys) /\ Len(down) <= Capacity
      /\ async \subseteq 1 .. MaxImages
      /\ prog.out <= prog.did /\ (prog.state = "run" => prog.id \in 1 .. MaxImages)
      /\ pc # "idle" => img.id \in 1 .. MaxImages
      /\ pc = "write" => keys # 0
      /\ result.image \in 0 .. MaxImages /\ result.ret \in 0 .. 255
      /\ img.id \in 0 .. MaxImages
  BY DEF Typed, TypeOK, Progs, Images
<1>1. cpu' = cpu /\ Capacity' = Capacity
  <2>1. cpu' = cpu
    BY StepKinds DEF Execute, Kill, RefuseExt, Starts, TakesText, TakesStatus, Looks,
       Prints, Reads, Ends, Acts, vars
  <2> QED
    BY <2>1 DEF Capacity
<1>2. /\ pc' \in {"idle", "kill", "start", "poll", "key", "write"}
      /\ pc' # "idle" => img'.id \in 1 .. MaxImages
      /\ img' \in Images
  BY <1>0, StepKinds, Executed DEF Kill, RefuseExt, Starts, AfterStart, TakesText,
     TakesStatus, Looks, Polling, Prints, Reads, Ends, Acts, vars
<1>3. keys' \in 0 .. MaxKeys /\ (pc' = "write" => keys' # 0)
  BY <1>0, StepKinds, Executed DEF Kill, RefuseExt, Starts, AfterStart, TakesText,
     TakesStatus, Looks, Prints, Reads, Ends, Acts, vars
<1>4. async' \subseteq 1 .. MaxImages
  BY <1>0, StepKinds, Executed DEF Kill, RefuseExt, Starts, AfterStart, TakesText,
     TakesStatus, Looks, Prints, Reads, Ends, Acts, vars
<1>5. /\ prog' \in Progs /\ prog'.out <= prog'.did
      /\ prog'.state = "run" => prog'.id \in 1 .. MaxImages
  <2>1. CASE Kill
    <3>1. PICK z \in 0 .. MaxOut, k \in 0 .. MaxImages : z = 0 /\ k = 0
      BY Bounds
    <3>2. prog' = [id |-> k, state |-> "reset", did |-> z, out |-> z]
      BY <2>1, <3>1 DEF Kill, NoProg
    <3>3. prog' \in Progs /\ prog'.state = "reset" /\ prog'.out = 0 /\ prog'.did = 0
      BY <3>1, <3>2 DEF Progs
    <3> QED
      BY <3>3
  <2>2. CASE Starts
    BY <1>0, <2>2 DEF Starts
  <2>3. CASE Prints \/ Reads \/ Ends
    BY <1>0, <2>3 DEF Prints, Reads, Ends, Acts
  <2>4. prog' = prog \/ Kill \/ Starts \/ Prints \/ Reads \/ Ends
    BY StepKinds, Executed DEF RefuseExt, TakesText, TakesStatus, Looks, vars
  <2> QED
    BY <1>0, <2>1, <2>2, <2>3, <2>4
<1>6. up' \in Seq(Words) /\ Len(up') <= Capacity
  <2>1. CASE TakesText \/ TakesStatus
    BY <1>0, <2>1, TailIsShorter DEF TakesText, TakesStatus
  <2>2. CASE Prints \/ Ends
    BY <1>0, <2>2, OneMoreFits DEF Prints, Ends, Send
  <2>3. up' = up \/ TakesText \/ TakesStatus \/ Prints \/ Ends
    BY StepKinds, Executed DEF Kill, RefuseExt, Starts, Looks, Reads, vars
  <2> QED
    BY <1>0, <2>1, <2>2, <2>3
<1>7. down' \in Seq(1 .. MaxKeys) /\ Len(down') <= Capacity
  BY <1>0, StepKinds, Executed DEF Kill, RefuseExt, Starts, TakesText, TakesStatus, Looks,
     Prints, Reads, Ends, vars
<1>8. printed' \in Seq(Words)
  <2>1. CASE TakesText
    BY <1>0, <2>1, AppendProperties DEF TakesText
  <2>2. printed' = printed \/ TakesText
    BY StepKinds, Executed DEF Kill, RefuseExt, Starts, TakesStatus, Looks,
       Prints, Reads, Ends, Acts, vars
  <2> QED
    BY <1>0, <2>1, <2>2
<1>9. result'.image \in 0 .. MaxImages /\ result'.ret \in 0 .. 255
  BY <1>0, StepKinds, Executed DEF Kill, RefuseExt, Starts, TakesText, TakesStatus, Looks,
     Prints, Reads, Ends, Acts, vars
<1>10. cpu' \in Clusters
  BY <1>1 DEF Typed, TypeOK
<1> QED
  BY <1>1, <1>2, <1>3, <1>4, <1>5, <1>6, <1>7, <1>8, <1>9, <1>10
     DEF Typed, TypeOK, Progs, Images

LEMMA TypedInit == Init => Typed
<1> SUFFICES ASSUME Init PROVE Typed
  OBVIOUS
<1>1. PICK z \in 0 .. MaxImages, n \in 0 .. MaxOut : z = 0 /\ n = 0
  BY Bounds
<1>2. prog = [id |-> z, state |-> "reset", did |-> n, out |-> n]
  BY <1>1 DEF Init, NoProg
<1>3. prog \in Progs /\ prog.out = 0 /\ prog.did = 0 /\ prog.state = "reset"
  BY <1>1, <1>2 DEF Progs
<1>4. img = [id |-> z, kill |-> FALSE, sync |-> FALSE, even |-> TRUE]
  BY <1>1 DEF Init
<1>5. img \in Images
  BY <1>4 DEF Images
<1>6. result.image = 0 /\ result.ret = 0
  BY DEF Init, NoExit
<1>7. /\ up \in Seq(Words) /\ down \in Seq(1 .. MaxKeys) /\ printed \in Seq(Words)
      /\ Len(up) <= Capacity /\ Len(down) <= Capacity
  BY EmptySeq, Bounds DEF Init
<1>8. result.image \in 0 .. MaxImages /\ result.ret \in 0 .. 255 /\ keys \in 0 .. MaxKeys
  BY <1>6, Bounds DEF Init
<1>9. cpu \in Clusters /\ pc = "idle" /\ async \subseteq 1 .. MaxImages
  BY DEF Init
<1> QED
  BY <1>3, <1>5, <1>7, <1>8, <1>9 DEF Typed, TypeOK, Progs, Images

\* Neither FIFO overflows, no more is printed than was sent, and poll() returns a byte.
THEOREM FifosKeepTypes == Spec => []TypeOK
<1>1. Typed /\ [Next]_vars => Typed'
  BY StepsKeepTypes
<1>2. Typed => TypeOK
  BY DEF Typed
<1> QED
  BY <1>1, <1>2, TypedInit, PTL DEF Spec

-----------------------------------------------------------------------------
(* Images are started one after the other.                                 *)

\* The last image that may have been started.
Latest == IF Launching THEN img.id - 1 ELSE img.id

Counted ==
    /\ prog.id <= Latest
    /\ async \subseteq 1 .. Latest
    /\ Polling => img.id \notin async
    /\ result.image <= img.id

LEMMA StepsKeepCount ==
    ASSUME Typed, Counted, [Next]_vars
    PROVE  Counted'
<1>0. /\ img.id \in 0 .. MaxImages /\ MaxImages \in Nat /\ prog.id \in 0 .. MaxImages
      /\ img.id \in Nat /\ prog.id \in Nat /\ result.image \in Nat
      /\ pc \in {"idle", "kill", "start", "poll", "key", "write"}
      /\ pc # "idle" => img.id \in 1 .. MaxImages
  BY Bounds DEF Typed, TypeOK
<1>1. CASE Execute
  <2>1. ~Launching /\ Launching' /\ ~Polling'
    BY <1>1, Executed DEF Launching, Polling
  <2>2. Latest = img.id /\ Latest' = img.id
    BY <1>0, <1>1, <2>1, Executed DEF Latest
  <2>3. /\ prog' = prog /\ async' = async /\ result' = result /\ img'.id = img.id + 1
    BY <1>1, Executed
  <2>4. result'.image <= img'.id
    BY <1>0, <2>3 DEF Counted
  <2> QED
    BY <2>1, <2>2, <2>3, <2>4 DEF Counted
<1>2. CASE Kill
  <2>1. Launching /\ Launching' /\ ~Polling' /\ pc # "idle"
    BY <1>2 DEF Kill, Launching, Polling
  <2>2. Latest' = Latest /\ Latest \in Nat
    BY <1>0, <1>2, <2>1 DEF Latest, Kill
  <2>3. prog'.id = 0
    BY <1>2 DEF Kill, NoProg
  <2> QED
    BY <1>2, <2>1, <2>2, <2>3 DEF Counted, Kill
<1>3. CASE RefuseExt \/ Starts
  <2>1. pc = "start" /\ img.id \in 1 .. MaxImages /\ ~Launching' /\ Launching
    BY <1>0, <1>3 DEF RefuseExt, Starts, AfterStart, Launching
  <2>2. Latest = img.id - 1 /\ Latest' = img.id
    BY <1>3, <2>1 DEF Latest, RefuseExt, Starts
  <2>3. prog.id <= img.id - 1 /\ async \subseteq 1 .. img.id - 1 /\ result.image <= img.id
    BY <2>2 DEF Counted
  <2>4. prog'.id <= img.id
    BY <1>0, <1>3, <2>3 DEF RefuseExt, Starts
  <2>5. async' \subseteq 1 .. img.id
    <3>1. async' = async \/ async' = async \cup {img.id}
      BY <1>3 DEF RefuseExt, Starts, AfterStart
    <3>2. async \subseteq 1 .. img.id /\ img.id \in 1 .. img.id
      BY <1>0, <2>1, <2>3
    <3> QED
      BY <3>1, <3>2
  <2>6. img.id \notin async
    BY <1>0, <2>3
  <2>7. Polling' => img.id \notin async'
    BY <1>3, <2>6 DEF RefuseExt, Starts, AfterStart, Polling
  <2>8. result' = result /\ img' = img
    BY <1>3 DEF RefuseExt, Starts
  <2> QED
    BY <2>2, <2>3, <2>4, <2>5, <2>7, <2>8 DEF Counted
<1>4. CASE TakesText \/ TakesStatus \/ Looks
  <2>1. /\ ~Launching /\ ~Launching' /\ Polling /\ img' = img /\ async' = async /\ prog' = prog
        /\ result' = result \/ result'.image = img.id
    BY <1>4 DEF TakesText, TakesStatus, Looks, Launching, Polling
  <2>2. Latest' = Latest
    BY <2>1 DEF Latest
  <2>3. result'.image <= img'.id
    BY <1>0, <2>1 DEF Counted
  <2> QED
    BY <2>1, <2>2, <2>3 DEF Counted
<1>5. CASE Prints \/ Reads \/ Ends
  <2>1. /\ pc' = pc /\ img' = img /\ async' = async /\ prog'.id = prog.id /\ result' = result
    BY <1>5 DEF Prints, Reads, Ends, Acts
  <2> QED
    BY <2>1 DEF Counted, Latest, Launching, Polling
<1>6. CASE UNCHANGED vars
  BY <1>6 DEF vars, Counted, Latest, Launching, Polling
<1> QED
  BY <1>1, <1>2, <1>3, <1>4, <1>5, <1>6, StepKinds

-----------------------------------------------------------------------------
(***************************************************************************)
(* As long as every image was waited for there is at most one status in    *)
(* the FIFO, that of the image waited for, and none otherwise.             *)
(***************************************************************************)
NoStatus(q) == \A i \in 1 .. Len(q) : ~q[i].exit

OneStatus(q, k) ==
    /\ \A i \in 1 .. Len(q) : q[i].exit => q[i].from = k
    /\ \A i, j \in 1 .. Len(q) : q[i].exit /\ q[j].exit => i = j

Awaiting ==
    async = {} =>
        IF Polling
        THEN /\ OneStatus(up, img.id)
             /\ prog.state = "run" => NoStatus(up) /\ prog.id = img.id
        ELSE NoStatus(up) /\ prog.state # "run"

LEMMA StatusTaken ==
    ASSUME NEW q \in Seq(Words), q # << >>, NEW k, NEW p, p = Tail(q)
    PROVE  /\ NoStatus(q) => NoStatus(p)
           /\ OneStatus(q, k) => OneStatus(p, k)
           /\ OneStatus(q, k) /\ Head(q).exit => NoStatus(p) /\ Head(q).from = k
<1>1. /\ Len(q) \in Nat \ {0} /\ Len(p) = Len(q) - 1 /\ Head(q) = q[1]
      /\ \A i \in 1 .. Len(p) : p[i] = q[i + 1]
  BY HeadTailProperties, EmptySeq, LenProperties
<1>2. \A i \in 1 .. Len(p) : i + 1 \in 1 .. Len(q) /\ i + 1 # 1
  BY <1>1
<1>3. 1 \in 1 .. Len(q)
  BY <1>1
<1>4. NoStatus(q) => NoStatus(p)
  BY <1>1, <1>2 DEF NoStatus
<1>5. ASSUME OneStatus(q, k)
      PROVE  OneStatus(p, k)
  <2>1. \A i \in 1 .. Len(p) : p[i].exit => p[i].from = k
    BY <1>1, <1>2, <1>5 DEF OneStatus
  <2>2. ASSUME NEW i \in 1 .. Len(p), NEW j \in 1 .. Len(p), p[i].exit, p[j].exit
        PROVE  i = j
    <3>1. i + 1 = j + 1
      BY <1>1, <1>2, <1>5, <2>2 DEF OneStatus
    <3> QED
      BY <1>1, <3>1
  <2> QED
    BY <2>1, <2>2 DEF OneStatus
<1>6. ASSUME OneStatus(q, k), Head(q).exit
      PROVE  NoStatus(p) /\ Head(q).from = k
  <2>1. \A i \in 1 .. Len(p) : ~p[i].exit
    BY <1>1, <1>2, <1>3, <1>6 DEF OneStatus
  <2> QED
    BY <1>1, <1>3, <1>6, <2>1 DEF NoStatus, OneStatus
<1> QED
  BY <1>4, <1>5, <1>6

LEMMA StatusSent ==
    ASSUME NEW q \in Seq(Words), NEW w \in Words, NoStatus(q), NEW p, p = Append(q, w)
    PROVE  /\ ~w.exit => NoStatus(p)
           /\ OneStatus(p, w.from)
<1>1. /\ Len(q) \in Nat /\ Len(p) = Len(q) + 1 /\ p[Len(q) + 1] = w
      /\ \A i \in 1 .. Len(q) : p[i] = q[i]
  BY AppendProperties, LenProperties
<1>2. \A i \in 1 .. Len(p) : i \in 1 .. Len(q) \/ i = Len(q) + 1
  BY <1>1
<1>3. \A i \in 1 .. Len(p) : p[i].exit => i = Len(q) + 1
  BY <1>1, <1>2 DEF NoStatus
<1>4. ~w.exit => NoStatus(p)
  BY <1>1, <1>3 DEF NoStatus
<1>5. OneStatus(p, w.from)
  BY <1>1, <1>3 DEF OneStatus
<1> QED
  BY <1>4, <1>5

LEMMA StepsAwait ==
    ASSUME Typed, Awaiting, [Next]_vars
    PROVE  Awaiting'
<1>0. /\ up \in Seq(Words) /\ pc \in {"idle", "kill", "start", "poll", "key", "write"}
  BY DEF Typed, TypeOK
<1> SUFFICES ASSUME async' = {}
             PROVE  Awaiting'
  BY DEF Awaiting
<1>1. async = {}
  BY StepKinds, Executed DEF Kill, RefuseExt, Starts, AfterStart, TakesText, TakesStatus, Looks,
     Prints, Reads, Ends, Acts, vars
<1>2. /\ Polling => /\ OneStatus(up, img.id)
                    /\ prog.state = "run" => NoStatus(up) /\ prog.id = img.id
      /\ ~Polling => NoStatus(up) /\ prog.state # "run"
  BY <1>1 DEF Awaiting
<1>3. CASE Execute \/ Kill \/ RefuseExt
  <2>1. ~Polling /\ ~Polling' /\ up' = up /\ (prog' = prog \/ prog' = NoProg)
    BY <1>3, Executed DEF Kill, RefuseExt, Polling
  <2>2. prog'.state # "run"
    BY <1>2, <2>1 DEF NoProg
  <2> QED
    BY <1>2, <2>1, <2>2 DEF Awaiting
<1>4. CASE Starts
  <2>1. pc' = "poll"
    BY <1>4 DEF Starts, AfterStart
  <2>2. NoStatus(up) /\ prog.state # "run" /\ up' = up /\ img' = img
    BY <1>2, <1>4 DEF Starts, Polling
  <2>3. OneStatus(up, img.id)
    BY <2>2 DEF NoStatus, OneStatus
  <2>4. prog'.state = "run" => prog'.id = img.id
    BY <1>4, <2>2 DEF Starts
  <2> QED
    BY <2>1, <2>2, <2>3, <2>4 DEF Awaiting, Polling
<1>5. CASE TakesText
  <2>1. Polling /\ Polling' /\ img' = img /\ prog' = prog
    BY <1>5 DEF TakesText, Polling
  <2>2. OneStatus(up', img.id) /\ (NoStatus(up) => NoStatus(up'))
    BY <1>0, <1>2, <1>5, <2>1, StatusTaken DEF TakesText
  <2> QED
    BY <1>2, <2>1, <2>2 DEF Awaiting
<1>6. CASE TakesStatus
  <2>1. Polling /\ ~Polling' /\ prog' = prog /\ up # << >> /\ up' = Tail(up) /\ Head(up).exit
    BY <1>6 DEF TakesStatus, Polling
  <2>2. NoStatus(up')
    BY <1>0, <1>2, <2>1, StatusTaken
  <2>3. ~NoStatus(up)
    <3>1. Head(up) = up[1] /\ 1 \in 1 .. Len(up)
      <4>1. Len(up) \in Nat \ {0}
        BY <1>0, <2>1, EmptySeq
      <4> QED
        BY <4>1
    <3> QED
      BY <2>1, <3>1 DEF NoStatus
  <2>4. prog'.state # "run"
    BY <1>2, <2>1, <2>3
  <2> QED
    BY <2>1, <2>2, <2>4 DEF Awaiting
<1>7. CASE Looks \/ Reads \/ UNCHANGED vars
  <2>1. /\ Polling' = Polling /\ up' = up /\ img' = img
        /\ prog'.state = prog.state /\ prog'.id = prog.id
    BY <1>7 DEF Looks, Reads, Acts, vars, Polling
  <2> QED
    BY <1>2, <2>1 DEF Awaiting
<1>8. CASE Prints
  <2>1. Polling /\ Polling' /\ img' = img /\ prog.state = "run" /\ prog'.id = prog.id
    BY <1>2, <1>8 DEF Prints, Acts, Polling
  <2>2. PICK w \in Words : w = Text(prog.id, prog.out + 1) /\ up' = Append(up, w)
    BY <1>8 DEF Prints, Send
  <2>3. ~w.exit /\ w.from = img.id
    BY <1>2, <2>1, <2>2 DEF Text
  <2>4. NoStatus(up') /\ OneStatus(up', img.id)
    BY <1>0, <1>2, <2>1, <2>2, <2>3, StatusSent
  <2> QED
    BY <1>2, <2>1, <2>4 DEF Awaiting
<1>9. CASE Ends
  <2>1. Polling /\ Polling' /\ img' = img /\ prog.state = "run" /\ prog'.state = "ended"
    BY <1>2, <1>9 DEF Ends, Acts, Polling
  <2>2. PICK w \in Words : w.from = prog.id /\ up' = Append(up, w)
    BY <1>9 DEF Ends, Send
  <2>3. OneStatus(up', img.id)
    BY <1>0, <1>2, <2>1, <2>2, StatusSent
  <2> QED
    BY <2>1, <2>3 DEF Awaiting
<1> QED
  BY <1>3, <1>4, <1>5, <1>6, <1>7, <1>8, <1>9, StepKinds

LEMMA StepsReturnOwnStatus ==
    ASSUME Typed, Counted, Awaiting, OwnStatus, [Next]_vars
    PROVE  OwnStatus'
<1>0. img.id \in Nat /\ up \in Seq(Words)
  BY Bounds DEF Typed, TypeOK
<1>1. CASE TakesStatus
  <2>1. /\ Polling /\ async' = async /\ result'.image = img.id /\ result'.from = Head(up).from
        /\ up # << >> /\ Head(up).exit
    BY <1>1 DEF TakesStatus, Polling
  <2>2. CASE async = {}
    <3>1. OneStatus(up, img.id)
      BY <2>1, <2>2 DEF Awaiting
    <3>2. Head(up).from = img.id
      BY <1>0, <2>1, <3>1, StatusTaken
    <3> QED
      BY <2>1, <3>2 DEF OwnStatus
  <2>3. CASE async # {}
    <3>1. PICK k \in async : TRUE
      BY <2>3
    <3>2. Latest = img.id
      BY <1>1 DEF Latest, Launching, TakesStatus
    <3>3. k \in 1 .. img.id /\ k # img.id
      BY <2>1, <3>1, <3>2 DEF Counted
    <3>4. k < img.id
      BY <1>0, <3>3
    <3> QED
      BY <2>1, <3>1, <3>4 DEF OwnStatus
  <2> QED
    BY <2>2, <2>3
<1>2. CASE ~TakesStatus
  <2>1. result' = result /\ async \subseteq async'
    BY <1>2, StepKinds, Executed DEF Kill, RefuseExt, Starts, AfterStart, TakesText, Looks,
       Prints, Reads, Ends, Acts, vars
  <2> QED
    BY <2>1 DEF OwnStatus
<1> QED
  BY <1>1, <1>2

LEMMA WaitingInit == Init => Counted /\ Awaiting /\ OwnStatus
<1> SUFFICES ASSUME Init PROVE Counted /\ Awaiting /\ OwnStatus
  OBVIOUS
<1>1. /\ pc = "idle" /\ img.id = 0 /\ prog.id = 0 /\ prog.state = "reset" /\ async = {}
      /\ result.image = 0 /\ result.from = 0 /\ Len(up) = 0
  BY EmptySeq DEF Init, NoProg, NoExit
<1>2. Latest = 0
  BY <1>1 DEF Latest, Launching
<1>3. Counted
  BY <1>1, <1>2 DEF Counted, Polling
<1>4. NoStatus(up)
  BY <1>1 DEF NoStatus
<1> QED
  BY <1>1, <1>3, <1>4 DEF Awaiting, Polling, OwnStatus

\* When every image was waited for, the status that poll() returns is that of the image it
\* was called for: only an image started without waiting leaves its status to another.
THEOREM WaitersGetTheirStatus == Spec => []OwnStatus
<1> DEFINE Inv == Typed /\ Counted /\ Awaiting /\ OwnStatus
<1>1. Init => Inv
  BY TypedInit, WaitingInit
<1>2. Inv /\ [Next]_vars => Inv'
  BY StepsKeepTypes, StepsKeepCount, StepsAwait, StepsReturnOwnStatus
<1>3. Inv => OwnStatus
  OBVIOUS
<1> QED
  BY <1>1, <1>2, <1>3, PTL DEF Spec

-----------------------------------------------------------------------------
(***************************************************************************)
(* What has been printed and what is still in the FIFO, taken together.    *)
(***************************************************************************)
IsText(w, k) == w.from = k /\ ~w.exit

\* The same as Whole, place by place.
LEMMA WholeMeans ==
    ASSUME NEW q, NEW k, NEW n
    PROVE  Whole(q, k, n) <=>
             /\ \A i \in 1 .. Len(q) : IsText(q[i], k) => q[i].val \in 1 .. n
             /\ \A v \in 1 .. n : \E i \in 1 .. Len(q) : IsText(q[i], k) /\ q[i].val = v
             /\ \A i, j \in 1 .. Len(q) :
                   i < j /\ IsText(q[i], k) /\ IsText(q[j], k) => q[i].val < q[j].val
<1>1. \A i : i \in Texts(q, k) <=> i \in 1 .. Len(q) /\ IsText(q[i], k)
  BY DEF Texts, IsText
<1> DEFINE Vals == {q[i].val : i \in Texts(q, k)}
<1>2. (Vals = 1 .. n) <=> /\ \A i \in Texts(q, k) : q[i].val \in 1 .. n
                          /\ \A v \in 1 .. n : \E i \in Texts(q, k) : q[i].val = v
  <2>1. ASSUME Vals = 1 .. n
        PROVE  /\ \A i \in Texts(q, k) : q[i].val \in 1 .. n
               /\ \A v \in 1 .. n : \E i \in Texts(q, k) : q[i].val = v
    <3>1. \A i \in Texts(q, k) : q[i].val \in Vals
      OBVIOUS
    <3>2. \A v \in Vals : \E i \in Texts(q, k) : q[i].val = v
      OBVIOUS
    <3> QED
      BY <2>1, <3>1, <3>2
  <2>2. ASSUME \A i \in Texts(q, k) : q[i].val \in 1 .. n,
               \A v \in 1 .. n : \E i \in Texts(q, k) : q[i].val = v
        PROVE  Vals = 1 .. n
    <3>1. Vals \subseteq 1 .. n
      BY <2>2
    <3>2. 1 .. n \subseteq Vals
      BY <2>2
    <3> QED
      BY <3>1, <3>2
  <2> QED
    BY <2>1, <2>2
<1>3. (\A i, j \in Texts(q, k) : i < j => q[i].val < q[j].val)
        <=> \A i, j \in 1 .. Len(q) :
               i < j /\ IsText(q[i], k) /\ IsText(q[j], k) => q[i].val < q[j].val
  BY <1>1
<1>4. (\A i \in Texts(q, k) : q[i].val \in 1 .. n)
        <=> \A i \in 1 .. Len(q) : IsText(q[i], k) => q[i].val \in 1 .. n
  BY <1>1
<1>5. (\A v \in 1 .. n : \E i \in Texts(q, k) : q[i].val = v)
        <=> \A v \in 1 .. n : \E i \in 1 .. Len(q) : IsText(q[i], k) /\ q[i].val = v
  BY <1>1
<1> QED
  BY <1>2, <1>3, <1>4, <1>5 DEF Whole

LEMMA WholeLonger ==
    ASSUME NEW q \in Seq(Words), NEW w \in Words, NEW p, p = Append(q, w),
           NEW k, NEW n \in Nat, Whole(q, k, n), NEW m \in Nat,
           IsText(w, k) => w.val = m /\ m = n + 1,
           ~IsText(w, k) => m = n
    PROVE  Whole(p, k, m)
<1>1. /\ Len(q) \in Nat /\ Len(p) = Len(q) + 1 /\ p[Len(q) + 1] = w
      /\ \A i \in 1 .. Len(q) : p[i] = q[i]
  BY AppendProperties, LenProperties
<1>2. PICK l \in Nat : l = Len(q) /\ Len(p) = l + 1
  BY <1>1
<1>3. /\ p[l + 1] = w /\ \A i \in 1 .. l : p[i] = q[i]
      /\ \A i \in 1 .. l + 1 : i \in 1 .. l \/ i = l + 1
      /\ \A i \in 1 .. l : i \in 1 .. l + 1
      /\ l + 1 \in 1 .. l + 1
  BY <1>1, <1>2
<1>4. /\ \A i \in 1 .. l : IsText(q[i], k) => q[i].val \in 1 .. n
      /\ \A v \in 1 .. n : \E i \in 1 .. l : IsText(q[i], k) /\ q[i].val = v
      /\ \A i, j \in 1 .. l : i < j /\ IsText(q[i], k) /\ IsText(q[j], k) => q[i].val < q[j].val
  BY <1>2, WholeMeans
<1>5. \A i \in 1 .. l + 1 : IsText(p[i], k) => p[i].val \in 1 .. m
  <2>1. \A v \in 1 .. n : v \in 1 .. m
    OBVIOUS
  <2>2. \A i \in 1 .. l : IsText(p[i], k) => p[i].val \in 1 .. m
    BY <1>3, <1>4, <2>1
  <2>3. IsText(w, k) => w.val \in 1 .. m
    OBVIOUS
  <2> QED
    BY <1>3, <2>2, <2>3
<1>6. \A v \in 1 .. m : \E i \in 1 .. l + 1 : IsText(p[i], k) /\ p[i].val = v
  <2>1. \A v \in 1 .. n : \E i \in 1 .. l + 1 : IsText(p[i], k) /\ p[i].val = v
    BY <1>3, <1>4
  <2>2. CASE IsText(w, k)
    <3>1. p[l + 1].val = m /\ IsText(p[l + 1], k)
      BY <1>3, <2>2
    <3>2. \A v \in 1 .. m : v \in 1 .. n \/ v = m
      BY <2>2
    <3> QED
      BY <1>3, <2>1, <3>1, <3>2
  <2>3. CASE ~IsText(w, k)
    BY <2>1, <2>3
  <2> QED
    BY <2>2, <2>3
<1>7. ASSUME NEW i \in 1 .. l + 1, NEW j \in 1 .. l + 1, i < j, IsText(p[i], k), IsText(p[j], k)
      PROVE  p[i].val < p[j].val
  <2>1. i \in 1 .. l
    BY <1>2, <1>7
  <2>2. CASE j \in 1 .. l
    BY <1>3, <1>4, <1>7, <2>1, <2>2
  <2>3. CASE j = l + 1
    <3>1. p[j] = w /\ IsText(w, k)
      BY <1>3, <1>7, <2>3
    <3>2. p[j].val = n + 1
      BY <3>1
    <3>3. PICK x \in 1 .. n : x = p[i].val
      BY <1>3, <1>4, <1>7, <2>1
    <3>4. x < n + 1
      OBVIOUS
    <3> QED
      BY <3>2, <3>3, <3>4
  <2> QED
    BY <1>3, <2>2, <2>3
<1> QED
  BY <1>2, <1>5, <1>6, <1>7, WholeMeans

\* Taking away a word that is no text of k.
LEMMA WholeTaken ==
    ASSUME NEW q, NEW p, NEW l \in Nat, NEW m \in 1 .. l + 1, Len(q) = l + 1, Len(p) = l,
           \A i \in 1 .. l : p[i] = IF i < m THEN q[i] ELSE q[i + 1],
           NEW k, NEW n, Whole(q, k, n), ~IsText(q[m], k)
    PROVE  Whole(p, k, n)
<1> DEFINE at(i) == IF i < m THEN i ELSE i + 1
<1>1. \A i \in 1 .. l : p[i] = q[at(i)] /\ at(i) \in 1 .. l + 1
  OBVIOUS
<1>2. \A i, j \in 1 .. l : i < j => at(i) < at(j)
  OBVIOUS
<1>3. \A j \in 1 .. l + 1 : j # m => \E i \in 1 .. l : at(i) = j
  <2> SUFFICES ASSUME NEW j \in 1 .. l + 1, j # m
               PROVE  \E i \in 1 .. l : at(i) = j
    OBVIOUS
  <2>1. CASE j < m
    <3>1. j \in 1 .. l /\ at(j) = j
      BY <2>1
    <3> QED
      BY <3>1
  <2>2. CASE j > m
    <3>1. j - 1 \in 1 .. l /\ at(j - 1) = j
      BY <2>2
    <3> QED
      BY <3>1
  <2> QED
    BY <2>1, <2>2
<1> HIDE DEF at
<1>4. /\ \A i \in 1 .. l + 1 : IsText(q[i], k) => q[i].val \in 1 .. n
      /\ \A v \in 1 .. n : \E i \in 1 .. l + 1 : IsText(q[i], k) /\ q[i].val = v
      /\ \A i, j \in 1 .. l + 1 : i < j /\ IsText(q[i], k) /\ IsText(q[j], k) => q[i].val < q[j].val
  BY WholeMeans
<1>5. \A i \in 1 .. l : IsText(p[i], k) => p[i].val \in 1 .. n
  BY <1>1, <1>4
<1>6. \A v \in 1 .. n : \E i \in 1 .. l : IsText(p[i], k) /\ p[i].val = v
  <2> SUFFICES ASSUME NEW v \in 1 .. n
               PROVE  \E i \in 1 .. l : IsText(p[i], k) /\ p[i].val = v
    OBVIOUS
  <2>1. PICK j \in 1 .. l + 1 : IsText(q[j], k) /\ q[j].val = v
    BY <1>4
  <2>2. PICK i \in 1 .. l : at(i) = j
    BY <1>3, <2>1
  <2> QED
    BY <1>1, <2>1, <2>2
<1>7. \A i, j \in 1 .. l : i < j /\ IsText(p[i], k) /\ IsText(p[j], k) => p[i].val < p[j].val
  BY <1>1, <1>2, <1>4
<1> QED
  BY <1>5, <1>6, <1>7, WholeMeans

LEMMA SentOn ==
    ASSUME NEW p \in Seq(Words), NEW u \in Seq(Words), NEW w \in Words
    PROVE  p \o u \in Seq(Words) /\ p \o Append(u, w) = Append(p \o u, w)
<1>1. <<w>> \in Seq(Words) /\ p \o u \in Seq(Words)
  BY ConcatProperties
<1>2. Append(u, w) = u \o <<w>> /\ Append(p \o u, w) = (p \o u) \o <<w>>
  BY <1>1, AppendIsConcat
<1>3. (p \o u) \o <<w>> = p \o (u \o <<w>>)
  BY <1>1, ConcatAssociative
<1> QED
  BY <1>1, <1>2, <1>3

\* From q of l + 1 places the m-th, which held h, is gone in r.
IsGone(q, r, m, h, l) ==
    /\ m \in 1 .. l + 1 /\ Len(q) = l + 1 /\ Len(r) = l
    /\ q[m] = h
    /\ \A i \in 1 .. l : r[i] = IF i < m THEN q[i] ELSE q[i + 1]

LEMMA SentPlaces ==
    ASSUME NEW p \in Seq(Words), NEW u \in Seq(Words), u # << >>, NEW m, m = Len(p) + 1,
           NEW q, q = p \o u, NEW r, r = p \o Tail(u)
    PROVE  \E l \in Nat : IsGone(q, r, m, Head(u), l)
<1>1. PICK t \in Seq(Words) : t = Tail(u)
  BY HeadTailProperties
<1>2. /\ Len(p) \in Nat /\ Len(u) \in Nat \ {0} /\ Len(t) = Len(u) - 1 /\ Head(u) = u[1]
      /\ \A i \in 1 .. Len(t) : t[i] = u[i + 1]
  BY <1>1, HeadTailProperties, EmptySeq, LenProperties
<1>3. PICK a \in Nat, b \in Nat : a = Len(p) /\ b = Len(t) /\ Len(u) = b + 1
  BY <1>2
<1>4. /\ Len(p \o u) = a + (b + 1)
      /\ \A i \in 1 .. a + (b + 1) : (p \o u)[i] = IF i <= a THEN p[i] ELSE u[i - a]
  <2>1. /\ Len(p \o u) = Len(p) + Len(u)
        /\ \A i \in 1 .. Len(p) + Len(u) : (p \o u)[i] = IF i <= Len(p) THEN p[i] ELSE u[i - Len(p)]
    BY ConcatProperties
  <2>2. Len(p) + Len(u) = a + (b + 1)
    BY <1>3
  <2> QED
    BY <1>3, <2>1, <2>2
<1>5. /\ Len(p \o t) = a + b
      /\ \A i \in 1 .. a + b : (p \o t)[i] = IF i <= a THEN p[i] ELSE t[i - a]
  BY <1>3, ConcatProperties
<1>6. m = a + 1 /\ m \in 1 .. (a + b) + 1 /\ Len(p \o u) = (a + b) + 1
  BY <1>3, <1>4
<1>7. (p \o u)[m] = u[1]
  <2>0. a + 1 \in 1 .. a + (b + 1) /\ ~(a + 1 <= a) /\ (a + 1) - a = 1
    OBVIOUS
  <2>1. m \in 1 .. a + (b + 1) /\ ~(m <= a) /\ m - a = 1
    BY <1>6, <2>0
  <2> QED
    BY <1>4, <2>1
<1>8. ASSUME NEW i \in 1 .. a + b
      PROVE  (p \o t)[i] = IF i < m THEN (p \o u)[i] ELSE (p \o u)[i + 1]
  <2>1. i \in 1 .. a + (b + 1) /\ i + 1 \in 1 .. a + (b + 1)
    OBVIOUS
  <2>2. CASE i < m
    <3>1. i <= a
      BY <1>6, <2>2
    <3> QED
      BY <1>4, <1>5, <2>1, <2>2, <3>1
  <2>3. CASE ~(i < m)
    <3>1. ~(i <= a) /\ ~(i + 1 <= a) /\ i - a \in 1 .. b /\ (i - a) + 1 = (i + 1) - a
      BY <1>6, <2>3
    <3>2. t[i - a] = u[(i - a) + 1]
      BY <1>2, <1>3, <3>1
    <3>3. (p \o t)[i] = t[i - a] /\ (p \o u)[i + 1] = u[(i + 1) - a]
      BY <1>4, <1>5, <2>1, <3>1
    <3> QED
      BY <2>3, <3>1, <3>2, <3>3
  <2> QED
    BY <2>2, <2>3
<1>9. a + b \in Nat
  OBVIOUS
<1>10. IsGone(q, r, m, Head(u), a + b)
  BY <1>1, <1>2, <1>5, <1>6, <1>7, <1>8 DEF IsGone
<1> QED
  BY <1>9, <1>10

LEMMA SentMoved ==
    ASSUME NEW p \in Seq(Words), NEW u \in Seq(Words), u # << >>
    PROVE  Append(p, Head(u)) \o Tail(u) = p \o u
<1>1. PICK t \in Seq(Words), h \in Words : t = Tail(u) /\ h = Head(u)
  BY HeadTailProperties
<1>2. u = <<h>> \o t
  <2>1. /\ Len(u) \in Nat \ {0} /\ Len(t) = Len(u) - 1 /\ h = u[1]
        /\ \A i \in 1 .. Len(t) : t[i] = u[i + 1]
    BY <1>1, HeadTailProperties, EmptySeq, LenProperties
  <2>2. <<h>> \in Seq(Words) /\ Len(<<h>>) = 1 /\ <<h>>[1] = h
    OBVIOUS
  <2>a. PICK o \in Seq(Words) : o = <<h>>
    BY <2>2
  <2>b. PICK b \in Nat : b = Len(t) /\ Len(u) = 1 + b
    BY <2>1
  <2>3. b = Len(t) /\ Len(u) = 1 + b /\ o = <<h>>
    BY <2>a, <2>b
  <2>4. /\ o \o t \in Seq(Words) /\ Len(o \o t) = 1 + b
        /\ \A i \in 1 .. 1 + b : (o \o t)[i] = IF i <= 1 THEN o[i] ELSE t[i - 1]
    BY <2>2, <2>3, ConcatProperties
  <2>5. ASSUME NEW i \in 1 .. 1 + b
        PROVE  u[i] = (o \o t)[i]
    <3>1. CASE i = 1
      BY <2>1, <2>2, <2>3, <2>4, <3>1
    <3>2. CASE i # 1
      <4>1. i - 1 \in 1 .. b /\ (i - 1) + 1 = i /\ ~(i <= 1)
        BY <3>2
      <4>2. t[i - 1] = u[(i - 1) + 1]
        BY <2>1, <2>3, <4>1
      <4> QED
        BY <2>4, <4>1, <4>2
    <3> QED
      BY <3>1, <3>2
  <2>6. u = o \o t
    BY <2>3, <2>4, <2>5, SeqEqual
  <2> QED
    BY <2>3, <2>6
<1>3. <<h>> \in Seq(Words) /\ Append(p, h) = p \o <<h>>
  BY AppendIsConcat
<1>4. (p \o <<h>>) \o t = p \o (<<h>> \o t)
  BY <1>3, ConcatAssociative
<1> QED
  BY <1>1, <1>2, <1>3, <1>4

-----------------------------------------------------------------------------
(***************************************************************************)
(* What each program has printed is under way or on the console, whole and *)
(* in order; what is not started has printed nothing.                      *)
(***************************************************************************)
Told(k) ==
    \E n \in 0 .. MaxOut :
        /\ Whole(Sent, k, n)
        /\ prog.id = k => n = prog.out
        /\ k > Latest => n = 0

Printing ==
    /\ \A i \in 1 .. Len(printed) : ~printed[i].exit
    /\ \A k \in Nat \ {0} : Told(k)

LEMMA StepsPrintText ==
    ASSUME Typed, \A i \in 1 .. Len(printed) : ~printed[i].exit, [Next]_vars
    PROVE  \A i \in 1 .. Len(printed') : ~printed'[i].exit
<1>1. CASE TakesText
  <2>1. /\ Len(printed) \in Nat /\ Len(printed') = Len(printed) + 1
        /\ printed'[Len(printed) + 1] = Head(up) /\ ~Head(up).exit
        /\ \A i \in 1 .. Len(printed) : printed'[i] = printed[i]
    BY <1>1, AppendProperties, LenProperties DEF TakesText, Typed, TypeOK
  <2>2. \A i \in 1 .. Len(printed') : i \in 1 .. Len(printed) \/ i = Len(printed) + 1
    BY <2>1
  <2> QED
    BY <2>1, <2>2
<1>2. CASE ~TakesText
  <2>1. printed' = printed
    BY <1>2, StepKinds, Executed DEF Kill, RefuseExt, Starts, TakesStatus, Looks,
       Prints, Reads, Ends, Acts, vars
  <2> QED
    BY <2>1
<1> QED
  BY <1>1, <1>2

LEMMA StepsTell ==
    ASSUME Typed, Counted, Printing, [Next]_vars, NEW k \in Nat \ {0}
    PROVE  Told(k)'
<1>0. /\ up \in Seq(Words) /\ printed \in Seq(Words) /\ Sent \in Seq(Words)
      /\ img.id \in Nat /\ prog.id \in Nat /\ prog.out \in 0 .. MaxOut /\ MaxOut \in Nat
      /\ pc \in {"idle", "kill", "start", "poll", "key", "write"}
      /\ pc # "idle" => img.id \in Nat \ {0}
  BY Bounds, ConcatProperties DEF Typed, TypeOK, Sent
<1>1. PICK n \in 0 .. MaxOut : /\ Whole(Sent, k, n)
                               /\ prog.id = k => n = prog.out
                               /\ k > Latest => n = 0
  BY DEF Printing, Told
<1>2. prog.id <= Latest
  BY DEF Counted
\* Steps that print nothing, lose no text, and start nothing.
<1>a. ASSUME Whole(Sent', k, n), prog'.id = k => prog.id = k /\ prog'.out = prog.out,
             k > Latest' => k > Latest
      PROVE  Told(k)'
  <2>1. /\ Whole(Sent', k, n)
        /\ prog'.id = k => n = prog'.out
        /\ k > Latest' => n = 0
    BY <1>1, <1>a
  <2> QED
    BY <2>1 DEF Told
<1>3. CASE Execute
  <2>1. ~Launching /\ Launching' /\ img'.id = img.id + 1 /\ prog' = prog /\ up' = up /\ printed' = printed
    BY <1>3, Executed DEF Launching
  <2>2. Latest' = Latest
    BY <1>0, <2>1 DEF Latest
  <2>3. Sent' = Sent
    BY <2>1 DEF Sent
  <2> QED
    BY <1>1, <1>a, <2>1, <2>2, <2>3
<1>4. CASE Kill
  <2>1. Launching /\ Launching' /\ img' = img /\ prog'.id = 0 /\ up' = up /\ printed' = printed
    BY <1>4 DEF Kill, Launching, NoProg
  <2>2. Latest' = Latest /\ Sent' = Sent
    BY <2>1 DEF Latest, Sent
  <2> QED
    BY <1>1, <1>a, <2>1, <2>2
<1>5. CASE RefuseExt \/ Starts
  <2>1. /\ pc = "start" /\ Launching /\ ~Launching' /\ img' = img /\ up' = up /\ printed' = printed
    BY <1>5 DEF RefuseExt, Starts, AfterStart, Launching
  <2>2. Latest = img.id - 1 /\ Latest' = img.id /\ Sent' = Sent
    BY <2>1 DEF Latest, Sent
  <2>3. k > Latest' => k > Latest
    BY <1>0, <2>2
  <2>4. CASE prog' = prog
    BY <1>1, <1>a, <2>2, <2>3, <2>4
  <2>5. CASE prog'.id = img.id /\ prog'.out = 0
    <3>1. CASE k = img.id
      <4>1. k > Latest
        BY <1>0, <2>2, <3>1
      <4>2. n = 0
        BY <1>1, <4>1
      <4>3. /\ Whole(Sent', k, n)
            /\ prog'.id = k => n = prog'.out
            /\ k > Latest' => n = 0
        BY <1>1, <2>2, <2>5, <4>2
      <4> QED
        BY <4>3 DEF Told
    <3>2. CASE k # img.id
      BY <1>1, <1>a, <2>2, <2>3, <2>5, <3>2
    <3> QED
      BY <3>1, <3>2
  <2> QED
    BY <1>5, <2>4, <2>5 DEF RefuseExt, Starts
<1>6. CASE TakesText
  <2>1. ~Launching /\ ~Launching' /\ img' = img /\ prog' = prog
    BY <1>6 DEF TakesText, Launching
  <2>2. Latest' = Latest
    BY <2>1 DEF Latest
  <2>3. Sent' = Sent
    BY <1>0, <1>6, SentMoved DEF TakesText, Sent
  <2> QED
    BY <1>1, <1>a, <2>1, <2>2, <2>3
<1>7. CASE TakesStatus
  <2>1. ~Launching /\ ~Launching' /\ img' = img /\ prog' = prog
    BY <1>7 DEF TakesStatus, Launching
  <2>2. Latest' = Latest
    BY <2>1 DEF Latest
  <2>3. up # << >> /\ Head(up).exit /\ Sent = printed \o up /\ Sent' = printed \o Tail(up)
    BY <1>7 DEF TakesStatus, Sent
  <2>4. PICK m : m = Len(printed) + 1
    OBVIOUS
  <2>q. PICK q, p : q = Sent /\ p = Sent'
    OBVIOUS
  <2>r. q = printed \o up /\ p = printed \o Tail(up)
    BY <2>3, <2>q
  <2>p. PICK l \in Nat : IsGone(q, p, m, Head(up), l)
    BY <1>0, <2>3, <2>4, <2>r, SentPlaces
  <2>5. /\ m \in 1 .. l + 1 /\ Len(q) = l + 1 /\ Len(p) = l
        /\ q[m] = Head(up)
        /\ \A i \in 1 .. l : p[i] = IF i < m THEN q[i] ELSE q[i + 1]
    BY <2>p DEF IsGone
  <2>6. ~IsText(q[m], k)
    BY <2>3, <2>5 DEF IsText
  <2>7. Whole(Sent', k, n)
    <3>1. Whole(q, k, n)
      BY <1>1, <2>q
    <3>2. Whole(p, k, n)
      BY <2>5, <2>6, <3>1, WholeTaken
    <3> QED
      BY <2>q, <3>2
  <2> QED
    BY <1>a, <2>1, <2>2, <2>7
<1>8. CASE Looks \/ Reads
  <2>1. /\ Launching' = Launching /\ img' = img /\ up' = up /\ printed' = printed
        /\ prog'.id = prog.id /\ prog'.out = prog.out
    BY <1>8 DEF Looks, Reads, Acts, Launching, Polling
  <2>2. Latest' = Latest /\ Sent' = Sent
    BY <2>1 DEF Latest, Sent
  <2> QED
    BY <1>1, <1>a, <2>1, <2>2
<1>9. CASE Prints
  <2>1. /\ pc' = pc /\ img' = img /\ printed' = printed /\ prog'.id = prog.id
        /\ prog'.out = prog.out + 1 /\ prog' \in Progs
    BY <1>9 DEF Prints, Acts
  <2>2. Latest' = Latest
    BY <2>1 DEF Latest, Launching
  <2>3. PICK w \in Words : w = Text(prog.id, prog.out + 1) /\ up' = Append(up, w)
    BY <1>9 DEF Prints, Send
  <2>4. Sent' = Append(Sent, w)
    BY <1>0, <2>1, <2>3, SentOn DEF Sent
  <2>5. w.from = prog.id /\ ~w.exit /\ w.val = prog.out + 1
    BY <2>3 DEF Text
  <2>6. CASE prog.id = k
    <3>1. PICK m \in 0 .. MaxOut : m = n + 1 /\ m = prog'.out
      BY <1>1, <2>1, <2>6 DEF Progs
    <3>2. IsText(w, k) /\ w.val = m
      BY <1>1, <2>5, <2>6, <3>1 DEF IsText
    <3>3. Whole(Sent', k, m)
      <4>1. n \in Nat /\ m \in Nat
        BY <1>0
      <4> QED
        BY <1>0, <1>1, <2>4, <3>1, <3>2, <4>1, WholeLonger
    <3>4. ~(k > Latest)
      <4>1. Latest \in Int
        BY <1>0 DEF Latest
      <4> QED
        BY <1>2, <2>6, <4>1
    <3>5. /\ Whole(Sent', k, m)
          /\ prog'.id = k => m = prog'.out
          /\ k > Latest' => m = 0
      BY <2>2, <3>1, <3>3, <3>4
    <3> QED
      BY <3>5 DEF Told
  <2>7. CASE prog.id # k
    <3>1. ~IsText(w, k)
      BY <2>5, <2>7 DEF IsText
    <3>2. Whole(Sent', k, n)
      <4>1. n \in Nat
        BY <1>0
      <4> QED
        BY <1>0, <1>1, <2>4, <3>1, <4>1, WholeLonger
    <3> QED
      BY <1>a, <2>1, <2>2, <2>7, <3>2
  <2> QED
    BY <2>6, <2>7
<1>10. CASE Ends
  <2>1. /\ pc' = pc /\ img' = img /\ printed' = printed /\ prog'.id = prog.id
        /\ prog'.out = prog.out
    BY <1>10 DEF Ends, Acts
  <2>2. Latest' = Latest
    BY <2>1 DEF Latest, Launching
  <2>3. PICK w \in Words : w.exit /\ up' = Append(up, w)
    BY <1>10 DEF Ends, Send
  <2>4. Sent' = Append(Sent, w)
    BY <1>0, <2>1, <2>3, SentOn DEF Sent
  <2>5. ~IsText(w, k)
    BY <2>3 DEF IsText
  <2>6. Whole(Sent', k, n)
    <3>1. n \in Nat
      BY <1>0
    <3> QED
      BY <1>0, <1>1, <2>4, <2>5, <3>1, WholeLonger
  <2> QED
    BY <1>a, <2>1, <2>2, <2>6
<1>11. CASE UNCHANGED vars
  <2>1. Sent' = Sent /\ prog' = prog /\ Latest' = Latest
    BY <1>11 DEF vars, Sent, Latest, Launching
  <2> QED
    BY <1>1, <1>a, <2>1
<1> QED
  BY <1>3, <1>4, <1>5, <1>6, <1>7, <1>8, <1>9, <1>10, <1>11, StepKinds

LEMMA PrintingInit == Init => Printing
<1> SUFFICES ASSUME Init PROVE Printing
  OBVIOUS
<1>1. /\ printed = << >> /\ up = << >> /\ Len(printed) = 0
      /\ prog.id = 0 /\ prog.out = 0
  BY EmptySeq DEF Init, NoProg
<1>2. Sent = << >>
  BY <1>1, EmptySeq, ConcatEmptySeq DEF Sent
<1>3. ASSUME NEW k \in Nat \ {0}
      PROVE  Told(k)
  <2>1. Len(Sent) = 0
    BY <1>2, EmptySeq
  <2>2. Whole(Sent, k, 0)
    BY <2>1, WholeMeans
  <2>3. 0 \in 0 .. MaxOut
    BY Bounds
  <2> QED
    BY <1>1, <2>2, <2>3 DEF Told
<1> QED
  BY <1>1, <1>3 DEF Printing

\* What a program prints gets to the console whole and in order, whenever it is killed,
\* ends, or another is started, and nothing else gets there.
THEOREM OutputGetsThrough == Spec => []OutputIsWhole
<1> DEFINE Inv == Typed /\ Counted /\ Printing
<1>1. Init => Inv
  BY TypedInit, WaitingInit, PrintingInit
<1>2. Inv /\ [Next]_vars => Inv'
  <2> SUFFICES ASSUME Inv, [Next]_vars PROVE Inv'
    OBVIOUS
  <2>1. Typed' /\ Counted'
    BY StepsKeepTypes, StepsKeepCount
  <2>2. \A i \in 1 .. Len(printed') : ~printed'[i].exit
    BY StepsPrintText DEF Printing
  <2>3. \A k \in Nat \ {0} : Told(k)'
    BY StepsTell
  <2> QED
    BY <2>1, <2>2, <2>3 DEF Printing
<1>3. Inv => OutputIsWhole
  <2> SUFFICES ASSUME Inv PROVE OutputIsWhole
    OBVIOUS
  <2>1. \A k \in 1 .. img.id : k \in Nat \ {0}
    BY DEF Typed, TypeOK
  <2>2. \A k \in 1 .. img.id : Told(k)
    BY <2>1 DEF Printing
  <2> QED
    BY <2>2 DEF Printing, Told, OutputIsWhole
<1> QED
  BY <1>1, <1>2, <1>3, PTL DEF Spec

=============================================================================
