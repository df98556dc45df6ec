--------------------------- MODULE BootRomProofs ---------------------------
(***************************************************************************)
(* Proofs about the boot ROM, for every board (number and block size of    *)
(* the boot devices, size of the SPL area, CPU clusters), every set of     *)
(* images and every content of the devices.                                *)
(***************************************************************************)
EXTENDS BootRom, TLAPS

-----------------------------------------------------------------------------
(* Facts about the operators of BootImage.                                 *)

\* The fields of an image have the types struct rumboot_bootheader gives them.
LEMMA ImageFields ==
    ASSUME NEW i \in Name
    PROVE  /\ Img[i].magic \in Int
           /\ Img[i].datalen \in 0 .. 2 * WordHalf - 1
           /\ Img[i].dest \in Region
           /\ Img[i].datacrc \in BOOLEAN
           /\ Img[i].secured \in BOOLEAN
           /\ Img[i].unpacks \in BOOLEAN
           /\ Img[i].signature \in Int
           /\ Img[i].inner \in Name
           /\ Img[i].starts \in Int
           /\ Img[i].exit \subseteq Int
           /\ Img[i].flags \subseteq Flag
           /\ Img[i].cluster \in Nat
<1>1. Img[i] \in Image
  BY ImageAssumption DEF ImageAssumption
<1> QED
  BY <1>1 DEF Image

\* A header check yields a length or the negative of an error code, and never
\* a code that looks like a magic word.
LEMMA VerdictRange ==
    ASSUME NEW i \in Name, NEW m \in Int
    PROVE  /\ check_header(i, m) \in Int
           /\ check_header(i, m) >= -WordHalf
           /\ check_header(i, m) >= 0 =>
                  IsMagic(m) /\ check_header(i, m) = Img[i].datalen
<1>1. /\ Img[i].datalen \in 0 .. 2 * WordHalf - 1
      /\ WordHalf \in Nat /\ WordHalf > EMAXERROR
  BY ImageFields, ImageAssumption DEF ImageAssumption
<1>2. CASE header_error(i, m) = 0
  <2>1. IsMagic(m)
    BY <1>2 DEF header_error, EBADMAGIC
  <2>2. check_header(i, m) = AsSigned(Img[i].datalen)
    BY <1>2 DEF check_header
  <2> QED
    BY <1>1, <2>1, <2>2 DEF AsSigned
<1>3. CASE header_error(i, m) # 0
  <2>1. header_error(i, m) \in -12 .. -1
    BY <1>3 DEF header_error, EBADMAGIC, EBADVERSION, EBADHEADER,
                EBADCLUSTERID, EBADCHIPID, EBADHDRCRC, EBADENTRY
  <2> QED
    BY <1>1, <1>3, <2>1 DEF check_header, EMAXERROR
<1> QED
  BY <1>2, <1>3

\* round_up_to_align() yields a multiple of the block size, the least one that
\* is not below the value.
IsRoundUp(v, a, k) ==
    /\ round_up_to_align(v, a) = a * k
    /\ a * k >= v
    /\ \A n \in Nat : a * n >= v => n >= k

LEMMA RoundUp ==
    ASSUME NEW v \in Nat, NEW a \in Nat \ {0}
    PROVE  \E k \in Nat : IsRoundUp(v, a, k)
<1>1. PICK q \in Nat, r \in 0 .. a - 1 : r = v % a /\ v = a * q + r
  <2>1. v \div a \in Nat /\ v % a \in 0 .. a - 1 /\ v = a * (v \div a) + (v % a)
    OBVIOUS
  <2> QED
    BY <2>1
<1>2. CASE r = 0
  <2>1. round_up_to_align(v, a) = a * q
    BY <1>1, <1>2 DEF round_up_to_align
  <2>2. ASSUME NEW n \in Nat, a * n >= v PROVE n >= q
    <3>1. SUFFICES ASSUME n + 1 <= q PROVE FALSE
      BY <1>1
    <3>2. a * (n + 1) <= a * q
      BY <1>1, <3>1
    <3> QED
      BY <1>1, <1>2, <2>2, <3>2
  <2>3. IsRoundUp(v, a, q)
    BY <1>1, <1>2, <2>1, <2>2 DEF IsRoundUp
  <2> QED
    BY <1>1, <2>3
<1>3. CASE r # 0
  <2>1. round_up_to_align(v, a) = a * (q + 1)
    BY <1>1, <1>3 DEF round_up_to_align
  <2>2. a * (q + 1) >= v
    BY <1>1
  <2>3. ASSUME NEW n \in Nat, a * n >= v PROVE n >= q + 1
    <3>1. SUFFICES ASSUME n <= q PROVE FALSE
      BY <1>1
    <3>2. a * n <= a * q
      BY <1>1, <3>1
    <3> QED
      BY <1>1, <1>3, <2>3, <3>2
  <2>4. IsRoundUp(v, a, q + 1)
    BY <2>1, <2>2, <2>3 DEF IsRoundUp
  <2> QED
    BY <1>1, <2>4
<1> QED
  BY <1>1, <1>2, <1>3

\* It is a natural number, not below the value, for any block size.
LEMMA RoundUpNat ==
    ASSUME NEW v \in Nat, NEW a \in Nat
    PROVE  round_up_to_align(v, a) \in Nat /\ round_up_to_align(v, a) >= v
<1>1. CASE a = 0
  BY <1>1 DEF round_up_to_align
<1>2. CASE a # 0
  BY <1>2, RoundUp DEF IsRoundUp
<1> QED
  BY <1>1, <1>2

\* At least a header is read to get at the header.
LEMMA HeaderReadNat ==
    ASSUME NEW a \in Nat
    PROVE  HeaderRead(a) \in Nat /\ HeaderRead(a) >= HdrSize
<1>1. HdrSize \in Nat
  BY ImageAssumption DEF ImageAssumption
<1> QED
  BY <1>1, RoundUpNat DEF HeaderRead

-----------------------------------------------------------------------------
(* Type correctness.                                                       *)

(***************************************************************************)
(* TypeOK is not inductive: `src + 1' stays a source or the sentinel only  *)
(* because the chain is at a source whenever it resumes.  Control relates  *)
(* the control point to the caller and the boot source it works for.       *)
(***************************************************************************)
Control ==
    /\ pc \in LoadPc \cup {"enable", "failed"} =>
           src \in Source /\ caller \in {"chain", "byid"}
    /\ pc \in ExecPc \cup {"back"} =>
           \/ src \in Source /\ caller \in {"chain", "byid"}
           \/ src = NULL /\ caller = "host"
    /\ pc \in HostPc => src = NULL /\ caller = "host"
    /\ pc = "chain"  => caller = "chain"
    /\ pc = "boot"   => src = NULL /\ caller = "chain"

TypeInv == TypeOK /\ Control

\* What the proofs use of the constants.
LEMMA Constants ==
    /\ NumSources \in Nat \ {0}
    /\ Source = 1 .. NumSources
    /\ \A s \in Source : Align[s] \in Nat /\ Offset0[s] \in Nat
    /\ \A s \in Source, o \in Nat : HeaderAt(s, o) \in Name
    /\ Residue \subseteq Name /\ Upload \subseteq Name
    /\ HdrSize \in Nat \ {0} /\ MaxSize \in Nat /\ MaxSize >= HdrSize
    /\ Secondary = 1 .. NumClusters - 1 /\ NumClusters \in Nat \ {0}
    /\ PollHook \subseteq Secondary
    /\ PollMask \in Nat \ {0}
    /\ Blank \in Name
BY ImageAssumption, RomAssumption
   DEF ImageAssumption, RomAssumption, HeaderAt, Secondary, Cluster, Source

\* The type of what a load or an upload leaves in the SPL area.
LEMMA HoldsType ==
    ASSUME NEW i \in Name
    PROVE  Holds(i) \in SplArea
BY ImageFields, Constants DEF Holds, SplArea

LEMMA UsedType ==
    ASSUME NEW a \in SplArea
    PROVE  Used(a) \in SplArea
BY DEF Used, SplArea

LEMMA BrokenType ==
    ASSUME NEW a \in SplArea, NEW e \in Int
    PROVE  [a EXCEPT !.intact = FALSE, !.magic = e] \in SplArea
BY DEF SplArea

LEMMA DestinationType ==
    ASSUME NEW i \in Name
    PROVE  Destination(i) \in Memory
BY ImageFields DEF Destination, Memory

LEMMA OverwritesType ==
    ASSUME clobbered \subseteq Secondary, NEW m, Overwrites(m)
    PROVE  clobbered' \subseteq Secondary
BY DEF Overwrites

LEMMA TypeInvInit == Init => TypeInv
<1> SUFFICES ASSUME Init PROVE TypeInv
  OBVIOUS
<1>1. spl \in SplArea
  BY HoldsType, Constants DEF Init
<1> QED
  BY <1>1, Constants DEF Init, TypeInv, TypeOK, Control, Pc, LoadPc, ExecPc,
                         HostPc, NULL, Idle

LEMMA TypeInvStep == TypeInv /\ [Next]_vars => TypeInv'
<1> SUFFICES ASSUME TypeInv, [Next]_vars PROVE TypeInv'
  OBVIOUS
<1> USE DEF TypeInv, TypeOK, Control, Pc, LoadPc, ExecPc, HostPc, NULL, Goto, Return
<1>1. CASE Boot
  BY <1>1, Constants DEF Boot
<1>2. CASE ChainNext
  BY <1>2, Constants DEF ChainNext
<1>3. CASE ChainEnds
  BY <1>3, Constants DEF ChainEnds
<1>4. CASE Enable
  BY <1>4 DEF Enable
<1>5. CASE EnableFails
  BY <1>5 DEF EnableFails, EBADSOURCE
<1>6. CASE InitPlugin
  BY <1>6, Constants, RoundUpNat DEF InitPlugin
<1>7. CASE InitPluginFails
  BY <1>7 DEF InitPluginFails, bootsource_deinit, EBADSOURCE
<1>8. CASE ReadHeader
  <2>1. HeaderAt(src, off) \in Name /\ HeaderRead(Align[src]) \in Nat
    BY <1>8, Constants, HeaderReadNat DEF ReadHeader
  <2>2. spl' \in SplArea
    BY <1>8, <2>1, HoldsType DEF ReadHeader, SplArea
  <2>3. off' \in Nat /\ top' \in Nat
    BY <1>8, <2>1 DEF ReadHeader, Advance
  <2>4. clobbered' \subseteq Secondary
    BY <1>8, OverwritesType DEF ReadHeader
  <2> QED
    BY <1>8, <2>2, <2>3, <2>4 DEF ReadHeader
<1>9. CASE ReadHeaderShort
  <2>1. spl' \in SplArea
    BY <1>9 DEF ReadHeaderShort, SplArea
  <2>2. clobbered' \subseteq Secondary
    BY <1>9, OverwritesType DEF ReadHeaderShort
  <2> QED
    BY <1>9, <2>1, <2>2 DEF ReadHeaderShort, EIO
<1>10. CASE RejectHeader
  BY <1>10, VerdictRange DEF RejectHeader, Verdict, SplArea, ETOOBIG
<1>11. CASE ReadData
  <2>1. PaddedData \in Nat /\ HeaderRead(Align[src]) \in Nat
    <3>1. Verdict \in Nat
      BY <1>11, VerdictRange DEF ReadData, Verdict, SplArea
    <3> QED
      BY <1>11, <3>1, Constants, RoundUpNat, HeaderReadNat DEF ReadData, PaddedData
  <2>2. spl' \in SplArea
    BY <1>11, ImageFields DEF ReadData, SplArea
  <2>3. off' \in Nat /\ top' \in Nat
    BY <1>11, <2>1 DEF ReadData, Advance
  <2>4. clobbered' \subseteq Secondary
    BY <1>11, OverwritesType DEF ReadData
  <2> QED
    BY <1>11, <2>2, <2>3, <2>4 DEF ReadData
<1>12. CASE CheckData
  BY <1>12 DEF CheckData, check_data, EBADDATACRC
<1>13. CASE Quiesce
  BY <1>13 DEF Quiesce, Status, bootsource_deinit, SplArea
<1>14. CASE Execute
  <2>1. spl' \in SplArea /\ cur' \in Name
    BY <1>14, UsedType DEF Execute, SplArea
  <2>2. core' \in [Secondary -> Memory \cup {Idle}]
    BY <1>14 DEF Execute
  <2> QED
    BY <1>14, <2>1, <2>2 DEF Execute, EBADCLUSTERID
<1>15. CASE Refuse
  BY <1>15, ImageFields DEF Refuse, Overwrites, SplArea
<1>16. CASE Place
  <2>1. /\ spl \in SplArea /\ [spl EXCEPT !.intact = FALSE] \in SplArea
        /\ \A b \in BOOLEAN :
               [Holds(Img[cur].inner) EXCEPT !.intact = @ /\ b] \in SplArea
    BY ImageFields, HoldsType DEF SplArea
  <2>2. spl' \in SplArea
    BY <1>16, <2>1 DEF Place
  <2>3. clobbered' \subseteq Secondary
    BY <1>16 DEF Place
  <2>4. ret' \in Int /\ pc' \in {"back", "start"}
    BY <1>16 DEF Place, EBADDATACRC
  <2> QED
    BY <1>16, <2>2, <2>3, <2>4 DEF Place
<1>17. CASE StartOwn
  BY <1>17 DEF StartOwn
<1>18. CASE StartSecondary
  BY <1>18, ImageFields, DestinationType DEF StartSecondary
<1>19. CASE ResumeChain
  BY <1>19, Constants DEF ResumeChain, find_source_by_id
<1>20. CASE ResumeById
  BY <1>20, Constants DEF ResumeById
<1>21. CASE ResumeHost
  BY <1>21, Constants DEF ResumeHost, find_source_by_id
<1>22. CASE NoKey
  BY <1>22 DEF NoKey
<1>23. CASE XmodemUpload
  <2>1. spl' \in SplArea
    <3>1. PICK i \in Upload :
             \/ spl' = Holds(i)
             \/ \E e \in XmodemError :
                  spl' = [Holds(i) EXCEPT !.intact = FALSE, !.magic = e]
      BY <1>23 DEF XmodemUpload
    <3>2. Holds(i) \in SplArea
      BY HoldsType, Constants
    <3> QED
      <4>1. CASE spl' = Holds(i)
        BY <3>2, <4>1
      <4>2. ASSUME NEW e \in XmodemError,
                   spl' = [Holds(i) EXCEPT !.intact = FALSE, !.magic = e]
            PROVE  spl' \in SplArea
        <5>1. e \in Int
          BY DEF XmodemError
        <5> QED
          BY <3>2, <4>2, <5>1, BrokenType
      <4> QED
        BY <3>1, <4>1, <4>2
  <2>2. clobbered' \subseteq Secondary
    BY <1>23, OverwritesType DEF XmodemUpload
  <2> QED
    BY <1>23, <2>1, <2>2 DEF XmodemUpload
<1>24. CASE HostCheckHeader
  <2>1. Verdict \in Int
    BY VerdictRange DEF Verdict, SplArea
  <2> QED
    BY <1>24, <2>1 DEF HostCheckHeader
<1>25. CASE HostCheckData
  BY <1>25 DEF HostCheckData, EBADDATACRC
<1>26. CASE HostReject
  BY <1>26 DEF HostReject, Status, SplArea
<1>27. CASE ImageReturns
  BY <1>27, ImageFields DEF ImageReturns, SplArea
<1>28. CASE PollReturns
  <2>1. core' \in [Secondary -> Memory \cup {Idle}]
    BY <1>28 DEF PollReturns
  <2>2. ret' \in Int
    BY <1>28, ImageFields, Constants DEF PollReturns
  <2> QED
    BY <1>28, <2>1, <2>2 DEF PollReturns
<1>29. CASE HostWritesBody
  BY <1>29, Constants, HoldsType DEF HostWritesBody, Overwrites, SplArea
<1>30. CASE HostWritesMagic
  BY <1>30, ImageFields DEF HostWritesMagic, SplArea
<1>31. ASSUME NEW c \in Secondary, CoreFinishes(c) PROVE TypeInv'
  BY <1>31 DEF CoreFinishes
<1>32. CASE UNCHANGED vars
  BY <1>32 DEF vars
<1> QED
  BY <1>1, <1>2, <1>3, <1>4, <1>5, <1>6, <1>7, <1>8, <1>9, <1>10, <1>11, <1>12, <1>13, <1>14, <1>15, <1>16, <1>17, <1>18, <1>19, <1>20, <1>21, <1>22, <1>23, <1>24, <1>25, <1>26, <1>27, <1>28, <1>29, <1>30, <1>31, <1>32
     DEF Next, Rom, LoadStep, ExecStep, HostStep, Environment

THEOREM TypeCorrect == Spec => []TypeOK
<1>1. TypeInv => TypeOK
  BY DEF TypeInv
<1> QED
  BY <1>1, TypeInvInit, TypeInvStep, PTL DEF Spec

-----------------------------------------------------------------------------
(* Boot devices are shut down before anything else happens.                *)

\* Nothing is left of hooks that bootsource_deinit() undoes.
LEMMA DeinitLeavesNothing ==
    ASSUME NEW hooks \in SUBSET {"enabled", "initialised"}
    PROVE  bootsource_deinit(hooks) = {}
BY DEF bootsource_deinit

LEMMA QuiescedStep == TypeInv /\ Quiesced /\ [Next]_vars => Quiesced'
<1> SUFFICES ASSUME TypeInv, Quiesced, [Next]_vars PROVE Quiesced'
  OBVIOUS
<1> USE DEF Goto, Return
<1>a. /\ dev \in [Source -> SUBSET {"enabled", "initialised"}]
      /\ pc \in LoadPc \cup {"enable"} => src \in Source
      /\ \A s \in Source : dev[s] # {} => s = src /\ pc \in LoadPc
  BY DEF TypeInv, TypeOK, Control, Quiesced
\* The steps that work on the hooks of a device.
<1>1. CASE Enable
  BY <1>a, <1>1 DEF Enable, Quiesced, LoadPc
<1>2. CASE EnableFails
  BY <1>a, <1>2 DEF EnableFails, Quiesced, LoadPc
<1>3. CASE InitPlugin
  BY <1>a, <1>3 DEF InitPlugin, Quiesced, LoadPc
<1>4. CASE InitPluginFails
  <2>1. bootsource_deinit(dev[src]) = {}
    BY <1>a, <1>4, DeinitLeavesNothing DEF InitPluginFails, LoadPc
  <2> QED
    BY <1>a, <1>4, <2>1 DEF InitPluginFails, Quiesced
<1>5. CASE Quiesce
  <2>1. bootsource_deinit(dev[src]) = {}
    BY <1>a, <1>5, DeinitLeavesNothing DEF Quiesce, LoadPc
  <2> QED
    BY <1>a, <1>5, <2>1 DEF Quiesce, Quiesced
\* The steps of a load leave them alone and stay with the device.
<1>6. CASE \/ ReadHeader \/ ReadHeaderShort \/ RejectHeader \/ ReadData
           \/ CheckData
  <2>1. dev' = dev /\ src' = src /\ pc' \in LoadPc
    BY <1>6 DEF ReadHeader, ReadHeaderShort, RejectHeader, ReadData, CheckData,
                LoadPc
  <2> QED
    BY <1>a, <2>1 DEF Quiesced
\* Everything else the ROM does happens while no device has hooks in force.
<1>7. CASE \/ Boot \/ ChainNext \/ ChainEnds \/ ExecStep \/ HostStep
           \/ ImageReturns \/ PollReturns \/ HostWritesBody
  <2>1. dev' = dev
    BY <1>7 DEF Boot, ChainNext, ChainEnds, ExecStep, Execute, Refuse, Place,
                StartOwn, StartSecondary, ResumeChain, ResumeById, ResumeHost,
                HostStep, NoKey, XmodemUpload, HostCheckHeader, HostCheckData,
                HostReject, ImageReturns, PollReturns, HostWritesBody
  <2>2. pc \notin LoadPc
    BY <1>7 DEF Boot, ChainNext, ChainEnds, ExecStep, Execute, Refuse, Place,
                StartOwn, StartSecondary, ResumeChain, ResumeById, ResumeHost,
                HostStep, NoKey, XmodemUpload, HostCheckHeader, HostCheckData,
                HostReject, ImageReturns, PollReturns, HostWritesBody, LoadPc,
                HostPc
  <2> QED
    BY <1>a, <2>1, <2>2 DEF Quiesced
\* What happens beside the ROM does not touch its control state.
<1>8. CASE HostWritesMagic \/ \E c \in Secondary : CoreFinishes(c)
  BY <1>a, <1>8 DEF HostWritesMagic, CoreFinishes, Quiesced
<1>9. CASE UNCHANGED vars
  BY <1>a, <1>9 DEF vars, Quiesced
<1> QED
  BY <1>1, <1>2, <1>3, <1>4, <1>5, <1>6, <1>7, <1>8, <1>9
     DEF Next, Rom, LoadStep, Environment

\* bootsource_deinit() and the failure paths of bootsource_init() leave no
\* device enabled: images, host mode and other devices find all of them quiet.
THEOREM DevicesQuiesced == Spec => []Quiesced
<1>1. Init => Quiesced
  BY DEF Init, Quiesced
<1> QED
  BY <1>1, TypeInvInit, TypeInvStep, QuiescedStep, PTL DEF Spec

-----------------------------------------------------------------------------
(* Loads stay inside the SPL area, and the images of a device follow each  *)
(* other.                                                                  *)

(***************************************************************************)
(* What load_img() compares with the size of the SPL area is the header    *)
(* and the padded data; what it writes is the padded header and the padded *)
(* data.  In an area of whole blocks the padding of the header fits too.   *)
(***************************************************************************)
LEMMA LoadFits ==
    ASSUME NEW s \in Source, NEW v \in Nat,
           round_up_to_align(v, Align[s]) + HdrSize <= MaxSize
    PROVE  HeaderRead(Align[s]) + round_up_to_align(v, Align[s]) <= MaxSize
<1> DEFINE a == Align[s]
<1>1. a \in Nat /\ HdrSize \in Nat \ {0} /\ MaxSize \in Nat
  BY Constants
<1>2. CASE a = 0
  BY <1>1, <1>2 DEF HeaderRead, round_up_to_align
<1>3. CASE a # 0
  <2>1. MaxSize % a = 0
    BY <1>3, RomAssumption DEF RomAssumption, SplAligned
  <2>2. PICK m \in Nat : MaxSize = a * m
    <3>1. MaxSize \div a \in Nat /\ MaxSize = a * (MaxSize \div a) + (MaxSize % a)
      BY <1>1, <1>3
    <3> QED
      BY <1>1, <2>1, <3>1
  <2>3. PICK k \in Nat : round_up_to_align(v, a) = a * k
    BY <1>1, <1>3, RoundUp DEF IsRoundUp
  <2>4. m - k \in Nat \ {0} /\ a * (m - k) >= HdrSize
    <3>1. a * m >= a * k + HdrSize
      BY <2>2, <2>3
    <3>2. ASSUME m <= k PROVE FALSE
      <4>1. a * m <= a * k
        BY <1>1, <3>2
      <4> QED
        BY <1>1, <3>1, <4>1
    <3>3. a * (m - k) = a * m - a * k
      BY <1>1
    <3> QED
      BY <1>1, <3>1, <3>2, <3>3
  <2>5. HeaderRead(a) <= a * (m - k)
    <3>1. CASE HdrSize > a
      <4>1. PICK h \in Nat : IsRoundUp(HdrSize, a, h)
        BY <1>1, <1>3, RoundUp
      <4>2. h <= m - k
        BY <2>4, <4>1 DEF IsRoundUp
      <4>3. a * h <= a * (m - k)
        BY <1>1, <2>4, <4>2
      <4> QED
        BY <3>1, <4>1, <4>3 DEF HeaderRead, IsRoundUp
    <3>2. CASE ~(HdrSize > a)
      <4>1. a <= a * (m - k)
        BY <1>1, <2>4
      <4> QED
        BY <3>2, <4>1 DEF HeaderRead
    <3> QED
      BY <3>1, <3>2
  <2>6. a * (m - k) = a * m - a * k
    BY <1>1
  <2>7. HeaderRead(a) \in Nat
    BY <1>1, HeaderReadNat
  <2> QED
    BY <1>1, <2>2, <2>3, <2>5, <2>6, <2>7
<1> QED
  BY <1>2, <1>3

LEMMA HeaderFits ==
    ASSUME NEW s \in Source
    PROVE  HeaderRead(Align[s]) <= MaxSize
<1>1. round_up_to_align(0, Align[s]) = 0
  <2>1. Align[s] \in Nat
    BY Constants
  <2> QED
    BY <2>1 DEF round_up_to_align
<1>2. HeaderRead(Align[s]) \in Nat /\ HdrSize \in Nat /\ HdrSize <= MaxSize
  BY Constants, HeaderReadNat
<1>3. \A v \in Nat : round_up_to_align(v, Align[s]) + HdrSize <= MaxSize
        => HeaderRead(Align[s]) + round_up_to_align(v, Align[s]) <= MaxSize
  BY LoadFits
<1>4. HeaderRead(Align[s]) + 0 <= MaxSize
  BY <1>1, <1>2, <1>3
<1> QED
  BY <1>2, <1>4

\* No load writes past the end of the SPL area, on any board whose SPL area is
\* a whole number of the blocks of each of its boot devices.
THEOREM LoadsStayInSpl == Spec => []WritesWithinSpl
<1>1. Init => WritesWithinSpl
  BY Constants DEF Init, WritesWithinSpl
<1>2. TypeInv /\ WritesWithinSpl /\ [Next]_vars => WritesWithinSpl'
  <2> SUFFICES ASSUME TypeInv, WritesWithinSpl, [Next]_vars
               PROVE  WritesWithinSpl'
    OBVIOUS
  <2>1. CASE ReadHeader
    <3>1. src \in Source
      BY <2>1 DEF ReadHeader, TypeInv, Control, LoadPc
    <3> QED
      BY <2>1, <3>1, HeaderFits DEF ReadHeader, WritesWithinSpl
  <2>2. CASE ReadData
    <3>1. src \in Source
      BY <2>2 DEF ReadData, TypeInv, Control, LoadPc
    <3>2. Verdict \in Nat
      BY <2>2, VerdictRange DEF ReadData, Verdict, TypeInv, TypeOK, SplArea
    <3>3. HeaderRead(Align[src]) + PaddedData <= MaxSize
      BY <2>2, <3>1, <3>2, LoadFits DEF ReadData, Fits, PaddedData
    <3> QED
      BY <2>2, <3>3 DEF ReadData, WritesWithinSpl
  <2>3. CASE UNCHANGED top
    BY <2>3 DEF WritesWithinSpl
  <2>4. ASSUME ~ReadHeader, ~ReadData PROVE UNCHANGED top
    BY <2>4 DEF Next, Rom, LoadStep, ExecStep, HostStep, Environment, vars,
          Boot, ChainNext, ChainEnds, Enable, EnableFails, InitPlugin,
          InitPluginFails, ReadHeaderShort, RejectHeader, CheckData, Quiesce,
          Execute, Refuse, Place, StartOwn, StartSecondary, ResumeChain,
          ResumeById, ResumeHost, NoKey, XmodemUpload, HostCheckHeader,
          HostCheckData, HostReject, ImageReturns, PollReturns,
          HostWritesBody, HostWritesMagic, CoreFinishes
  <2> QED
    BY <2>1, <2>2, <2>3, <2>4
<1> QED
  BY <1>1, <1>2, TypeInvInit, TypeInvStep, PTL DEF Spec

-----------------------------------------------------------------------------
(* What is executed was verified, and only once.                           *)

(***************************************************************************)
(* The verdict on the header is carried from the check to execute() by the *)
(* control point; a host that is half way through an upload cannot get in  *)
(* between because it leaves the magic alone until the end, and the ROM    *)
(* only passes the check when it finds one.  A status word is never        *)
(* mistaken for a magic: error codes are small and the magic is not.       *)
(***************************************************************************)
VerifiedInv ==
    /\ pc \in {"crc", "hostdata"} => Verdict >= 0
    /\ pc \in {"quiesce", "hostreject"} => ret <= 0 /\ ret >= -WordHalf
    /\ pc = "quiesce" /\ ret = 0 => Verdict > 0 /\ spl.intact
    /\ pc = "execute" => Verdict > 0 /\ spl.intact
    /\ pc \in {"start", "running", "poll"} =>
           (Img[cur].secured => Img[cur].signature = 0)
    /\ up = "body" => pc \in HostPc /\ ~IsMagic(spl.magic)
    /\ ~spl.fresh => ~IsMagic(spl.magic)

LEMMA StatusIsNoMagic ==
    ASSUME NEW m \in Int, m <= WordHalf
    PROVE  ~IsMagic(m)
<1>1. WordHalf \in Nat
  BY ImageAssumption DEF ImageAssumption
<1> QED
  BY <1>1 DEF IsMagic, check_magic, MAGIC, MAGIC_SWAP

LEMMA VerdictFacts ==
    ASSUME TypeOK
    PROVE  /\ Verdict \in Int /\ Verdict >= -WordHalf
           /\ Verdict >= 0 => IsMagic(spl.magic)
                                /\ Verdict = Img[spl.img].datalen
           /\ WordHalf \in Nat /\ WordHalf > 13
BY VerdictRange, ImageAssumption
   DEF TypeOK, SplArea, Verdict, ImageAssumption, EMAXERROR

LEMMA VerifiedInit == Init => VerifiedInv
BY DEF Init, VerifiedInv, Holds, HostPc

LEMMA VerifiedStep == TypeInv /\ VerifiedInv /\ [Next]_vars => VerifiedInv'
<1> SUFFICES ASSUME TypeInv, VerifiedInv, [Next]_vars PROVE VerifiedInv'
  OBVIOUS
<1> USE DEF Goto, Return, HostPc
<1>a. /\ spl \in SplArea /\ ret \in Int /\ up \in {"idle", "body"}
      /\ TypeOK
  BY DEF TypeInv, TypeOK
\* The load: from the header to the verdict on the data.
<1>1. CASE ReadHeader
  BY <1>a, <1>1, HoldsType DEF ReadHeader, VerifiedInv, Holds
<1>2. CASE ReadHeaderShort
  BY <1>a, <1>2, VerdictFacts DEF ReadHeaderShort, VerifiedInv, EIO, SplArea
<1>3. CASE RejectHeader
  BY <1>a, <1>3, VerdictFacts DEF RejectHeader, VerifiedInv, ETOOBIG
<1>4. CASE ReadData
  <2>1. spl'.img = spl.img /\ spl'.magic = spl.magic /\ spl'.fresh = spl.fresh
    BY <1>a, <1>4 DEF ReadData, SplArea
  <2> QED
    BY <1>4, <2>1 DEF ReadData, VerifiedInv, Verdict
<1>5. CASE CheckData
  BY <1>a, <1>5, VerdictFacts
     DEF CheckData, VerifiedInv, Verdict, check_data, EBADDATACRC
<1>6. CASE Quiesce
  <2>1. CASE ret = 0
    BY <1>6, <2>1 DEF Quiesce, VerifiedInv, Verdict
  <2>2. CASE ret # 0
    <3>1. spl'.magic = -ret
      BY <1>a, <1>6, <2>2 DEF Quiesce, Status, SplArea
    <3>2. ~IsMagic(spl'.magic)
      BY <1>a, <1>6, <3>1, VerdictFacts, StatusIsNoMagic DEF Quiesce, VerifiedInv
    <3> QED
      BY <1>6, <2>2, <3>2 DEF Quiesce, VerifiedInv
  <2> QED
    BY <2>1, <2>2
<1>7. CASE \/ ChainNext \/ ChainEnds \/ Enable \/ EnableFails \/ InitPlugin
           \/ InitPluginFails \/ Boot
  BY <1>7 DEF ChainNext, ChainEnds, Enable, EnableFails, InitPlugin,
              InitPluginFails, Boot, VerifiedInv
\* Execution.
<1>8. CASE Execute
  <2>1. ~IsMagic(spl'.magic)
    BY <1>8, VerdictFacts, <1>a, StatusIsNoMagic DEF Execute, Used
  <2> QED
    BY <1>8, <2>1 DEF Execute, VerifiedInv
<1>9. CASE Refuse
  BY <1>a, <1>9 DEF Refuse, VerifiedInv, SplArea
<1>10. CASE Place
  <2>1. ~spl'.fresh => ~IsMagic(spl'.magic)
    BY <1>a, <1>10 DEF Place, VerifiedInv, SplArea, Holds
  <2>2. pc' \in {"back", "start"} /\ cur' = cur /\ up' = up
    BY <1>10 DEF Place
  <2> QED
    BY <1>10, <2>1, <2>2 DEF Place, VerifiedInv
<1>11. CASE \/ StartOwn \/ StartSecondary \/ ImageReturns \/ PollReturns
            \/ ResumeChain \/ ResumeById \/ ResumeHost
  BY <1>a, <1>11 DEF StartOwn, StartSecondary, ImageReturns, PollReturns,
               ResumeChain, ResumeById, ResumeHost, VerifiedInv, SplArea
\* Host mode and the host.
<1>12. CASE NoKey
  BY <1>12 DEF NoKey, VerifiedInv
<1>13. CASE XmodemUpload
  BY <1>a, <1>13, HoldsType, Constants DEF XmodemUpload, VerifiedInv, SplArea, Holds
<1>14. CASE HostCheckHeader
  BY <1>a, <1>14, VerdictFacts DEF HostCheckHeader, VerifiedInv, Verdict
<1>15. CASE HostCheckData
  BY <1>a, <1>15, VerdictFacts
     DEF HostCheckData, VerifiedInv, Verdict, check_data, EBADDATACRC
<1>16. CASE HostReject
  <2>1. spl'.magic = -ret
    BY <1>a, <1>16 DEF HostReject, Status, SplArea
  <2>2. ~IsMagic(spl'.magic)
    BY <1>a, <1>16, <2>1, VerdictFacts, StatusIsNoMagic DEF HostReject, VerifiedInv
  <2> QED
    BY <1>16, <2>2 DEF HostReject, VerifiedInv
<1>17. CASE HostWritesBody
  <2>1. spl'.magic = spl.magic /\ spl'.fresh = spl.fresh /\ ~IsMagic(spl'.magic)
    BY <1>a, <1>17 DEF HostWritesBody, Holds, SplArea
  <2>2. pc \notin {"hostdata"}
    BY <1>a, <1>17, VerdictFacts DEF HostWritesBody, VerifiedInv
  <2> QED
    BY <1>17, <2>1, <2>2 DEF HostWritesBody, VerifiedInv
<1>18. CASE HostWritesMagic
  <2>1. spl'.fresh
    BY <1>a, <1>18 DEF HostWritesMagic, SplArea
  <2>2. pc \in HostPc \ {"hostdata"}
    BY <1>a, <1>18, VerdictFacts DEF HostWritesMagic, VerifiedInv
  <2> QED
    BY <1>18, <2>1, <2>2 DEF HostWritesMagic, VerifiedInv
<1>19. CASE \E c \in Secondary : CoreFinishes(c)
  BY <1>19 DEF CoreFinishes, VerifiedInv, Verdict
<1>20. CASE UNCHANGED vars
  BY <1>20 DEF vars, VerifiedInv, Verdict
<1> QED
  BY <1>1, <1>2, <1>3, <1>4, <1>5, <1>6, <1>7, <1>8, <1>9, <1>10, <1>11,
     <1>12, <1>13, <1>14, <1>15, <1>16, <1>17, <1>18, <1>19, <1>20
     DEF Next, Rom, LoadStep, ExecStep, HostStep, Environment

\* Whatever the devices hold and whatever a host writes while the ROM polls,
\* only verified images are executed.
THEOREM OnlyVerifiedCodeRuns == Spec => []RunsVerifiedCode
<1>1. VerifiedInv => RunsVerifiedCode
  BY DEF VerifiedInv, RunsVerifiedCode, Verdict
<1> QED
  BY <1>1, TypeInvInit, TypeInvStep, VerifiedInit, VerifiedStep, PTL DEF Spec

\* The wiped magic keeps the ROM from executing what it has executed.
THEOREM ImagesRunOnce == Spec => []RunsOnce
<1>1. TypeInv /\ VerifiedInv => RunsOnce
  BY VerdictFacts DEF TypeInv, VerifiedInv, RunsOnce
<1> QED
  BY <1>1, TypeInvInit, TypeInvStep, VerifiedInit, VerifiedStep, PTL DEF Spec

-----------------------------------------------------------------------------
(* The images of a device follow each other.                               *)

\* Within one device the offset only grows, every attempt moves it on, and the
\* attempt after a whole image starts behind that image.
THEOREM ImagesFollowEachOther == Spec => OffsetAdvances
<1> DEFINE Step ==
      (src' = src /\ src # NULL /\ pc # "chain")
        => /\ off' >= off
           /\ pc = "header" /\ pc' = "payload" => off' > off
           /\ pc = "payload" /\ pc' = "crc"
                => off' >= off - HeaderRead(Align[src]) + HdrSize
                               + Img[spl.img].datalen
<1>1. TypeInv /\ [Next]_vars => [Step]_vars
  <2> SUFFICES ASSUME TypeInv, [Next]_vars, src' = src, src # NULL, pc # "chain"
               PROVE  Step
    OBVIOUS
  <2>a. off \in Nat /\ (pc \in LoadPc => src \in Source) /\ HdrSize \in Nat \ {0}
    BY Constants DEF TypeInv, TypeOK, Control
  <2>1. CASE InitPlugin
    <3>1. off' \in Nat /\ off' >= off
      BY <2>a, <2>1, Constants, RoundUpNat DEF InitPlugin, LoadPc
    <3> QED
      BY <2>1, <3>1 DEF InitPlugin, Goto
  <2>2. CASE ReadHeader
    <3>1. HeaderRead(Align[src]) \in Nat /\ HeaderRead(Align[src]) >= HdrSize
      BY <2>a, <2>2, Constants, HeaderReadNat DEF ReadHeader, LoadPc
    <3> QED
      BY <2>a, <2>2, <3>1 DEF ReadHeader, Advance, Goto
  <2>3. CASE ReadData
    <3>1. Verdict \in Nat /\ Verdict = Img[spl.img].datalen
      BY <2>3, VerdictFacts DEF ReadData, TypeInv
    <3>2. PaddedData \in Nat /\ PaddedData >= Verdict
      BY <2>a, <2>3, <3>1, Constants, RoundUpNat DEF ReadData, PaddedData, LoadPc
    <3>3. HeaderRead(Align[src]) \in Nat /\ HeaderRead(Align[src]) >= HdrSize
      BY <2>a, <2>3, Constants, HeaderReadNat DEF ReadData, LoadPc
    <3> QED
      BY <2>a, <2>3, <3>1, <3>2, <3>3 DEF ReadData, Advance, Goto
  <2>4. CASE ResumeHost
    BY <2>4 DEF ResumeHost, TypeInv, Control, ExecPc, LoadPc, HostPc, Source, NULL
  <2>5. ASSUME ~InitPlugin, ~ReadHeader, ~ReadData, ~ResumeHost PROVE Step
    <3>1. off' = off
      BY <2>5 DEF Next, Rom, LoadStep, ExecStep, HostStep, Environment, vars,
            Boot, ChainNext, ChainEnds, Enable, EnableFails, InitPluginFails,
            ReadHeaderShort, RejectHeader, CheckData, Quiesce, Execute, Refuse,
            Place, StartOwn, StartSecondary, ResumeChain, ResumeById, NoKey,
            XmodemUpload, HostCheckHeader, HostCheckData, HostReject,
            ImageReturns, PollReturns, HostWritesBody, HostWritesMagic,
            CoreFinishes
    <3>2. ~(pc = "header" /\ pc' = "payload") /\ ~(pc = "payload" /\ pc' = "crc")
      BY <2>5 DEF Next, Rom, LoadStep, ExecStep, HostStep, Environment, vars,
            Goto, Return,
            Boot, ChainNext, ChainEnds, Enable, EnableFails, InitPluginFails,
            ReadHeaderShort, RejectHeader, CheckData, Quiesce, Execute, Refuse,
            Place, StartOwn, StartSecondary, ResumeChain, ResumeById, NoKey,
            XmodemUpload, HostCheckHeader, HostCheckData, HostReject, HostPc,
            ImageReturns, PollReturns, HostWritesBody, HostWritesMagic,
            CoreFinishes
    <3> QED
      BY <2>a, <3>1, <3>2
  <2> QED
    BY <2>1, <2>2, <2>3, <2>4, <2>5
<1> QED
  BY <1>1, TypeInvInit, TypeInvStep, PTL DEF Spec, OffsetAdvances

-----------------------------------------------------------------------------
(* The ROM implements BootPolicy.                                          *)

\* What a load fails with, and what execute() returns.
CodeInv ==
    /\ pc = "quiesce" => ret = 0 \/ ret \in FailureCode
    /\ pc = "failed"  => ret \in FailureCode
    /\ pc = "back"    => ret \in ReturnCode

\* Every verdict is a failure of a load, or a length.
LEMMA VerdictIsAFailure ==
    ASSUME TypeOK, Verdict < 0
    PROVE  Verdict \in FailureCode
<1>1. spl.img \in Name /\ spl.magic \in Int
  BY DEF TypeOK, SplArea
<1>2. CASE header_error(spl.img, spl.magic) = 0
  <2>1. Verdict = AsSigned(Img[spl.img].datalen)
    BY <1>2 DEF Verdict, check_header
  <2> QED
    BY <1>1, <2>1 DEF FailureCode
<1>3. CASE header_error(spl.img, spl.magic) # 0
  <2>1. Verdict \in { -e : e \in {EBADMAGIC, EBADVERSION, EBADHEADER, EBADCLUSTERID,
                                 EBADCHIPID, EBADHDRCRC, EBADENTRY} }
    BY <1>3 DEF Verdict, check_header, header_error
  <2> QED
    BY <2>1 DEF FailureCode
<1> QED
  BY <1>2, <1>3

LEMMA CodeStep == TypeInv /\ CodeInv /\ [Next]_vars => CodeInv'
<1> SUFFICES ASSUME TypeInv, CodeInv, [Next]_vars PROVE CodeInv'
  OBVIOUS
<1> USE DEF Goto, Return
<1>a. ret \in Int /\ cur \in Name /\ TypeOK
  BY DEF TypeInv, TypeOK
<1>b. /\ {0, -EBADCLUSTERID, -EBADDATACRC} \subseteq ReturnCode
      /\ \A i \in Name : /\ {Img[i].signature, Img[i].starts} \subseteq ReturnCode
                         /\ \A c \in Img[i].exit :
                              c \in ReturnCode /\ c % PollMask \in ReturnCode
  <2> DEFINE codes(j) == {Img[j].signature, Img[j].starts} \cup Img[j].exit
                           \cup { e % PollMask : e \in Img[j].exit }
  <2>1. \A i \in Name : codes(i) \subseteq UNION { codes(j) : j \in Name }
    OBVIOUS
  <2>2. \A i \in Name : codes(i) \subseteq ReturnCode
    BY <2>1 DEF ReturnCode
  <2>3. {0, -EBADCLUSTERID, -EBADDATACRC} \subseteq ReturnCode
    BY DEF ReturnCode
  <2> QED
    BY <2>2, <2>3
<1>c. {-EIO, -ETOOBIG, -EBADDATACRC, -EBADSOURCE} \subseteq FailureCode
  BY DEF FailureCode
\* What ends a load.
<1>1. CASE ReadHeaderShort
  BY <1>1, <1>c DEF ReadHeaderShort, CodeInv
<1>2. CASE RejectHeader
  BY <1>2, <1>a, <1>c, VerdictIsAFailure DEF RejectHeader, CodeInv
<1>3. CASE CheckData
  BY <1>3, <1>c DEF CheckData, CodeInv, check_data
<1>4. CASE Quiesce
  BY <1>4 DEF Quiesce, CodeInv
<1>5. CASE EnableFails \/ InitPluginFails
  BY <1>5, <1>c DEF EnableFails, InitPluginFails, CodeInv
\* What ends execute().
<1>6. CASE Execute
  BY <1>b, <1>6 DEF Execute, CodeInv
<1>7. CASE Refuse
  BY <1>a, <1>b, <1>7 DEF Refuse, CodeInv
<1>8. CASE Place
  <2>1. \/ pc' = "back" /\ ret' \in {0, -EBADDATACRC}
        \/ pc' = "start"
    BY <1>8 DEF Place
  <2> QED
    BY <1>b, <2>1 DEF CodeInv
<1>9. CASE ImageReturns
  BY <1>a, <1>b, <1>9 DEF ImageReturns, CodeInv
<1>10. CASE StartSecondary
  <2>1. \/ pc' = "back" /\ ret' \in {0, Img[cur].starts}
        \/ pc' = "poll"
    BY <1>10 DEF StartSecondary
  <2> QED
    BY <1>a, <1>b, <2>1 DEF CodeInv
<1>11. CASE PollReturns
  BY <1>a, <1>b, <1>11 DEF PollReturns, CodeInv
\* Everything else ends neither.
<1>12. ASSUME pc' \notin {"quiesce", "failed", "back"} PROVE CodeInv'
  BY <1>12 DEF CodeInv
<1>13. CASE UNCHANGED <<pc, ret>>
  BY <1>13 DEF CodeInv
<1>14. CASE \/ Boot \/ ChainNext \/ ChainEnds \/ Enable \/ InitPlugin
            \/ ReadHeader \/ ReadData \/ StartOwn \/ ResumeChain \/ ResumeById
            \/ ResumeHost \/ HostStep
  BY <1>12, <1>14 DEF Boot, ChainNext, ChainEnds, Enable, InitPlugin, ReadHeader,
       ReadData, StartOwn, ResumeChain, ResumeById, ResumeHost, HostStep, NoKey,
       XmodemUpload, HostCheckHeader, HostCheckData, HostReject
<1>15. CASE \/ HostWritesBody \/ HostWritesMagic
            \/ \E c \in Secondary : CoreFinishes(c)
            \/ UNCHANGED vars
  BY <1>13, <1>15 DEF HostWritesBody, HostWritesMagic, CoreFinishes, vars
<1> QED
  BY <1>1, <1>2, <1>3, <1>4, <1>5, <1>6, <1>7, <1>8, <1>9, <1>10, <1>11,
     <1>14, <1>15
     DEF Next, Rom, LoadStep, ExecStep, Environment

LEMMA PolicyInit == Init => Policy!Init
BY DEF Init, Policy!Init, Policy!Host, PolicyHome, PolicyWhere, PolicyJob,
       PolicyResult, Over, ExecPc, Source, NULL

LEMMA PolicyStep ==
    TypeInv /\ CodeInv /\ [Next]_vars => [Policy!Next]_(Policy!policy)
<1> SUFFICES ASSUME TypeInv, CodeInv, [Next]_vars
             PROVE  [Policy!Next]_(Policy!policy)
  OBVIOUS
<1> USE DEF Goto, Return
<1>a. /\ NumSources \in Nat \ {0} /\ Source = 1 .. NumSources /\ NULL = 0
      /\ Policy!Device = Source /\ Policy!Host = NULL
      /\ ret \in Int
  BY Constants DEF Policy!Device, Policy!Host, NULL, TypeInv, TypeOK
<1>c. CodeInv'
  BY CodeStep
\* What the job and its result are at a control point, before and after.
<1>j. /\ pc \in {"failed", "back"} => PolicyJob = "done" /\ PolicyResult = ret
      /\ pc \in ExecPc => PolicyJob = "run" /\ PolicyResult = 0
      /\ pc \notin ExecPc \cup {"failed", "back"}
           => PolicyJob = "seek" /\ PolicyResult = 0
  BY DEF PolicyJob, PolicyResult, Over, ExecPc
<1>k. /\ pc' \in {"failed", "back"} => PolicyJob' = "done" /\ PolicyResult' = ret'
      /\ pc' \in ExecPc => PolicyJob' = "run" /\ PolicyResult' = 0
      /\ pc' \notin ExecPc \cup {"failed", "back"}
           => PolicyJob' = "seek" /\ PolicyResult' = 0
  BY DEF PolicyJob, PolicyResult, Over, ExecPc
\* Steps that keep the control point on one side leave the policy alone.
<1>s. ASSUME UNCHANGED <<src, caller>>, pc # "boot", pc' # "boot",
             pc \notin {"failed", "back"}, pc' \notin {"failed", "back"},
             pc' \in ExecPc <=> pc \in ExecPc
      PROVE  UNCHANGED Policy!policy
  <2>1. PolicyJob' = PolicyJob /\ PolicyResult' = PolicyResult
    BY <1>j, <1>k, <1>s
  <2> QED
    BY <1>s, <2>1 DEF Policy!policy, PolicyHome, PolicyWhere
<1>1. CASE Boot
  <2>1. /\ PolicyHome = "reset" /\ PolicyJob = "seek"
        /\ PolicyJob' = PolicyJob /\ PolicyResult' = PolicyResult
    BY <1>1, <1>j, <1>k DEF Boot, PolicyHome, ExecPc
  <2>2. \/ PolicyHome' = "chain" /\ PolicyWhere' = 1
        \/ PolicyHome' = "host" /\ PolicyWhere' = NULL
    BY <1>a, <1>1 DEF Boot, PolicyHome, PolicyWhere, TypeInv, Control
  <2> QED
    BY <1>a, <2>1, <2>2 DEF Policy!Next, Policy!Reset, Policy!ToDevice, Policy!GoTo
<1>2. CASE ChainEnds
  <2>1. PolicyJob' = PolicyJob /\ PolicyResult' = PolicyResult
    BY <1>2, <1>j, <1>k DEF ChainEnds, ExecPc
  <2> QED
    BY <1>a, <1>2, <2>1 DEF ChainEnds, Policy!policy, PolicyHome, PolicyWhere
<1>3. CASE \/ ChainNext \/ Enable \/ InitPlugin \/ ReadHeader
           \/ ReadHeaderShort \/ RejectHeader \/ ReadData \/ CheckData
  BY <1>3, <1>s DEF ChainNext, Enable, InitPlugin, ReadHeader, ReadHeaderShort,
       RejectHeader, ReadData, CheckData, ExecPc
\* There was none.
<1>4. CASE EnableFails \/ InitPluginFails \/ (Quiesce /\ ret # 0)
  <2>1. /\ pc \in {"enable", "init", "quiesce"} /\ pc' = "failed"
        /\ UNCHANGED <<src, caller>>
    BY <1>4 DEF EnableFails, InitPluginFails, Quiesce
  <2>2. PolicyHome' = PolicyHome /\ PolicyWhere' = PolicyWhere
    BY <2>1 DEF PolicyHome, PolicyWhere
  <2>3. src \in Source
    BY <2>1 DEF TypeInv, Control, LoadPc
  <2>4. PolicyWhere \in Policy!Device
    BY <1>a, <2>3 DEF PolicyWhere
  <2>5. PolicyJob = "seek" /\ PolicyJob' = "done" /\ PolicyResult' = ret'
    BY <1>j, <1>k, <2>1 DEF ExecPc
  <2>6. ret' \in FailureCode
    BY <1>c, <2>1 DEF CodeInv
  <2> QED
    BY <2>2, <2>4, <2>5, <2>6 DEF Policy!Next, Policy!Miss
\* An image was found.
<1>5. CASE (Quiesce /\ ret = 0) \/ (HostCheckData /\ pc' = "execute")
  <2>1. /\ PolicyHome # "reset" /\ PolicyJob = "seek" /\ PolicyJob' = "run"
        /\ PolicyResult' = PolicyResult
    BY <1>5, <1>j, <1>k DEF Quiesce, HostCheckData, PolicyHome, ExecPc
  <2>2. PolicyHome' = PolicyHome /\ PolicyWhere' = PolicyWhere
    BY <1>5 DEF Quiesce, HostCheckData, PolicyHome, PolicyWhere
  <2> QED
    BY <2>1, <2>2 DEF Policy!Next, Policy!Find
<1>6. CASE \/ Execute \/ Refuse \/ Place \/ StartOwn \/ StartSecondary
           \/ ImageReturns \/ PollReturns
  <2>1. pc' \in ExecPc \cup {"back"} /\ pc \in ExecPc
    BY <1>6 DEF Execute, Refuse, Place, StartOwn, StartSecondary, ImageReturns,
                PollReturns, ExecPc
  <2>2. UNCHANGED <<src, caller>>
    BY <1>6 DEF Execute, Refuse, Place, StartOwn, StartSecondary, ImageReturns,
                PollReturns
  <2>3. UNCHANGED <<PolicyHome, PolicyWhere>>
    BY <2>1, <2>2 DEF PolicyHome, PolicyWhere, ExecPc
  <2>4. CASE pc' = "back"
    <3>1. ret' \in ReturnCode
      BY <1>c, <2>4 DEF CodeInv
    <3> QED
      BY <1>j, <1>k, <2>1, <2>3, <2>4, <3>1 DEF Policy!Next, Policy!Finish
  <2>5. CASE pc' # "back"
    BY <2>1, <2>2, <2>5, <1>s DEF ExecPc
  <2> QED
    BY <2>4, <2>5
<1>7. CASE ResumeChain
  <2>1. /\ src \in Source /\ PolicyHome = "chain" /\ PolicyWhere = src
        /\ PolicyJob = "done" /\ PolicyResult = ret
        /\ PolicyJob' = "seek" /\ PolicyResult' = 0
    BY <1>7, <1>j, <1>k DEF ResumeChain, TypeInv, Control, PolicyHome, PolicyWhere,
                            ExecPc
  <2>2. \/ ret = 0 /\ PolicyHome' = "chain" /\ PolicyWhere' = src
        \/ /\ ret > 0
           /\ IF ret \in Source
                THEN PolicyHome' = "chain" /\ PolicyWhere' = ret
                ELSE PolicyHome' = "host" /\ PolicyWhere' = NULL
        \/ ret = -ETOHOST /\ PolicyHome' = "host" /\ PolicyWhere' = NULL
        \/ /\ ret < 0 /\ ret # -ETOHOST
           /\ IF src + 1 \in Source
                THEN PolicyHome' = "chain" /\ PolicyWhere' = src + 1
                ELSE PolicyHome' = "host" /\ PolicyWhere' = NULL
    BY <1>a, <1>7, <2>1
       DEF ResumeChain, PolicyHome, PolicyWhere, find_source_by_id
  <2>3. Policy!Follow
    BY <1>a, <2>1, <2>2 DEF Policy!Follow, Policy!ToDevice, Policy!GoTo
  <2> QED
    BY <2>3 DEF Policy!Next
<1>8. CASE ResumeById
  <2>1. /\ src \in Source /\ PolicyHome = "host" /\ PolicyWhere = src
        /\ PolicyHome' = "host" /\ PolicyWhere' = NULL
        /\ PolicyJob = "done"
        /\ PolicyJob' = "seek" /\ PolicyResult' = 0
    BY <1>a, <1>8, <1>j, <1>k DEF ResumeById, TypeInv, Control, PolicyHome,
                                  PolicyWhere, ExecPc
  <2>2. Policy!Follow
    BY <1>a, <2>1 DEF Policy!Follow, Policy!GoTo
  <2> QED
    BY <2>2 DEF Policy!Next
<1>9. CASE ResumeHost
  <2>1. /\ PolicyHome = "host" /\ PolicyWhere = NULL
        /\ PolicyJob = "done" /\ PolicyResult = ret
        /\ PolicyJob' = "seek" /\ PolicyResult' = 0
    BY <1>a, <1>9, <1>j, <1>k DEF ResumeHost, TypeInv, Control, PolicyHome,
                                  PolicyWhere, ExecPc
  <2>2. /\ PolicyHome' = "host"
        /\ PolicyWhere' = IF ret \in Source THEN ret ELSE NULL
    BY <1>a, <1>9 DEF ResumeHost, TypeInv, Control, PolicyHome, PolicyWhere,
                      find_source_by_id, ExecPc
  <2>3. Policy!Follow
    BY <1>a, <2>1, <2>2 DEF Policy!Follow, Policy!GoTo
  <2> QED
    BY <2>3 DEF Policy!Next
<1>10. CASE \/ NoKey \/ XmodemUpload \/ HostCheckHeader \/ HostReject
            \/ (HostCheckData /\ pc' # "execute")
            \/ HostWritesBody
  BY <1>10, <1>s DEF NoKey, XmodemUpload, HostCheckHeader, HostCheckData,
       HostReject, HostWritesBody, HostPc, ExecPc
<1>11. CASE HostWritesMagic \/ (\E c \in Secondary : CoreFinishes(c))
            \/ UNCHANGED vars
  BY <1>11 DEF HostWritesMagic, CoreFinishes, vars, Policy!policy, PolicyHome,
               PolicyWhere, PolicyJob, PolicyResult, Over
<1> QED
  BY <1>1, <1>2, <1>3, <1>4, <1>5, <1>6, <1>7, <1>8, <1>9, <1>10, <1>11
     DEF Next, Rom, LoadStep, ExecStep, HostStep, Environment

\* On every board, for every content of its devices and whatever lengths the
\* images on them claim, the ROM tries devices and images in the order of
\* BootPolicy.
THEOREM ImplementsPolicy == Spec => FollowsPolicy
<1>1. Init => CodeInv
  BY DEF Init, CodeInv
<1> QED
  BY <1>1, TypeInvInit, TypeInvStep, CodeStep, PolicyInit, PolicyStep, PTL
     DEF Spec, FollowsPolicy, Policy!Spec

-----------------------------------------------------------------------------
(* Asynchronous programs survive the loads that follow them.               *)

(***************************************************************************)
(* What the authors of images owe: a program for a secondary cluster is    *)
(* relocated to memory of its own, and whichever image is put there later  *)
(* has that cluster killed.                                                *)
(***************************************************************************)
RunsBeside(i) ==
    /\ TargetCluster(i) # 0
    /\ Img[i].starts = 0
    /\ "DATA" \notin Img[i].flags

Separated ==
    \A i \in Name : RunsBeside(i) =>
        /\ "RELOCATE" \in Img[i].flags
        /\ \A j \in Name :
             "RELOCATE" \in Img[j].flags /\ Img[j].dest = Img[i].dest
               => TargetCluster(i) \in Kills(j)

(***************************************************************************)
(* A running program runs from where its image was relocated to, and from  *)
(* the wiped magic to the start of the next program everything that        *)
(* program kills stays dead.                                               *)
(***************************************************************************)
CoreInv ==
    /\ \A c \in Secondary : core[c] # Idle =>
          \E i \in Name : RunsBeside(i) /\ TargetCluster(i) = c
                         /\ core[c] = Img[i].dest
    /\ pc = "place" => \A c \in Kills(cur) : c \in Secondary => core[c] = Idle
    /\ pc = "start" => "DATA" \notin Img[cur].flags
    /\ AsyncCodeIntact

LEMMA CoreStep ==
    ASSUME Separated
    PROVE  TypeInv /\ CoreInv /\ [Next]_vars => CoreInv'
<1> SUFFICES ASSUME TypeInv, CoreInv, [Next]_vars PROVE CoreInv'
  OBVIOUS
<1> USE DEF Goto, Return
<1>a. /\ core \in [Secondary -> Memory \cup {Idle}]
      /\ cur \in Name /\ spl \in SplArea /\ clobbered = {}
      /\ SPL \notin Region /\ Idle \notin Region /\ SPL # Idle
  BY ImageAssumption, RomAssumption
     DEF TypeInv, TypeOK, CoreInv, AsyncCodeIntact, ImageAssumption,
         RomAssumption, SPL, Idle
\* No program runs from the SPL area, so loads and uploads hit none.
<1>b. \A c \in Secondary : core[c] # SPL
  BY <1>a, ImageFields DEF CoreInv
<1>1. CASE \/ ReadHeader \/ ReadHeaderShort \/ ReadData \/ Refuse
           \/ XmodemUpload \/ HostWritesBody
  <2>1. core' = core /\ cur' = cur /\ pc' \notin {"place", "start"}
    BY <1>1 DEF ReadHeader, ReadHeaderShort, ReadData, Refuse, XmodemUpload,
                HostWritesBody, HostPc
  <2>2. clobbered' = {}
    BY <1>a, <1>b, <1>1 DEF ReadHeader, ReadHeaderShort, ReadData, Refuse,
                            XmodemUpload, HostWritesBody, Overwrites
  <2> QED
    BY <2>1, <2>2 DEF CoreInv, AsyncCodeIntact
<1>2. CASE Execute
  <2>1. cur' = spl.img /\ clobbered' = clobbered /\ pc' \in {"place", "back"}
    BY <1>2 DEF Execute
  <2>2. \A c \in Secondary : core'[c] = IF c \in Kills(spl.img) THEN Idle ELSE core[c]
    BY <1>2 DEF Execute
  <2> QED
    BY <2>1, <2>2 DEF CoreInv, AsyncCodeIntact, Kills
<1>3. CASE Place
  <2>1. /\ core' = core /\ cur' = cur /\ pc' \in {"start", "back"}
        /\ pc' = "start" => "DATA" \notin Img[cur].flags
    BY <1>3 DEF Place
  <2>2. ASSUME NEW c \in Secondary, core[c] = Destination(cur)
        PROVE  FALSE
    <3>1. core[c] # SPL
      BY <1>b
    <3>2. "RELOCATE" \in Img[cur].flags /\ core[c] = Img[cur].dest
      BY <2>2, <3>1 DEF Destination
    <3>3. core[c] # Idle
      BY <1>a, <3>2, ImageFields
    <3>4. PICK i \in Name : RunsBeside(i) /\ TargetCluster(i) = c
                           /\ core[c] = Img[i].dest
      BY <3>3 DEF CoreInv
    <3>5. c \in Kills(cur)
      BY <1>a, <3>2, <3>4 DEF Separated
    <3> QED
      BY <1>3, <3>3, <3>5 DEF CoreInv, Place
  <2>3. clobbered' = {}
    BY <1>a, <1>b, <1>3, <2>2 DEF Place
  <2> QED
    BY <2>1, <2>3 DEF CoreInv, AsyncCodeIntact
<1>4. CASE StartSecondary
  <2>1. pc' \notin {"place", "start"} /\ clobbered' = {} /\ cur' = cur
    BY <1>a, <1>4 DEF StartSecondary
  <2>2. CASE core' = core
    BY <2>1, <2>2 DEF CoreInv, AsyncCodeIntact
  <2>3. CASE core' # core
    <3>1. RunsBeside(cur)
      BY <1>4, <2>3 DEF StartSecondary, RunsBeside, CoreInv
    <3>2. Destination(cur) = Img[cur].dest
      BY <1>a, <3>1 DEF Separated, Destination
    <3>3. core' = [core EXCEPT ![TargetCluster(cur)] = Img[cur].dest]
      BY <1>4, <2>3, <3>2 DEF StartSecondary
    <3> QED
      BY <1>a, <2>1, <3>1, <3>3 DEF CoreInv, AsyncCodeIntact
  <2> QED
    BY <2>2, <2>3
<1>5. CASE PollReturns
  BY <1>a, <1>5 DEF PollReturns, CoreInv, AsyncCodeIntact
<1>6. ASSUME NEW c \in Secondary, CoreFinishes(c) PROVE CoreInv'
  BY <1>a, <1>6 DEF CoreFinishes, CoreInv, AsyncCodeIntact
<1>7. CASE \/ Boot \/ ChainNext \/ ChainEnds \/ Enable \/ EnableFails
           \/ InitPlugin \/ InitPluginFails \/ RejectHeader \/ CheckData
           \/ Quiesce \/ StartOwn \/ ImageReturns \/ ResumeChain \/ ResumeById
           \/ ResumeHost \/ NoKey \/ HostCheckHeader \/ HostCheckData
           \/ HostReject
  <2>1. UNCHANGED <<core, cur, clobbered>> /\ pc' \notin {"place", "start"}
    BY <1>7 DEF Boot, ChainNext, ChainEnds, Enable, EnableFails, InitPlugin,
         InitPluginFails, RejectHeader, CheckData, Quiesce, StartOwn,
         ImageReturns, ResumeChain, ResumeById, ResumeHost, NoKey,
         HostCheckHeader, HostCheckData, HostReject
  <2> QED
    BY <2>1 DEF CoreInv, AsyncCodeIntact
<1>8. CASE HostWritesMagic \/ UNCHANGED vars
  BY <1>8 DEF HostWritesMagic, vars, CoreInv, AsyncCodeIntact
<1> QED
  BY <1>1, <1>2, <1>3, <1>4, <1>5, <1>6, <1>7, <1>8
     DEF Next, Rom, LoadStep, ExecStep, HostStep, Environment

\* If images keep to memory of their own and ask for KILL, no load, upload or
\* relocation of the ROM overwrites a program that runs on another cluster.
THEOREM AsyncProgramsSurvive ==
    ASSUME Separated
    PROVE  Spec => []AsyncCodeIntact
<1>1. Init => CoreInv
  BY DEF Init, CoreInv, AsyncCodeIntact
<1>2. CoreInv => AsyncCodeIntact
  BY DEF CoreInv
<1> QED
  BY <1>1, <1>2, TypeInvInit, TypeInvStep, CoreStep, PTL DEF Spec

=============================================================================
