----------------------------- MODULE BootImage -----------------------------
(***************************************************************************)
(* Boot images: the header that rumboot puts in front of every secondary   *)
(* loader (SPL), the checks the ROM makes on it, and the arithmetic that   *)
(* places an image on a boot device and in the SPL area.                   *)
(*                                                                         *)
(* An image is a name; the constant Img says what its header and its data  *)
(* are.  CRCs are ideal: `hdrcrc' and `datacrc' say whether the stored     *)
(* checksum is that of the stored bytes.  Addresses and lengths are counted *)
(* in units of the instance's choice, HdrSize units being the 64 bytes of  *)
(* struct rumboot_bootheader.                                              *)
(***************************************************************************)
EXTENDS Integers

CONSTANTS
    Name,           \* the images that exist
    Blank,          \* what an empty medium or empty memory reads as
    Img,            \* Name -> Image
    HdrSize,        \* sizeof(struct rumboot_bootheader)
    WordHalf,       \* 2^31: half the range of a 32-bit word
    SwapSupported,  \* RUMBOOT_SUPPORTS_SPL_ENDIAN_SWAP
    NumClusters,    \* size of the table of rumboot_platform_get_cpus()
    ChipId,         \* RUMBOOT_PLATFORM_CHIPID
    Region          \* the memories images are relocated to

-----------------------------------------------------------------------------
(* boot.h: error codes, header flags and the magic word.                   *)

EBADMAGIC     == 1
EBADVERSION   == 2
EBADHDRCRC    == 3
EBADCHIPID    == 4
EBADENTRY     == 5
EBADHEADER    == 6
EBADDATACRC   == 7
ETOOBIG       == 8
EBADSOURCE    == 9
EIO           == 10
ETOHOST       == 11
EBADCLUSTERID == 12
EMAXERROR     == 13

Flag == {"COMPRESS", "DATA", "RESERVED", "SMP", "DECAPS", "RELOCATE",
         "SYNC", "KILL"}

\* 0xb01dface and its byte-swapped form; both have the top bit set.
MAGIC      == WordHalf + 1
MAGIC_SWAP == WordHalf + 2

Cluster == 0 .. NumClusters - 1
SPL     == "spl"                  \* rumboot_platform_get_spl_area()
Memory  == Region \cup {SPL}

(***************************************************************************)
(* What the ROM can tell about an image.  The first group is the header as *)
(* it is stored, the second what the stored bytes turn out to be, the      *)
(* third what the image does once it is started.                           *)
(***************************************************************************)
Image ==
    [ magic : Int, version : Nat, flags : SUBSET Flag, chip : Nat,
      cluster : Nat, secured : BOOLEAN, datalen : 0 .. 2 * WordHalf - 1,
      dest : Region,
      hdrcrc : BOOLEAN, ep : BOOLEAN, datacrc : BOOLEAN, signature : Int,
      unpacks : BOOLEAN, inner : Name,
      starts : Int, exit : SUBSET Int ]

ASSUME ImageAssumption ==
    /\ HdrSize \in Nat \ {0}
    /\ WordHalf \in Nat /\ WordHalf > EMAXERROR
    /\ SwapSupported \in BOOLEAN
    /\ NumClusters \in Nat \ {0}
    /\ ChipId \in Nat
    /\ SPL \notin Region
    /\ Blank \in Name
    /\ Img \in [Name -> Image]

-----------------------------------------------------------------------------
(* Header and data checks.                                                 *)

\* 0: native byte order, 1: reversed, -1: no header here.
check_magic(m) ==
    IF m = MAGIC THEN 0
    ELSE IF SwapSupported /\ m = MAGIC_SWAP THEN 1
    ELSE -1

IsMagic(m) == check_magic(m) # -1

\* A uint32_t length returned as a 32-bit ssize_t.
AsSigned(n) == IF n < WordHalf THEN n ELSE n - 2 * WordHalf

\* The code of the FIRST check that the header of image i fails whose first
\* word reads m, or 0.
header_error(i, m) ==
    LET h == Img[i] IN
    IF ~IsMagic(m)                                     THEN -EBADMAGIC
    ELSE IF h.version \notin {2, 3}                    THEN -EBADVERSION
    ELSE IF h.version = 2 /\ h.flags # {}              THEN -EBADHEADER
    ELSE IF h.version = 3 /\ h.cluster \notin Cluster  THEN -EBADCLUSTERID
    ELSE IF h.chip # ChipId                            THEN -EBADCHIPID
    ELSE IF ~h.hdrcrc                                  THEN -EBADHDRCRC
    ELSE IF ~h.ep                                      THEN -EBADENTRY
    ELSE 0

\* The verdict on it: a negative error code, or the length of the data.
check_header(i, m) ==
    IF header_error(i, m) # 0 THEN header_error(i, m)
                              ELSE AsSigned(Img[i].datalen)

\* Mutant: the length is all that is checked.
check_data_length_only(i, intact) ==
    IF Img[i].datalen # 0 THEN 0 ELSE -EBADDATACRC

\* The data of image i is in memory, `intact' or not: its CRC is checked.
check_data(i, intact) ==
    IF Img[i].datalen # 0 /\ intact THEN 0 ELSE -EBADDATACRC

\* The cluster execute() picks: only a version 3 header names one.
TargetCluster(i) == IF Img[i].version = 3 THEN Img[i].cluster ELSE 0

\* Where execute() puts the image it is given in the SPL area.
Destination(i) == IF "RELOCATE" \in Img[i].flags THEN Img[i].dest ELSE SPL

\* The header in the SPL area is overwritten by the image's own data.
DecapsInPlace(i) == "DECAPS" \in Img[i].flags /\ Destination(i) = SPL

-----------------------------------------------------------------------------
(* Placement of images on a device that is read in blocks of `align'.      *)

\* Mutant: rounds the wrong way.
round_down_to_align(value, align) ==
    IF align = 0 THEN value ELSE value - (value % align)

round_up_to_align(value, align) ==
    IF align = 0 \/ value % align = 0 THEN value
    ELSE value + align - (value % align)

\* How much is read to get at a header.
HeaderRead(align) ==
    IF HdrSize > align THEN round_up_to_align(HdrSize, align) ELSE align

=============================================================================
