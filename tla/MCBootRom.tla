----------------------------- MODULE MCBootRom -----------------------------
(***************************************************************************)
(* A small board: three boot devices with a handful of images on each, and *)
(* one secondary cluster next to the boot CPU.                             *)
(***************************************************************************)
EXTENDS BootRom, TLC

\* A version 3 image for the boot CPU; the others differ from it.
Plain ==
    [ magic |-> MAGIC, version |-> 3, flags |-> {}, chip |-> 7, cluster |-> 0,
      secured |-> FALSE, datalen |-> 3, dest |-> "im1",
      hdrcrc |-> TRUE, ep |-> TRUE, datacrc |-> TRUE, signature |-> 0,
      unpacks |-> TRUE, inner |-> "blank", starts |-> 0, exit |-> {0} ]

MCImg ==
       "blank"   :> [Plain EXCEPT !.magic = 0, !.datacrc = FALSE]
    @@ "next"    :> [Plain EXCEPT !.version = 2]
    @@ "data"    :> [Plain EXCEPT !.flags = {"DATA", "RELOCATE"}, !.dest = "ddr"]
    @@ "async"   :> [Plain EXCEPT !.cluster = 1, !.datalen = 2,
                                  !.flags = {"RELOCATE", "DECAPS", "KILL"}]
    @@ "sync"    :> [Plain EXCEPT !.cluster = 1, !.exit = {0, -ETOHOST},
                                  !.flags = {"RELOCATE", "SYNC", "KILL"}]
    @@ "stuck"   :> [Plain EXCEPT !.cluster = 1, !.starts = -EBADDATACRC]
    @@ "jump"    :> [Plain EXCEPT !.exit = {-ETOHOST, -1, 0, 1, 3, 5}]
    @@ "nest"    :> [Plain EXCEPT !.flags = {"DECAPS"}, !.inner = "next"]
    @@ "pack"    :> [Plain EXCEPT !.flags = {"COMPRESS", "DECAPS"},
                                  !.unpacks = FALSE]
    @@ "signed"  :> [Plain EXCEPT !.secured = TRUE]
    @@ "forged"  :> [Plain EXCEPT !.secured = TRUE, !.signature = -2]
    @@ "badcrc"  :> [Plain EXCEPT !.datacrc = FALSE]
    @@ "badver"  :> [Plain EXCEPT !.version = 4]
    @@ "tail"    :> [Plain EXCEPT !.datalen = 6]
    @@ "full"    :> [Plain EXCEPT !.datalen = 8]
    @@ "big"     :> [Plain EXCEPT !.datalen = 9]
    @@ "huge"    :> [Plain EXCEPT !.datalen = 2 * WordHalf - ETOHOST]
    @@ "absent"  :> [Plain EXCEPT !.datalen = 2 * WordHalf - EBADMAGIC]

MCName == DOMAIN MCImg

(***************************************************************************)
(* SPI flash, read byte by byte; NOR flash, read in words half the size of *)
(* a header; an SD card, read in blocks twice the size of one.             *)
(***************************************************************************)
MCAlign   == <<0, 1, 4>>
MCOffset0 == <<0, 3, 7>>

\* Each image starts where the ROM looks after the one before it.
MCMedia ==
    << 0 :> "data" @@ 5 :> "async" @@ 9 :> "nest" @@ 14 :> "jump"
                   @@ 19 :> "stuck"
                   @@ 24 :> "huge",
       3 :> "signed" @@ 8 :> "sync" @@ 13 :> "async" @@ 17 :> "next"
                     @@ 22 :> "forged",
       8 :> "tail" @@ 20 :> "next" @@ 28 :> "full" @@ 40 :> "big" >>

=============================================================================
