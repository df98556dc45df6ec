------------------------------- MODULE MCSdio -------------------------------
(* A slot with any card, read at its start and behind.                     *)
EXTENDS Sdio

AnyCard == {"none", "old", "SDSC", "SDHC", "MMC", "EMMC"}
Offsets == {0, 3, 4}
Lengths == {2, 5}
=============================================================================
