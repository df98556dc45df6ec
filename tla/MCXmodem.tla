------------------------------ MODULE MCXmodem ------------------------------
(* A file of a few blocks, sent by the host and by the chip itself.        *)
EXTENDS Xmodem

Senders == {"host", "rumboot"}
=============================================================================
