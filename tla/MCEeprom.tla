------------------------------ MODULE MCEeprom ------------------------------
(* Reads within a chunk, over several, and past the last address.          *)
EXTENDS Eeprom

Offsets == {0, 3}
Lengths == {1, 3, 5, 7}
=============================================================================
