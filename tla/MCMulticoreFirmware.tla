------------------------- MODULE MCMulticoreFirmware -------------------------
(* Instances of MulticoreFirmware for TLC. *)
EXTENDS MulticoreFirmware

ThreeMessages == <<1, 2, 3>>

=============================================================================
