--------------------------- MODULE MC_EdaRunControl ---------------------------
(* A device with two slots, two DIF ids, one address, a shaper value of 0 *)
(* (the value device_boot_rfm treats as unset) and one other, and a PLL   *)
(* retry budget of 2 polls.                                               *)
EXTENDS EdaRunControl

CONSTANT A1

MCNbRfm   == 2
MCDifs    == {1, 2}
MCShapers == {0, 3}
MCAddrs   == {A1}
MCMaxPoll == 2
=============================================================================
