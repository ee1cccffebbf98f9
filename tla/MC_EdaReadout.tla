---------------------------- MODULE MC_EdaReadout ----------------------------
(* Small instances of the readout loop for TLC.                           *)
EXTENDS EdaReadout

MCNbRfm    == 2
MCMaxSeg   == 1
MCMaxCycle == 3
=============================================================================
