---------------------------- MODULE MC_DifProtocol ----------------------------
(* The DIF exchange on small instances: three cycles whose payloads are   *)
(* empty, one byte or two bytes long, which is enough for a header of one  *)
(* cycle to be read as the payload of another.                             *)
EXTENDS DifProtocol

MCMaxX == 3
MCSizes == {0, 1, 2}

=============================================================================
