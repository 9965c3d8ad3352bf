--------------------------- MODULE MCAudioPorts ---------------------------
(* Values of the constants of AudioPorts for TLC.                          *)
EXTENDS AudioPorts

MCKinds == AllKinds
=============================================================================
