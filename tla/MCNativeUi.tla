----------------------------- MODULE MCNativeUi -----------------------------
(* Values of the constants of NativeUi for TLC.                            *)
EXTENDS NativeUi
=============================================================================
