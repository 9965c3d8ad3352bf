-------------------------- MODULE MCHostMidiPort --------------------------
(* Values of the constants of HostMidiPort for TLC.                        *)
EXTENDS HostMidiPort, TLC

CONSTANTS editor, automation      \* two setters

\* Only runs in which no setter has ever got in the way of another thread.
Calm == clean

Symmetric == Permutations({editor, automation})
=============================================================================
