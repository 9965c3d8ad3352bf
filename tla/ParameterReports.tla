------------------------- MODULE ParameterReports -------------------------
(***************************************************************************)
(* What JuceAAPWrapper promises about parameter changes, without saying    *)
(* how: the changes that the plugin announces form one sequence, and what  *)
(* the host has read from the plugin's MIDI output port is always a prefix *)
(* of it.  A change is not lost, not repeated and not overtaken by another *)
(* on its way through the pending list and the port.                       *)
(***************************************************************************)
EXTENDS Sequences, Naturals

CONSTANT Messages       \* the parameter messages that a port can carry

VARIABLES reported,     \* every change the plugin announced, in order
          delivered     \* what the host has read, in order

vars == <<reported, delivered>>

Init == /\ reported = <<>>
        /\ delivered = <<>>

Report == /\ \E m \in Messages : reported' = Append(reported, m)
          /\ UNCHANGED delivered

\* One process() call hands over the next few changes, in one piece.
Deliver == /\ \E n \in Len(delivered)..Len(reported) :
                 delivered' = SubSeq(reported, 1, n)
           /\ UNCHANGED reported

Next == Report \/ Deliver

Spec == Init /\ [][Next]_vars
=============================================================================
