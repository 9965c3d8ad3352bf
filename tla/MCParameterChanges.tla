------------------------ MODULE MCParameterChanges ------------------------
(* Values of the constants of ParameterChanges for TLC.                    *)
EXTENDS ParameterChanges

CONSTANTS low, high      \* two normalized values

MCValues    == {low, high}
MCTransport == [v \in MCValues |-> <<"transport", v>>]

\* Everything that the plugin and the host can do.
Anything == AllBehaviours

\* A plugin that announces what it changes outside of setStateInformation,
\* and changes nothing on the audio thread.
Announcing == {"edit", "display", "state", "program"}

\* Every kind of change from two threads, but for the state loads.
Delivering == {"edit", "blockEdit", "inbound", "display"}
=============================================================================
