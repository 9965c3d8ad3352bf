-------------------------- MODULE MCHostedPlugins --------------------------
(* Values of the constants of HostedPlugins for TLC.                       *)
EXTENDS HostedPlugins

CONSTANTS synth, delay, reverb, r1, r2, small, large

MCCatalog == {synth, delay, reverb}

\* Names of packages in the order that the comparison of strings gives them.
MCPackage == [p \in MCCatalog |-> IF p = delay THEN 1 ELSE 2]

\* In this order the binary search misses the second package of its name.
MCLists == {<<synth, delay, reverb>>}

\* One plugin has no ports.
MCNumPorts == [p \in MCCatalog |-> IF p = delay THEN 0 ELSE 2]

MCRequests == {r1, r2}
MCWanted   == [r \in MCRequests |-> IF r = r1 THEN synth ELSE delay]

MCStates == {small, large}
MCSize   == [s \in MCStates |-> IF s = small THEN 1 ELSE 2]
=============================================================================
