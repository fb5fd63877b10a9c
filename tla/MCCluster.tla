----------------------------- MODULE MCCluster -----------------------------
(* Instances of Cluster for TLC. *)
EXTENDS Cluster

AllSignals == {"INT", "HUP", "USR1", "USR2", "TTIN", "TTOU"}
SomeSignals == {"INT", "HUP", "TTOU"}

\* States after a race are reached but not explored further: the properties
\* about children say nothing of them.
NoRace == raced = {}
=============================================================================
