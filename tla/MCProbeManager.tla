--------------------------- MODULE MCProbeManager ---------------------------
(* Instances of ProbeManager for TLC.                                      *)
EXTENDS ProbeManagerProps, TLC

OneCritical == <<[name |-> "db", critical |-> TRUE]>>
TwoProbes   == <<[name |-> "db", critical |-> TRUE],
                 [name |-> "cache", critical |-> FALSE]>>
SameName    == <<[name |-> "db", critical |-> TRUE],
                 [name |-> "db", critical |-> FALSE]>>
=============================================================================
