-------------------------- MODULE MCConfigWatcher ---------------------------
(* Instances of ConfigWatcher for TLC.                                     *)
EXTENDS ConfigWatcherProps, TLC

CONSTANTS k1, k2, junk

Texts == <<"yes", "maybe", "7">>
TextOf == [v \in 1..MaxChanges |-> Texts[v]]
=============================================================================
