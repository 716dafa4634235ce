------------------------------ MODULE MCService -----------------------------
(* Instances of Service for TLC.                                           *)
EXTENDS ServiceProps

CONSTANT MaxLines

(* Every file of at most MaxLines lines.                                   *)
AllFiles == UNION {[1..n -> Lines] : n \in 0..MaxLines}
=============================================================================
