------------------------------- MODULE MCMesh -------------------------------
(* Instances of Mesh for TLC.                                              *)
EXTENDS MeshProps, FiniteSets

CONSTANT MaxChain

(* Every chain of at most MaxChain different stages.                       *)
AllChains ==
  {c \in UNION {[1..n -> Stages] : n \in 0..MaxChain} :
     \A i, j \in DOMAIN c : c[i] = c[j] => i = j}

(* The order of pkg/README.md.                                             *)
ReadmeOrder == {<<"Recovery", "Logger">>}

AdminsAndSellers == {"admin", "seller"}
=============================================================================
