---------------------------- MODULE MCAmfaMirror ----------------------------
(* Instances of AmfaMirror for TLC. *)
EXTENDS AmfaMirror, TLC

Symmetry == Permutations(Ids)
=============================================================================
