------------------------------ MODULE MCAccess ------------------------------
(* Access on small instances.                                               *)
EXTENDS Access, TLC

Symmetry == Permutations(Accounts) \union Permutations(Instances) \union Permutations(Callers)
            \union Permutations(Names) \union Permutations(Subjects)
=============================================================================
