-------------------------- MODULE MCAmfaEventCheck --------------------------
(* AmfaEventCheck on small instances.                                        *)
EXTENDS AmfaEventCheck

\* Three events, a tick or two apart.
MCTimes == [e \in Events |-> CASE e = "e1" -> 2 [] e = "e2" -> 6 [] e = "e3" -> 8]
=============================================================================
