----------------------------- MODULE MCReadApi -----------------------------
(* ReadApi on small instances.                                              *)
EXTENDS ReadApi, TLC

MCGrants == {{"tenants:read", "alerts:read", "platform_users:read"}}
Symmetry == Permutations(Tenants) \union Permutations(Realms) \union Permutations(Callers)
=============================================================================
