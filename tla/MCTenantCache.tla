--------------------------- MODULE MCTenantCache ---------------------------
(* TenantCache on small instances.                                          *)
EXTENDS TenantCache, TLC

Symmetry == Permutations(Callers)

Alone(t) ==
    /\ \A u \in Tenants \ {t} : ~Present(db[u]) /\ ~Present(cache[u])
    /\ \A c \in Callers : call[c].pc # "idle" => call[c].t = t

ChangesOnly ==
    /\ ~check.busy
    /\ \A t \in Tenants : {db[t].health, cache[t].health} = {"unknown"}
    /\ \A c \in Callers : call[c].pc # "idle" => call[c].op # "get"

\* Bound: reads and health checks are followed while there is one tenant only.  What
\* relates two tenants is the default flag, which neither of them reads or sets.
OneOrChanges == ChangesOnly \/ \E t \in Tenants : Alone(t)
=============================================================================
