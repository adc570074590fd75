--------------------------- MODULE MCSharedIssues ---------------------------
(* SharedIssues on small instances: a certificate that expires soon, then    *)
(* has expired, and another problem of the same provider.                    *)
EXTENDS SharedIssues

MCReplaces == [a \in Alerts |-> IF a = "expired" THEN {"expiring"} ELSE {}]
MCMeets == [a \in Alerts |-> IF a = "expired" THEN Channels ELSE {"gitlab"}]
MCWorlds == {{}, {"expiring"}, {"expired", "fetch"}}
=============================================================================
