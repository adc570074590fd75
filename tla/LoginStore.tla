----------------------------- MODULE LoginStore -----------------------------
(* What the unified events table promises about the logins an external       *)
(* source records: every login it knows of was recorded by that tenant's     *)
(* source, and once known a login stays known until its tenant is purged.    *)
(* How the rows are read, paged, merged and swept is not visible here.       *)
CONSTANTS Tenants, Ids
VARIABLES source, known

\* A login is recorded by the tenant's source.
Arrive == /\ \E t \in Tenants, i \in Ids :
               source' = [source EXCEPT ![t] = @ \cup {i}]
          /\ known' = known

\* The store learns of one login of a tenant's source.
Learn == /\ \E t \in Tenants : \E i \in source[t] :
              known' = [known EXCEPT ![t] = @ \cup {i}]
         /\ source' = source

\* A purged tenant is forgotten.
Forget == /\ \E t \in Tenants : known' = [known EXCEPT ![t] = {}]
          /\ source' = source

Init == /\ source = [t \in Tenants |-> {}]
        /\ known = [t \in Tenants |-> {}]

Next == Arrive \/ Learn \/ Forget

Spec == Init /\ [][Next]_<<source, known>>
=============================================================================
