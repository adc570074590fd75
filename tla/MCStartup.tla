----------------------------- MODULE MCStartup ------------------------------
(* Startup on small instances: two servers, two tenants, two system roles.   *)
EXTENDS Startup, TLC

MCSymmetry == Permutations(Servers)
MCRoleOrder == <<"admin", "viewer">>

\* An empty database.
Fresh ==
  [cols |-> {"realms", "alerts", "events"},
   rows |-> [t \in {"realms", "alerts", "events"} |-> {}],
   idx |-> [i \in {"email", "subject", "username", "role", "realm", "alert", "lookup"} |-> "none"],
   marks |-> {}, roles |-> [r \in Roles |-> NoRole], tokens |-> {}, stale |-> FALSE, admin |-> "none",
   sso |-> [oauth |-> TRUE, verified |-> FALSE, login |-> "after"]]

Row(realm, owner, tenant) == [realm |-> realm, owner |-> owner, tenant |-> tenant]

\* What every release before tenants' events left.
Used ==
  [Fresh EXCEPT !.roles = [r \in Roles |-> {"others"}], !.tokens = {"inactive", "blocked"},
                !.stale = TRUE, !.admin = "admin",
                !.idx = [i \in DOMAIN @ |-> IF i = "lookup" THEN "none" ELSE "plain"],
                !.sso = [oauth |-> FALSE, verified |-> TRUE, login |-> "never"]]

\* A single-tenant release; its realm and alert indexes have other names.
Single ==
  [Used EXCEPT !.cols = {}, !.idx.realm = "none", !.idx.alert = "none",
               !.rows = [realms |-> {Row("live", "t", NoTenant)}, alerts |-> {Row("live", "t", NoTenant)},
                         events |-> {Row("live", "t", NoTenant), Row("old", "t", NoTenant)}]]

\* An early release with tenants, two of them with a realm of the same name.
Early ==
  [Used EXCEPT !.cols = {"realms", "alerts"}, !.idx.realm = "tenant",
               !.rows = [realms |-> {Row("master", "t", "t"), Row("master", "u", "u"), Row("own", "u", "u")},
                         alerts |-> {},
                         events |-> {Row("master", "t", NoTenant), Row("own", "u", NoTenant), Row("gone", "u", NoTenant)}]]

\* An SSO-only server on an empty database; one without a password, which refuses it;
\* one without an address for its default user; and one whose users came by SSO, one
\* of them last before the cutoff.
MCInstallations ==
  {<<Fresh, "full">>, <<Fresh, "sso">>, <<Fresh, "nopassword">>, <<[Single EXCEPT !.admin = "user"], "noemail">>,
   <<[Early EXCEPT !.admin = "others", !.sso = [oauth |-> TRUE, verified |-> TRUE, login |-> "before"]], "full">>}

\* A database of this release with one tenant.
MCCurrent ==
  {<<[Used EXCEPT !.idx = [i \in DOMAIN @ |-> IF i = "lookup" THEN "valid" ELSE "live"],
                  !.rows = [@ EXCEPT !.realms = {Row("own", "t", "t")}]], "full">>}
=============================================================================
