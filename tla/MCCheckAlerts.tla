---------------------------- MODULE MCCheckAlerts ---------------------------
(* Scenes for CheckAlerts: one of every kind of check, with the worlds that  *)
(* raise, replace and clear its alerts.                                      *)
EXTENDS CheckAlerts

Rule(severity, type, client) == [severity |-> severity, alertType |-> type, client |-> client]

Max(changes, ops, faults, restarts) ==
  [changes |-> changes, ops |-> ops, faults |-> faults, restarts |-> restarts]

Realm(policy) ==
  [ssl |-> "external", bruteForce |-> TRUE, policy |-> policy, registration |-> FALSE,
   verifyEmail |-> FALSE, adminEvents |-> TRUE, events |-> TRUE, listeners |-> {"jboss"},
   duplicateEmails |-> FALSE]

RealmScene ==
  [cfgs |-> {[on |-> s, minLength |-> 8, complexity |-> FALSE] : s \in {{"password_policy", "ssl"}, {"ssl"}}},
   worlds |-> {Realm([length |-> 4]), Realm([length |-> 12])},
   silences |-> {Rule("warning", "realm", None)},
   switches |-> {"password_policy", "ssl"}, max |-> Max(3, 0, 0, 1)]

Client(uris, public) ==
  [id |-> "shop", uris |-> uris, public |-> public, serviceAccounts |-> TRUE,
   directGrants |-> FALSE, secret |-> TRUE, bearerOnly |-> FALSE, implicit |-> FALSE]

ClientScene ==
  [cfgs |-> {[on |-> {"redirect_uris", "public_clients"}, production |-> TRUE, allowLocalhost |-> FALSE]},
   worlds |-> {{Client({[scheme |-> "https", host |-> "shop", wildcard |-> TRUE, anyLocalhost |-> FALSE]}, FALSE)},
               {}},
   silences |-> {Rule(None, "*", "shop")},
   switches |-> {"redirect_uris", "public_clients"}, max |-> Max(2, 1, 1, 0)]

Idp(answers, hours) ==
  [alias |-> "corp", saml |-> TRUE, hasURL |-> TRUE,
   metadata |-> [allowed |-> TRUE, answers |-> answers, hops |-> <<"https">>,
                 certs |-> {[serial |-> "c1", valid |-> TRUE, hours |-> hours]}]]

IdpScene ==
  [cfgs |-> {[warningDays |-> 30]},
   worlds |-> {{Idp(TRUE, 24 * 30)}, {Idp(TRUE, -1)}, {Idp(FALSE, 0)}},
   silences |-> {Rule("critical", None, None)}, switches |-> {}, max |-> Max(2, 0, 1, 0)]

EventsScene ==
  [cfgs |-> {[threshold |-> 3]},
   worlds |-> {[counts |-> [LOGIN_ERROR |-> n], failing |-> f] :
                 n \in {2, 3}, f \in {{}, {"LOGIN_ERROR"}}},
   silences |-> {Rule(None, "LOGIN_ERROR", None)}, switches |-> {}, max |-> Max(2, 2, 1, 0)]

RiskyScene ==
  [cfgs |-> {[threshold |-> 3]},
   worlds |-> {[users |-> [ann |-> 3], active |-> a] : a \in {{}, {"ann"}}},
   silences |-> {Rule(None, "security", None)}, switches |-> {}, max |-> Max(2, 2, 1, 0)]

MCScenes ==
  [realm |-> RealmScene, client |-> ClientScene, idp |-> IdpScene,
   login_error |-> EventsScene, repeated_risky |-> RiskyScene]

\* The client's problem comes and goes once more.
RowScenes == [client |-> [ClientScene EXCEPT !.max = Max(3, 0, 1, 0)]]
=============================================================================
