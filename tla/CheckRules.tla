----------------------------- MODULE CheckRules -----------------------------
(* What the periodic checks look for: the rules of the configuration checks  *)
(* (internal/configcheck) on a realm's settings, its clients and its SAML    *)
(* identity providers, the threshold rules of the event and AMFA checks      *)
(* (internal/eventscheck, internal/amfacheck), and the silence rules         *)
(* (internal/alerts).  An alert is what the rest of the pipeline tells apart *)
(* of it: its id (the type and the resource), its severity and what a        *)
(* silence rule or the clearing of alerts reads.                             *)
EXTENDS Integers, FiniteSets, Sequences

None == "none"

\* createAlert, toAlert: the broad type of the alert, what was found, the
\* resource it names and, where the resource has several, the certificate.
Alert(class, type, resource, cert, severity) ==
  [class |-> class, type |-> type, resource |-> resource, cert |-> cert, severity |-> severity]

\* generateAlertID: a hash of the tenant, the check, the realm, the resource
\* and the type.
AlertID(a) == <<a.type, a.resource, a.cert>>

If(condition, alert) == IF condition THEN {alert} ELSE {}

-----------------------------------------------------------------------------
(* RealmSecurityCheck.  cfg.on is the set of sub-checks switched on.         *)

RealmAlert(type, severity) == Alert("realm", type, "realm", None, severity)

checkSSLRequired(r) ==
  If(r.ssl \notin {"all", "external"},
     RealmAlert("ssl_not_required", IF r.ssl = "none" THEN "critical" ELSE "warning"))

checkBruteForceProtection(r) ==
  If(~r.bruteForce, RealmAlert("brute_force_disabled", "warning"))

\* parsePasswordPolicy: a function from the names in the policy to their
\* values; a value that is no number is below zero.
checkPasswordPolicy(cfg, r) ==
  LET named(name) == name \in DOMAIN r.policy
      complexity == {"upperCase", "lowerCase", "digits", "specialChars"}
  IN  If(named("length") /\ r.policy["length"] >= 0 /\ r.policy["length"] < cfg.minLength,
         RealmAlert("weak_password_length", "warning"))
      \cup If(~named("length"), RealmAlert("no_password_length", "warning"))
      \cup If(cfg.complexity /\ \E c \in complexity : ~named(c),
              RealmAlert("weak_password_complexity", "warning"))

checkEmailVerification(r) ==
  If(r.registration /\ ~r.verifyEmail,
     RealmAlert("registration_without_verification", "warning"))

checkAdminEvents(r) == If(~r.adminEvents, RealmAlert("admin_events_disabled", "warning"))

checkUserEvents(r) ==
  IF ~r.events THEN {RealmAlert("user_events_disabled", "info")}
  ELSE If(r.listeners = {}, RealmAlert("no_event_listeners", "warning"))

checkDuplicateEmails(r) ==
  If(r.duplicateEmails, RealmAlert("duplicate_emails_allowed", "warning"))

\* checkRealm: every sub-check, under its switch.
RealmSubChecks(cfg, r) ==
  [ssl |-> checkSSLRequired(r), brute_force |-> checkBruteForceProtection(r),
   password_policy |-> checkPasswordPolicy(cfg, r),
   email_verification |-> checkEmailVerification(r),
   admin_events |-> checkAdminEvents(r), user_events |-> checkUserEvents(r),
   duplicate_emails |-> checkDuplicateEmails(r)]

checkRealm(cfg, r) == UNION {RealmSubChecks(cfg, r)[c] : c \in cfg.on}

RealmSwitches == {"ssl", "brute_force", "password_policy", "email_verification",
                  "admin_events", "user_events", "duplicate_emails"}

\* The switch a type of realm alert belongs to.
RealmSwitch ==
  [ssl_not_required |-> "ssl", brute_force_disabled |-> "brute_force",
   weak_password_length |-> "password_policy", no_password_length |-> "password_policy",
   weak_password_complexity |-> "password_policy",
   registration_without_verification |-> "email_verification",
   admin_events_disabled |-> "admin_events", user_events_disabled |-> "user_events",
   no_event_listeners |-> "user_events", duplicate_emails_allowed |-> "duplicate_emails"]

-----------------------------------------------------------------------------
(* ClientSecurityCheck.  A redirect URI is its scheme, its host, whether it  *)
(* has a wildcard and whether it is exactly http(s)://localhost*.            *)

BuiltInClients == {"account", "account-console", "admin-cli", "broker",
                   "realm-management", "security-admin-console"}

ClientAlert(type, c, severity) == Alert("client", type, c.id, None, severity)

checkRedirectURIs(cfg, c) ==
  UNION {
    If(u.wildcard /\ ~u.anyLocalhost, ClientAlert("wildcard_redirect_uri", c, "warning"))
    \cup If(cfg.production /\ ~cfg.allowLocalhost /\ u.host \in {"localhost", "LOCALHOST", "127.0.0.1"},
            ClientAlert("localhost_redirect_uri", c, "warning"))
    \cup If(cfg.production /\ u.scheme = "http" /\ u.host # "localhost",
            ClientAlert("http_redirect_uri", c, "warning")) : u \in c.uris}

checkPublicClientConfig(c) ==
  If(c.public /\ c.serviceAccounts, ClientAlert("public_client_service_account", c, "critical"))

checkDirectAccessGrants(c) ==
  If(c.directGrants, ClientAlert("direct_access_grants_enabled", c, "info"))

checkClientSecret(c) ==
  If(~c.public /\ ~c.secret /\ ~c.bearerOnly, ClientAlert("missing_client_secret", c, "critical"))

checkImplicitFlow(c) == If(c.implicit, ClientAlert("implicit_flow_enabled", c, "warning"))

ClientSwitches == {"redirect_uris", "public_clients", "direct_access_grants",
                   "client_secret", "implicit_flow", "standard_flow"}

\* checkStandardFlow raises nothing.
ClientSubChecks(cfg, c) ==
  [redirect_uris |-> checkRedirectURIs(cfg, c), public_clients |-> checkPublicClientConfig(c),
   direct_access_grants |-> checkDirectAccessGrants(c),
   client_secret |-> checkClientSecret(c), implicit_flow |-> checkImplicitFlow(c),
   standard_flow |-> {}]

checkClient(cfg, c) ==
  IF c.id \in BuiltInClients THEN {}
  ELSE UNION {ClientSubChecks(cfg, c)[s] : s \in cfg.on}

ClientSwitch ==
  [wildcard_redirect_uri |-> "redirect_uris", localhost_redirect_uri |-> "redirect_uris",
   http_redirect_uri |-> "redirect_uris",
   public_client_service_account |-> "public_clients",
   direct_access_grants_enabled |-> "direct_access_grants",
   missing_client_secret |-> "client_secret", implicit_flow_enabled |-> "implicit_flow"]

-----------------------------------------------------------------------------
(* IdentityProviderMetadataCheck.                                            *)

MaxRedirects == 3

\* A few redirects are followed, never from https down to http.
checkSAMLMetadataRedirect(hops) ==
  /\ Len(hops) <= MaxRedirects + 1
  /\ \A i \in DOMAIN hops : hops[i] \in {"http", "https"}
  /\ \A i \in 1..Len(hops) - 1 : ~(hops[i] = "https" /\ hops[i + 1] = "http")

\* fetchMetadata, parseCertificates: the certificates that can be read, or none
\* at all: a blocked address, a failed request, a refused redirect, an answer
\* that is not 200, too large or no XML, or no valid certificate in it.
FetchAndParseCertificates(m) ==
  IF m.allowed /\ m.answers /\ checkSAMLMetadataRedirect(m.hops)
  THEN {c \in m.certs : c.valid} ELSE {}

\* CheckCertificateExpiration, on the hours left.
IsExpired(c) == c.hours < 0
IsExpiringSoon(cfg, c) == c.hours >= 0 /\ c.hours \div 24 <= cfg.warningDays

IdpAlert(type, alias, cert, severity) == Alert("identity_provider", type, alias, cert, severity)

checkCertificateExpiration(cfg, p) ==
  LET certs == FetchAndParseCertificates(p.metadata) IN
  IF certs = {} THEN {IdpAlert("fetch_error", p.alias, None, "warning")}
  ELSE UNION {If(IsExpired(c), IdpAlert("cert_expired", p.alias, c.serial, "critical"))
              \cup If(IsExpiringSoon(cfg, c), IdpAlert("cert_expiring", p.alias, c.serial, "warning"))
              : c \in certs}

checkIdp(cfg, p) ==
  IF ~p.saml THEN {}
  ELSE IF ~p.hasURL THEN {IdpAlert("missing_metadata", p.alias, None, "warning")}
  ELSE checkCertificateExpiration(cfg, p)

\* MarkUnread: the providers whose certificates nobody saw.
UnreadIdps(providers) ==
  {p.alias : p \in {q \in providers : /\ q.saml /\ q.hasURL
                                      /\ FetchAndParseCertificates(q.metadata) = {}}}

\* An expired certificate's alert replaces the warning about the certificate.
Supersedes(a) ==
  IF a.type = "cert_expired" THEN {<<"cert_expiring", a.resource, a.cert>>} ELSE {}

-----------------------------------------------------------------------------
(* The threshold checks.  Each counts events of the realm in a window that   *)
(* ends now.                                                                 *)

\* eventscheck: one count per event type; a count that fails is left out.
CountedTypes(w) == DOMAIN w.counts \ w.failing

\* Evaluate: the alerts of the types at or over the threshold.
AtThreshold(cfg, w, types, alert(_)) ==
  {alert(t) : t \in {u \in types \cap CountedTypes(w) : w.counts[u] >= cfg.threshold}}

LoginErrorCheck(cfg, w) ==
  LET alert(t) == Alert("security", t, "realm", None, "warning")
  IN  AtThreshold(cfg, w, {"LOGIN_ERROR"}, alert)

ClientErrorCheck(cfg, w) ==
  LET alert(t) == Alert("security", t, "realm", None, "warning")
  IN  AtThreshold(cfg, w, {"CLIENT_LOGIN_ERROR"}, alert)

CodeToTokenErrorCheck(cfg, w) ==
  LET alert(t) == Alert("security", t, "realm", None, "critical")
  IN  AtThreshold(cfg, w, {"CODE_TO_TOKEN_ERROR"}, alert)

CommonErrorCheck(cfg, w) ==
  LET alert(t) == Alert("performance", t, "realm", None, "info")
  IN  AtThreshold(cfg, w, {"REGISTER_ERROR", "RESET_PASSWORD_ERROR", "LOGOUT_ERROR"}, alert)

IdpErrorCheck(cfg, w) ==
  LET login == "IDENTITY_PROVIDER_LOGIN_ERROR"
      alert(t) == Alert("identity_provider", t, "realm", None, IF t = login THEN "critical" ELSE "error")
  IN  AtThreshold(cfg, w, {login, "IDENTITY_PROVIDER_POST_LOGIN_ERROR",
                           "IDENTITY_PROVIDER_RESPONSE_ERROR",
                           "IDENTITY_PROVIDER_RETRIEVE_TOKEN_ERROR"}, alert)

\* amfacheck: one event type's count in the realm; a count that fails, fails
\* the check.
runEventTypeThresholdCheck(cfg, w, eventType, type) ==
  If(w.counts[eventType] >= cfg.threshold, Alert("security", type, "realm", None, "warning"))

AmfaLoginErrorCheck(cfg, w) == runEventTypeThresholdCheck(cfg, w, "LOGIN_ERROR", "amfa-login-error")

ClientLoginErrorCheck(cfg, w) ==
  runEventTypeThresholdCheck(cfg, w, "CLIENT_LOGIN_ERROR", "amfa-client-login-error")

\* The queries answer only the users or clients at or over the threshold.
OverThreshold(cfg, w, type) ==
  {Alert("security", type, u, None, "warning") :
     u \in {v \in DOMAIN w.users : w.users[v] >= cfg.threshold}}

LoginErrorByAccountCheck(cfg, w) == OverThreshold(cfg, w, "amfa-login-error-by-account")

LoginErrorByClientCheck(cfg, w) == OverThreshold(cfg, w, "amfa-login-error-by-client")

\* Over the threshold in the long window, and still active in the short one.
RepeatedRiskyCheck(cfg, w) ==
  {a \in OverThreshold(cfg, w, "amfa-repeated-risky") : a.resource \in w.active}

\* Distinct users rejected in the window.
RealmRejectBurstCheck(cfg, w) ==
  If(Cardinality(w.rejected) >= cfg.threshold,
     Alert("security", "amfa-realm-reject-burst", "realm", None, "critical"))

-----------------------------------------------------------------------------
(* Silence rules.  A matcher that is None matches every alert.               *)

matchPattern(value, pattern) == pattern = "*" \/ pattern = value

\* The client an alert is about: of a client check, or of AMFA's.
ClientOf(a) ==
  IF a.class = "client" \/ a.type = "amfa-login-error-by-client" THEN a.resource ELSE None

\* matchesSilence: severity, type (the broad type, or the event type in the
\* metadata) and client; every matcher a rule has must match.
matchesSilence(a, rule) ==
  /\ rule.severity # None => a.severity = rule.severity
  /\ rule.alertType # None => \/ matchPattern(a.class, rule.alertType)
                              \/ matchPattern(a.type, rule.alertType)
  /\ rule.client # None => ClientOf(a) # None /\ matchPattern(ClientOf(a), rule.client)

\* ShouldSilence: some rule whose window is open covers the alert.
ShouldSilence(a, rules) == \E rule \in rules : matchesSilence(a, rule)
=============================================================================
