-------------------------- MODULE CheckAlertProofs --------------------------
(***************************************************************************)
(* Proofs about CheckAlerts and SharedIssues: the alerts the checks raise  *)
(* and resolve, and the notices and GitLab issues that announce them, for  *)
(* any checks, realms, configurations and silences, any alerts of a        *)
(* provider, and any number of changes, failures, restarts and actions of  *)
(* operators: a check resolves only what it looked for and truly did not   *)
(* find, keeps an operator's choice, announces an occurrence once, closes  *)
(* no issue that an open alert holds, and leaves none open for nobody.     *)
(***************************************************************************)
EXTENDS CheckAlerts, SharedIssues, FiniteSetTheorems, WellFoundedInduction, TLAPS

-----------------------------------------------------------------------------
(* CheckAlerts: the inductive invariant.                                     *)

Rows == [status : Statuses, acked : BOOLEAN, seen : 0 .. MaxAge, updated : 0 .. MaxAge,
         notified : Never .. MaxAge, announced : BOOLEAN]
Findings == UNION {Found(check, c, w) : c \in Scenes[check].cfgs, w \in Scenes[check].worlds}
IDs == AlertIDs(check)
Saving == {"save", "supersede", "notify"}
Runs ==
  [pc : {"idle", "read", "alerts", "clear", "resolve"} \cup Saving,
   listed : {"no", "checked", "visible", "unreadable"}, todo : SUBSET Findings,
   alert : Findings \cup {None}, existing : Rows, raced : BOOLEAN, notify : BOOLEAN,
   detected : SUBSET IDs, covered : SUBSET IDs, fixed : SUBSET IDs]

CheckInv ==
  /\ check \in DOMAIN Scenes /\ cfg \in Scenes[check].cfgs /\ world \in Scenes[check].worlds
  /\ access \in {"ok", "down", "disabled", "stub", "unlisted", "deleted"}
  /\ silences \subseteq Scenes[check].silences /\ lost \subseteq IDs /\ skipped \subseteq IDs
  /\ alerts \in [IDs -> Rows] /\ misses \in [IDs -> 0 .. 2] /\ quiet \in [IDs -> 0 .. 2]
  /\ used \in [Events -> Nat] /\ run \in Runs

\* A run has an alert while it saves and announces it, and what it read of it is
\* what the operator has not changed since.  Before the realm is read nothing is
\* found.
RunInv ==
  /\ run.pc \in Saving => run.alert \in Findings
  /\ run.pc = "save" /\ ~run.raced => run.existing = alerts[AlertID(run.alert)]
  /\ run.pc = "read" => run.todo = {} /\ run.detected = {} /\ run.covered = {}

\* The misses counted are looks that truly did not find the problem; a run that
\* has looked and not counted yet is one look ahead.  Only configcheck counts.
Counted(id) ==
  IF run.pc \in Saving \cup {"alerts"}
  THEN \/ id \in run.detected
       \/ IF id \in run.covered /\ looksFor(id)
          THEN quiet[id] = 2 \/ quiet[id] > misses[id]
          ELSE quiet[id] >= misses[id]
  ELSE quiet[id] >= misses[id]
MissesInv == \A id \in IDs : (id \in skipped \/ Counted(id)) /\ (Config \/ misses[id] = 0)

\* What a run is about to resolve was looked for and not found often enough.
FixedInv ==
  run.pc \in {"clear", "resolve"} =>
    \A id \in run.fixed : id \in skipped \/ quiet[id] >= IF Config THEN 2 ELSE 1

AlertInv == CheckInv /\ RunInv /\ MissesInv /\ FixedInv
-----------------------------------------------------------------------------
(* CheckAlerts: alerts, rows and what is looked for.                         *)

\* A finding of the scenes has the id of one of their alerts.
LEMMA FindingIDs ==
  /\ check \in DOMAIN Scenes /\ cfg \in Scenes[check].cfgs /\ world \in Scenes[check].worlds
     => Found(check, cfg, world) \subseteq Findings
  /\ \A a \in Findings : AlertID(a) \in IDs
BY DEF Findings, IDs, AlertIDs

\* A sub-check that is on finds what it finds with all of them on.
LEMMA RealmFound ==
  ASSUME NEW S \in SUBSET RealmSwitches, NEW r, NEW a,
         NEW c \in [on : SUBSET RealmSwitches, minLength : Int, complexity : BOOLEAN],
         a \in checkRealm([c EXCEPT !.on = S], r), RealmSwitch[a.type] \in c.on
  PROVE  a \in checkRealm(c, r)
<1> DEFINE d == [c EXCEPT !.on = S]
<1>1. d.on = S /\ d.minLength = c.minLength /\ d.complexity = c.complexity
  OBVIOUS
<1>2. checkPasswordPolicy(d, r) = checkPasswordPolicy(c, r)
  BY <1>1 DEF checkPasswordPolicy
<1> HIDE DEF d
<1>3. RealmSubChecks(d, r) = RealmSubChecks(c, r)
  BY <1>2 DEF RealmSubChecks
<1>4. PICK s \in S : a \in RealmSubChecks(c, r)[s]
  BY <1>1, <1>3 DEF checkRealm, d
<1>5. s \in RealmSwitches
  OBVIOUS
<1>6. RealmSwitch[a.type] = s
  <2>1. CASE s = "ssl"
    BY <1>4, <2>1 DEF RealmSubChecks, RealmSwitch, checkSSLRequired, If, RealmAlert, Alert
  <2>2. CASE s = "brute_force"
    BY <1>4, <2>2 DEF RealmSubChecks, RealmSwitch, checkBruteForceProtection, If, RealmAlert, Alert
  <2>3. CASE s = "password_policy"
    <3>1. a \in checkPasswordPolicy(c, r)
      BY <1>4, <2>3 DEF RealmSubChecks
    <3>2. a.type \in {"weak_password_length", "no_password_length", "weak_password_complexity"}
      BY <3>1 DEF checkPasswordPolicy, If, RealmAlert, Alert
    <3> QED BY <2>3, <3>2 DEF RealmSwitch
  <2>4. CASE s = "email_verification"
    BY <1>4, <2>4 DEF RealmSubChecks, RealmSwitch, checkEmailVerification, If, RealmAlert, Alert
  <2>5. CASE s = "admin_events"
    BY <1>4, <2>5 DEF RealmSubChecks, RealmSwitch, checkAdminEvents, If, RealmAlert, Alert
  <2>6. CASE s = "user_events"
    <3>1. a \in checkUserEvents(r)
      BY <1>4, <2>6 DEF RealmSubChecks
    <3>2. a.type \in {"user_events_disabled", "no_event_listeners"}
      BY <3>1 DEF checkUserEvents, If, RealmAlert, Alert
    <3> QED BY <2>6, <3>2 DEF RealmSwitch
  <2>7. CASE s = "duplicate_emails"
    BY <1>4, <2>7 DEF RealmSubChecks, RealmSwitch, checkDuplicateEmails, If, RealmAlert, Alert
  <2> QED BY <1>5, <2>1, <2>2, <2>3, <2>4, <2>5, <2>6, <2>7 DEF RealmSwitches
<1>7. s \in c.on /\ a \in RealmSubChecks(c, r)[s]
  BY <1>4, <1>6
<1> QED BY <1>7 DEF checkRealm

LEMMA ClientFound ==
  ASSUME NEW S \in SUBSET ClientSwitches, NEW x, NEW a,
         NEW c \in [on : SUBSET ClientSwitches, production : BOOLEAN, allowLocalhost : BOOLEAN],
         a \in checkClient([c EXCEPT !.on = S], x), ClientSwitch[a.type] \in c.on
  PROVE  a \in checkClient(c, x)
<1> DEFINE d == [c EXCEPT !.on = S]
<1>1. d.on = S /\ d.production = c.production /\ d.allowLocalhost = c.allowLocalhost
  OBVIOUS
<1>2. checkRedirectURIs(d, x) = checkRedirectURIs(c, x)
  BY <1>1 DEF checkRedirectURIs
<1> HIDE DEF d
<1>3. ClientSubChecks(d, x) = ClientSubChecks(c, x)
  BY <1>2 DEF ClientSubChecks
<1>4. x.id \notin BuiltInClients
  BY DEF checkClient
<1>5. PICK s \in S : a \in ClientSubChecks(c, x)[s]
  BY <1>1, <1>3, <1>4 DEF checkClient, d
<1>6. ClientSwitch[a.type] = s
  <2>1. CASE s = "redirect_uris"
    <3>1. a \in checkRedirectURIs(c, x)
      BY <1>5, <2>1 DEF ClientSubChecks
    <3>2. a.type \in {"wildcard_redirect_uri", "localhost_redirect_uri", "http_redirect_uri"}
      BY <3>1 DEF checkRedirectURIs, If, ClientAlert, Alert
    <3> QED BY <2>1, <3>2 DEF ClientSwitch
  <2>2. CASE s = "public_clients"
    BY <1>5, <2>2 DEF ClientSubChecks, ClientSwitch, checkPublicClientConfig, If, ClientAlert, Alert
  <2>3. CASE s = "direct_access_grants"
    BY <1>5, <2>3 DEF ClientSubChecks, ClientSwitch, checkDirectAccessGrants, If, ClientAlert, Alert
  <2>4. CASE s = "client_secret"
    BY <1>5, <2>4 DEF ClientSubChecks, ClientSwitch, checkClientSecret, If, ClientAlert, Alert
  <2>5. CASE s = "implicit_flow"
    BY <1>5, <2>5 DEF ClientSubChecks, ClientSwitch, checkImplicitFlow, If, ClientAlert, Alert
  <2>6. CASE s = "standard_flow"
    BY <1>5, <2>6 DEF ClientSubChecks
  <2> QED BY <1>5, <2>1, <2>2, <2>3, <2>4, <2>5, <2>6 DEF ClientSwitches
<1>7. s \in c.on /\ a \in ClientSubChecks(c, x)[s]
  BY <1>5, <1>6
<1> QED BY <1>4, <1>7 DEF checkClient

\* A problem that is there and looked for is found.
LEMMA ProblemFound ==
  ASSUME check \in DOMAIN Scenes, cfg \in Scenes[check].cfgs,
         NEW id \in Problems(world), looksFor(id)
  PROVE  id \in {AlertID(a) : a \in Found(check, cfg, world)}
<1>1. CASE check \notin {"realm", "client"}
  BY <1>1 DEF Problems
<1>2. CASE check = "realm"
  <2> DEFINE d == [cfg EXCEPT !.on = Scenes[check].switches]
  <2>1. PICK a \in checkRealm(d, world) : id = AlertID(a)
    BY <1>2, Zenon DEF Problems, Found
  <2>2. id[1] = a.type
    BY <2>1 DEF AlertID
  <2>3. RealmSwitch[a.type] \in cfg.on
    BY <1>2, <2>2 DEF looksFor
  <2>4. /\ Scenes[check].switches \in SUBSET RealmSwitches
        /\ cfg \in [on : SUBSET RealmSwitches, minLength : Int, complexity : BOOLEAN]
    BY <1>2, CheckAssumption DEF CheckAssumption
  <2>5. a \in checkRealm(cfg, world)
    BY <2>1, <2>3, <2>4, RealmFound
  <2> HIDE DEF d
  <2>6. a \in Found(check, cfg, world)
    BY <1>2, <2>5 DEF Found
  <2> QED BY <2>1, <2>6
<1>3. CASE check = "client"
  <2> DEFINE d == [cfg EXCEPT !.on = Scenes[check].switches]
  <2>1. PICK a \in UNION {checkClient(d, x) : x \in world} : id = AlertID(a)
    BY <1>3, Zenon DEF Problems, Found
  <2>8. PICK x \in world : a \in checkClient(d, x)
    OBVIOUS
  <2>2. id[1] = a.type
    BY <2>1 DEF AlertID
  <2>3. ClientSwitch[a.type] \in cfg.on
    BY <1>3, <2>2 DEF looksFor
  <2>4. /\ Scenes[check].switches \in SUBSET ClientSwitches
        /\ cfg \in [on : SUBSET ClientSwitches, production : BOOLEAN, allowLocalhost : BOOLEAN]
    BY <1>3, CheckAssumption DEF CheckAssumption
  <2>5. a \in checkClient(cfg, x)
    BY <2>8, <2>3, <2>4, ClientFound
  <2> HIDE DEF d
  <2>6. a \in Found(check, cfg, world)
    BY <1>3, <2>5 DEF Found
  <2> QED BY <2>1, <2>6
<1> QED BY <1>1, <1>2, <1>3

-----------------------------------------------------------------------------
(* CheckAlerts: the environment and the operator.                            *)

Looking == Saving \cup {"alerts"}

\* A step that leaves the counts alone, and the run as far as it has looked.
LEMMA CountsKept ==
  ASSUME CheckInv, MissesInv, FixedInv, UNCHANGED <<check, cfg, misses, quiet, skipped>>,
         run'.detected = run.detected, run'.covered = run.covered, run'.fixed = run.fixed,
         run'.pc \in Looking <=> run.pc \in Looking,
         run'.pc \in {"clear", "resolve"} => run.pc \in {"clear", "resolve"}
  PROVE  MissesInv' /\ FixedInv'
<1>1. IDs' = IDs /\ Config' = Config /\ \A id : looksFor(id)' = looksFor(id)
  BY DEF IDs, Config, looksFor
<1>2. MissesInv'
  <2> SUFFICES ASSUME NEW id \in IDs PROVE (id \in skipped \/ Counted(id)') /\ (Config \/ misses[id] = 0)
    BY <1>1 DEF MissesInv
  <2>1. (id \in skipped \/ Counted(id)) /\ (Config \/ misses[id] = 0)
    BY DEF MissesInv
  <2> QED BY <1>1, <2>1 DEF Counted, Looking
<1>3. FixedInv'
  BY <1>1 DEF FixedInv
<1> QED BY <1>2, <1>3

LEMMA LooksKept == ASSUME UNCHANGED <<check, cfg>> PROVE IDs' = IDs /\ Findings' = Findings /\ Config' = Config
BY DEF IDs, Findings, Config

LEMMA MaxAgeNat == MaxAge \in Nat \ {0}
BY CheckAssumption DEF CheckAssumption, MaxAge

LEMMA OlderAge == ASSUME NEW n \in Never .. MaxAge PROVE Older(n) \in Never .. MaxAge /\ (n \in Nat => Older(n) \in 0 .. MaxAge)
BY MaxAgeNat DEF Older, Never

LEMMA NoRowRow == NoRow \in Rows
BY MaxAgeNat DEF NoRow, Rows, Never, Statuses

LEMMA NoRunRun == NoRun \in Runs /\ NoRun.pc = "idle"
BY NoRowRow DEF NoRun, Runs

LEMMA Uses ==
  ASSUME used \in [Events -> Nat], NEW what \in Events, Use(what)
  PROVE  used' \in [Events -> Nat] /\ used'[what] # used[what]
BY DEF Use

LEMMA FaultUses == ASSUME used \in [Events -> Nat], Fault PROVE used' \in [Events -> Nat]
BY Uses DEF Fault, Events

LEMMA TickInv == ASSUME AlertInv, Tick PROVE AlertInv'
<1>1. alerts' \in [IDs -> Rows]
  <2>1. \A id \in IDs : alerts[id] \in Rows
    BY DEF AlertInv, CheckInv
  <2>2. ASSUME NEW id \in IDs
        PROVE  [alerts[id] EXCEPT !.seen = Older(@), !.updated = Older(@), !.notified = Older(@)] \in Rows
    <3> DEFINE row == alerts[id]
    <3>1. row \in Rows
      BY <2>1
    <3>2. /\ row.seen \in 0 .. MaxAge /\ row.updated \in 0 .. MaxAge /\ row.notified \in Never .. MaxAge
      BY <3>1 DEF Rows
    <3>3. Older(row.seen) \in 0 .. MaxAge /\ Older(row.updated) \in 0 .. MaxAge /\ Older(row.notified) \in Never .. MaxAge
      BY <3>2, OlderAge, MaxAgeNat DEF Never
    <3> QED BY <3>1, <3>3 DEF Rows
  <2>3. DOMAIN alerts = IDs
    BY DEF AlertInv, CheckInv
  <2> QED BY <2>1, <2>2, <2>3, NoRowRow DEF Tick
<1>2. CheckInv'
  BY <1>1, LooksKept DEF AlertInv, CheckInv, Tick, Runs
<1>3. RunInv'
  BY LooksKept DEF AlertInv, RunInv, Tick, Saving
<1>4. MissesInv' /\ FixedInv'
  BY CountsKept DEF AlertInv, Tick
<1> QED BY <1>2, <1>3, <1>4 DEF AlertInv

LEMMA WorldInv == ASSUME AlertInv, WorldChanges \/ AccessChanges \/ SilenceChanges PROVE AlertInv'
<1>1. UNCHANGED <<check, cfg, alerts, misses, run, quiet, lost, skipped>>
  BY DEF WorldChanges, AccessChanges, SilenceChanges
<1>2. used' \in [Events -> Nat]
  BY Uses DEF WorldChanges, AccessChanges, SilenceChanges, Events, AlertInv, CheckInv
<1>3. world' \in Scenes[check].worlds
  BY DEF WorldChanges, AccessChanges, SilenceChanges, AlertInv, CheckInv
<1>4. access' \in {"ok", "down", "disabled", "stub", "unlisted", "deleted"}
  BY DEF WorldChanges, AccessChanges, SilenceChanges, AlertInv, CheckInv
<1>5. silences' \subseteq Scenes[check].silences
  BY DEF WorldChanges, AccessChanges, SilenceChanges, AlertInv, CheckInv
<1>6. CheckInv'
  BY <1>1, <1>2, <1>3, <1>4, <1>5, LooksKept DEF AlertInv, CheckInv, Runs
<1>7. RunInv'
  BY <1>1, LooksKept DEF AlertInv, RunInv, Saving
<1>8. MissesInv' /\ FixedInv'
  BY <1>1, CountsKept DEF AlertInv
<1> QED BY <1>6, <1>7, <1>8 DEF AlertInv

LEMMA RestartInv == ASSUME AlertInv, Restart PROVE AlertInv'
<1>1. UNCHANGED <<check, world, access, silences, alerts, quiet, lost>> /\ cfg' \in Scenes[check].cfgs
  BY DEF Restart
<1>2. IDs' = IDs /\ Findings' = Findings
  BY <1>1 DEF IDs, Findings
<1>3. Runs' = Runs
  BY <1>2 DEF Runs
<1>4. misses' = [id \in IDs |-> 0] /\ skipped' = {} /\ run' = NoRun
  BY DEF Restart, AlertInv, CheckInv
<1>5. used' \in [Events -> Nat]
  BY Uses DEF Restart, Events, AlertInv, CheckInv
<1>6. CheckInv'
  <2>1. misses' \in [IDs -> 0 .. 2]
    BY <1>4
  <2> QED BY <1>1, <1>2, <1>3, <1>4, <1>5, <2>1, NoRunRun DEF AlertInv, CheckInv
<1>7. RunInv'
  BY <1>4, NoRunRun DEF RunInv, Saving
<1>8. MissesInv'
  <2> SUFFICES ASSUME NEW id \in IDs PROVE Counted(id)' /\ misses'[id] = 0
    BY <1>2 DEF MissesInv
  <2>1. misses'[id] = 0 /\ quiet'[id] >= 0 /\ run'.pc = "idle"
    BY <1>1, <1>4, NoRunRun DEF AlertInv, CheckInv
  <2> QED BY <2>1 DEF Counted, Saving
<1>9. FixedInv'
  BY <1>4, NoRunRun DEF FixedInv
<1> QED BY <1>6, <1>7, <1>8, <1>9 DEF AlertInv

\* What an operator's write leaves of the alert is a row.
LEMMA WrittenRows ==
  ASSUME NEW row \in Rows
  PROVE  /\ \A status \in {"active", "acknowledged", "ignored"} : UpdateRow(row, status) \in Rows
         /\ [row EXCEPT !.status = "resolved", !.updated = 0] \in Rows
<1>3. 0 \in 0 .. MaxAge
  BY MaxAgeNat
<1>4. {"active", "acknowledged", "ignored", "resolved"} \subseteq Statuses
  BY DEF Statuses
<1>1. ASSUME NEW status \in {"active", "acknowledged", "ignored"}
      PROVE  UpdateRow(row, status) \in Rows
  <2> DEFINE acked == row.acked \/ status = "acknowledged"
             announced == row.announced /\ ~(row.status = "resolved" /\ status = "active")
  <2>1. acked \in BOOLEAN /\ announced \in BOOLEAN
    BY DEF Rows
  <2>2. UpdateRow(row, status)
          = [row EXCEPT !.status = status, !.updated = 0, !.acked = acked, !.announced = announced]
    BY DEF UpdateRow, Rows
  <2> HIDE DEF acked, announced
  <2> QED BY <1>3, <1>4, <2>1, <2>2 DEF Rows
<1>2. [row EXCEPT !.status = "resolved", !.updated = 0] \in Rows
  BY <1>3, <1>4 DEF Rows
<1> QED BY <1>1, <1>2

LEMMA WriteInv ==
  ASSUME AlertInv, NEW id \in IDs, NEW row \in Rows, Write(id, row), lost' \subseteq IDs
  PROVE  AlertInv' /\ used'["ops"] # used["ops"]
<1>1. UNCHANGED <<check, cfg, world, access, silences, misses, quiet, skipped>>
  BY DEF Write
<1>2. used' \in [Events -> Nat] /\ used'["ops"] # used["ops"]
  BY Uses DEF Write, Events, AlertInv, CheckInv
<1>3. alerts' = [alerts EXCEPT ![id] = row] /\ alerts' \in [IDs -> Rows]
  BY DEF Write, AlertInv, CheckInv
<1> DEFINE raced == run.raced \/ Racing(id)
<1>4. run' = [run EXCEPT !.raced = raced] /\ raced \in BOOLEAN /\ run \in Runs
  BY DEF Write, AlertInv, CheckInv, Runs, Racing
<1> HIDE DEF raced
<1>5. /\ run' \in Runs /\ run'.raced = raced
      /\ run'.pc = run.pc /\ run'.todo = run.todo /\ run'.alert = run.alert /\ run'.existing = run.existing
      /\ run'.detected = run.detected /\ run'.covered = run.covered /\ run'.fixed = run.fixed
  BY <1>4 DEF Runs
<1>6. CheckInv'
  BY <1>1, <1>2, <1>3, <1>5, LooksKept DEF AlertInv, CheckInv, Runs
<1>7. RunInv'
  <2>1. run'.pc \in Saving => run'.alert \in Findings
    BY <1>5 DEF AlertInv, RunInv
  <2>2. ASSUME run'.pc = "save", ~run'.raced
        PROVE  run'.existing = alerts'[AlertID(run'.alert)]
    <3>1. run.pc = "save" /\ ~run.raced /\ AlertID(run.alert) # id
      BY <1>5, <2>2 DEF raced, Racing
    <3>2. run.existing = alerts[AlertID(run.alert)]
      BY <3>1 DEF AlertInv, RunInv
    <3>3. alerts'[AlertID(run.alert)] = alerts[AlertID(run.alert)]
      <4>1. AlertID(run.alert) \in IDs
        BY <3>1, FindingIDs DEF AlertInv, RunInv, Saving
      <4> QED BY <1>3, <3>1, <4>1 DEF AlertInv, CheckInv
    <3> QED BY <1>5, <3>2, <3>3
  <2>3. run'.pc = "read" => run'.todo = {} /\ run'.detected = {} /\ run'.covered = {}
    BY <1>5 DEF AlertInv, RunInv
  <2>4. Findings' = Findings
    BY <1>1, LooksKept
  <2> QED BY <2>1, <2>2, <2>3, <2>4 DEF RunInv
<1>8. MissesInv' /\ FixedInv'
  BY <1>1, <1>5, CountsKept DEF AlertInv
<1> QED BY <1>2, <1>6, <1>7, <1>8 DEF AlertInv

LEMMA OperatorInv == ASSUME AlertInv, Operator PROVE AlertInv' /\ used'["ops"] # used["ops"]
<1>1. PICK id \in IDs :
        \/ \E status \in {"active", "acknowledged", "ignored"} : updateAlertStatus(id, status)
        \/ resolveAlert(id)
        \/ deleteAlert(id)
  BY DEF Operator, AlertInv, CheckInv
<1>2. alerts[id] \in Rows /\ lost \subseteq IDs
  BY DEF AlertInv, CheckInv
<1>3. ASSUME NEW status \in {"active", "acknowledged", "ignored"}, updateAlertStatus(id, status)
      PROVE  AlertInv' /\ used'["ops"] # used["ops"]
  <2>1. UpdateRow(alerts[id], status) \in Rows
    BY <1>2, WrittenRows
  <2>2. Write(id, UpdateRow(alerts[id], status)) /\ lost' \subseteq IDs
    BY <1>2, <1>3 DEF updateAlertStatus
  <2> QED BY <2>1, <2>2, WriteInv
<1>4. ASSUME resolveAlert(id) PROVE AlertInv' /\ used'["ops"] # used["ops"]
  <2>1. [alerts[id] EXCEPT !.status = "resolved", !.updated = 0] \in Rows
    BY <1>2, WrittenRows
  <2>2. Write(id, [alerts[id] EXCEPT !.status = "resolved", !.updated = 0]) /\ lost' \subseteq IDs
    BY <1>2, <1>4 DEF resolveAlert
  <2> QED BY <2>1, <2>2, WriteInv
<1>5. ASSUME deleteAlert(id) PROVE AlertInv' /\ used'["ops"] # used["ops"]
  <2>1. Write(id, NoRow) /\ lost' \subseteq IDs
    BY <1>2, <1>5 DEF deleteAlert
  <2> QED BY <2>1, NoRowRow, WriteInv
<1> QED BY <1>1, <1>3, <1>4, <1>5

-----------------------------------------------------------------------------
(* CheckAlerts: a run.                                                       *)

\* What stays as it was in the steps of a run that read or save.
LEMMA RunKept ==
  ASSUME AlertInv, UNCHANGED <<check, cfg, world, access, silences, lost, misses, quiet, skipped>>,
         alerts' \in [IDs -> Rows], used' \in [Events -> Nat], run' \in Runs
  PROVE  CheckInv'
BY LooksKept DEF AlertInv, CheckInv, Runs

LEMMA scopeRealmsInv == ASSUME AlertInv, scopeRealms PROVE AlertInv'
<1> DEFINE listed == CASE access = "ok" -> "checked"
                       [] access = "disabled" -> "visible"
                       [] access = "stub" -> "unreadable"
                       [] OTHER -> "no"
<1>1. UNCHANGED <<check, cfg, world, access, silences, alerts, misses, quiet, lost, skipped, used>>
  BY DEF scopeRealms
<1>2. listed \in {"no", "checked", "visible", "unreadable"}
  OBVIOUS
<1>3. run' = [NoRun EXCEPT !.pc = "read", !.listed = listed]
  BY DEF scopeRealms
<1> HIDE DEF listed
<1>4. /\ run' \in Runs /\ run'.pc = "read"
      /\ run'.todo = {} /\ run'.detected = {} /\ run'.covered = {} /\ run'.fixed = {}
  BY <1>2, <1>3, NoRunRun DEF NoRun, Runs
<1>5. CheckInv'
  BY <1>1, <1>4, RunKept DEF AlertInv, CheckInv
<1>6. RunInv'
  BY <1>4 DEF RunInv, Saving
<1>7. MissesInv'
  <2>1. run.pc = "idle"
    BY DEF scopeRealms
  <2> SUFFICES ASSUME NEW id \in IDs PROVE (id \in skipped \/ Counted(id)') /\ (Config \/ misses[id] = 0)
    BY <1>1, LooksKept DEF MissesInv
  <2>2. (id \in skipped \/ Counted(id)) /\ (Config \/ misses[id] = 0)
    BY DEF AlertInv, MissesInv
  <2>3. id \in skipped \/ quiet[id] >= misses[id]
    BY <2>1, <2>2 DEF Counted, Saving
  <2> QED BY <1>1, <1>4, <2>2, <2>3 DEF Counted, Saving
<1>8. FixedInv'
  BY <1>4 DEF FixedInv
<1> QED BY <1>5, <1>6, <1>7, <1>8 DEF AlertInv

LEMMA EvaluateInv == ASSUME AlertInv, Evaluate PROVE AlertInv'
<1> DEFINE seen == Found(check, cfg, world)
           cover == {id \in IDs : Covers(id, world)}
           detects == {AlertID(a) : a \in seen}
<1>1. /\ UNCHANGED <<check, cfg, world, access, silences, alerts, misses, lost, skipped>> /\ run.pc = "read"
      /\ run \in Runs /\ run.todo = {} /\ run.detected = {} /\ run.covered = {}
  BY DEF Evaluate, AlertInv, CheckInv, RunInv
<1>2. /\ seen \subseteq Findings /\ detects \subseteq IDs /\ cover \subseteq IDs
      /\ DOMAIN alerts = IDs /\ DOMAIN quiet = IDs
  BY FindingIDs DEF AlertInv, CheckInv
<1>3. \A id \in IDs : (id \in skipped \/ quiet[id] >= misses[id]) /\ (Config \/ misses[id] = 0)
  BY <1>1 DEF AlertInv, MissesInv, Counted, Saving
<1>4. \A id \in IDs : quiet[id] \in 0 .. 2 /\ misses[id] \in 0 .. 2
  BY DEF AlertInv, CheckInv
<1>5. used \in [Events -> Nat]
  BY DEF AlertInv, CheckInv
<1>6. CASE /\ run' = [run EXCEPT !.pc = "alerts", !.todo = seen, !.covered = cover, !.detected = detects]
           /\ quiet' = [id \in IDs |->
                          IF id \in cover /\ looksFor(id)
                          THEN IF id \in Problems(world) THEN 0 ELSE Quieter(quiet[id])
                          ELSE quiet[id]]
           /\ UNCHANGED used
  <2> HIDE DEF seen, cover, detects
  <2>1. /\ run' \in Runs /\ run'.pc = "alerts" /\ run'.covered = cover /\ run'.detected = detects
    BY <1>1, <1>2, <1>6 DEF Runs
  <2>2. ASSUME NEW id \in IDs
        PROVE  /\ quiet'[id] \in 0 .. 2
               /\ ~(id \in cover /\ looksFor(id)) => quiet'[id] = quiet[id]
               /\ id \in cover /\ looksFor(id) /\ id \notin Problems(world) => quiet'[id] = Quieter(quiet[id])
    <3>1. Quieter(quiet[id]) \in 0 .. 2
      BY <1>4 DEF Quieter
    <3> QED BY <1>4, <1>6, <3>1
  <2>3. quiet' \in [IDs -> 0 .. 2]
    BY <1>6, <2>2
  <2>4. CheckInv'
    BY <1>1, <1>5, <1>6, <2>1, <2>3, LooksKept DEF AlertInv, CheckInv, Runs
  <2>5. RunInv'
    BY <2>1 DEF RunInv, Saving
  <2>6. MissesInv'
    <3> SUFFICES ASSUME NEW id \in IDs, id \notin skipped, id \notin detects
                 PROVE  IF id \in cover /\ looksFor(id)
                        THEN quiet'[id] = 2 \/ quiet'[id] > misses[id]
                        ELSE quiet'[id] >= misses[id]
      <4>1. IDs' = IDs /\ Config' = Config /\ \A id \in IDs : looksFor(id)' = looksFor(id)
        BY <1>1 DEF looksFor, IDs, Config
      <4> QED BY <1>1, <1>3, <2>1, <4>1 DEF MissesInv, Counted, Saving
    <3>1. CASE ~(id \in cover /\ looksFor(id))
      BY <1>3, <2>2, <3>1
    <3>2. CASE id \in cover /\ looksFor(id)
      <4>1. id \notin Problems(world)
        BY <3>2, ProblemFound DEF detects, seen, AlertInv, CheckInv
      <4> QED BY <1>3, <1>4, <2>2, <3>2, <4>1 DEF Quieter
    <3> QED BY <3>1, <3>2
  <2>7. FixedInv'
    BY <2>1 DEF FixedInv
  <2> QED BY <2>4, <2>5, <2>6, <2>7 DEF AlertInv
<1>7. ASSUME run' \in Runs, run'.pc \in {"idle", "alerts"}, run'.detected = {}, run'.covered = {},
             UNCHANGED quiet, used' \in [Events -> Nat]
      PROVE  AlertInv'
  <2>1. CheckInv'
    BY <1>1, <1>7, RunKept DEF AlertInv, CheckInv
  <2>2. RunInv' /\ FixedInv'
    BY <1>7 DEF RunInv, FixedInv, Saving
  <2>3. MissesInv'
    BY <1>1, <1>3, <1>7, LooksKept DEF MissesInv, Counted, Saving
  <2> QED BY <2>1, <2>2, <2>3 DEF AlertInv
<1>8. CASE /\ run' = IF Config
                     THEN [run EXCEPT !.pc = "alerts",
                             !.listed = IF run.listed = "checked" /\ check = "realm"
                                           /\ access \in {"stub", "unlisted"}
                                        THEN "unreadable" ELSE @]
                     ELSE NoRun
           /\ UNCHANGED <<quiet, used>>
  <2>1. run' \in Runs /\ run'.pc \in {"idle", "alerts"} /\ run'.detected = {} /\ run'.covered = {}
    <3>1. CASE Config
      BY <1>1, <1>8, <3>1 DEF Runs
    <3>2. CASE ~Config
      BY <1>8, <3>2, NoRunRun DEF NoRun
    <3> QED BY <3>1, <3>2
  <2> QED BY <1>5, <1>7, <1>8, <2>1
<1>9. CASE Fault /\ (run' = IF Config THEN [run EXCEPT !.pc = "alerts"] ELSE NoRun) /\ UNCHANGED quiet
  <2>1. run' \in Runs /\ run'.pc \in {"idle", "alerts"} /\ run'.detected = {} /\ run'.covered = {}
    <3>1. CASE Config
      BY <1>1, <1>9, <3>1 DEF Runs
    <3>2. CASE ~Config
      BY <1>9, <3>2, NoRunRun DEF NoRun
    <3> QED BY <3>1, <3>2
  <2> QED BY <1>5, <1>7, <1>9, <2>1, FaultUses
<1> QED BY <1>2, <1>6, <1>8, <1>9 DEF Evaluate

LEMMA LookupInv == ASSUME AlertInv, NEW a \in run.todo, Lookup(a) PROVE AlertInv'
<1>1. /\ UNCHANGED <<check, cfg, world, access, silences, alerts, misses, quiet, lost, skipped>>
      /\ run.pc = "alerts" /\ run \in Runs /\ used \in [Events -> Nat] /\ alerts \in [IDs -> Rows]
  BY DEF Lookup, AlertInv, CheckInv
<1>2. a \in Findings /\ AlertID(a) \in IDs
  BY <1>1, FindingIDs DEF Runs
<1>3. ASSUME run' \in Runs, used' \in [Events -> Nat],
             run'.pc = "alerts" \/ (run'.pc = "save" /\ run'.alert = a /\ run'.existing = alerts[AlertID(a)]),
             run'.detected = run.detected, run'.covered = run.covered, run'.fixed = run.fixed
      PROVE  AlertInv'
  <2>1. CheckInv'
    BY <1>1, <1>3, RunKept
  <2>2. RunInv'
    BY <1>1, <1>2, <1>3, LooksKept DEF RunInv, Saving
  <2>3. MissesInv' /\ FixedInv'
    BY <1>1, <1>3, CountsKept DEF AlertInv, Looking, Saving
  <2> QED BY <2>1, <2>2, <2>3 DEF AlertInv
<1>4. CASE /\ run' = [run EXCEPT !.pc = "save", !.todo = @ \ {a}, !.alert = a, !.existing = alerts[AlertID(a)]]
           /\ UNCHANGED used
  <2> DEFINE row == alerts[AlertID(a)]
  <2>1. row \in Rows
    BY <1>1, <1>2
  <2> HIDE DEF row
  <2>2. run' = [run EXCEPT !.pc = "save", !.todo = @ \ {a}, !.alert = a, !.existing = row]
    BY <1>4 DEF row
  <2>3. /\ run' \in Runs /\ run'.pc = "save" /\ run'.alert = a /\ run'.existing = row
        /\ run'.detected = run.detected /\ run'.covered = run.covered /\ run'.fixed = run.fixed
    BY <1>1, <1>2, <2>1, <2>2 DEF Runs, Saving
  <2> QED BY <1>1, <1>3, <1>4, <2>3 DEF row
<1>5. CASE run' = [run EXCEPT !.todo = @ \ {a}] /\ used' \in [Events -> Nat]
  <2>1. /\ run' \in Runs /\ run'.pc = "alerts"
        /\ run'.detected = run.detected /\ run'.covered = run.covered /\ run'.fixed = run.fixed
    BY <1>1, <1>5 DEF Runs
  <2> QED BY <1>3, <1>5, <2>1
<1> QED BY <1>1, <1>4, <1>5, FaultUses DEF Lookup, LookupFails

\* A run done with its alert keeps what it has looked at.
LEMMA NextAlertRun ==
  ASSUME run \in Runs, NEW pc \in {"supersede", "notify", "alerts"}
  PROVE  /\ NextAlert(pc) \in Runs /\ NextAlert(pc).pc = pc
         /\ pc # "alerts" => NextAlert(pc).alert = run.alert
         /\ NextAlert(pc).detected = run.detected /\ NextAlert(pc).covered = run.covered
         /\ NextAlert(pc).fixed = run.fixed
<1> DEFINE alert == IF pc = "alerts" THEN None ELSE run.alert
           notify == IF pc = "alerts" THEN FALSE ELSE run.notify
<1>1. alert \in Findings \cup {None} /\ notify \in BOOLEAN /\ run.notify \in BOOLEAN
  BY DEF Runs
<1>2. NextAlert(pc) = [run EXCEPT !.pc = pc, !.existing = NoRow, !.raced = FALSE,
                                  !.alert = alert, !.notify = notify]
  BY DEF NextAlert, Runs
<1>3. pc \in {"idle", "read", "alerts", "clear", "resolve"} \cup Saving
  BY DEF Saving
<1> HIDE DEF notify
<1>4. alert = IF pc = "alerts" THEN None ELSE run.alert
  OBVIOUS
<1> HIDE DEF alert
<1>5. /\ NextAlert(pc) \in Runs /\ NextAlert(pc).pc = pc /\ NextAlert(pc).alert = alert
      /\ NextAlert(pc).detected = run.detected /\ NextAlert(pc).covered = run.covered
      /\ NextAlert(pc).fixed = run.fixed
  BY <1>1, <1>2, <1>3, NoRowRow DEF Runs
<1> QED BY <1>4, <1>5

\* A step of a run that saves or announces its alert.
LEMMA SavingStep ==
  ASSUME AlertInv, run.pc \in Saving,
         UNCHANGED <<check, cfg, world, access, silences, misses, quiet, lost, skipped>>,
         alerts' \in [IDs -> Rows], used' \in [Events -> Nat], run' \in Runs,
         run'.pc \in {"supersede", "notify", "alerts"}, run'.pc # "alerts" => run'.alert = run.alert,
         run'.detected = run.detected, run'.covered = run.covered, run'.fixed = run.fixed
  PROVE  AlertInv'
<1>1. CheckInv'
  BY RunKept
<1>2. RunInv'
  BY LooksKept DEF AlertInv, RunInv, Saving
<1>3. MissesInv' /\ FixedInv'
  BY CountsKept DEF AlertInv, Looking, Saving
<1> QED BY <1>1, <1>2, <1>3 DEF AlertInv

LEMMA SaveRowRow ==
  ASSUME NEW row \in Rows, NEW status \in Statuses, NEW notify \in BOOLEAN
  PROVE  SaveRow(row, status, notify) \in Rows
<1> DEFINE acked == status # "active" /\ row.acked
           notified == IF notify THEN 0 ELSE row.notified
           announced == row.announced /\ ~(row.status = "resolved" /\ status # "resolved")
<1>1. acked \in BOOLEAN /\ announced \in BOOLEAN
  BY DEF Rows
<1>2. 0 \in 0 .. MaxAge /\ notified \in Never .. MaxAge
  BY MaxAgeNat DEF Rows, Never
<1>3. SaveRow(row, status, notify)
        = [status |-> status, acked |-> acked, seen |-> 0, updated |-> 0,
           notified |-> notified, announced |-> announced]
  BY DEF SaveRow
<1> HIDE DEF acked, notified, announced
<1> QED BY <1>1, <1>2, <1>3 DEF Rows

\* What SaveAlert saves: the status the lookup read, unless the alert is new or
\* starts again.
Fresh == run.existing.status = "absent" \/ Reopens(run.existing)

LEMMA SaveAlertStep ==
  ASSUME AlertInv, SaveAlert
  PROVE  /\ AlertInv'
         /\ \/ \E notify \in BOOLEAN :
                 alerts' = [alerts EXCEPT ![AlertID(run.alert)] =
                              SaveRow(@, IF Fresh THEN "active" ELSE run.existing.status, notify)]
            \/ UNCHANGED alerts
<1> DEFINE id == AlertID(run.alert)
           notify == Fresh \/ RenotifyDue(run.existing)
           status == IF Fresh THEN "active" ELSE run.existing.status
<1>1. /\ UNCHANGED <<check, cfg, world, access, silences, misses, quiet, lost, skipped>>
      /\ run.pc = "save" /\ run.pc \in Saving
      /\ run \in Runs /\ used \in [Events -> Nat] /\ alerts \in [IDs -> Rows]
  BY DEF SaveAlert, Saving, AlertInv, CheckInv
<1>2. id \in IDs /\ run.existing \in Rows /\ status \in Statuses
  BY <1>1, FindingIDs DEF AlertInv, RunInv, Runs, Rows, Statuses
<1>3. notify \in BOOLEAN
  BY DEF Fresh
<1>4. \/ /\ alerts' = [alerts EXCEPT ![id] = SaveRow(@, status, notify)]
         /\ run' = IF Supersedes(run.alert) # {} THEN [NextAlert("supersede") EXCEPT !.notify = notify]
                   ELSE NextAlert(IF notify THEN "notify" ELSE "alerts")
         /\ UNCHANGED used
      \/ Fault /\ run' = NextAlert("alerts") /\ UNCHANGED alerts
  BY DEF SaveAlert, Fresh
<1> HIDE DEF id, notify, status
<1>5. CASE /\ alerts' = [alerts EXCEPT ![id] = SaveRow(@, status, notify)]
           /\ run' = IF Supersedes(run.alert) # {} THEN [NextAlert("supersede") EXCEPT !.notify = notify]
                     ELSE NextAlert(IF notify THEN "notify" ELSE "alerts")
           /\ UNCHANGED used
  <2>1. alerts' \in [IDs -> Rows]
    <3>1. SaveRow(alerts[id], status, notify) \in Rows
      BY <1>1, <1>2, <1>3, SaveRowRow
    <3> QED BY <1>1, <1>2, <1>5, <3>1
  <2>2. /\ run' \in Runs /\ run'.pc \in {"supersede", "notify", "alerts"}
        /\ run'.pc # "alerts" => run'.alert = run.alert
        /\ run'.detected = run.detected /\ run'.covered = run.covered /\ run'.fixed = run.fixed
    <3>1. CASE Supersedes(run.alert) # {}
      <4> DEFINE next == NextAlert("supersede")
      <4>1. /\ next \in Runs /\ next.pc = "supersede" /\ next.alert = run.alert
            /\ next.detected = run.detected /\ next.covered = run.covered /\ next.fixed = run.fixed
        BY <1>1, NextAlertRun
      <4>2. run' = [next EXCEPT !.notify = notify]
        BY <1>5, <3>1
      <4> HIDE DEF next
      <4> QED BY <1>3, <4>1, <4>2 DEF Runs
    <3>2. CASE Supersedes(run.alert) = {} /\ notify
      BY <1>1, <1>5, <3>2, NextAlertRun
    <3>3. CASE Supersedes(run.alert) = {} /\ ~notify
      BY <1>1, <1>5, <3>3, NextAlertRun
    <3> QED BY <3>1, <3>2, <3>3
  <2>3. AlertInv'
    BY <1>1, <1>5, <2>1, <2>2, SavingStep
  <2> QED BY <1>3, <1>5, <2>3 DEF id, status
<1>6. CASE Fault /\ run' = NextAlert("alerts") /\ UNCHANGED alerts
  BY <1>1, <1>6, NextAlertRun, FaultUses, SavingStep
<1> QED BY <1>4, <1>5, <1>6

LEMMA resolveSupersededInv == ASSUME AlertInv, resolveSuperseded PROVE AlertInv'
<1>1. /\ UNCHANGED <<check, cfg, world, access, silences, misses, quiet, lost, skipped>>
      /\ run.pc \in Saving /\ run \in Runs /\ used \in [Events -> Nat] /\ alerts \in [IDs -> Rows]
      /\ DOMAIN alerts = IDs
  BY DEF resolveSuperseded, Saving, AlertInv, CheckInv
<1>2. run' = NextAlert(IF run.notify THEN "notify" ELSE "alerts")
  BY DEF resolveSuperseded
<1>3. /\ run' \in Runs /\ run'.pc \in {"supersede", "notify", "alerts"}
      /\ run'.pc # "alerts" => run'.alert = run.alert
      /\ run'.detected = run.detected /\ run'.covered = run.covered /\ run'.fixed = run.fixed
  <2>1. CASE run.notify
    BY <1>1, <1>2, <2>1, NextAlertRun
  <2>2. CASE ~run.notify
    BY <1>1, <1>2, <2>2, NextAlertRun
  <2> QED BY <2>1, <2>2
<1>4. alerts' \in [IDs -> Rows]
  <2>1. \A id \in IDs : [alerts[id] EXCEPT !.status = "resolved", !.updated = 0] \in Rows
    BY <1>1, WrittenRows
  <2> QED BY <1>1, <2>1 DEF resolveSuperseded
<1>5. used' \in [Events -> Nat]
  BY <1>1, FaultUses DEF resolveSuperseded
<1> QED BY <1>1, <1>3, <1>4, <1>5, SavingStep

LEMMA NotifyAlertInv == ASSUME AlertInv, NotifyAlert PROVE AlertInv'
<1>1. /\ UNCHANGED <<check, cfg, world, access, silences, misses, quiet, lost, skipped>>
      /\ run.pc \in Saving /\ run \in Runs /\ used \in [Events -> Nat] /\ alerts \in [IDs -> Rows]
      /\ run' = NextAlert("alerts")
  BY DEF NotifyAlert, Saving, AlertInv, CheckInv
<1>2. /\ run' \in Runs /\ run'.pc = "alerts"
      /\ run'.detected = run.detected /\ run'.covered = run.covered /\ run'.fixed = run.fixed
  BY <1>1, NextAlertRun
<1>3. alerts' \in [IDs -> Rows]
  <2> DEFINE id == AlertID(run.alert)
             announced == alerts[id].status # "absent"
  <2>1. id \in IDs
    BY <1>1, FindingIDs DEF AlertInv, RunInv
  <2>2. announced \in BOOLEAN
    OBVIOUS
  <2>3. alerts' = [alerts EXCEPT ![id].announced = announced] \/ UNCHANGED alerts
    BY DEF NotifyAlert
  <2> HIDE DEF id, announced
  <2>4. [alerts[id] EXCEPT !.announced = announced] \in Rows
    BY <1>1, <2>1, <2>2 DEF Rows
  <2> QED BY <1>1, <2>1, <2>3, <2>4
<1>4. used' \in [Events -> Nat]
  BY <1>1, FaultUses DEF NotifyAlert
<1> QED BY <1>1, <1>2, <1>3, <1>4, SavingStep

LEMMA resolveFixedInv == ASSUME AlertInv, resolveFixed PROVE AlertInv'
<1> DEFINE counts(id) == IF Open(alerts[id]) THEN MissesAfter(id) ELSE 0
           fixed == {id \in IDs : counts(id) > misses[id] /\ counts(id) >= 2}
           gone(id) == id \notin run.covered /\ goneWith
<1>1. /\ UNCHANGED <<check, cfg, world, access, silences, alerts, lost>>
      /\ Config /\ run.pc = "alerts" /\ run \in Runs /\ used \in [Events -> Nat]
      /\ DOMAIN alerts = IDs /\ DOMAIN misses = IDs /\ DOMAIN quiet = IDs /\ alerts \in [IDs -> Rows]
      /\ skipped \subseteq IDs
  BY DEF resolveFixed, AlertInv, CheckInv
<1>2. IDs' = IDs /\ Findings' = Findings /\ Config'
  BY <1>1, LooksKept
<1>3. \A id \in IDs : quiet[id] \in 0 .. 2 /\ misses[id] \in 0 .. 2
  BY DEF AlertInv, CheckInv
<1>4. ASSUME NEW id \in IDs, id \notin skipped, id \notin run.detected
      PROVE  IF id \in run.covered /\ looksFor(id)
             THEN quiet[id] = 2 \/ quiet[id] > misses[id]
             ELSE quiet[id] >= misses[id]
  BY <1>1, <1>4 DEF AlertInv, MissesInv, Counted
<1>5. ASSUME NEW id \in IDs
      PROVE  counts(id) \in 0 .. 3
  <2>1. misses[id] \in 0 .. 2
    BY <1>3
  <2>2. MissesAfter(id) \in {0, misses[id] + 1, misses[id]}
    BY DEF MissesAfter
  <2> QED BY <2>1, <2>2
<1>6. ASSUME NEW id \in IDs, counts(id) > 0
      PROVE  id \notin run.detected /\ counts(id) \in {misses[id], misses[id] + 1}
  BY <1>6 DEF MissesAfter
<1>7. ASSUME NEW id \in IDs, counts(id) > misses[id]
      PROVE  (id \in run.covered /\ looksFor(id)) \/ gone(id)
  <2>1. counts(id) > 0
    BY <1>3, <1>5, <1>7
  <2>2. id \notin run.detected /\ Open(alerts[id])
    BY <1>6, <2>1
  <2>3. MissesAfter(id) # misses[id]
    BY <1>3, <1>7, <2>2
  <2> QED BY <2>2, <2>3 DEF MissesAfter
<1>8. CASE /\ misses' = [id \in IDs |-> IF counts(id) < 2 THEN counts(id) ELSE 2]
           /\ run' = [run EXCEPT !.pc = "clear", !.fixed = fixed]
           /\ quiet' = [id \in IDs |-> IF gone(id) THEN Quieter(quiet[id]) ELSE quiet[id]]
           /\ skipped' = {id \in skipped : counts(id) > 0}
           /\ UNCHANGED used
  <2>1. fixed \in SUBSET IDs
    OBVIOUS
  <2>2. run' \in Runs /\ run'.pc = "clear" /\ run'.fixed = fixed
    <3> HIDE DEF fixed
    <3> QED BY <1>1, <1>8, <2>1 DEF Runs
  <2>3. ASSUME NEW id \in IDs
        PROVE  /\ quiet'[id] \in 0 .. 2 /\ quiet'[id] >= quiet[id]
               /\ gone(id) => quiet'[id] = 2 \/ quiet'[id] = quiet[id] + 1
    <3>1. /\ Quieter(quiet[id]) \in 0 .. 2 /\ Quieter(quiet[id]) >= quiet[id]
          /\ Quieter(quiet[id]) = 2 \/ Quieter(quiet[id]) = quiet[id] + 1
      BY <1>3 DEF Quieter
    <3>2. quiet'[id] = IF gone(id) THEN Quieter(quiet[id]) ELSE quiet[id]
      BY <1>8
    <3> HIDE DEF gone
    <3> QED BY <1>3, <3>1, <3>2
  <2>4. ASSUME NEW id \in IDs
        PROVE  misses'[id] = (IF counts(id) < 2 THEN counts(id) ELSE 2) /\ misses'[id] \in 0 .. 2
    <3>1. misses'[id] = IF counts(id) < 2 THEN counts(id) ELSE 2
      BY <1>8
    <3> HIDE DEF counts
    <3> QED BY <1>5, <3>1
  <2>5. CheckInv'
    <3>1. quiet' \in [IDs -> 0 .. 2] /\ misses' \in [IDs -> 0 .. 2]
      BY <1>8, <2>3, <2>4
    <3>2. skipped' \subseteq IDs
      BY <1>1, <1>8
    <3>3. Runs' = Runs
      BY <1>2 DEF Runs
    <3> QED BY <1>1, <1>2, <1>8, <2>2, <3>1, <3>2, <3>3 DEF AlertInv, CheckInv
  <2>6. ASSUME NEW id \in IDs, id \notin skipped', counts(id) > 0
        PROVE  quiet'[id] = 2 \/ quiet'[id] >= counts(id)
    <3>1. id \notin skipped
      BY <1>8, <2>6
    <3>2. id \notin run.detected /\ counts(id) \in {misses[id], misses[id] + 1}
      BY <1>6, <2>6
    <3>3. CASE id \in run.covered /\ looksFor(id)
      <4>1. quiet[id] = 2 \/ quiet[id] > misses[id]
        BY <1>4, <3>1, <3>2, <3>3
      <4> HIDE DEF counts
      <4> QED BY <1>3, <2>3, <3>2, <4>1
    <3>4. CASE ~(id \in run.covered /\ looksFor(id))
      <4>1. quiet[id] >= misses[id]
        BY <1>4, <3>1, <3>2, <3>4
      <4>2. CASE counts(id) > misses[id]
        <5>1. gone(id)
          BY <1>7, <3>4, <4>2
        <5> HIDE DEF counts, gone
        <5> QED BY <1>3, <2>3, <3>2, <4>1, <5>1
      <4>3. CASE ~(counts(id) > misses[id])
        <5>1. counts(id) = misses[id]
          <6> HIDE DEF counts
          <6> QED BY <1>3, <3>2, <4>3
        <5> HIDE DEF counts
        <5> QED BY <1>3, <2>3, <4>1, <5>1
      <4> QED BY <4>2, <4>3
    <3> QED BY <3>3, <3>4
  <2>7. RunInv'
    BY <2>2 DEF RunInv, Saving
  <2>8. MissesInv'
    <3> SUFFICES ASSUME NEW id \in IDs, id \notin skipped' PROVE quiet'[id] >= misses'[id]
      BY <1>2, <2>2 DEF MissesInv, Counted, Saving
    <3> HIDE DEF counts
    <3> QED BY <1>5, <2>3, <2>4, <2>6
  <2>9. FixedInv'
    <3> SUFFICES ASSUME NEW id \in fixed, id \notin skipped' PROVE quiet'[id] >= 2
      BY <1>2, <2>2 DEF FixedInv
    <3>1. id \in IDs /\ counts(id) >= 2
      OBVIOUS
    <3> HIDE DEF counts, fixed
    <3> QED BY <1>5, <2>3, <2>6, <3>1
  <2> QED BY <2>5, <2>7, <2>8, <2>9 DEF AlertInv
<1>9. CASE /\ Fault /\ run' = NoRun
           /\ skipped' = skipped \cup {id \in run.detected : misses[id] > 0}
           /\ UNCHANGED <<misses, quiet>>
  <2>1. skipped' \subseteq IDs
    BY <1>1, <1>9 DEF Runs
  <2>2. CheckInv'
    BY <1>1, <1>2, <1>9, <2>1, NoRunRun, FaultUses DEF AlertInv, CheckInv, Runs
  <2>3. RunInv' /\ FixedInv'
    BY <1>9, NoRunRun DEF RunInv, FixedInv, Saving
  <2>4. MissesInv'
    <3> SUFFICES ASSUME NEW id \in IDs, id \notin skipped' PROVE quiet[id] >= misses[id]
      BY <1>2, <1>9, NoRunRun DEF MissesInv, Counted, Saving
    <3>1. id \notin skipped /\ (id \in run.detected => ~(misses[id] > 0))
      BY <1>9
    <3> QED BY <1>3, <1>4, <3>1
  <2> QED BY <2>2, <2>3, <2>4 DEF AlertInv
<1> QED BY <1>1, <1>8, <1>9 DEF resolveFixed, missesToResolve

LEMMA ListOpenInv == ASSUME AlertInv, ListOpenAlertsByCheck PROVE AlertInv'
<1> DEFINE clear == {id \in IF Config THEN run.fixed ELSE Cleared : Open(alerts[id])}
<1>1. /\ UNCHANGED <<check, cfg, world, access, silences, alerts, misses, quiet, lost, skipped>>
      /\ (Config /\ run.pc = "clear") \/ (~Config /\ run.pc = "alerts")
      /\ run \in Runs /\ used \in [Events -> Nat]
  BY DEF ListOpenAlertsByCheck, AlertInv, CheckInv
<1>2. \/ (run' = IF clear = {} THEN NoRun ELSE [NoRun EXCEPT !.pc = "resolve", !.fixed = clear]) /\ UNCHANGED used
      \/ Fault /\ run' = NoRun
  BY DEF ListOpenAlertsByCheck
<1>3. clear \subseteq IDs
  BY <1>1 DEF Cleared, Runs
<1>4. \A id \in clear : id \in IF Config THEN run.fixed ELSE Cleared
  OBVIOUS
<1> HIDE DEF clear
<1>5. /\ run' \in Runs /\ used' \in [Events -> Nat] /\ run'.pc \in {"idle", "resolve"}
      /\ run'.pc = "resolve" => run'.fixed = clear
  <2>1. /\ [NoRun EXCEPT !.pc = "resolve", !.fixed = clear] \in Runs
        /\ [NoRun EXCEPT !.pc = "resolve", !.fixed = clear].pc = "resolve"
        /\ [NoRun EXCEPT !.pc = "resolve", !.fixed = clear].fixed = clear
    BY <1>3, NoRunRun DEF Runs
  <2> QED BY <1>1, <1>2, <2>1, NoRunRun, FaultUses
<1>6. \A id \in IDs : quiet[id] \in 0 .. 2 /\ misses[id] \in 0 .. 2
  BY DEF AlertInv, CheckInv
<1>7. CheckInv'
  BY <1>1, <1>5, RunKept DEF AlertInv, CheckInv
<1>8. RunInv'
  BY <1>5 DEF RunInv, Saving
<1>9. ASSUME NEW id \in IDs, id \notin skipped
      PROVE  Counted(id)
  BY <1>9 DEF AlertInv, MissesInv
<1>10. ASSUME ~Config, NEW id \in IDs PROVE looksFor(id)
  BY <1>10 DEF Config, looksFor
<1>11. MissesInv'
  <2> SUFFICES ASSUME NEW id \in IDs PROVE (id \in skipped \/ quiet[id] >= misses[id]) /\ (Config \/ misses[id] = 0)
    BY <1>1, <1>5, LooksKept DEF MissesInv, Counted, Saving
  <2>1. Config \/ misses[id] = 0
    BY DEF AlertInv, MissesInv
  <2>2. CASE Config
    BY <1>1, <1>9, <2>2 DEF Counted, Saving
  <2>3. CASE ~Config
    BY <1>6, <2>1, <2>3
  <2> QED BY <2>1, <2>2, <2>3
<1>12. FixedInv'
  <2> SUFFICES ASSUME run'.pc = "resolve", NEW id \in clear, id \notin skipped
               PROVE  quiet[id] >= IF Config THEN 2 ELSE 1
    BY <1>1, <1>5, LooksKept DEF FixedInv
  <2>1. CASE Config
    BY <1>1, <1>4, <2>1 DEF AlertInv, FixedInv
  <2>2. CASE ~Config
    <3>1. id \in IDs /\ id \in run.covered /\ id \notin run.detected /\ run.pc = "alerts"
      BY <1>1, <1>3, <1>4, <2>2 DEF Cleared
    <3>2. quiet[id] = 2 \/ quiet[id] > misses[id]
      BY <1>9, <1>10, <2>2, <3>1 DEF Counted
    <3> QED BY <1>6, <2>2, <3>1, <3>2
  <2> QED BY <2>1, <2>2
<1> QED BY <1>7, <1>8, <1>11, <1>12 DEF AlertInv

\* A resolved alert was to be resolved, and the row is otherwise as it was.
LEMMA ResolveAlertStep ==
  ASSUME AlertInv, ResolveAlert
  PROVE  /\ AlertInv' /\ run.pc = "resolve"
         /\ \A id \in IDs \ run.fixed : alerts'[id] = alerts[id]
<1>1. PICK id \in run.fixed :
        /\ run' = IF run.fixed = {id} THEN NoRun ELSE [run EXCEPT !.fixed = @ \ {id}]
        /\ \/ /\ alerts' = [alerts EXCEPT ![id] = IF @.status = "absent" THEN @
                               ELSE [@ EXCEPT !.status = "resolved", !.updated = 0]]
              /\ UNCHANGED used
           \/ Fault /\ UNCHANGED alerts
  BY DEF ResolveAlert
<1>2. /\ UNCHANGED <<check, cfg, world, access, silences, misses, quiet, lost, skipped>>
      /\ run.pc = "resolve" /\ run \in Runs /\ used \in [Events -> Nat] /\ alerts \in [IDs -> Rows]
  BY DEF ResolveAlert, AlertInv, CheckInv
<1>3. id \in IDs
  BY <1>2 DEF Runs
<1>4. /\ run' \in Runs /\ run'.pc \in {"idle", "resolve"}
      /\ run'.pc = "resolve" => run'.fixed \subseteq run.fixed
  <2>1. CASE run.fixed = {id}
    BY <1>1, <2>1, NoRunRun
  <2>2. CASE run.fixed # {id}
    BY <1>1, <1>2, <2>2 DEF Runs
  <2> QED BY <2>1, <2>2
<1>5. alerts' \in [IDs -> Rows] /\ \A other \in IDs \ {id} : alerts'[other] = alerts[other]
  <2> DEFINE row == [alerts[id] EXCEPT !.status = "resolved", !.updated = 0]
  <2>1. row \in Rows /\ alerts[id] \in Rows
    BY <1>2, <1>3, WrittenRows
  <2>2. alerts' = [alerts EXCEPT ![id] = IF alerts[id].status = "absent" THEN alerts[id] ELSE row] \/ UNCHANGED alerts
    BY <1>1
  <2> HIDE DEF row
  <2> QED BY <1>2, <1>3, <2>1, <2>2
<1>6. used' \in [Events -> Nat]
  BY <1>1, <1>2, FaultUses
<1>7. CheckInv'
  BY <1>2, <1>4, <1>5, <1>6, RunKept
<1>8. RunInv'
  BY <1>4 DEF RunInv, Saving
<1>9. MissesInv'
  <2> SUFFICES ASSUME NEW x \in IDs PROVE (x \in skipped \/ quiet[x] >= misses[x]) /\ (Config \/ misses[x] = 0)
    BY <1>2, <1>4, LooksKept DEF MissesInv, Counted, Saving
  <2> QED BY <1>2 DEF AlertInv, MissesInv, Counted, Saving
<1>10. FixedInv'
  BY <1>2, <1>4, LooksKept DEF AlertInv, FixedInv
<1> QED BY <1>1, <1>2, <1>5, <1>7, <1>8, <1>9, <1>10 DEF AlertInv

-----------------------------------------------------------------------------
(* CheckAlerts: the theorems.                                                *)

LEMMA AlertInvInitially == Init => AlertInv
<1> SUFFICES ASSUME Init PROVE AlertInv
  OBVIOUS
<1>1. CheckInv
  <2>1. alerts = [id \in IDs |-> NoRow] /\ misses = [id \in IDs |-> 0] /\ quiet = [id \in IDs |-> 0]
    BY DEF Init, IDs
  <2>2. alerts \in [IDs -> Rows] /\ misses \in [IDs -> 0 .. 2] /\ quiet \in [IDs -> 0 .. 2]
    BY <2>1, NoRowRow
  <2> QED BY <2>2, NoRunRun DEF CheckInv, Init
<1>2. RunInv /\ FixedInv
  BY NoRunRun DEF Init, RunInv, FixedInv, Saving
<1>3. MissesInv
  <2>1. \A id \in IDs : misses[id] = 0 /\ quiet[id] = 0
    BY DEF Init, IDs
  <2> QED BY <2>1, NoRunRun DEF Init, MissesInv, Counted, Saving
<1> QED BY <1>1, <1>2, <1>3 DEF AlertInv

LEMMA NextAlertInv == AlertInv /\ [Next]_vars => AlertInv'
<1> SUFFICES ASSUME AlertInv, [Next]_vars PROVE AlertInv'
  OBVIOUS
<1>1. CASE Tick
  BY <1>1, TickInv
<1>2. CASE WorldChanges \/ AccessChanges \/ SilenceChanges
  BY <1>2, WorldInv
<1>3. CASE Restart
  BY <1>3, RestartInv
<1>4. CASE Operator
  BY <1>4, OperatorInv
<1>5. CASE scopeRealms
  BY <1>5, scopeRealmsInv
<1>6. CASE RunStep
  BY <1>6, EvaluateInv, LookupInv, SaveAlertStep, resolveSupersededInv, NotifyAlertInv,
     resolveFixedInv, ListOpenInv, ResolveAlertStep DEF RunStep
<1>7. CASE UNCHANGED vars
  <2>1. CheckInv'
    BY <1>7, LooksKept DEF vars, AlertInv, CheckInv, Runs
  <2>2. RunInv'
    BY <1>7, LooksKept DEF vars, AlertInv, RunInv, Saving
  <2>3. MissesInv' /\ FixedInv'
    BY <1>7, CountsKept DEF vars, AlertInv
  <2> QED BY <2>1, <2>2, <2>3 DEF AlertInv
<1> QED BY <1>1, <1>2, <1>3, <1>4, <1>5, <1>6, <1>7 DEF Next

LEMMA AlertInvariance == Spec => []AlertInv
<1>1. Init => AlertInv
  BY AlertInvInitially
<1>2. AlertInv /\ [Next]_vars => AlertInv'
  BY NextAlertInv
<1> QED BY <1>1, <1>2, PTL DEF Spec

LEMMA AlertTypes == ASSUME AlertInv PROVE TypeOK
<1>1. /\ alerts \in [IDs -> Rows] /\ misses \in [IDs -> 0 .. 2] /\ quiet \in [IDs -> 0 .. 2]
      /\ lost \subseteq IDs /\ skipped \subseteq IDs
  BY DEF AlertInv, CheckInv
<1>2. ASSUME NEW id \in IDs
      PROVE  /\ alerts[id].status \in Statuses /\ alerts[id].notified \in Never .. MaxAge
             /\ {alerts[id].seen, alerts[id].updated} \subseteq 0 .. MaxAge
  BY <1>1 DEF Rows
<1> QED BY <1>1, <1>2 DEF TypeOK, AlertInv, CheckInv, missesToResolve

LEMMA RunStepFrom ==
  ASSUME AlertInv, [Next]_vars, used'["ops"] = used["ops"]
  PROVE  \/ UNCHANGED alerts
         \/ run.pc = "idle" /\ Tick
         \/ run.pc = "save" /\ SaveAlert
         \/ run.pc = "supersede" /\ resolveSuperseded
         \/ run.pc = "notify" /\ NotifyAlert
         \/ run.pc = "resolve" /\ ResolveAlert
<1>1. CASE Operator
  BY <1>1, OperatorInv
<1>2. CASE Tick \/ WorldChanges \/ AccessChanges \/ SilenceChanges \/ Restart \/ scopeRealms
  BY <1>2 DEF Tick, WorldChanges, AccessChanges, SilenceChanges, Restart, scopeRealms
<1>3. CASE RunStep
  BY <1>3 DEF RunStep, Evaluate, Lookup, SaveAlert, resolveSuperseded, NotifyAlert, resolveFixed,
     ListOpenAlertsByCheck, ResolveAlert
<1>4. CASE UNCHANGED vars
  BY <1>4 DEF vars
<1> QED BY <1>1, <1>2, <1>3, <1>4 DEF Next

\* ResolvedOnlyWhenFixed (resolveFixed, ResolveCleared): what a run resolves was
\* looked for and truly not there, missesToResolve times in a row for a
\* misconfiguration, whatever reads, switches, silences, restarts and operators
\* did meanwhile.
THEOREM FixedBeforeResolved == Spec => ResolvedOnlyWhenFixed
<1>0. AlertInv' => TypeOK'
  <2>1. AlertInv => TypeOK
    BY AlertTypes
  <2> QED BY <2>1, PTL
<1>1. AlertInv /\ AlertInv' /\ [Next]_vars =>
        [TypeOK' /\ \A id \in DOMAIN alerts :
           Clears(id) => \/ quiet[id] >= IF Config THEN missesToResolve ELSE 1
                         \/ id \in skipped]_vars
  <2> SUFFICES ASSUME AlertInv, AlertInv', [Next]_vars
               PROVE  TypeOK' /\ \A id \in DOMAIN alerts :
                        Clears(id) => \/ quiet[id] >= IF Config THEN missesToResolve ELSE 1
                                      \/ id \in skipped
    OBVIOUS
  <2>1. TypeOK'
    BY <1>0
  <2>2. ASSUME NEW id \in DOMAIN alerts, Clears(id)
        PROVE  \/ quiet[id] >= IF Config THEN missesToResolve ELSE 1
               \/ id \in skipped
    <3>1. /\ run.pc = "resolve" /\ Open(alerts[id]) /\ alerts'[id].status = "resolved"
          /\ used'["ops"] = used["ops"]
      BY <2>2 DEF Clears
    <3>2. alerts'[id] # alerts[id]
      BY <3>1 DEF Open
    <3>3. ResolveAlert
      BY <3>1, <3>2, RunStepFrom
    <3>4. id \in run.fixed
      BY <3>2, <3>3, ResolveAlertStep DEF AlertInv, CheckInv
    <3> QED BY <3>1, <3>4 DEF AlertInv, FixedInv, missesToResolve
  <2> QED BY <2>1, <2>2
<1>2. Spec => []AlertInv
  BY AlertInvariance
<1> QED BY <1>1, <1>2, PTL DEF Spec, ResolvedOnlyWhenFixed

\* OperatorChoiceKept (executeCheck): the save of an alert that an operator
\* acknowledged or ignored, and did not touch since the run read it, keeps its
\* status.
THEOREM ChoicesKept == Spec => OperatorChoiceKept
<1>1. AlertInv /\ [Next]_vars =>
        [\A id \in DOMAIN alerts :
           run.pc = "save" /\ ~run.raced /\ alerts[id].status \in {"acknowledged", "ignored"}
             /\ used'.ops = used.ops
           => alerts'[id].status = alerts[id].status]_vars
  <2> SUFFICES ASSUME AlertInv, [Next]_vars, NEW id \in DOMAIN alerts, run.pc = "save", ~run.raced,
                      alerts[id].status \in {"acknowledged", "ignored"}, used'["ops"] = used["ops"]
               PROVE  alerts'[id].status = alerts[id].status
    OBVIOUS
  <2>1. UNCHANGED alerts \/ SaveAlert
    BY RunStepFrom
  <2>2. CASE UNCHANGED alerts
    BY <2>2
  <2>3. CASE SaveAlert
    <3> DEFINE saved == AlertID(run.alert)
    <3>1. id \in IDs /\ alerts \in [IDs -> Rows] /\ run.existing = alerts[saved]
      BY DEF AlertInv, CheckInv, RunInv
    <3>2. PICK notify \in BOOLEAN :
            \/ alerts' = [alerts EXCEPT ![saved] =
                            SaveRow(@, IF Fresh THEN "active" ELSE run.existing.status, notify)]
            \/ UNCHANGED alerts
      BY <2>3, SaveAlertStep
    <3> HIDE DEF saved
    <3>3. CASE id # saved
      BY <3>1, <3>2, <3>3
    <3>4. CASE id = saved
      <4>1. ~Fresh
        BY <3>1, <3>4 DEF Fresh, Reopens
      <4> QED BY <3>1, <3>2, <3>4, <4>1 DEF SaveRow
    <3> QED BY <3>3, <3>4
  <2> QED BY <2>1, <2>2, <2>3
<1>2. Spec => []AlertInv
  BY AlertInvariance
<1> QED BY <1>1, <1>2, PTL DEF Spec, OperatorChoiceKept

-----------------------------------------------------------------------------
(* Least and greatest elements: what the model's CHOOSE over the log picks.  *)

LEMMA LeastElement ==
  ASSUME NEW T \in SUBSET Nat, T # {}
  PROVE  \E m \in T : \A n \in T : m <= n
<1>1. \E m \in T : \A n \in T : ~(<<n, m>> \in OpToRel(<, Nat))
  BY NatLessThanWellFounded, WFMin, Zenon
<1>2. PICK m \in T : \A n \in T : ~(<<n, m>> \in OpToRel(<, Nat))
  BY <1>1
<1>3. ASSUME NEW n \in T
      PROVE  m <= n
  <2>1. <<n, m>> \in Nat \X Nat
    OBVIOUS
  <2>2. ~(n < m)
    BY <1>2, <2>1, <1>3 DEF OpToRel
  <2> QED BY <2>2
<1> QED BY <1>3

LEMMA GreatestElement ==
  ASSUME NEW S \in SUBSET Nat, S # {}, NEW b \in Nat, \A s \in S : s <= b
  PROVE  \E m \in S : \A s \in S : s <= m
<1> DEFINE Bounds == {n \in Nat : \A s \in S : s <= n}
<1>1. PICK m \in Bounds : \A n \in Bounds : m <= n
  <2>1. b \in Bounds
    OBVIOUS
  <2> HIDE DEF Bounds
  <2>2. Bounds \in SUBSET Nat
    BY DEF Bounds
  <2> QED BY <2>1, <2>2, LeastElement
<1>2. m \in S
  <2> SUFFICES ASSUME m \notin S PROVE FALSE
    OBVIOUS
  <2>1. \A s \in S : s <= m - 1
    OBVIOUS
  <2>2. m - 1 \in Nat
    <3>1. PICK s \in S : TRUE
      OBVIOUS
    <3> QED BY <2>1, <3>1
  <2> QED BY <1>1, <2>1, <2>2
<1> QED BY <1>2

-----------------------------------------------------------------------------
(* SharedIssues: the inductive invariants.                                   *)

IssueRowStatuses == {"none", "active", "acknowledged", "ignored", "resolved"}
AnnouncementSteps == {"check", "find", "create", "read", "edit", "note", "post", "log"}
Steps == {"idle", "supersede", "resolve"} \cup AnnouncementSteps \cup ResolutionSteps
Calls == [pc : Steps, alert : Alerts \cup {NoAlert}, todo : SUBSET Channels, issue : Nat, others : BOOLEAN]
Sent == [alert : Alerts, occ : Nat, channel : Channels, issue : Nat]

StateInv ==
  /\ found \subseteq Alerts /\ doubt \subseteq Alerts /\ excused \subseteq IssueIDs
  /\ rows \in [Alerts -> [status : IssueRowStatuses, occ : 0 .. MaxOcc]]
  /\ log \in Seq(Sent) /\ issues \in Seq({"open", "closed"})
  /\ calls \in [Callers -> Calls]
  /\ told \in [Alerts -> [Channels -> Nat]]

\* A call that does something has an alert, and a channel to do it on; one that
\* edits an issue has one.
Fits(p, call, known) ==
  /\ call \in Calls
  /\ call.pc # "idle" => call.alert \in Alerts
  /\ call.pc \in {"supersede"} \cup AnnouncementSteps => p = "check"
  /\ call.pc \in AnnouncementSteps \cup ResolutionSteps => ChannelOf(call) \in call.todo
  /\ call.pc \in ResolutionSteps => call.todo \subseteq {"slack", "gitlab"}
  /\ call.pc \in {"find", "create", "read", "edit", "note", "rcount", "rnote", "close"} => ChannelOf(call) = "gitlab"
  /\ call.pc = "post" => ChannelOf(call) # "gitlab"
  /\ call.pc \in {"read", "edit", "note", "rcount", "rnote", "close"} => call.issue \in known
  /\ call.pc = "log" /\ ChannelOf(call) = "gitlab" => call.issue \in known

CallInv == \A p \in Callers : Fits(p, calls[p], IssueIDs)

\* Sends are logged for occurrences that began; those to GitLab name an issue.
LogInv ==
  \A n \in DOMAIN log :
    /\ log[n].occ <= rows[log[n].alert].occ
    /\ log[n].channel = "gitlab" => log[n].issue \in IssueIDs

NoticeInv == StateInv /\ CallInv /\ LogInv

\* A send between its lookup and its announcement, and one that is not logged yet.
SendSteps == {"find", "create", "read", "edit", "note", "post"}
Sending(a, c) == calls["check"].pc \in SendSteps /\ calls["check"].alert = a /\ Channel("check") = c
Unlogged(a, c) == calls["check"].pc = "log" /\ calls["check"].alert = a /\ Channel("check") = c

\* An announcement that was made is logged, or about to be; none is made twice.
ToldInv ==
  \A a \in Alerts \ doubt, c \in Channels :
    /\ told[a][c] <= 1
    /\ told[a][c] = 1 => AlreadySent(a, c) \/ Unlogged(a, c)
    /\ Sending(a, c) => told[a][c] = 0

\* An open alert keeps the issues it holds open.
Keeps(a, i) == OpenAlert(a) /\ Holds(a, i)

\* An issue that an announcement is about to join is open.
Joins(p, i) == calls[p].pc \in {"note", "log"} /\ Channel(p) = "gitlab" /\ calls[p].issue = i
JoinInv == \A p \in Callers, i \in IssueIDs : Joins(p, i) /\ i \notin excused => issues[i] = "open"

\* A resolution that looked for the issue's other alerts is of an alert that does
\* not hold it any more, and closes it only where no open alert does.
Leaves(p, i) == calls[p].pc \in {"rcount", "rnote", "close"} /\ calls[p].issue = i
Closes(p) == calls[p].pc = "close" \/ (calls[p].pc = "rnote" /\ ~calls[p].others)
LeaveInv ==
  \A p \in Callers, i \in IssueIDs : Leaves(p, i) /\ i \notin excused =>
    /\ ~Keeps(calls[p].alert, i)
    /\ Closes(p) => \A a \in Alerts : ~Keeps(a, i)

HeldInv == \A a \in Alerts, i \in IssueIDs : Keeps(a, i) /\ i \notin excused => issues[i] = "open"

IssueInv == NoticeInv /\ JoinInv /\ LeaveInv /\ HeldInv

-----------------------------------------------------------------------------
(* SharedIssues: calls, the log and the issues.                              *)

LEMMA IdleFits == ASSUME NEW p, NEW known PROVE Fits(p, Idle, known)
BY DEF Fits, Idle, Calls, Steps, AnnouncementSteps, ResolutionSteps, NoIssue

LEMMA FitsMore ==
  ASSUME NEW p, NEW call, NEW known, NEW more, known \subseteq more, Fits(p, call, known)
  PROVE  Fits(p, call, more)
BY DEF Fits

LEMMA NextChannelFits ==
  ASSUME NEW p, NEW call, NEW known, Fits(p, call, known), call.pc \in AnnouncementSteps \cup ResolutionSteps
  PROVE  /\ Fits(p, NextChannel(call), known) /\ NextChannel(call).pc \in {"idle", "check", "rcheck"}
<1>1. CASE call.todo \subseteq {ChannelOf(call)}
  BY <1>1, IdleFits DEF NextChannel, Idle
<1>2. CASE ~(call.todo \subseteq {ChannelOf(call)})
  <2> DEFINE left == call.todo \ {ChannelOf(call)}
             pc == IF call.pc \in ResolutionSteps THEN "rcheck" ELSE "check"
  <2>1. left # {} /\ left \subseteq Channels /\ call \in Calls /\ call.alert \in Alerts
    BY <1>2 DEF Fits, Calls, AnnouncementSteps, ResolutionSteps
  <2>2. NextChannel(call) = [call EXCEPT !.todo = left, !.pc = pc]
    BY <1>2 DEF NextChannel
  <2>3. pc \in Steps
    BY DEF Steps, AnnouncementSteps, ResolutionSteps
  <2>4. /\ NextChannel(call) \in Calls /\ NextChannel(call).todo = left /\ NextChannel(call).pc = pc
        /\ NextChannel(call).alert = call.alert
    BY <2>1, <2>2, <2>3 DEF Calls
  <2>5. CASE call.pc \in ResolutionSteps
    <3>1. left \subseteq {"slack", "gitlab"} /\ pc = "rcheck"
      BY <2>5 DEF Fits
    <3>2. ChannelOf(NextChannel(call)) \in left
      BY <2>1, <2>4, <3>1 DEF ChannelOf, ResolutionSteps
    <3> HIDE DEF left, pc
    <3> QED BY <2>1, <2>4, <3>1, <3>2 DEF Fits, AnnouncementSteps, ResolutionSteps
  <2>6. CASE call.pc \notin ResolutionSteps
    <3>1. p = "check" /\ pc = "check"
      BY <2>6 DEF Fits
    <3>2. left \subseteq {"gitlab", "slack", "email"}
      BY <2>1, NoticeAssumption
    <3>3. ChannelOf(NextChannel(call)) \in left
      BY <2>1, <2>4, <3>1, <3>2 DEF ChannelOf, ResolutionSteps
    <3> HIDE DEF left, pc
    <3> QED BY <2>1, <2>4, <3>1, <3>3 DEF Fits, AnnouncementSteps, ResolutionSteps
  <2> QED BY <2>5, <2>6
<1> QED BY <1>1, <1>2

LEMMA ResolutionFits ==
  ASSUME NEW p, NEW a \in Alerts, NEW known
  PROVE  Fits(p, Resolution(a), known) /\ Resolution(a).pc \in {"idle", "rcheck"}
<1> DEFINE todo == Channels \cap {"slack", "gitlab"}
<1>1. CASE todo = {}
  BY <1>1, IdleFits DEF Resolution, Idle
<1>2. CASE todo # {}
  <2>1. Resolution(a) = [pc |-> "rcheck", alert |-> a, todo |-> todo, issue |-> NoIssue, others |-> FALSE]
    BY <1>2 DEF Resolution, Idle
  <2>2. ChannelOf(Resolution(a)) \in todo
    BY <1>2, <2>1 DEF ChannelOf, ResolutionSteps
  <2>3. Resolution(a) \in Calls
    BY <2>1 DEF Calls, Steps, ResolutionSteps, NoIssue
  <2> QED BY <2>1, <2>2, <2>3 DEF Fits, AnnouncementSteps, ResolutionSteps
<1> QED BY <1>1, <1>2

LEMMA AnnouncementFits ==
  ASSUME NEW a \in Alerts, NEW known
  PROVE  Fits("check", Announcement(a), known) /\ Announcement(a).pc \in {"idle", "check"}
<1>1. Meets[a] \subseteq Channels /\ Meets[a] \subseteq {"gitlab", "slack", "email"}
  BY NoticeAssumption
<1>2. CASE Meets[a] = {}
  BY <1>2, IdleFits DEF Announcement, Idle
<1>3. CASE Meets[a] # {}
  <2>1. Announcement(a) = [pc |-> "check", alert |-> a, todo |-> Meets[a], issue |-> NoIssue, others |-> FALSE]
    BY <1>3 DEF Announcement, Idle
  <2>2. ChannelOf(Announcement(a)) \in Meets[a]
    BY <1>1, <1>3, <2>1 DEF ChannelOf, ResolutionSteps
  <2>3. Announcement(a) \in Calls
    BY <1>1, <2>1 DEF Calls, Steps, AnnouncementSteps, NoIssue
  <2> QED BY <2>1, <2>2, <2>3 DEF Fits, AnnouncementSteps, ResolutionSteps
<1> QED BY <1>2, <1>3

\* One call goes on.
LEMMA CallGoesOn ==
  ASSUME NoticeInv, NEW p \in Callers, NEW call, calls' = [calls EXCEPT ![p] = call],
         Fits(p, call, IssueIDs'), IssueIDs \subseteq IssueIDs'
  PROVE  /\ calls' \in [Callers -> Calls] /\ CallInv' /\ calls'[p] = call
         /\ \A q \in Callers : q # p => calls'[q] = calls[q]
<1>1. calls \in [Callers -> Calls] /\ call \in Calls
  BY DEF NoticeInv, StateInv, Fits
<1>2. calls'[p] = call /\ \A q \in Callers : q # p => calls'[q] = calls[q]
  BY <1>1
<1>3. \A q \in Callers : Fits(q, calls[q], IssueIDs')
  BY FitsMore DEF NoticeInv, CallInv
<1>4. \A q \in Callers : Fits(q, calls'[q], IssueIDs')
  BY <1>2, <1>3
<1> QED BY <1>1, <1>2, <1>4 DEF CallInv

\* The last of some sends to GitLab has an issue.
LEMMA LatestIs ==
  ASSUME NoticeInv, NEW N \in SUBSET DOMAIN log, \A n \in N : log[n].channel = "gitlab"
  PROVE  /\ N = {} => Latest(N) = NoIssue
         /\ N # {} => \E n \in N : Latest(N) = log[n].issue
         /\ N # {} => Latest(N) \in IssueIDs
<1>1. CASE N = {}
  BY <1>1 DEF Latest
<1>2. CASE N # {}
  <2>1. N \subseteq Nat /\ Len(log) \in Nat /\ \A n \in N : n <= Len(log)
    BY DEF NoticeInv, StateInv
  <2>2. \E m \in N : \A k \in N : k <= m
    BY <1>2, <2>1, GreatestElement
  <2>3. (CHOOSE n \in N : \A k \in N : k <= n) \in N
    BY <2>2
  <2> QED BY <1>2, <2>3 DEF Latest, NoticeInv, LogInv
<1> QED BY <1>1, <1>2

LEMMA IssuesAre == ASSUME NoticeInv PROVE IssueIDs = 1 .. Len(issues) /\ Len(issues) \in Nat /\ NoIssue \notin IssueIDs
BY DEF NoticeInv, StateInv, IssueIDs, NoIssue

LEMMA LogKept ==
  ASSUME NoticeInv, log' = log, \A a \in Alerts : rows[a].occ <= rows'[a].occ,
         \A a \in Alerts : rows'[a].occ \in Nat, IssueIDs \subseteq IssueIDs'
  PROVE  LogInv'
<1>1. \A n \in DOMAIN log : log[n] \in Sent
  BY DEF NoticeInv, StateInv
<1>2. \A a \in Alerts : rows[a].occ \in Nat
  BY NoticeAssumption DEF NoticeInv, StateInv
<1>3. ASSUME NEW n \in DOMAIN log
      PROVE  log[n].occ <= rows'[log[n].alert].occ /\ (log[n].channel = "gitlab" => log[n].issue \in IssueIDs')
  <2>1. log[n].alert \in Alerts /\ log[n].occ \in Nat
    BY <1>1 DEF Sent
  <2>2. log[n].occ <= rows[log[n].alert].occ /\ (log[n].channel = "gitlab" => log[n].issue \in IssueIDs)
    BY DEF NoticeInv, LogInv
  <2>3. rows[log[n].alert].occ <= rows'[log[n].alert].occ /\ rows'[log[n].alert].occ \in Nat
    BY <2>1
  <2> QED BY <1>2, <2>1, <2>2, <2>3
<1> QED BY <1>3 DEF LogInv

\* An alert's status changes, or it starts a new occurrence.
LEMMA StatusSet ==
  ASSUME NoticeInv, NEW a \in Alerts, NEW status \in IssueRowStatuses, rows' = [rows EXCEPT ![a].status = status]
  PROVE  /\ rows' \in [Alerts -> [status : IssueRowStatuses, occ : 0 .. MaxOcc]]
         /\ rows'[a].status = status /\ \A b \in Alerts \ {a} : rows'[b] = rows[b]
         /\ \A b \in Alerts : rows'[b].occ = rows[b].occ
BY DEF NoticeInv, StateInv

LEMMA OccurrenceStarts ==
  ASSUME NoticeInv, NEW a \in Alerts, NEW status \in IssueRowStatuses, Starts(a, status), rows[a].occ < MaxOcc
  PROVE  /\ rows' \in [Alerts -> [status : IssueRowStatuses, occ : 0 .. MaxOcc]]
         /\ told' \in [Alerts -> [Channels -> Nat]]
         /\ rows'[a].occ = rows[a].occ + 1 /\ rows'[a].status = status
         /\ told'[a] = [c \in Channels |-> 0]
         /\ \A b \in Alerts \ {a} : rows'[b] = rows[b] /\ told'[b] = told[b]
         /\ \A b \in Alerts : rows[b].occ <= rows'[b].occ
<1>1. rows \in [Alerts -> [status : IssueRowStatuses, occ : 0 .. MaxOcc]] /\ told \in [Alerts -> [Channels -> Nat]]
  BY DEF NoticeInv, StateInv
<1>2. MaxOcc \in Nat /\ rows[a].occ \in 0 .. MaxOcc
  BY <1>1, NoticeAssumption
<1> DEFINE row == [status |-> status, occ |-> rows[a].occ + 1]
<1>3. row \in [status : IssueRowStatuses, occ : 0 .. MaxOcc]
  BY <1>2
<1>4. rows' = [rows EXCEPT ![a] = row]
  BY DEF Starts
<1>5. row.occ = rows[a].occ + 1 /\ row.status = status
  OBVIOUS
<1> HIDE DEF row
<1>6. rows' \in [Alerts -> [status : IssueRowStatuses, occ : 0 .. MaxOcc]] /\ rows'[a] = row /\ \A b \in Alerts \ {a} : rows'[b] = rows[b]
  BY <1>1, <1>3, <1>4
<1>7. \A b \in Alerts : rows[b].occ <= rows'[b].occ
  <2> TAKE b \in Alerts
  <2>1. rows[b].occ \in Nat
    BY <1>1, NoticeAssumption
  <2> QED BY <1>5, <1>6, <2>1, <1>2
<1>8. told' \in [Alerts -> [Channels -> Nat]] /\ told'[a] = [c \in Channels |-> 0] /\ \A b \in Alerts \ {a} : told'[b] = told[b]
  <2> DEFINE none == [c \in Channels |-> 0]
  <2>1. none \in [Channels -> Nat] /\ told' = [told EXCEPT ![a] = none]
    BY DEF Starts
  <2> HIDE DEF none
  <2>2. told' \in [Alerts -> [Channels -> Nat]] /\ told'[a] = none /\ \A b \in Alerts \ {a} : told'[b] = told[b]
    BY <1>1, <2>1
  <2> QED BY <2>2 DEF none
<1> QED BY <1>5, <1>6, <1>7, <1>8

LEMMA ToldOne ==
  ASSUME NoticeInv, NEW p \in Callers, NEW c \in Channels, Call(p).alert \in Alerts, Tell(p, c)
  PROVE  /\ told' \in [Alerts -> [Channels -> Nat]]
         /\ \A a \in Alerts, d \in Channels :
              told'[a][d] = IF a = Call(p).alert /\ d = c THEN told[a][d] + 1 ELSE told[a][d]
<1>1. told \in [Alerts -> [Channels -> Nat]]
  BY DEF NoticeInv, StateInv
<1> DEFINE x == Call(p).alert
           row == [told[x] EXCEPT ![c] = @ + 1]
<1>2. told[x] \in [Channels -> Nat] /\ row \in [Channels -> Nat]
  BY <1>1
<1>3. told' = [told EXCEPT ![x] = row]
  BY DEF Tell
<1>4. \A d \in Channels : row[d] = IF d = c THEN told[x][d] + 1 ELSE told[x][d]
  BY <1>2
<1> HIDE DEF x, row
<1>5. told' \in [Alerts -> [Channels -> Nat]] /\ told'[x] = row /\ \A a \in Alerts \ {x} : told'[a] = told[a]
  BY <1>1, <1>2, <1>3 DEF x
<1> QED BY <1>4, <1>5 DEF x

\* A call takes its next step on the same channel.
LEMMA StepFits ==
  ASSUME NEW p, NEW call, NEW known, NEW more, known \subseteq more, Fits(p, call, known), NEW next \in Calls,
         next.todo = call.todo, next.alert = call.alert,
         \/ call.pc \in AnnouncementSteps /\ next.pc \in AnnouncementSteps
         \/ call.pc \in ResolutionSteps /\ next.pc \in ResolutionSteps,
         next.pc \in {"find", "create", "read", "edit", "note", "rcount", "rnote", "close"} => ChannelOf(call) = "gitlab",
         next.pc = "post" => ChannelOf(call) # "gitlab",
         next.pc \in {"read", "edit", "note", "rcount", "rnote", "close"} => next.issue \in more,
         next.pc = "log" /\ ChannelOf(call) = "gitlab" => next.issue \in more
  PROVE  Fits(p, next, more) /\ ChannelOf(next) = ChannelOf(call)
<1>1. /\ call \in Calls /\ call.alert \in Alerts
      /\ call.pc \in {"supersede"} \cup AnnouncementSteps => p = "check"
      /\ ChannelOf(call) \in call.todo
      /\ call.pc \in ResolutionSteps => call.todo \subseteq {"slack", "gitlab"}
  BY DEF Fits, Steps, AnnouncementSteps, ResolutionSteps
<1>2. ChannelOf(next) = ChannelOf(call)
  BY DEF ChannelOf, AnnouncementSteps, ResolutionSteps
<1> QED BY <1>1, <1>2 DEF Fits, AnnouncementSteps, ResolutionSteps

LEMMA GotoFits ==
  ASSUME NoticeInv, NEW p \in Callers, NEW pc, Goto(p, pc), IssueIDs \subseteq IssueIDs',
         \/ calls[p].pc \in AnnouncementSteps /\ pc \in AnnouncementSteps
         \/ calls[p].pc \in ResolutionSteps /\ pc \in ResolutionSteps,
         pc \in {"find", "create", "read", "edit", "note", "rcount", "rnote", "close"} => Channel(p) = "gitlab",
         pc = "post" => Channel(p) # "gitlab",
         pc \in {"read", "edit", "note", "rcount", "rnote", "close"} \/ (pc = "log" /\ Channel(p) = "gitlab")
           => calls[p].issue \in IssueIDs
  PROVE  /\ calls' \in [Callers -> Calls] /\ CallInv'
         /\ \A q \in Callers : q # p => calls'[q] = calls[q]
         /\ calls'[p] = [calls[p] EXCEPT !.pc = pc]
         /\ calls'[p].pc = pc /\ calls'[p].issue = calls[p].issue /\ calls'[p].alert = calls[p].alert
         /\ calls'[p].others = calls[p].others /\ ChannelOf(calls'[p]) = ChannelOf(calls[p])
<1> DEFINE next == [calls[p] EXCEPT !.pc = pc]
<1>1. Fits(p, calls[p], IssueIDs) /\ calls \in [Callers -> Calls] /\ pc \in Steps
  BY DEF NoticeInv, CallInv, StateInv, Steps
<1>2. /\ next \in Calls /\ next.todo = calls[p].todo /\ next.pc = pc /\ next.issue = calls[p].issue
      /\ next.alert = calls[p].alert /\ next.others = calls[p].others
  BY <1>1 DEF Calls
<1>3. calls' = [calls EXCEPT ![p] = next]
  BY <1>1 DEF Goto
<1> HIDE DEF next
<1>4. Fits(p, next, IssueIDs') /\ ChannelOf(next) = ChannelOf(calls[p])
  <2> DEFINE call == calls[p]
  <2>1. ChannelOf(call) = Channel(p)
    BY DEF Channel
  <2> QED BY <1>1, <1>2, <2>1, StepFits
<1>5. /\ calls' \in [Callers -> Calls] /\ CallInv' /\ calls'[p] = next
      /\ \A q \in Callers : q # p => calls'[q] = calls[q]
  BY <1>3, <1>4, CallGoesOn
<1> QED BY <1>2, <1>4, <1>5 DEF next

LEMMA SkipFits ==
  ASSUME NoticeInv, NEW p \in Callers, Skip(p), calls[p].pc \in AnnouncementSteps \cup ResolutionSteps,
         IssueIDs \subseteq IssueIDs'
  PROVE  /\ calls' \in [Callers -> Calls] /\ CallInv'
         /\ calls'[p].pc \in {"idle", "check", "rcheck"}
         /\ \A q \in Callers : q # p => calls'[q] = calls[q]
<1> DEFINE next == NextChannel(calls[p])
<1>1. Fits(p, calls[p], IssueIDs)
  BY DEF NoticeInv, CallInv
<1>2. Fits(p, next, IssueIDs) /\ next.pc \in {"idle", "check", "rcheck"}
  BY <1>1, NextChannelFits
<1>3. Fits(p, next, IssueIDs') /\ calls' = [calls EXCEPT ![p] = next]
  BY <1>2, FitsMore DEF Skip
<1> HIDE DEF next
<1>4. /\ calls' \in [Callers -> Calls] /\ CallInv' /\ calls'[p] = next
      /\ \A q \in Callers : q # p => calls'[q] = calls[q]
  BY <1>3, CallGoesOn
<1> QED BY <1>2, <1>4

\* A call that begins or ends.
LEMMA SupersedeFits ==
  ASSUME NEW a \in Alerts, NEW known, NEW call, call = [Idle EXCEPT !.pc = "supersede", !.alert = a]
  PROVE  Fits("check", call, known)
<1>1. call = [pc |-> "supersede", alert |-> a, todo |-> {}, issue |-> NoIssue, others |-> FALSE]
  BY DEF Idle
<1>2. call \in Calls
  BY ONLY a \in Alerts, <1>1 DEF Calls, Steps, NoIssue, AnnouncementSteps, ResolutionSteps
<1> QED BY <1>1, <1>2 DEF Fits, AnnouncementSteps, ResolutionSteps

LEMMA ResolveFits ==
  ASSUME NEW p, NEW a \in Alerts, NEW known, NEW call, call = [Idle EXCEPT !.pc = "resolve", !.alert = a]
  PROVE  Fits(p, call, known)
<1>1. call = [pc |-> "resolve", alert |-> a, todo |-> {}, issue |-> NoIssue, others |-> FALSE]
  BY DEF Idle
<1>2. call \in Calls
  BY ONLY a \in Alerts, <1>1 DEF Calls, Steps, NoIssue, AnnouncementSteps, ResolutionSteps
<1> QED BY <1>1, <1>2 DEF Fits, AnnouncementSteps, ResolutionSteps

LEMMA LeftByIssues == ASSUME NEW a PROVE LeftBy(a) \subseteq IssueIDs
BY DEF LeftBy

LEMMA ProviderChangesNotice == ASSUME NoticeInv, NEW w \in Worlds, ProviderChanges(w) PROVE NoticeInv'
<1>1. found' \subseteq Alerts
  BY NoticeAssumption DEF ProviderChanges
<1>2. rows' = rows /\ log' = log /\ issues' = issues /\ calls' = calls /\ told' = told /\ excused' = excused /\ doubt' = doubt
  BY DEF ProviderChanges
<1> QED BY <1>1, <1>2 DEF NoticeInv, StateInv, CallInv, LogInv, IssueIDs

LEMMA ClosedByHandNotice == ASSUME NoticeInv, NEW i \in IssueIDs, ClosedByHand(i) PROVE NoticeInv'
<1>1. /\ found' = found /\ rows' = rows /\ log' = log /\ calls' = calls /\ told' = told /\ doubt' = doubt
      /\ issues' = [issues EXCEPT ![i] = "closed"] /\ excused' = excused \cup {i}
  BY DEF ClosedByHand
<1>2. issues' \in Seq({"open", "closed"}) /\ IssueIDs' = IssueIDs
  BY <1>1 DEF NoticeInv, StateInv, IssueIDs
<1> QED BY <1>1, <1>2 DEF NoticeInv, StateInv, CallInv, LogInv

LEMMA OperatorSetsNotice ==
  ASSUME NoticeInv, NEW a \in Alerts, NEW status \in {"active", "acknowledged", "ignored"}, OperatorSets(a, status)
  PROVE  NoticeInv'
<1>1. found' = found /\ log' = log /\ issues' = issues /\ calls' = calls /\ IssueIDs' = IssueIDs
  BY DEF OperatorSets, IssueIDs
<1>2. status \in IssueRowStatuses
  BY DEF IssueRowStatuses
<1>3. /\ rows' \in [Alerts -> [status : IssueRowStatuses, occ : 0 .. MaxOcc]]
      /\ told' \in [Alerts -> [Channels -> Nat]]
      /\ \A b \in Alerts : rows[b].occ <= rows'[b].occ
      /\ doubt' \subseteq Alerts
      /\ excused' \subseteq IssueIDs
  <2>1. CASE rows[a].status = "resolved" /\ status = "active"
    <3>1. rows[a].occ < MaxOcc /\ Starts(a, status) /\ excused' = excused \cup LeftBy(a) /\ doubt' \subseteq doubt \cup {a}
      BY <2>1 DEF OperatorSets
    <3>2. excused' \subseteq IssueIDs /\ doubt' \subseteq Alerts
      BY <3>1, LeftByIssues DEF NoticeInv, StateInv
    <3> QED BY <1>2, <3>1, <3>2, OccurrenceStarts
  <2>2. CASE ~(rows[a].status = "resolved" /\ status = "active")
    <3>1. /\ rows' = [rows EXCEPT ![a].status = status] /\ told' = told /\ doubt' = doubt
          /\ excused' = IF OpenAlert(a) THEN excused ELSE excused \cup {i \in IssueIDs : Holds(a, i)}
      BY <2>2 DEF OperatorSets
    <3>2. excused' \subseteq IssueIDs /\ doubt' \subseteq Alerts /\ told' \in [Alerts -> [Channels -> Nat]]
      BY <3>1 DEF NoticeInv, StateInv
    <3>3. \A b \in Alerts : rows[b].occ \in Nat
      BY NoticeAssumption DEF NoticeInv, StateInv
    <3>4. rows' \in [Alerts -> [status : IssueRowStatuses, occ : 0 .. MaxOcc]] /\ \A b \in Alerts : rows'[b].occ = rows[b].occ
      BY <1>2, <3>1, StatusSet
    <3> QED BY <3>2, <3>3, <3>4
  <2> QED BY <2>1, <2>2
<1>4. \A b \in Alerts : rows'[b].occ \in Nat
  BY <1>3, NoticeAssumption
<1>5. LogInv'
  BY <1>1, <1>3, <1>4, LogKept
<1>6. StateInv' /\ CallInv'
  BY <1>1, <1>3 DEF NoticeInv, StateInv, CallInv
<1> QED BY <1>5, <1>6 DEF NoticeInv

LEMMA OperatorReadsNotice == ASSUME NoticeInv, NEW a \in Alerts, OperatorReads(a) PROVE NoticeInv'
<1> DEFINE call == [Idle EXCEPT !.pc = "resolve", !.alert = a]
<1>1. /\ found' = found /\ rows' = rows /\ log' = log /\ issues' = issues /\ told' = told
      /\ excused' = excused /\ doubt' = doubt /\ IssueIDs' = IssueIDs
      /\ calls' = [calls EXCEPT !["operator"] = call]
  BY DEF OperatorReads, IssueIDs
<1>2. call = [Idle EXCEPT !.pc = "resolve", !.alert = a]
  OBVIOUS
<1> HIDE DEF call
<1>3. "operator" \in Callers
  BY DEF Callers
<1>4. calls' \in [Callers -> Calls] /\ CallInv'
  <2>1. Fits("operator", call, IssueIDs')
    BY <1>2, ResolveFits
  <2> QED BY <1>1, <1>3, <2>1, CallGoesOn
<1> QED BY <1>1, <1>4 DEF NoticeInv, StateInv, LogInv

LEMMA DetectNotice == ASSUME NoticeInv, NEW a \in Alerts, Detect(a) PROVE NoticeInv'
<1> DEFINE call == [Idle EXCEPT !.pc = "supersede", !.alert = a]
<1>1. /\ found' = found /\ log' = log /\ issues' = issues /\ doubt' = doubt /\ IssueIDs' = IssueIDs
      /\ calls' = [calls EXCEPT !["check"] = call]
  BY DEF Detect, IssueIDs
<1>2. call = [Idle EXCEPT !.pc = "supersede", !.alert = a]
  OBVIOUS
<1> HIDE DEF call
<1>3. "check" \in Callers
  BY DEF Callers
<1>4. calls' \in [Callers -> Calls] /\ CallInv'
  <2>1. Fits("check", call, IssueIDs')
    BY <1>2, SupersedeFits
  <2> QED BY <1>1, <1>3, <2>1, CallGoesOn
<1>5. \A b \in Alerts : rows[b].occ \in Nat
  BY NoticeAssumption DEF NoticeInv, StateInv
<1>6. /\ rows' \in [Alerts -> [status : IssueRowStatuses, occ : 0 .. MaxOcc]]
      /\ told' \in [Alerts -> [Channels -> Nat]]
      /\ \A b \in Alerts : rows[b].occ <= rows'[b].occ
      /\ excused' \subseteq IssueIDs
  <2>1. CASE rows[a].occ < MaxOcc /\ Starts(a, "active") /\ excused' = IF Resolving(a) THEN excused \cup LeftBy(a) ELSE excused
    <3>1. excused' \subseteq IssueIDs
      BY <2>1, LeftByIssues DEF NoticeInv, StateInv
    <3>2. "active" \in IssueRowStatuses
      BY DEF IssueRowStatuses
    <3> QED BY <2>1, <3>1, <3>2, OccurrenceStarts
  <2>2. CASE rows' = rows /\ told' = told /\ excused' = excused
    BY <1>5, <2>2 DEF NoticeInv, StateInv
  <2> QED BY <2>1, <2>2 DEF Detect
<1>7. \A b \in Alerts : rows'[b].occ \in Nat
  BY <1>6, NoticeAssumption
<1>8. LogInv'
  BY <1>1, <1>6, <1>7, LogKept
<1> QED BY <1>1, <1>4, <1>6, <1>8 DEF NoticeInv, StateInv

\* An alert that is superseded or resolved.
LEMMA ResolvedSet ==
  ASSUME NoticeInv, NEW S, rows' = [b \in Alerts |-> IF b \in S /\ rows[b].status # "none"
                                                     THEN [rows[b] EXCEPT !.status = "resolved"] ELSE rows[b]]
  PROVE  /\ rows' \in [Alerts -> [status : IssueRowStatuses, occ : 0 .. MaxOcc]]
         /\ \A b \in Alerts : rows'[b].occ = rows[b].occ /\ rows'[b].status \in {rows[b].status, "resolved"}
BY DEF NoticeInv, StateInv, IssueRowStatuses

LEMMA resolveReplacedNotice ==
  ASSUME NoticeInv, resolveReplaced
  PROVE  /\ NoticeInv' /\ \A b \in Alerts : rows'[b].occ = rows[b].occ /\ rows'[b].status \in {rows[b].status, "resolved"}
         /\ calls'["check"].pc \in {"idle", "check"} /\ calls'["operator"] = calls["operator"]
<1> DEFINE a == Call("check").alert
           call == Announcement(a)
<1>1. /\ found' = found /\ log' = log /\ issues' = issues /\ told' = told
      /\ excused' \in {excused, excused \cup LeftBy(a)} /\ doubt' = doubt /\ IssueIDs' = IssueIDs
      /\ calls' = [calls EXCEPT !["check"] = call]
      /\ calls["check"].pc = "supersede"
  BY DEF resolveReplaced, IssueIDs, At
<1>2. "check" \in Callers /\ "operator" \in Callers /\ "operator" # "check"
  BY DEF Callers
<1>3. a \in Alerts
  BY <1>1, <1>2 DEF NoticeInv, CallInv, Fits, Call
<1>4. Fits("check", call, IssueIDs') /\ call.pc \in {"idle", "check"}
  BY <1>3, AnnouncementFits
<1>5. \A b \in Alerts : rows[b].occ \in Nat
  BY NoticeAssumption DEF NoticeInv, StateInv
<1>6. /\ rows' \in [Alerts -> [status : IssueRowStatuses, occ : 0 .. MaxOcc]]
      /\ \A b \in Alerts : rows'[b].occ = rows[b].occ /\ rows'[b].status \in {rows[b].status, "resolved"}
  <2>1. CASE rows' = rows
    BY <2>1 DEF NoticeInv, StateInv
  <2>2. CASE rows' # rows
    <3> DEFINE S == Replaces[a]
    <3>1. rows' = [b \in Alerts |-> IF b \in S /\ rows[b].status # "none"
                                     THEN [rows[b] EXCEPT !.status = "resolved"] ELSE rows[b]]
      BY <2>2 DEF resolveReplaced
    <3> HIDE DEF S
    <3> QED BY <3>1, ResolvedSet
  <2> QED BY <2>1, <2>2
<1> HIDE DEF call
<1>7. calls' \in [Callers -> Calls] /\ CallInv' /\ calls'["check"] = call /\ calls'["operator"] = calls["operator"]
  BY <1>1, <1>2, <1>4, CallGoesOn
<1>8. LogInv'
  BY <1>1, <1>5, <1>6, LogKept
<1>9. excused' \subseteq IssueIDs'
  BY <1>1, LeftByIssues DEF NoticeInv, StateInv
<1>10. NoticeInv'
  BY <1>1, <1>6, <1>7, <1>8, <1>9 DEF NoticeInv, StateInv
<1> QED BY <1>4, <1>6, <1>7, <1>10

LEMMA ListOpenNotice == ASSUME NoticeInv, NEW a \in Alerts, ListOpen(a) PROVE NoticeInv'
<1> DEFINE call == [Idle EXCEPT !.pc = "resolve", !.alert = a]
<1>1. /\ found' = found /\ rows' = rows /\ log' = log /\ issues' = issues /\ told' = told
      /\ excused' = excused /\ doubt' = doubt /\ IssueIDs' = IssueIDs
      /\ calls' = [calls EXCEPT !["check"] = call]
  BY DEF ListOpen, IssueIDs
<1>2. call = [Idle EXCEPT !.pc = "resolve", !.alert = a]
  OBVIOUS
<1> HIDE DEF call
<1>3. "check" \in Callers
  BY DEF Callers
<1>4. calls' \in [Callers -> Calls] /\ CallInv'
  <2>1. Fits("check", call, IssueIDs')
    BY <1>2, ResolveFits
  <2> QED BY <1>1, <1>3, <2>1, CallGoesOn
<1> QED BY <1>1, <1>4 DEF NoticeInv, StateInv, LogInv

-----------------------------------------------------------------------------
(* SharedIssues: an issue an open alert holds stays open.                    *)

LEMMA KeepsIssues == ASSUME NoticeInv, NEW a \in Alerts, NEW i, Keeps(a, i) PROVE i \in IssueIDs
BY DEF NoticeInv, LogInv, Keeps, Holds, Sends

\* A step, of p if it is a caller's, that lets no alert hold an issue it did not hold, and closes
\* one only where nobody holds or joins it.
LEMMA IssueSteps ==
  ASSUME IssueInv, NoticeInv', NEW p, \A q \in Callers : q # p => calls'[q] = calls[q],
         IssueIDs \subseteq IssueIDs', excused \subseteq excused',
         \A a \in Alerts : \A i : Keeps(a, i)' /\ i \notin excused' => Keeps(a, i),
         \A i \in IssueIDs : issues[i] = "open" /\ i \notin excused' =>
           issues'[i] = "open" \/ (/\ \A a \in Alerts : ~Keeps(a, i)
                                   /\ \A q \in Callers : q # p => ~Joins(q, i)),
         p \in Callers => \A i \in IssueIDs' : Joins(p, i)' /\ i \notin excused' => issues'[i] = "open",
         p \in Callers => \A i \in IssueIDs' : Leaves(p, i)' /\ i \notin excused' =>
           /\ ~Keeps(calls[p].alert, i)'
           /\ Closes(p)' => \A a \in Alerts : ~Keeps(a, i)'
  PROVE  IssueInv'
<1>1. ASSUME NEW a \in Alerts, NEW i \in IssueIDs', Keeps(a, i)', i \notin excused'
      PROVE  issues'[i] = "open"
  <2>1. Keeps(a, i) /\ i \notin excused
    BY <1>1
  <2>2. i \in IssueIDs
    BY <2>1, KeepsIssues DEF IssueInv
  <2>3. issues[i] = "open"
    BY <2>1, <2>2 DEF IssueInv, HeldInv
  <2> QED BY <1>1, <2>1, <2>2, <2>3
<1>2. ASSUME NEW q \in Callers, NEW i \in IssueIDs', Joins(q, i)', i \notin excused'
      PROVE  issues'[i] = "open"
  <2>1. CASE q = p
    BY <1>2, <2>1
  <2>2. CASE q # p
    <3>1. Joins(q, i)
      BY <1>2, <2>2 DEF Joins, Channel
    <3>2. i \in IssueIDs /\ i \notin excused
      BY <3>1, <1>2 DEF IssueInv, NoticeInv, CallInv, Fits, Joins, Channel
    <3>3. issues[i] = "open"
      BY <3>1, <3>2 DEF IssueInv, JoinInv
    <3> QED BY <1>2, <2>2, <3>1, <3>2, <3>3
  <2> QED BY <2>1, <2>2
<1>3. ASSUME NEW q \in Callers, NEW i \in IssueIDs', Leaves(q, i)', i \notin excused'
      PROVE  /\ ~Keeps(calls[q].alert, i)'
             /\ Closes(q)' => \A a \in Alerts : ~Keeps(a, i)'
  <2>1. CASE q = p
    BY <1>3, <2>1
  <2>2. CASE q # p
    <3>1. calls'[q] = calls[q] /\ Leaves(q, i) /\ (Closes(q)' <=> Closes(q))
      BY <1>3, <2>2 DEF Leaves, Closes
    <3>2. i \in IssueIDs /\ i \notin excused /\ calls[q].alert \in Alerts
      BY <3>1, <1>3 DEF IssueInv, NoticeInv, CallInv, Fits, Leaves, ResolutionSteps
    <3>3. /\ ~Keeps(calls[q].alert, i)
          /\ Closes(q) => \A a \in Alerts : ~Keeps(a, i)
      BY <3>1, <3>2 DEF IssueInv, LeaveInv
    <3>4. ~Keeps(calls[q].alert, i)'
      <4> DEFINE x == calls[q].alert
      <4>1. \A a \in Alerts : a = x => ~Keeps(a, i)'
        BY <1>3, <3>2, <3>3
      <4>2. PICK a \in Alerts : a = calls[q].alert /\ a = calls'[q].alert
        BY <3>1, <3>2
      <4> QED BY <4>1, <4>2 DEF Keeps, OpenAlert, Holds, Sends
    <3>5. Closes(q)' => \A a \in Alerts : ~Keeps(a, i)'
      BY <1>3, <3>1, <3>3
    <3> QED BY <3>4, <3>5
  <2> QED BY <2>1, <2>2
<1>4. HeldInv'
  BY <1>1 DEF HeldInv
<1>5. JoinInv'
  BY <1>2 DEF JoinInv
<1>6. LeaveInv'
  BY <1>3 DEF LeaveInv
<1> QED BY <1>4, <1>5, <1>6 DEF IssueInv

\* What an alert holds after a step that logs nothing.
LEMMA KeepsSame ==
  ASSUME NoticeInv, log' = log, NEW a \in Alerts, NEW i
  PROVE  /\ rows'[a] = rows[a] => (Keeps(a, i)' <=> Keeps(a, i)) /\ (OpenAlert(a)' <=> OpenAlert(a))
         /\ rows'[a].occ = rows[a].occ => (Holds(a, i)' <=> Holds(a, i))
         /\ rows'[a].occ \in Nat /\ rows'[a].occ > rows[a].occ => ~Keeps(a, i)' /\ ~Holds(a, i)'
<1>1. rows'[a].occ = rows[a].occ => (Holds(a, i)' <=> Holds(a, i))
  BY DEF Holds, Sends
<1>2. rows'[a] = rows[a] => (OpenAlert(a)' <=> OpenAlert(a))
  BY DEF OpenAlert
<1>3. ASSUME rows'[a].occ \in Nat, rows'[a].occ > rows[a].occ
      PROVE  ~Holds(a, i)'
  <2> SUFFICES ASSUME Holds(a, i)' PROVE FALSE
    OBVIOUS
  <2>1. PICK n \in DOMAIN log : log[n].alert = a /\ log[n].occ = rows'[a].occ
    BY DEF Holds, Sends
  <2>2. log[n].occ <= rows[a].occ /\ rows[a].occ \in Nat
    BY <2>1, NoticeAssumption DEF NoticeInv, StateInv, LogInv
  <2> QED BY <1>3, <2>1, <2>2
<1> QED BY <1>1, <1>2, <1>3 DEF Keeps

\* A step that neither reopens an alert nor joins or leaves an issue.
LEMMA QuietSteps ==
  ASSUME IssueInv, NoticeInv', NEW p, \A q \in Callers : q # p => calls'[q] = calls[q],
         log' = log, issues' = issues, excused \subseteq excused',
         \A a \in Alerts : rows'[a].occ = rows[a].occ /\ rows'[a].status \in {rows[a].status, "resolved"},
         p \in Callers => calls'[p].pc \notin {"note", "log", "rcount", "rnote", "close"}
  PROVE  IssueInv'
<1>1. IssueIDs' = IssueIDs
  BY DEF IssueIDs
<1>2. \A a \in Alerts : \A i : Keeps(a, i)' /\ i \notin excused' => Keeps(a, i)
  <2> SUFFICES ASSUME NEW a \in Alerts, NEW i, Keeps(a, i)' PROVE Keeps(a, i)
    OBVIOUS
  <2>1. Holds(a, i)' <=> Holds(a, i)
    BY KeepsSame DEF IssueInv
  <2>2. OpenAlert(a)' => OpenAlert(a)
    BY DEF OpenAlert
  <2> QED BY <2>1, <2>2 DEF Keeps
<1>3. \A i \in IssueIDs : issues[i] = "open" => issues'[i] = "open"
  OBVIOUS
<1>4. p \in Callers => \A i \in IssueIDs' : ~Joins(p, i)' /\ ~Leaves(p, i)'
  BY DEF Joins, Leaves
<1> QED BY <1>1, <1>2, <1>3, <1>4, IssueSteps

LEMMA NoCaller == "nobody" \notin Callers
BY DEF Callers

LEMMA NoticeOf == ASSUME IssueInv PROVE NoticeInv
BY DEF IssueInv

LEMMA ProviderChangesIssue == ASSUME IssueInv, NEW w \in Worlds, ProviderChanges(w) PROVE IssueInv'
<1>1. rows' = rows /\ log' = log /\ issues' = issues /\ calls' = calls /\ excused' = excused
  BY DEF ProviderChanges
<1>2. NoticeInv'
  BY ProviderChangesNotice, NoticeOf
<1> QED BY <1>1, <1>2, NoCaller, QuietSteps

LEMMA OperatorReadsIssue == ASSUME IssueInv, NEW a \in Alerts, OperatorReads(a) PROVE IssueInv'
<1>1. rows' = rows /\ log' = log /\ issues' = issues /\ excused' = excused
  BY DEF OperatorReads
<1>2. NoticeInv'
  BY OperatorReadsNotice, NoticeOf
<1>3. calls'["operator"].pc = "resolve" /\ \A q \in Callers : q # "operator" => calls'[q] = calls[q]
  BY DEF OperatorReads, IssueInv, NoticeInv, StateInv, Calls, Callers, Idle
<1> QED BY <1>1, <1>2, <1>3, QuietSteps

LEMMA ListOpenIssue == ASSUME IssueInv, NEW a \in Alerts, ListOpen(a) PROVE IssueInv'
<1>1. rows' = rows /\ log' = log /\ issues' = issues /\ excused' = excused
  BY DEF ListOpen
<1>2. NoticeInv'
  BY ListOpenNotice, NoticeOf
<1>3. calls'["check"].pc = "resolve" /\ \A q \in Callers : q # "check" => calls'[q] = calls[q]
  BY DEF ListOpen, IssueInv, NoticeInv, StateInv, Calls, Callers, Idle
<1> QED BY <1>1, <1>2, <1>3, QuietSteps

LEMMA resolveReplacedIssue == ASSUME IssueInv, resolveReplaced PROVE IssueInv'
<1>1. log' = log /\ issues' = issues /\ excused \subseteq excused'
  BY DEF resolveReplaced
<1>2. /\ NoticeInv' /\ \A b \in Alerts : rows'[b].occ = rows[b].occ /\ rows'[b].status \in {rows[b].status, "resolved"}
      /\ calls'["check"].pc \in {"idle", "check"} /\ calls'["operator"] = calls["operator"]
  BY resolveReplacedNotice, NoticeOf
<1>3. \A q \in Callers : q # "check" => calls'[q] = calls[q]
  BY <1>2 DEF Callers
<1> QED BY <1>1, <1>2, <1>3, QuietSteps

LEMMA ClosedByHandIssue == ASSUME IssueInv, NEW i \in IssueIDs, ClosedByHand(i) PROVE IssueInv'
<1>1. /\ rows' = rows /\ log' = log /\ calls' = calls /\ issues' = [issues EXCEPT ![i] = "closed"]
      /\ excused' = excused \cup {i}
  BY DEF ClosedByHand
<1>2. NoticeInv' /\ NoticeInv
  BY ClosedByHandNotice, NoticeOf
<1>3. IssueIDs' = IssueIDs
  BY <1>1 DEF IssueIDs
<1>4. \A k \in IssueIDs : issues[k] = "open" /\ k \notin excused' => issues'[k] = "open"
  BY <1>1 DEF IssueIDs
<1>5. \A a \in Alerts : \A k : Keeps(a, k)' => Keeps(a, k)
  BY <1>1, <1>2, KeepsSame
<1> QED BY <1>1, <1>2, <1>3, <1>4, <1>5, NoCaller, IssueSteps

LEMMA OperatorSetsIssue ==
  ASSUME IssueInv, NEW a \in Alerts, NEW status \in {"active", "acknowledged", "ignored"}, OperatorSets(a, status)
  PROVE  IssueInv'
<1>1. log' = log /\ issues' = issues /\ calls' = calls /\ IssueIDs' = IssueIDs
  BY DEF OperatorSets, IssueIDs
<1>2. NoticeInv' /\ NoticeInv
  BY OperatorSetsNotice, NoticeOf
<1>3. status \in IssueRowStatuses
  BY DEF IssueRowStatuses
<1>4. excused \subseteq excused'
  BY DEF OperatorSets
<1>5. ASSUME NEW b \in Alerts, NEW i, Keeps(b, i)', i \notin excused'
      PROVE  Keeps(b, i)
  <2>1. CASE rows[a].status = "resolved" /\ status = "active"
    <3>1. rows[a].occ < MaxOcc /\ Starts(a, status)
      BY <2>1 DEF OperatorSets
    <3>2. rows'[a].occ = rows[a].occ + 1 /\ rows[a].occ \in Nat /\ \A x \in Alerts \ {a} : rows'[x] = rows[x]
      <4>1. rows'[a].occ = rows[a].occ + 1 /\ \A x \in Alerts \ {a} : rows'[x] = rows[x]
        BY <1>2, <1>3, <3>1, OccurrenceStarts
      <4>2. rows[a].occ \in Nat
        BY <1>2, NoticeAssumption DEF NoticeInv, StateInv
      <4> QED BY <4>1, <4>2
    <3>3. ~Keeps(a, i)'
      <4>1. rows'[a].occ \in Nat /\ rows'[a].occ > rows[a].occ
        BY <3>2
      <4> QED BY <1>1, <1>2, <4>1, KeepsSame
    <3>4. b # a => (Keeps(b, i)' <=> Keeps(b, i))
      <4>1. b # a => rows'[b] = rows[b]
        BY <3>2
      <4> QED BY <1>1, <1>2, <4>1, KeepsSame
    <3> QED BY <1>5, <3>3, <3>4
  <2>2. CASE ~(rows[a].status = "resolved" /\ status = "active")
    <3>1. /\ rows' = [rows EXCEPT ![a].status = status]
          /\ excused' = IF OpenAlert(a) THEN excused ELSE excused \cup {k \in IssueIDs : Holds(a, k)}
      BY <2>2 DEF OperatorSets
    <3>2. (\A x \in Alerts \ {a} : rows'[x] = rows[x]) /\ \A x \in Alerts : rows'[x].occ = rows[x].occ
      BY <1>2, <1>3, <3>1, StatusSet
    <3>3. CASE b = a
      <4>1. Holds(a, i)
        BY <1>1, <1>2, <1>5, <3>2, <3>3, KeepsSame DEF Keeps
      <4>2. i \in IssueIDs
        BY <1>2, <4>1 DEF NoticeInv, LogInv, Holds, Sends
      <4>3. OpenAlert(a)
        BY <1>5, <3>1, <4>1, <4>2
      <4> QED BY <3>3, <4>1, <4>3 DEF Keeps
    <3>4. CASE b # a
      BY <1>1, <1>2, <1>5, <3>2, <3>4, KeepsSame
    <3> QED BY <3>3, <3>4
  <2> QED BY <2>1, <2>2
<1>6. \A i \in IssueIDs : issues[i] = "open" => issues'[i] = "open"
  BY <1>1
<1> QED BY <1>1, <1>2, <1>4, <1>5, <1>6, NoCaller, IssueSteps

LEMMA DetectIssue == ASSUME IssueInv, NEW a \in Alerts, Detect(a) PROVE IssueInv'
<1>1. /\ log' = log /\ issues' = issues /\ IssueIDs' = IssueIDs
      /\ calls' = [calls EXCEPT !["check"] = [Idle EXCEPT !.pc = "supersede", !.alert = a]]
  BY DEF Detect, IssueIDs
<1>2. NoticeInv' /\ NoticeInv
  BY DetectNotice, NoticeOf
<1>3. calls'["check"].pc = "supersede" /\ \A q \in Callers : q # "check" => calls'[q] = calls[q]
  BY <1>1, <1>2 DEF NoticeInv, StateInv, Calls, Callers, Idle
<1>4. excused \subseteq excused'
  BY DEF Detect
<1>5. ASSUME NEW b \in Alerts, NEW i, Keeps(b, i)'
      PROVE  Keeps(b, i)
  <2>1. CASE rows[a].occ < MaxOcc /\ Starts(a, "active")
    <3>1. rows'[a].occ = rows[a].occ + 1 /\ \A x \in Alerts \ {a} : rows'[x] = rows[x]
      <4>1. "active" \in IssueRowStatuses
        BY DEF IssueRowStatuses
      <4> QED BY <1>2, <2>1, <4>1, OccurrenceStarts
    <3>2. rows[a].occ \in Nat
      BY <1>2, NoticeAssumption DEF NoticeInv, StateInv
    <3>3. ~Keeps(a, i)'
      <4>1. rows'[a].occ \in Nat /\ rows'[a].occ > rows[a].occ
        BY <3>1, <3>2
      <4> QED BY <1>1, <1>2, <4>1, KeepsSame
    <3>4. b # a => (Keeps(b, i)' <=> Keeps(b, i))
      <4>1. b # a => rows'[b] = rows[b]
        BY <3>1
      <4> QED BY <1>1, <1>2, <4>1, KeepsSame
    <3> QED BY <1>5, <3>3, <3>4
  <2>2. CASE rows' = rows
    BY <1>1, <1>2, <1>5, <2>2, KeepsSame
  <2> QED BY <2>1, <2>2 DEF Detect
<1>6. \A i \in IssueIDs : issues[i] = "open" => issues'[i] = "open"
  BY <1>1
<1>7. \A i \in IssueIDs' : ~Joins("check", i)' /\ ~Leaves("check", i)'
  BY <1>3 DEF Joins, Leaves
<1> QED BY <1>1, <1>2, <1>3, <1>4, <1>5, <1>6, <1>7, IssueSteps

\* What a call that is somewhere in a send or a resolution has.
LEMMA CallHas ==
  ASSUME NoticeInv, NEW p \in Callers, calls[p].pc # "idle"
  PROVE  /\ calls[p] \in Calls /\ calls[p].alert \in Alerts
         /\ calls[p].pc \in AnnouncementSteps \cup ResolutionSteps => Channel(p) \in Channels
BY DEF NoticeInv, CallInv, Fits, Calls, Channel

LEMMA ResolveListedIssue == ASSUME IssueInv, NEW p \in Callers, ResolveListed(p) PROVE IssueInv'
<1> DEFINE a == calls[p].alert
<1>1. /\ found' = found /\ log' = log /\ issues' = issues /\ told' = told /\ excused' = excused /\ doubt' = doubt
      /\ calls[p].pc = "resolve" /\ IssueIDs' = IssueIDs
  BY DEF ResolveListed, At, IssueIDs
<1>2. NoticeInv
  BY NoticeOf
<1>3. a \in Alerts
  BY <1>1, <1>2, CallHas
<1> HIDE DEF a
<1>4. PICK call : /\ calls' = [calls EXCEPT ![p] = call] /\ call \in {Idle, Resolution(a)}
                  /\ rows' = rows \/ rows' = [rows EXCEPT ![a].status = "resolved"]
  BY <1>2 DEF ResolveListed, Call, a, NoticeInv, StateInv
<1>5. Fits(p, call, IssueIDs') /\ call.pc \in {"idle", "rcheck"}
  <2>1. CASE call = Idle
    <3>1. Fits(p, Idle, IssueIDs')
      BY IdleFits
    <3>2. Idle.pc = "idle"
      BY DEF Idle
    <3> QED BY <2>1, <3>1, <3>2
  <2>2. CASE call = Resolution(a)
    BY <1>3, <2>2, ResolutionFits
  <2> QED BY <1>4, <2>1, <2>2
<1>6. calls' \in [Callers -> Calls] /\ CallInv' /\ calls'[p] = call /\ \A q \in Callers : q # p => calls'[q] = calls[q]
  BY <1>1, <1>2, <1>4, <1>5, CallGoesOn
<1>7. /\ rows' \in [Alerts -> [status : IssueRowStatuses, occ : 0 .. MaxOcc]]
      /\ \A b \in Alerts : rows'[b].occ = rows[b].occ /\ rows'[b].status \in {rows[b].status, "resolved"}
  <2>1. CASE rows' = rows
    BY <1>2, <2>1 DEF NoticeInv, StateInv
  <2>2. CASE rows' = [rows EXCEPT ![a].status = "resolved"]
    <3>1. "resolved" \in IssueRowStatuses
      BY DEF IssueRowStatuses
    <3>2. /\ rows' \in [Alerts -> [status : IssueRowStatuses, occ : 0 .. MaxOcc]]
          /\ rows'[a].status = "resolved" /\ \A b \in Alerts \ {a} : rows'[b] = rows[b]
          /\ \A b \in Alerts : rows'[b].occ = rows[b].occ
      BY <1>2, <1>3, <2>2, <3>1, StatusSet
    <3> QED BY <3>2
  <2> QED BY <1>4, <2>1, <2>2
<1>8. LogInv'
  <2>1. \A b \in Alerts : rows[b].occ \in Nat
    BY <1>2, NoticeAssumption DEF NoticeInv, StateInv
  <2> QED BY <1>1, <1>2, <1>7, <2>1, LogKept
<1>9. NoticeInv'
  BY <1>1, <1>2, <1>6, <1>7, <1>8 DEF NoticeInv, StateInv
<1>10. calls'[p].pc \notin {"note", "log", "rcount", "rnote", "close"}
  BY <1>5, <1>6
<1> QED BY <1>1, <1>6, <1>7, <1>9, <1>10, QuietSteps

\* A call's step that changes neither the alerts nor the log: the types.
LEMMA CallSteps ==
  ASSUME NoticeInv, found' = found, rows' = rows, log' = log, issues' \in Seq({"open", "closed"}), IssueIDs \subseteq IssueIDs',
         calls' \in [Callers -> Calls], CallInv', doubt' \subseteq Alerts, excused' \subseteq IssueIDs',
         told' \in [Alerts -> [Channels -> Nat]]
  PROVE  NoticeInv'
<1>1. \A b \in Alerts : rows[b].occ \in Nat
  BY NoticeAssumption DEF NoticeInv, StateInv
<1>2. LogInv'
  BY <1>1, LogKept
<1> QED BY <1>2 DEF NoticeInv, StateInv

LEMMA CheckAlreadySentIssue == ASSUME IssueInv, NEW p \in Callers, CheckAlreadySent(p) PROVE IssueInv'
<1>1. /\ found' = found /\ rows' = rows /\ log' = log /\ issues' = issues /\ told' = told /\ excused' = excused
      /\ calls[p].pc = "check" /\ IssueIDs' = IssueIDs /\ doubt' \subseteq doubt \cup {calls[p].alert}
  BY DEF CheckAlreadySent, At, Call, IssueIDs
<1>2. NoticeInv /\ calls[p].alert \in Alerts
  BY <1>1, NoticeOf, CallHas
<1>3. /\ calls' \in [Callers -> Calls] /\ CallInv' /\ \A q \in Callers : q # p => calls'[q] = calls[q]
      /\ calls'[p].pc \notin {"note", "log", "rcount", "rnote", "close"}
  <2> DEFINE pc == IF Channel(p) = "gitlab" THEN "find" ELSE "post"
  <2>1. CASE Skip(p)
    <3>1. calls[p].pc \in AnnouncementSteps \cup ResolutionSteps
      BY <1>1 DEF AnnouncementSteps
    <3> QED BY <1>1, <1>2, <2>1, <3>1, SkipFits
  <2>2. CASE Goto(p, pc)
    <3>1. pc \in {"find", "post"} /\ (pc = "find" <=> Channel(p) = "gitlab")
      OBVIOUS
    <3>2. calls[p].pc \in AnnouncementSteps /\ pc \in AnnouncementSteps
      BY <1>1, <3>1 DEF AnnouncementSteps
    <3> HIDE DEF pc
    <3> QED BY <1>1, <1>2, <2>2, <3>1, <3>2, GotoFits
  <2> QED BY <2>1, <2>2 DEF CheckAlreadySent
<1>4. NoticeInv'
  BY <1>1, <1>2, <1>3, CallSteps DEF NoticeInv, StateInv
<1> QED BY <1>1, <1>3, <1>4, QuietSteps

LEMMA FindIssue == ASSUME IssueInv, NEW p \in Callers, Find(p) PROVE IssueInv'
<1> DEFINE a == calls[p].alert
           held == {i \in IssueIDs : i = FindShared \/ \E b \in {a} \cup Replaces[a] : Holds(b, i)}
           kept == IF FindShared # NoIssue THEN FindShared ELSE FindHeld(Replaces[a])
<1>1. /\ found' = found /\ rows' = rows /\ log' = log /\ issues' = issues /\ told' = told /\ doubt' = doubt
      /\ calls[p].pc = "find" /\ IssueIDs' = IssueIDs
  BY DEF Find, At, IssueIDs
<1>2. NoticeInv /\ a \in Alerts /\ Channel(p) = "gitlab"
  BY <1>1, NoticeOf, CallHas DEF NoticeInv, CallInv, Fits, Channel
<1>3. excused \subseteq excused' /\ excused' \subseteq IssueIDs
  <2>1. held \subseteq IssueIDs
    OBVIOUS
  <2>2. excused' \in {excused \cup (held \ {kept}), excused \cup held}
    BY DEF Find, Call
  <2> HIDE DEF held, kept
  <2> QED BY <1>2, <2>1, <2>2 DEF NoticeInv, StateInv
<1>4. sharedIssue(a) \in IssueIDs \cup {NoIssue}
  <2> DEFINE open == UNION {Sends(b, "gitlab") : b \in {x \in Alerts : OpenAlert(x)}}
             replaced == UNION {Sends(b, "gitlab") : b \in Replaces[a]}
  <2>1. /\ open \in SUBSET DOMAIN log /\ replaced \in SUBSET DOMAIN log
        /\ \A n \in open \cup replaced : log[n].channel = "gitlab"
    BY DEF Sends
  <2>2. FindShared = Latest(open) /\ FindHeld(Replaces[a]) = Latest(replaced)
    BY DEF FindShared, FindHeld
  <2> HIDE DEF open, replaced
  <2>3. Latest(open) \in IssueIDs \cup {NoIssue} /\ Latest(replaced) \in IssueIDs \cup {NoIssue}
    BY <1>2, <2>1, LatestIs
  <2> QED BY <2>2, <2>3 DEF sharedIssue
<1>5. /\ calls' \in [Callers -> Calls] /\ CallInv' /\ \A q \in Callers : q # p => calls'[q] = calls[q]
      /\ calls'[p].pc \notin {"note", "log", "rcount", "rnote", "close"}
  <2>1. CASE calls' = [calls EXCEPT ![p].issue = sharedIssue(a), ![p].pc = IF sharedIssue(a) = NoIssue THEN "create" ELSE "read"]
    <3> DEFINE pc == IF sharedIssue(a) = NoIssue THEN "create" ELSE "read"
               issue == sharedIssue(a)
               next == [calls[p] EXCEPT !.issue = issue, !.pc = pc]
    <3>1. pc \in {"create", "read"} /\ issue \in Nat /\ (pc = "read" => issue \in IssueIDs)
      BY <1>2, <1>4, IssuesAre DEF NoIssue
    <3>2. calls' = [calls EXCEPT ![p].issue = issue, ![p].pc = pc] /\ calls \in [Callers -> Calls] /\ Fits(p, calls[p], IssueIDs)
      BY <1>2, <2>1 DEF NoticeInv, StateInv, CallInv
    <3> HIDE DEF pc, issue
    <3>3. calls' = [calls EXCEPT ![p] = next]
      BY <3>2
    <3>4. /\ next \in Calls /\ next.todo = calls[p].todo /\ next.alert = calls[p].alert
          /\ next.pc = pc /\ next.issue = issue
      BY <3>1, <3>2 DEF Calls, Steps, AnnouncementSteps
    <3> HIDE DEF next
    <3>5. Fits(p, next, IssueIDs')
      <4> DEFINE call == calls[p]
      <4>1. ChannelOf(call) = "gitlab" /\ call.pc \in AnnouncementSteps /\ next.pc \in AnnouncementSteps
        BY <1>1, <1>2, <3>1, <3>4 DEF Channel, AnnouncementSteps
      <4>2. next.pc # "post" /\ next.pc # "log" /\ (next.pc = "read" => next.issue \in IssueIDs') /\ next.pc \in {"create", "read"}
        BY <1>1, <3>1, <3>4
      <4> QED BY <1>1, <3>2, <3>4, <4>1, <4>2, StepFits
    <3>6. /\ calls' \in [Callers -> Calls] /\ CallInv' /\ calls'[p] = next
          /\ \A q \in Callers : q # p => calls'[q] = calls[q]
      BY <1>1, <1>2, <3>3, <3>5, CallGoesOn
    <3> QED BY <3>1, <3>4, <3>6
  <2>2. CASE Goto(p, "create")
    <3>1. calls[p].pc \in AnnouncementSteps /\ "create" \in AnnouncementSteps
      BY <1>1 DEF AnnouncementSteps
    <3>2. IssueIDs \subseteq IssueIDs' /\ NoticeInv /\ Channel(p) = "gitlab"
      BY <1>1, <1>2
    <3> HIDE DEF a, held
    <3>3. /\ calls' \in [Callers -> Calls] /\ CallInv' /\ \A q \in Callers : q # p => calls'[q] = calls[q]
          /\ calls'[p].pc = "create"
      BY <2>2, <3>1, <3>2, GotoFits
    <3> QED BY <3>3
  <2> QED BY <2>1, <2>2 DEF Find, Call
<1>6. NoticeInv'
  BY <1>1, <1>2, <1>3, <1>5, CallSteps DEF NoticeInv, StateInv
<1> QED BY <1>1, <1>3, <1>5, <1>6, QuietSteps

\* A call's step that changes neither the alerts nor the log: the issues.
LEMMA MoveSteps ==
  ASSUME IssueInv, NEW p \in Callers, found' = found, rows' = rows, log' = log,
         calls' \in [Callers -> Calls], CallInv', \A q \in Callers : q # p => calls'[q] = calls[q],
         issues' \in Seq({"open", "closed"}), IssueIDs \subseteq IssueIDs', doubt' \subseteq Alerts,
         excused \subseteq excused', excused' \subseteq IssueIDs', told' \in [Alerts -> [Channels -> Nat]],
         \A i \in IssueIDs : issues[i] = "open" /\ i \notin excused' =>
           issues'[i] = "open" \/ (/\ \A a \in Alerts : ~Keeps(a, i)
                                   /\ \A q \in Callers : q # p => ~Joins(q, i)),
         \A i \in IssueIDs' : Joins(p, i)' /\ i \notin excused' => issues'[i] = "open",
         \A i \in IssueIDs' : Leaves(p, i)' /\ i \notin excused' =>
           /\ calls'[p].alert \in Alerts => ~Keeps(calls'[p].alert, i)
           /\ Closes(p)' => \A a \in Alerts : ~Keeps(a, i)
  PROVE  IssueInv'
<1>1. NoticeInv /\ NoticeInv'
  BY NoticeOf, CallSteps
<1>2. \A a \in Alerts : \A i : Keeps(a, i)' <=> Keeps(a, i)
  BY <1>1, KeepsSame
<1>3. ASSUME NEW i \in IssueIDs', Leaves(p, i)', i \notin excused'
      PROVE  ~Keeps(calls[p].alert, i)' /\ (Closes(p)' => \A a \in Alerts : ~Keeps(a, i)')
  <2>1. calls'[p].alert \in Alerts
    BY <1>1, <1>3 DEF NoticeInv, CallInv, Fits, Leaves
  <2>2. PICK x \in Alerts : x = calls'[p].alert
    BY <2>1
  <2>3. ~Keeps(x, i)'
    BY <1>2, <1>3, <2>2
  <2>4. ~Keeps(calls[p].alert, i)'
    BY <2>2, <2>3 DEF Keeps, OpenAlert, Holds, Sends
  <2> QED BY <1>2, <1>3, <2>4
<1> QED BY <1>1, <1>2, <1>3, IssueSteps

LEMMA SkipSteps ==
  ASSUME IssueInv, NEW p \in Callers, found' = found, rows' = rows, log' = log,
         Skip(p), calls[p].pc \in AnnouncementSteps \cup ResolutionSteps,
         issues' \in Seq({"open", "closed"}), IssueIDs \subseteq IssueIDs', doubt' \subseteq Alerts,
         excused \subseteq excused', excused' \subseteq IssueIDs', told' \in [Alerts -> [Channels -> Nat]],
         \A i \in IssueIDs : issues[i] = "open" /\ i \notin excused' =>
           issues'[i] = "open" \/ (/\ \A a \in Alerts : ~Keeps(a, i)
                                   /\ \A q \in Callers : q # p => ~Joins(q, i))
  PROVE  IssueInv'
<1>1. NoticeInv
  BY NoticeOf
<1>2. /\ calls' \in [Callers -> Calls] /\ CallInv' /\ calls'[p].pc \in {"idle", "check", "rcheck"}
      /\ \A q \in Callers : q # p => calls'[q] = calls[q]
  BY <1>1, SkipFits
<1>3. \A i \in IssueIDs' : ~Joins(p, i)' /\ ~Leaves(p, i)'
  BY <1>2 DEF Joins, Leaves
<1> QED BY <1>2, <1>3, MoveSteps

\* The types of the parts a step leaves alone.
LEMMA PartsKept ==
  ASSUME NoticeInv
  PROVE  /\ issues' = issues => issues' \in Seq({"open", "closed"}) /\ IssueIDs \subseteq IssueIDs'
         /\ doubt' = doubt => doubt' \subseteq Alerts
         /\ told' = told => told' \in [Alerts -> [Channels -> Nat]]
         /\ excused' = excused /\ IssueIDs \subseteq IssueIDs' => excused \subseteq excused' /\ excused' \subseteq IssueIDs'
         /\ issues' = issues => \A i \in IssueIDs : issues[i] = "open" => issues'[i] = "open"
BY DEF NoticeInv, StateInv, IssueIDs

LEMMA createIssueIssue == ASSUME IssueInv, NEW p \in Callers, createIssue(p) PROVE IssueInv'
<1> DEFINE new == Len(issues) + 1
           a == calls[p].alert
<1>1. found' = found /\ rows' = rows /\ log' = log /\ calls[p].pc = "create"
  BY DEF createIssue, At
<1>2. NoticeInv /\ a \in Alerts /\ Channel(p) = "gitlab" /\ "gitlab" \in Channels
  <2>1. NoticeInv
    BY NoticeOf
  <2>2. Channel(p) \in Channels /\ a \in Alerts
    BY <1>1, <2>1, CallHas DEF AnnouncementSteps
  <2>3. Channel(p) = "gitlab"
    BY <1>1, <2>1 DEF NoticeInv, CallInv, Fits, Channel
  <2> QED BY <2>1, <2>2, <2>3
<1>3. calls[p].pc \in AnnouncementSteps
  BY <1>1 DEF AnnouncementSteps
<1>4. CASE issues' = issues
  <2>1. Skip(p) /\ told' = told /\ excused' = excused /\ doubt' = doubt
    <3>1. issues' # Append(issues, "open")
      BY <1>2, <1>4 DEF NoticeInv, StateInv
    <3> QED BY <3>1 DEF createIssue
  <2> HIDE DEF a, new
  <2>2. IssueIDs \subseteq IssueIDs' /\ issues' \in Seq({"open", "closed"})
    BY <1>2, <1>4, PartsKept
  <2>3. /\ doubt' \subseteq Alerts /\ told' \in [Alerts -> [Channels -> Nat]] /\ excused \subseteq excused' /\ excused' \subseteq IssueIDs'
        /\ \A i \in IssueIDs : issues[i] = "open" => issues'[i] = "open"
    BY <1>2, <1>4, <2>1, <2>2, PartsKept
  <2> QED BY <1>1, <1>3, <2>1, <2>2, <2>3, SkipSteps
<1>5. CASE issues' # issues
  <2>1. issues' = Append(issues, "open") /\ Tell(p, "gitlab")
    BY <1>5 DEF createIssue
  <2>2. issues' \in Seq({"open", "closed"}) /\ IssueIDs' = IssueIDs \cup {new} /\ issues'[new] = "open" /\ new \in Nat
        /\ \A i \in IssueIDs : issues'[i] = issues[i]
    BY <1>2, <2>1 DEF NoticeInv, StateInv, IssueIDs
  <2>3. told' \in [Alerts -> [Channels -> Nat]]
    BY <1>2, <2>1, ToldOne DEF Call
  <2>4. CASE Skip(p) /\ excused' = excused \cup {new} /\ doubt' = doubt \cup {a}
    <3>1. doubt' \subseteq Alerts /\ excused \subseteq excused' /\ excused' \subseteq IssueIDs'
      BY <1>2, <2>2, <2>4 DEF NoticeInv, StateInv
    <3> HIDE DEF a, new
    <3> QED BY <1>1, <1>3, <2>2, <2>3, <2>4, <3>1, SkipSteps
  <2>5. CASE calls' = [calls EXCEPT ![p].issue = new, ![p].pc = "log"] /\ excused' = excused /\ doubt' = doubt
    <3> DEFINE next == [calls[p] EXCEPT !.issue = new, !.pc = "log"]
    <3>1. calls \in [Callers -> Calls] /\ Fits(p, calls[p], IssueIDs)
      BY <1>2 DEF NoticeInv, StateInv, CallInv
    <3> HIDE DEF new
    <3>2. calls' = [calls EXCEPT ![p] = next]
      BY <2>5, <3>1
    <3>3. /\ next \in Calls /\ next.todo = calls[p].todo /\ next.alert = calls[p].alert
          /\ next.pc = "log" /\ next.issue = new
      BY <2>2, <3>1 DEF Calls, Steps, AnnouncementSteps
    <3> HIDE DEF next
    <3>4. Fits(p, next, IssueIDs') /\ ChannelOf(next) = "gitlab"
      <4> DEFINE call == calls[p]
      <4>1. ChannelOf(call) = "gitlab" /\ call.pc \in AnnouncementSteps /\ next.pc \in AnnouncementSteps
        BY <1>2, <1>3, <3>3 DEF Channel, AnnouncementSteps
      <4>2. next.issue \in IssueIDs' /\ IssueIDs \subseteq IssueIDs'
        BY <2>2, <3>3
      <4> QED BY <3>1, <3>3, <4>1, <4>2, StepFits
    <3>5. /\ calls' \in [Callers -> Calls] /\ CallInv' /\ calls'[p] = next
          /\ \A q \in Callers : q # p => calls'[q] = calls[q]
      <4>1. IssueIDs \subseteq IssueIDs'
        BY <2>2
      <4> QED BY <1>2, <3>2, <3>4, <4>1, CallGoesOn
    <3>6. doubt' \subseteq Alerts /\ excused \subseteq excused' /\ excused' \subseteq IssueIDs' /\ IssueIDs \subseteq IssueIDs'
      BY <1>2, <2>2, <2>5 DEF NoticeInv, StateInv
    <3>7. \A i \in IssueIDs' : ~Leaves(p, i)' /\ (Joins(p, i)' => i = new)
      BY <3>3, <3>5 DEF Leaves, Joins
    <3>8. \A i \in IssueIDs : issues[i] = "open" => issues'[i] = "open"
      BY <2>2
    <3> HIDE DEF a
    <3> QED BY <1>1, <2>2, <2>3, <3>5, <3>6, <3>7, <3>8, MoveSteps
  <2>6. \/ Skip(p) /\ excused' = excused \cup {new} /\ doubt' = doubt \cup {a}
        \/ calls' = [calls EXCEPT ![p].issue = new, ![p].pc = "log"] /\ excused' = excused /\ doubt' = doubt
    BY <1>5 DEF createIssue, Call
  <2> QED BY <2>4, <2>5, <2>6
<1> QED BY <1>4, <1>5

LEMMA readIssueIssue == ASSUME IssueInv, NEW p \in Callers, readIssue(p) PROVE IssueInv'
<1>1. /\ found' = found /\ rows' = rows /\ log' = log /\ issues' = issues /\ told' = told /\ excused' = excused
      /\ doubt' = doubt /\ calls[p].pc = "read"
  BY DEF readIssue, At
<1>2. NoticeInv /\ Channel(p) = "gitlab" /\ calls[p].issue \in IssueIDs
  BY <1>1, NoticeOf DEF NoticeInv, CallInv, Fits, Channel
<1>3. calls[p].pc \in AnnouncementSteps
  BY <1>1 DEF AnnouncementSteps
<1>4. issues' \in Seq({"open", "closed"}) /\ IssueIDs \subseteq IssueIDs'
  BY <1>1, <1>2, PartsKept
<1>5. /\ doubt' \subseteq Alerts /\ told' \in [Alerts -> [Channels -> Nat]] /\ excused \subseteq excused' /\ excused' \subseteq IssueIDs'
      /\ \A i \in IssueIDs : issues[i] = "open" => issues'[i] = "open"
  BY <1>1, <1>2, <1>4, PartsKept
<1>6. CASE Skip(p)
  BY <1>1, <1>3, <1>4, <1>5, <1>6, SkipSteps
<1>7. CASE Goto(p, IF issues[calls[p].issue] = "closed" THEN "edit" ELSE "note")
  <2> DEFINE pc == IF issues[calls[p].issue] = "closed" THEN "edit" ELSE "note"
  <2>1. pc \in {"edit", "note"} /\ pc \in AnnouncementSteps /\ (pc = "note" => issues[calls[p].issue] = "open") /\ Goto(p, pc)
    BY <1>2, <1>7 DEF NoticeInv, StateInv, IssueIDs, AnnouncementSteps
  <2> HIDE DEF pc
  <2>2. /\ calls' \in [Callers -> Calls] /\ CallInv' /\ \A q \in Callers : q # p => calls'[q] = calls[q]
        /\ calls'[p].pc = pc /\ calls'[p].issue = calls[p].issue
    BY <1>2, <1>3, <1>4, <2>1, GotoFits
  <2>3. \A i \in IssueIDs' : ~Leaves(p, i)' /\ (Joins(p, i)' => issues'[i] = "open")
    BY <1>1, <2>1, <2>2 DEF Leaves, Joins
  <2> QED BY <1>1, <1>4, <1>5, <2>2, <2>3, MoveSteps
<1> QED BY <1>6, <1>7 DEF readIssue, Call

LEMMA reopenIssueIssue == ASSUME IssueInv, NEW p \in Callers, reopenIssue(p) PROVE IssueInv'
<1> DEFINE i == calls[p].issue
<1>1. found' = found /\ rows' = rows /\ log' = log /\ told' = told /\ doubt' = doubt /\ calls[p].pc = "edit"
  BY DEF reopenIssue, At
<1>2. NoticeInv /\ Channel(p) = "gitlab" /\ i \in IssueIDs
  BY <1>1, NoticeOf DEF NoticeInv, CallInv, Fits, Channel
<1>3. calls[p].pc \in AnnouncementSteps
  BY <1>1 DEF AnnouncementSteps
<1>4. issues' = issues \/ issues' = [issues EXCEPT ![i] = "open"]
  BY DEF reopenIssue, Call
<1>5. /\ issues' \in Seq({"open", "closed"}) /\ IssueIDs' = IssueIDs
      /\ \A k \in IssueIDs : issues[k] = "open" => issues'[k] = "open"
  <2>1. CASE issues' = issues
    BY <1>2, <2>1 DEF NoticeInv, StateInv, IssueIDs
  <2>2. CASE issues' = [issues EXCEPT ![i] = "open"]
    BY <1>2, <2>2 DEF NoticeInv, StateInv, IssueIDs
  <2> QED BY <1>4, <2>1, <2>2
<1>6. excused' = excused \/ excused' = excused \cup {i}
  BY DEF reopenIssue, Call
<1>7. excused \subseteq excused' /\ excused' \subseteq IssueIDs' /\ doubt' \subseteq Alerts /\ told' \in [Alerts -> [Channels -> Nat]]
  BY <1>1, <1>2, <1>5, <1>6 DEF NoticeInv, StateInv
<1>8. CASE Skip(p)
  <2> HIDE DEF i
  <2> QED BY <1>1, <1>3, <1>5, <1>7, <1>8, SkipSteps
<1>9. CASE issues' = [issues EXCEPT ![i] = "open"] /\ Goto(p, "note")
  <2>1. "note" \in AnnouncementSteps /\ IssueIDs \subseteq IssueIDs' /\ issues'[i] = "open"
    BY <1>2, <1>5, <1>9 DEF AnnouncementSteps, NoticeInv, StateInv, IssueIDs
  <2>2. /\ calls' \in [Callers -> Calls] /\ CallInv' /\ \A q \in Callers : q # p => calls'[q] = calls[q]
        /\ calls'[p].pc = "note" /\ calls'[p].issue = i
    BY <1>2, <1>3, <1>9, <2>1, GotoFits
  <2>3. \A k \in IssueIDs' : ~Leaves(p, k)' /\ (Joins(p, k)' => issues'[k] = "open")
    BY <2>1, <2>2 DEF Leaves, Joins
  <2> HIDE DEF i
  <2> QED BY <1>1, <1>5, <1>7, <2>1, <2>2, <2>3, MoveSteps
<1> QED BY <1>8, <1>9 DEF reopenIssue, Call

LEMMA PostIssue == ASSUME IssueInv, NEW p \in Callers, Post(p) PROVE IssueInv'
<1> DEFINE a == calls[p].alert
<1>1. found' = found /\ rows' = rows /\ log' = log /\ issues' = issues /\ calls[p].pc \in {"note", "post"}
  BY DEF Post, At
<1>2. NoticeInv /\ a \in Alerts /\ Channel(p) \in Channels /\ calls[p].pc \in AnnouncementSteps
  BY <1>1, NoticeOf, CallHas DEF AnnouncementSteps
<1>3. issues' \in Seq({"open", "closed"}) /\ IssueIDs \subseteq IssueIDs' /\ \A i \in IssueIDs : issues[i] = "open" => issues'[i] = "open"
  BY <1>1, <1>2, PartsKept
<1>4. told' \in [Alerts -> [Channels -> Nat]]
  <2> DEFINE c == Channel(p)
  <2>1. told' = told \/ Tell(p, c)
    BY DEF Post
  <2> HIDE DEF c
  <2>2. CASE told' = told
    BY <1>2, <2>2, PartsKept
  <2>3. CASE Tell(p, c)
    BY <1>2, <2>3, ToldOne DEF c, Call
  <2> QED BY <2>1, <2>2, <2>3
<1>5. doubt' \subseteq Alerts
  <2>1. doubt' = doubt \/ doubt' = doubt \cup {a}
    BY DEF Post, Call
  <2> QED BY <1>2, <2>1 DEF NoticeInv, StateInv
<1>6. excused \subseteq excused' /\ excused' \subseteq IssueIDs'
  <2>1. excused' = excused \/ (calls[p].pc = "note" /\ excused' = excused \cup {calls[p].issue})
    BY DEF Post, Call, At
  <2>2. calls[p].pc = "note" => calls[p].issue \in IssueIDs
    BY <1>2 DEF NoticeInv, CallInv, Fits
  <2> QED BY <1>2, <1>3, <2>1, <2>2 DEF NoticeInv, StateInv
<1>7. CASE Skip(p)
  <2> HIDE DEF a
  <2> QED BY <1>1, <1>2, <1>3, <1>4, <1>5, <1>6, <1>7, SkipSteps
<1>8. CASE Goto(p, "log") /\ excused' = excused
  <2>1. "log" \in AnnouncementSteps /\ (Channel(p) = "gitlab" => calls[p].pc = "note" /\ calls[p].issue \in IssueIDs)
    BY <1>1, <1>2 DEF AnnouncementSteps, NoticeInv, CallInv, Fits, Channel
  <2>2. /\ calls' \in [Callers -> Calls] /\ CallInv' /\ \A q \in Callers : q # p => calls'[q] = calls[q]
        /\ calls'[p].pc = "log" /\ calls'[p].issue = calls[p].issue /\ ChannelOf(calls'[p]) = ChannelOf(calls[p])
    <3> HIDE DEF a
    <3> QED BY <1>2, <1>3, <1>8, <2>1, GotoFits
  <2>3. \A i \in IssueIDs' : ~Leaves(p, i)'
    BY <2>2 DEF Leaves
  <2>4. \A i \in IssueIDs' : Joins(p, i)' /\ i \notin excused' => issues'[i] = "open"
    <3> SUFFICES ASSUME NEW i \in IssueIDs', Joins(p, i)', i \notin excused' PROVE issues'[i] = "open"
      OBVIOUS
    <3>1. calls'[p].issue = i /\ ChannelOf(calls'[p]) = "gitlab"
      BY DEF Joins, Channel
    <3>2. Joins(p, i) /\ i \in IssueIDs /\ i \notin excused
      BY <1>8, <2>1, <2>2, <3>1 DEF Joins, Channel
    <3>3. issues[i] = "open"
      BY <3>2 DEF IssueInv, JoinInv
    <3> QED BY <1>3, <3>2, <3>3
  <2> HIDE DEF a
  <2> QED BY <1>1, <1>3, <1>4, <1>5, <1>6, <2>2, <2>3, <2>4, MoveSteps
<1> QED BY <1>7, <1>8 DEF Post

\* A send is logged: what the alerts hold then.
LEMMA LogAppended ==
  ASSUME NoticeInv, NEW e \in Sent, log' = Append(log, e), rows' = rows
  PROVE  /\ log' \in Seq(Sent) /\ Len(log) + 1 \in DOMAIN log' /\ log'[Len(log) + 1] = e
         /\ DOMAIN log' = DOMAIN log \cup {Len(log) + 1} /\ \A n \in DOMAIN log : log'[n] = log[n]
         /\ \A a \in Alerts : \A i : Keeps(a, i)' =>
              Keeps(a, i) \/ (a = e.alert /\ e.channel = "gitlab" /\ i = e.issue /\ OpenAlert(a))
<1>1. /\ log' \in Seq(Sent) /\ Len(log) + 1 \in DOMAIN log' /\ log'[Len(log) + 1] = e
      /\ DOMAIN log' = DOMAIN log \cup {Len(log) + 1} /\ \A n \in DOMAIN log : log'[n] = log[n]
  BY DEF NoticeInv, StateInv
<1>2. ASSUME NEW a \in Alerts, NEW i, Keeps(a, i)'
      PROVE  Keeps(a, i) \/ (a = e.alert /\ e.channel = "gitlab" /\ i = e.issue /\ OpenAlert(a))
  <2>1. OpenAlert(a)
    BY <1>2 DEF Keeps, OpenAlert
  <2>2. PICK n \in DOMAIN log' : /\ log'[n].alert = a /\ log'[n].channel = "gitlab" /\ log'[n].occ = rows[a].occ
                                 /\ log'[n].issue = i
    BY <1>2 DEF Keeps, Holds, Sends
  <2>3. CASE n \in DOMAIN log
    <3>1. log[n].alert = a /\ log[n].channel = "gitlab" /\ log[n].occ = rows[a].occ /\ log[n].issue = i
      BY <1>1, <2>2, <2>3
    <3> QED BY <2>1, <2>3, <3>1 DEF Keeps, Holds, Sends
  <2>4. CASE n = Len(log) + 1
    BY <1>1, <2>1, <2>2, <2>4
  <2> QED BY <1>1, <2>3, <2>4
<1> QED BY <1>1, <1>2

LEMMA LogNotificationIssue == ASSUME IssueInv, NEW p \in Callers, LogNotification(p) PROVE IssueInv'
<1> DEFINE a == calls[p].alert
           i == calls[p].issue
           c == Channel(p)
           e == [alert |-> a, occ |-> rows[a].occ, channel |-> c, issue |-> IF c = "gitlab" THEN i ELSE NoIssue]
<1>1. /\ found' = found /\ rows' = rows /\ issues' = issues /\ told' = told /\ Skip(p) /\ calls[p].pc = "log"
      /\ IssueIDs' = IssueIDs
  BY DEF LogNotification, At, IssueIDs
<1>2. /\ NoticeInv /\ a \in Alerts /\ c \in Channels /\ calls[p].pc \in AnnouncementSteps
      /\ c = "gitlab" => i \in IssueIDs
  BY <1>1, NoticeOf, CallHas DEF AnnouncementSteps, NoticeInv, CallInv, Fits, Channel
<1>3. /\ calls' \in [Callers -> Calls] /\ CallInv' /\ calls'[p].pc \in {"idle", "check", "rcheck"}
      /\ \A q \in Callers : q # p => calls'[q] = calls[q]
  <2> HIDE DEF a, i, c, e
  <2>1. IssueIDs \subseteq IssueIDs' /\ calls[p].pc \in AnnouncementSteps \cup ResolutionSteps
    BY <1>1, <1>2
  <2> QED BY <1>1, <1>2, <2>1, SkipFits
<1>4. \A k \in IssueIDs' : ~Joins(p, k)' /\ ~Leaves(p, k)'
  BY <1>3 DEF Joins, Leaves
<1>5. CASE log' = log
  <2>1. doubt' = doubt \cup {a} /\ excused' = IF c = "gitlab" THEN excused \cup {i} ELSE excused
    <3>1. log' # Append(log, e)
      BY <1>2, <1>5 DEF NoticeInv, StateInv
    <3> QED BY <3>1 DEF LogNotification, Call
  <2>2. doubt' \subseteq Alerts /\ excused \subseteq excused' /\ excused' \subseteq IssueIDs'
    BY <1>1, <1>2, <2>1 DEF NoticeInv, StateInv
  <2> HIDE DEF a, i, c, e
  <2>3. /\ issues' \in Seq({"open", "closed"}) /\ IssueIDs \subseteq IssueIDs' /\ told' \in [Alerts -> [Channels -> Nat]]
        /\ \A k \in IssueIDs : issues[k] = "open" => issues'[k] = "open"
    BY <1>1, <1>2, PartsKept
  <2> QED BY <1>1, <1>3, <1>4, <1>5, <2>2, <2>3, MoveSteps
<1>6. CASE log' # log
  <2>1. log' = Append(log, e) /\ doubt' = doubt /\ excused' = IF TooLate(p) THEN excused \cup {i} ELSE excused
    BY <1>6 DEF LogNotification, Call
  <2>2. e \in Sent /\ e.alert = a /\ e.occ = rows[a].occ /\ e.channel = c /\ (c = "gitlab" => e.issue = i)
    BY <1>2, NoticeAssumption, IssuesAre DEF Sent, NoticeInv, StateInv, NoIssue
  <2>3. excused \subseteq excused' /\ excused' \subseteq IssueIDs'
    BY <1>1, <1>2, <2>1 DEF NoticeInv, StateInv, TooLate
  <2> HIDE DEF e
  <2>4. /\ log' \in Seq(Sent) /\ log'[Len(log) + 1] = e
        /\ DOMAIN log' = DOMAIN log \cup {Len(log) + 1} /\ \A n \in DOMAIN log : log'[n] = log[n]
        /\ \A b \in Alerts : \A k : Keeps(b, k)' =>
             Keeps(b, k) \/ (b = e.alert /\ e.channel = "gitlab" /\ k = e.issue /\ OpenAlert(b))
    BY <1>1, <1>2, <2>1, <2>2, LogAppended
  <2>5. NoticeInv'
    <3>1. StateInv'
      BY <1>1, <1>2, <1>3, <2>1, <2>3, <2>4 DEF NoticeInv, StateInv
    <3>2. ASSUME NEW n \in DOMAIN log'
          PROVE  log'[n].occ <= rows'[log'[n].alert].occ /\ (log'[n].channel = "gitlab" => log'[n].issue \in IssueIDs')
      <4>1. CASE n \in DOMAIN log
        BY <1>1, <1>2, <2>4, <4>1 DEF NoticeInv, LogInv
      <4>2. CASE n = Len(log) + 1
        <5>1. rows[a].occ \in Nat
          BY <1>2, NoticeAssumption DEF NoticeInv, StateInv
        <5> QED BY <1>1, <1>2, <2>2, <2>4, <4>2, <5>1
      <4> QED BY <2>4, <4>1, <4>2
    <3>3. LogInv'
      BY <3>2 DEF LogInv
    <3> QED BY <1>3, <3>1, <3>3 DEF NoticeInv
  <2>6. ASSUME NEW b \in Alerts, NEW k \in IssueIDs', Keeps(b, k)', k \notin excused'
        PROVE  issues'[k] = "open"
    <3>1. CASE Keeps(b, k)
      BY <1>1, <2>3, <2>6, <3>1 DEF IssueInv, HeldInv
    <3>2. CASE c = "gitlab" /\ k = i
      <4>1. Joins(p, i) /\ i \in IssueIDs /\ i \notin excused
        BY <1>1, <1>2, <2>3, <2>6, <3>2 DEF Joins
      <4>2. issues[i] = "open"
        BY <4>1 DEF IssueInv, JoinInv
      <4> QED BY <1>1, <3>2, <4>2
    <3> QED BY <2>2, <2>4, <2>6, <3>1, <3>2
  <2>7. ASSUME NEW q \in Callers, NEW k \in IssueIDs', Joins(q, k)', k \notin excused'
        PROVE  issues'[k] = "open"
    <3>1. Joins(q, k) /\ k \in IssueIDs /\ k \notin excused
      BY <1>1, <1>3, <1>4, <2>3, <2>7 DEF Joins, Channel
    <3> QED BY <1>1, <3>1 DEF IssueInv, JoinInv
  <2>8. ASSUME NEW q \in Callers, NEW k \in IssueIDs', Leaves(q, k)', k \notin excused'
        PROVE  ~Keeps(calls[q].alert, k)' /\ (Closes(q)' => \A b \in Alerts : ~Keeps(b, k)')
    <3>1. q # p /\ calls'[q] = calls[q] /\ Leaves(q, k) /\ (Closes(q)' <=> Closes(q)) /\ k \in IssueIDs /\ k \notin excused
      BY <1>1, <1>3, <1>4, <2>3, <2>8 DEF Leaves, Closes
    <3>2. PICK x \in Alerts : x = calls[q].alert
      BY <1>2, <3>1 DEF NoticeInv, CallInv, Fits, Leaves
    <3>3. ~Keeps(x, k) /\ (Closes(q) => \A b \in Alerts : ~Keeps(b, k))
      BY <3>1, <3>2 DEF IssueInv, LeaveInv
    <3>4. c = "gitlab" /\ k = i => calls[q].pc = "rcount" /\ x # a
      <4> SUFFICES ASSUME c = "gitlab", k = i PROVE ~Closing(p) => calls[q].pc = "rcount" /\ x # a
        BY <2>1, <2>8 DEF TooLate
      <4> QED BY <3>1, <3>2 DEF Closing, Call, Leaves
    <3>5. ~Keeps(x, k)'
      BY <2>2, <2>4, <3>3, <3>4
    <3>6. Closes(q) => \A b \in Alerts : ~Keeps(b, k)'
      <4> SUFFICES ASSUME Closes(q), NEW b \in Alerts PROVE ~Keeps(b, k)'
        OBVIOUS
      <4>1. calls[q].pc # "rcount"
        BY DEF Closes
      <4> QED BY <2>2, <2>4, <3>3, <3>4, <4>1
    <3>7. ~Keeps(calls[q].alert, k)'
      <4>1. calls'[q].alert = x
        BY <3>1, <3>2
      <4> QED BY <3>5, <4>1 DEF Keeps, OpenAlert, Holds, Sends
    <3> QED BY <3>1, <3>6, <3>7
  <2>9. HeldInv' /\ JoinInv'
    BY <2>6, <2>7 DEF HeldInv, JoinInv
  <2>10. LeaveInv'
    BY <2>8 DEF LeaveInv
  <2> QED BY <2>5, <2>9, <2>10 DEF IssueInv
<1> QED BY <1>5, <1>6

LEMMA ResolutionCheckIssue == ASSUME IssueInv, NEW p \in Callers, ResolutionCheck(p) PROVE IssueInv'
<1> DEFINE a == calls[p].alert
<1>1. /\ found' = found /\ rows' = rows /\ log' = log /\ issues' = issues /\ told' = told /\ doubt' = doubt
      /\ calls[p].pc = "rcheck"
  BY DEF ResolutionCheck, At
<1>2. /\ NoticeInv /\ a \in Alerts /\ Channel(p) \in {"slack", "gitlab"}
      /\ calls[p].pc \in ResolutionSteps
  BY <1>1, NoticeOf, CallHas DEF ResolutionSteps, NoticeInv, CallInv, Fits, Channel
<1>3. /\ issues' \in Seq({"open", "closed"}) /\ IssueIDs \subseteq IssueIDs' /\ told' \in [Alerts -> [Channels -> Nat]]
      /\ doubt' \subseteq Alerts /\ \A k \in IssueIDs : issues[k] = "open" => issues'[k] = "open"
  BY <1>1, <1>2, PartsKept
<1>4. excused \subseteq excused' /\ excused' \subseteq IssueIDs'
  <2>1. excused' = excused \/ excused' = excused \cup LeftBy(a)
    BY DEF ResolutionCheck, Call
  <2> HIDE DEF a
  <2> QED BY <1>2, <1>3, <2>1, LeftByIssues DEF NoticeInv, StateInv
<1>5. CASE Skip(p)
  <2> HIDE DEF a
  <2> QED BY <1>1, <1>2, <1>3, <1>4, <1>5, SkipSteps
<1>6. CASE Goto(p, "rpost")
  <2>1. "rpost" \in ResolutionSteps
    BY DEF ResolutionSteps
  <2>2. /\ calls' \in [Callers -> Calls] /\ CallInv' /\ \A q \in Callers : q # p => calls'[q] = calls[q]
        /\ calls'[p].pc = "rpost"
    BY <1>2, <1>3, <1>6, <2>1, GotoFits
  <2>3. \A k \in IssueIDs' : ~Joins(p, k)' /\ ~Leaves(p, k)'
    BY <2>2 DEF Joins, Leaves
  <2> HIDE DEF a
  <2> QED BY <1>1, <1>3, <1>4, <2>2, <2>3, MoveSteps
<1>7. CASE /\ calls' = [calls EXCEPT ![p].issue = LatestIssue(a), ![p].pc = "rcount"]
           /\ AlreadySent(a, Channel(p)) /\ Channel(p) # "slack"
           /\ excused' = IF OpenAlert(a) THEN excused \cup LeftBy(a) ELSE excused
  <2> DEFINE issue == LatestIssue(a)
             next == [calls[p] EXCEPT !.issue = issue, !.pc = "rcount"]
             sends == {n \in DOMAIN log : log[n].alert = a /\ log[n].channel = "gitlab"}
  <2>1. Channel(p) = "gitlab"
    BY <1>2, <1>7
  <2>2. sends # {} /\ sends \in SUBSET DOMAIN log /\ (\A n \in sends : log[n].channel = "gitlab") /\ issue = Latest(sends)
    BY <1>7, <2>1 DEF AlreadySent, Sends, LatestIssue
  <2>3. issue \in IssueIDs /\ \E n \in sends : issue = log[n].issue
    <3> HIDE DEF sends, issue
    <3> QED BY <1>2, <2>2, LatestIs
  <2>4. issue \in LeftBy(a)
    BY <2>3 DEF LeftBy
  <2>5. calls \in [Callers -> Calls] /\ Fits(p, calls[p], IssueIDs) /\ issue \in Nat
    BY <1>2, <2>3, IssuesAre DEF NoticeInv, StateInv, CallInv
  <2> HIDE DEF issue, sends
  <2>6. calls' = [calls EXCEPT ![p] = next]
    BY <1>7, <2>5 DEF issue
  <2>7. /\ next \in Calls /\ next.todo = calls[p].todo /\ next.alert = a
        /\ next.pc = "rcount" /\ next.issue = issue
    BY <2>5 DEF Calls, Steps, ResolutionSteps
  <2> HIDE DEF next
  <2>8. Fits(p, next, IssueIDs')
    <3> DEFINE call == calls[p]
    <3>1. ChannelOf(call) = "gitlab" /\ call.pc \in ResolutionSteps /\ next.pc \in ResolutionSteps
      BY <1>2, <2>1, <2>7 DEF Channel, ResolutionSteps
    <3>2. next.issue \in IssueIDs'
      BY <1>3, <2>3, <2>7
    <3> QED BY <1>3, <2>5, <2>7, <3>1, <3>2, StepFits
  <2>9. /\ calls' \in [Callers -> Calls] /\ CallInv' /\ calls'[p] = next
        /\ \A q \in Callers : q # p => calls'[q] = calls[q]
    BY <1>2, <1>3, <2>6, <2>8, CallGoesOn
  <2>10. \A k \in IssueIDs' : ~Joins(p, k)' /\ (Leaves(p, k)' => k = issue) /\ ~Closes(p)'
    BY <2>7, <2>9 DEF Joins, Leaves, Closes
  <2>11. issue \notin excused' => ~Keeps(a, issue)
    BY <1>7, <2>4 DEF Keeps
  <2>12. calls'[p].alert = a
    BY <2>7, <2>9
  <2> HIDE DEF a
  <2>13. \A k \in IssueIDs' : Leaves(p, k)' /\ k \notin excused' =>
           /\ calls'[p].alert \in Alerts => ~Keeps(calls'[p].alert, k)
           /\ Closes(p)' => \A b \in Alerts : ~Keeps(b, k)
    <3> SUFFICES ASSUME NEW k \in IssueIDs', Leaves(p, k)', k \notin excused'
                 PROVE  ~Keeps(calls'[p].alert, k) /\ ~Closes(p)'
      BY <2>10
    <3>1. ~Keeps(a, k) /\ ~Closes(p)'
      BY <2>10, <2>11
    <3> QED BY <2>12, <3>1 DEF Keeps, OpenAlert, Holds, Sends
  <2> QED BY <1>1, <1>3, <1>4, <2>9, <2>10, <2>13, MoveSteps
<1> QED BY <1>5, <1>6, <1>7 DEF ResolutionCheck, Call

LEMMA NotifyResolutionIssue == ASSUME IssueInv, NEW p \in Callers, NotifyResolution(p) PROVE IssueInv'
<1>1. /\ found' = found /\ rows' = rows /\ log' = log /\ issues' = issues /\ told' = told /\ doubt' = doubt
      /\ excused' = excused /\ calls[p].pc \in ResolutionSteps /\ Skip(p)
  BY DEF NotifyResolution, At, ResolutionSteps
<1>2. NoticeInv
  BY NoticeOf
<1>3. issues' \in Seq({"open", "closed"}) /\ IssueIDs \subseteq IssueIDs'
  BY <1>1, <1>2, PartsKept
<1>4. /\ told' \in [Alerts -> [Channels -> Nat]] /\ doubt' \subseteq Alerts /\ excused \subseteq excused' /\ excused' \subseteq IssueIDs'
      /\ \A k \in IssueIDs : issues[k] = "open" => issues'[k] = "open"
  BY <1>1, <1>2, <1>3, PartsKept
<1> QED BY <1>1, <1>3, <1>4, SkipSteps

LEMMA CountSharingIssue == ASSUME IssueInv, NEW p \in Callers, CountSharing(p) PROVE IssueInv'
<1> DEFINE a == calls[p].alert
           i == calls[p].issue
<1>1. /\ found' = found /\ rows' = rows /\ log' = log /\ issues' = issues /\ told' = told /\ doubt' = doubt
      /\ calls[p].pc = "rcount"
  BY DEF CountSharing, At
<1>2. /\ NoticeInv /\ a \in Alerts /\ Channel(p) = "gitlab" /\ i \in IssueIDs /\ calls[p].pc \in ResolutionSteps
  BY <1>1, NoticeOf DEF ResolutionSteps, NoticeInv, CallInv, Fits, Channel
<1>3. /\ issues' \in Seq({"open", "closed"}) /\ IssueIDs \subseteq IssueIDs' /\ told' \in [Alerts -> [Channels -> Nat]]
      /\ doubt' \subseteq Alerts /\ \A k \in IssueIDs : issues[k] = "open" => issues'[k] = "open"
  BY <1>1, <1>2, PartsKept
<1>4. excused \subseteq excused' /\ excused' \subseteq IssueIDs'
  <2>1. excused' = excused \/ excused' = excused \cup {i}
    BY DEF CountSharing, Call
  <2> QED BY <1>2, <1>3, <2>1 DEF NoticeInv, StateInv
<1>5. CASE Skip(p)
  <2> HIDE DEF a, i
  <2> QED BY <1>1, <1>2, <1>3, <1>4, <1>5, SkipSteps
<1>6. CASE calls' = [calls EXCEPT ![p].others = SharedByOthers(a, i), ![p].pc = "rnote"]
  <2> DEFINE others == SharedByOthers(a, i)
             next == [calls[p] EXCEPT !.others = others, !.pc = "rnote"]
  <2>1. calls \in [Callers -> Calls] /\ Fits(p, calls[p], IssueIDs) /\ others \in BOOLEAN
    BY <1>2 DEF NoticeInv, StateInv, CallInv, SharedByOthers
  <2>2. ~others => \A b \in Alerts : b # a => ~Keeps(b, i)
    BY DEF SharedByOthers, Keeps
  <2>3. i \notin excused => ~Keeps(a, i)
    BY <1>1, <1>2 DEF IssueInv, LeaveInv, Leaves
  <2> HIDE DEF others
  <2>4. calls' = [calls EXCEPT ![p] = next]
    BY <1>6, <2>1 DEF others
  <2>5. /\ next \in Calls /\ next.todo = calls[p].todo /\ next.alert = a
        /\ next.pc = "rnote" /\ next.issue = i
    BY <2>1 DEF Calls, Steps, ResolutionSteps
  <2>6. next.others = others
    BY <2>1 DEF Calls
  <2> HIDE DEF next
  <2>7. Fits(p, next, IssueIDs')
    <3> DEFINE call == calls[p]
    <3>1. ChannelOf(call) = "gitlab" /\ call.pc \in ResolutionSteps /\ next.pc \in ResolutionSteps
      BY <1>2, <2>5 DEF Channel, ResolutionSteps
    <3>2. next.issue \in IssueIDs'
      BY <1>2, <1>3, <2>5
    <3> QED BY <1>3, <2>1, <2>5, <3>1, <3>2, StepFits
  <2>8. /\ calls' \in [Callers -> Calls] /\ CallInv' /\ calls'[p] = next
        /\ \A q \in Callers : q # p => calls'[q] = calls[q]
    BY <1>2, <1>3, <2>4, <2>7, CallGoesOn
  <2>9. \A k \in IssueIDs' : ~Joins(p, k)' /\ (Leaves(p, k)' => k = i)
    BY <2>5, <2>8 DEF Joins, Leaves
  <2>10. Closes(p)' => ~others
    BY <2>5, <2>6, <2>8 DEF Closes
  <2>11. calls'[p].alert = a
    BY <2>5, <2>8
  <2> HIDE DEF a, i
  <2>12. \A k \in IssueIDs' : Leaves(p, k)' /\ k \notin excused' =>
           /\ calls'[p].alert \in Alerts => ~Keeps(calls'[p].alert, k)
           /\ Closes(p)' => \A b \in Alerts : ~Keeps(b, k)
    <3> SUFFICES ASSUME NEW k \in IssueIDs', Leaves(p, k)', k \notin excused'
                 PROVE  ~Keeps(calls'[p].alert, k) /\ (Closes(p)' => \A b \in Alerts : ~Keeps(b, k))
      OBVIOUS
    <3>1. k = i /\ ~Keeps(a, k)
      BY <1>4, <2>3, <2>9
    <3>2. Closes(p)' => \A b \in Alerts : ~Keeps(b, k)
      BY <2>2, <2>10, <3>1
    <3> QED BY <2>11, <3>1, <3>2 DEF Keeps, OpenAlert, Holds, Sends
  <2> QED BY <1>1, <1>3, <1>4, <2>8, <2>9, <2>12, MoveSteps
<1> QED BY <1>5, <1>6 DEF CountSharing, Call

LEMMA CommentResolvedIssue == ASSUME IssueInv, NEW p \in Callers, CommentResolved(p) PROVE IssueInv'
<1> DEFINE a == calls[p].alert
           i == calls[p].issue
<1>1. /\ found' = found /\ rows' = rows /\ log' = log /\ issues' = issues /\ told' = told /\ doubt' = doubt
      /\ calls[p].pc = "rnote"
  BY DEF CommentResolved, At
<1>2. /\ NoticeInv /\ a \in Alerts /\ Channel(p) = "gitlab" /\ i \in IssueIDs /\ calls[p].pc \in ResolutionSteps
  BY <1>1, NoticeOf DEF ResolutionSteps, NoticeInv, CallInv, Fits, Channel
<1>3. /\ issues' \in Seq({"open", "closed"}) /\ IssueIDs \subseteq IssueIDs' /\ told' \in [Alerts -> [Channels -> Nat]]
      /\ doubt' \subseteq Alerts /\ \A k \in IssueIDs : issues[k] = "open" => issues'[k] = "open"
  BY <1>1, <1>2, PartsKept
<1>4. excused \subseteq excused' /\ excused' \subseteq IssueIDs'
  <2>1. excused' = excused \/ excused' = excused \cup {i}
    BY DEF CommentResolved, Call
  <2> QED BY <1>2, <1>3, <2>1 DEF NoticeInv, StateInv
<1>5. CASE Skip(p)
  <2> HIDE DEF a, i
  <2> QED BY <1>1, <1>2, <1>3, <1>4, <1>5, SkipSteps
<1>6. CASE Goto(p, "close") /\ ~calls[p].others
  <2>1. "close" \in ResolutionSteps
    BY DEF ResolutionSteps
  <2>2. /\ calls' \in [Callers -> Calls] /\ CallInv' /\ \A q \in Callers : q # p => calls'[q] = calls[q]
        /\ calls'[p].pc = "close" /\ calls'[p].issue = i /\ calls'[p].alert = a
    BY <1>2, <1>3, <1>6, <2>1, GotoFits
  <2>3. i \notin excused => \A b \in Alerts : ~Keeps(b, i)
    BY <1>1, <1>2, <1>6 DEF IssueInv, LeaveInv, Leaves, Closes
  <2>4. \A k \in IssueIDs' : ~Joins(p, k)' /\ (Leaves(p, k)' => k = i)
    BY <2>2 DEF Joins, Leaves
  <2> HIDE DEF a, i
  <2>5. \A k \in IssueIDs' : Leaves(p, k)' /\ k \notin excused' =>
           /\ calls'[p].alert \in Alerts => ~Keeps(calls'[p].alert, k)
           /\ Closes(p)' => \A b \in Alerts : ~Keeps(b, k)
    <3> SUFFICES ASSUME NEW k \in IssueIDs', Leaves(p, k)', k \notin excused'
                 PROVE  ~Keeps(calls'[p].alert, k) /\ \A b \in Alerts : ~Keeps(b, k)
      OBVIOUS
    <3>1. \A b \in Alerts : ~Keeps(b, k)
      BY <1>4, <2>3, <2>4
    <3>2. ~Keeps(a, k)
      BY <1>2, <3>1
    <3> QED BY <2>2, <3>1, <3>2 DEF Keeps, OpenAlert, Holds, Sends
  <2> QED BY <1>1, <1>3, <1>4, <2>2, <2>4, <2>5, MoveSteps
<1> QED BY <1>5, <1>6 DEF CommentResolved, Call

LEMMA CloseIssueIssue == ASSUME IssueInv, NEW p \in Callers, CloseIssue(p) PROVE IssueInv'
<1> DEFINE i == calls[p].issue
<1>1. /\ found' = found /\ rows' = rows /\ log' = log /\ told' = told /\ doubt' = doubt
      /\ calls[p].pc = "close" /\ Skip(p)
  BY DEF CloseIssue, At
<1>2. /\ NoticeInv /\ i \in IssueIDs /\ calls[p].pc \in ResolutionSteps
  BY <1>1, NoticeOf DEF ResolutionSteps, NoticeInv, CallInv, Fits
<1>3. /\ issues' = issues \/ issues' = [issues EXCEPT ![i] = "closed"]
      /\ excused' = excused \/ excused' = excused \cup {i}
  BY DEF CloseIssue, Call
<1>4. /\ issues' \in Seq({"open", "closed"}) /\ IssueIDs' = IssueIDs
      /\ \A k \in IssueIDs : k # i => issues'[k] = issues[k]
  <2>1. CASE issues' = issues
    BY <1>2, <2>1 DEF NoticeInv, StateInv, IssueIDs
  <2>2. CASE issues' = [issues EXCEPT ![i] = "closed"]
    BY <1>2, <2>2 DEF NoticeInv, StateInv, IssueIDs
  <2> QED BY <1>3, <2>1, <2>2
<1>5. excused \subseteq excused' /\ excused' \subseteq IssueIDs' /\ doubt' \subseteq Alerts /\ told' \in [Alerts -> [Channels -> Nat]]
  BY <1>1, <1>2, <1>3, <1>4 DEF NoticeInv, StateInv
<1>6. i \notin excused => \A b \in Alerts : ~Keeps(b, i)
  BY <1>1, <1>2 DEF IssueInv, LeaveInv, Leaves, Closes
<1>7. i \notin excused' /\ issues' # issues => \A q \in Callers : q # p => ~Joins(q, i)
  BY DEF CloseIssue, Joins, Call
<1> HIDE DEF i
<1>8. ASSUME NEW k \in IssueIDs, issues[k] = "open", k \notin excused'
      PROVE  issues'[k] = "open" \/ (/\ \A a \in Alerts : ~Keeps(a, k)
                                     /\ \A q \in Callers : q # p => ~Joins(q, k))
  <2>1. CASE k # i \/ issues' = issues
    BY <1>4, <1>8, <2>1
  <2>2. CASE k = i /\ issues' # issues
    BY <1>5, <1>6, <1>7, <1>8, <2>2
  <2> QED BY <2>1, <2>2
<1> QED BY <1>1, <1>2, <1>4, <1>5, <1>8, SkipSteps

-----------------------------------------------------------------------------
(* SharedIssues: the theorem.                                                *)

LEMMA IssueInvInitially == IssuesInit => IssueInv
<1> SUFFICES ASSUME IssuesInit PROVE IssueInv
  OBVIOUS
<1>1. /\ found \subseteq Alerts /\ doubt = {} /\ excused = {} /\ log = <<>> /\ issues = <<>> /\ IssueIDs = {}
      /\ \A p \in Callers : calls[p] = Idle
  BY NoticeAssumption DEF IssuesInit, IssueIDs
<1>2. rows \in [Alerts -> [status : IssueRowStatuses, occ : 0 .. MaxOcc]]
  BY NoticeAssumption DEF IssuesInit, IssueRowStatuses
<1>3. \A p \in Callers : Fits(p, calls[p], IssueIDs)
  BY <1>1, IdleFits
<1>4. calls \in [Callers -> Calls]
  BY <1>1, <1>3 DEF Fits, IssuesInit
<1>5. StateInv
  BY <1>1, <1>2, <1>4 DEF StateInv, IssuesInit
<1>6. LogInv
  BY <1>1 DEF LogInv
<1>7. NoticeInv
  BY <1>3, <1>5, <1>6 DEF NoticeInv, CallInv
<1> QED BY <1>1, <1>7 DEF IssueInv, JoinInv, LeaveInv, HeldInv

LEMMA StepIssue == ASSUME IssueInv, NEW p \in Callers, Step(p) PROVE IssueInv'
BY ResolveListedIssue, CheckAlreadySentIssue, FindIssue, createIssueIssue, readIssueIssue, reopenIssueIssue, PostIssue,
   LogNotificationIssue, ResolutionCheckIssue, NotifyResolutionIssue, CountSharingIssue, CommentResolvedIssue,
   CloseIssueIssue DEF Step

LEMMA NextIssue == IssueInv /\ [IssuesNext]_issueVars => IssueInv'
<1> SUFFICES ASSUME IssueInv, [IssuesNext]_issueVars PROVE IssueInv'
  OBVIOUS
<1>1. CASE UNCHANGED issueVars
  BY <1>1 DEF issueVars, IssueInv, NoticeInv, StateInv, CallInv, LogInv, JoinInv, LeaveInv, HeldInv, Joins, Leaves, Closes,
              Keeps, OpenAlert, Holds, Sends, Channel, IssueIDs
<1>2. CASE Step("check") \/ Step("operator")
  <2>1. "check" \in Callers /\ "operator" \in Callers
    BY DEF Callers
  <2> QED BY <1>2, <2>1, StepIssue
<1>3. CASE resolveReplaced
  BY <1>3, resolveReplacedIssue
<1>4. CASE \E a \in Alerts : Detect(a) \/ ListOpen(a) \/ OperatorReads(a)
  BY <1>4, DetectIssue, ListOpenIssue, OperatorReadsIssue
<1>5. CASE \E w \in Worlds : ProviderChanges(w)
  BY <1>5, ProviderChangesIssue
<1>6. CASE \E i \in IssueIDs : ClosedByHand(i)
  BY <1>6, ClosedByHandIssue
<1>7. CASE \E a \in Alerts, status \in {"active", "acknowledged", "ignored"} : OperatorSets(a, status)
  BY <1>7, OperatorSetsIssue
<1> QED BY <1>1, <1>2, <1>3, <1>4, <1>5, <1>6, <1>7 DEF IssuesNext, CheckStep

LEMMA IssueInvariance == IssuesSpec => []IssueInv
BY IssueInvInitially, NextIssue, PTL DEF IssuesSpec

\* "The issue stays open until the last alert on this resource resolves": an issue
\* that an open alert holds is open unless it is excused, for any set of alerts,
\* whichever of them supersede which, and any number of occurrences, failures,
\* issues and changes by people.
THEOREM IssueStaysOpen == IssuesSpec => []HeldIssueOpen
<1>1. IssueInv => HeldIssueOpen
  <2> SUFFICES ASSUME IssueInv PROVE HeldIssueOpen
    OBVIOUS
  <2>1. IssueTypes
    BY DEF IssueInv, NoticeInv, StateInv, CallInv, Fits, IssueTypes, IssueRowStatuses, IssueIDs
  <2> QED BY <2>1 DEF IssueInv, HeldInv, Keeps, HeldIssueOpen
<1> QED BY <1>1, IssueInvariance, PTL

-----------------------------------------------------------------------------
(* SharedIssues: an occurrence is announced once.                            *)

LEMMA ToldSteps ==
  ASSUME ToldInv, doubt \subseteq doubt',
         \A a \in Alerts \ doubt' : \A c \in Channels :
           \/ told'[a][c] = 0
           \/ told'[a][c] = 1 /\ Unlogged(a, c)'
           \/ /\ told'[a][c] = told[a][c]
              /\ AlreadySent(a, c) \/ Unlogged(a, c) => AlreadySent(a, c)' \/ Unlogged(a, c)'
              /\ Sending(a, c)' => Sending(a, c)
  PROVE  ToldInv'
<1>1. ASSUME NEW a \in Alerts \ doubt', NEW c \in Channels
      PROVE  /\ told'[a][c] <= 1
             /\ told'[a][c] = 1 => AlreadySent(a, c)' \/ Unlogged(a, c)'
             /\ Sending(a, c)' => told'[a][c] = 0
  <2>1. CASE told'[a][c] = 0
    BY <2>1
  <2>2. CASE told'[a][c] = 1 /\ Unlogged(a, c)'
    <3>1. ~Sending(a, c)'
      BY <2>2 DEF Sending, Unlogged, SendSteps
    <3> QED BY <2>2, <3>1
  <2>3. CASE /\ told'[a][c] = told[a][c]
             /\ AlreadySent(a, c) \/ Unlogged(a, c) => AlreadySent(a, c)' \/ Unlogged(a, c)'
             /\ Sending(a, c)' => Sending(a, c)
    <3>1. /\ told[a][c] <= 1
          /\ told[a][c] = 1 => AlreadySent(a, c) \/ Unlogged(a, c)
          /\ Sending(a, c) => told[a][c] = 0
      BY DEF ToldInv
    <3> QED BY <2>3, <3>1
  <2> QED BY <2>1, <2>2, <2>3
<1> QED BY <1>1 DEF ToldInv

\* Whether an occurrence was sent depends on the log and the occurrence.
LEMMA SentSame ==
  ASSUME log' = log, NEW a \in Alerts, NEW c, rows'[a].occ = rows[a].occ
  PROVE  AlreadySent(a, c)' <=> AlreadySent(a, c)
BY DEF AlreadySent, Sends

\* A step that announces and logs nothing.
LEMMA ToldQuiet ==
  ASSUME ToldInv, log' = log, told' = told, doubt \subseteq doubt', \A a \in Alerts : rows'[a].occ = rows[a].occ,
         \/ calls'["check"] = calls["check"]
         \/ calls["check"].pc # "log" /\ calls'["check"].pc \notin SendSteps
         \/ /\ calls["check"].pc \in SendSteps /\ calls'["check"].pc \in SendSteps
            /\ calls'["check"].alert = calls["check"].alert /\ ChannelOf(calls'["check"]) = ChannelOf(calls["check"])
  PROVE  ToldInv'
<1>1. ASSUME NEW a \in Alerts, NEW c \in Channels
      PROVE  /\ AlreadySent(a, c) \/ Unlogged(a, c) => AlreadySent(a, c)' \/ Unlogged(a, c)'
             /\ Sending(a, c)' => Sending(a, c)
  <2>1. AlreadySent(a, c)' <=> AlreadySent(a, c)
    BY SentSame
  <2>2. Unlogged(a, c) => Unlogged(a, c)'
    BY DEF Unlogged, Channel, SendSteps
  <2>3. Sending(a, c)' => Sending(a, c)
    BY DEF Sending, Channel
  <2> QED BY <2>1, <2>2, <2>3
<1> QED BY <1>1, ToldSteps

\* A step of p that ends or resolves, or is the operator's.
LEMMA ToldLeaves ==
  ASSUME ToldInv, log' = log, told' = told, doubt \subseteq doubt', \A a \in Alerts : rows'[a].occ = rows[a].occ,
         NEW p \in Callers, \A q \in Callers : q # p => calls'[q] = calls[q],
         calls[p].pc # "log", calls'[p].pc \notin SendSteps
  PROVE  ToldInv'
<1>1. "check" \in Callers
  BY DEF Callers
<1>2. CASE p = "check"
  BY <1>2, ToldQuiet
<1>3. CASE p # "check"
  BY <1>1, <1>3, ToldQuiet
<1> QED BY <1>2, <1>3

LEMMA SkipTold ==
  ASSUME NoticeInv, ToldInv, log' = log, told' = told, doubt \subseteq doubt', \A a \in Alerts : rows'[a].occ = rows[a].occ,
         NEW p \in Callers, Skip(p), calls[p].pc \in (AnnouncementSteps \cup ResolutionSteps) \ {"log"}, IssueIDs \subseteq IssueIDs'
  PROVE  ToldInv'
<1>1. calls'[p].pc \in {"idle", "check", "rcheck"} /\ \A q \in Callers : q # p => calls'[q] = calls[q]
  BY SkipFits
<1> QED BY <1>1, ToldLeaves DEF SendSteps

\* A new occurrence starts, told of nowhere.
LEMMA StartsTold ==
  ASSUME NoticeInv, ToldInv, NEW a \in Alerts, NEW status \in IssueRowStatuses, Starts(a, status), rows[a].occ < MaxOcc,
         log' = log, doubt \subseteq doubt',
         calls'["check"] = calls["check"] \/ (calls["check"].pc # "log" /\ calls'["check"].pc \notin SendSteps)
  PROVE  ToldInv'
<1>1. told'[a] = [c \in Channels |-> 0] /\ \A b \in Alerts \ {a} : rows'[b] = rows[b] /\ told'[b] = told[b]
  BY OccurrenceStarts
<1>2. ASSUME NEW b \in Alerts \ doubt', NEW c \in Channels
      PROVE  \/ told'[b][c] = 0
             \/ /\ told'[b][c] = told[b][c]
                /\ AlreadySent(b, c) \/ Unlogged(b, c) => AlreadySent(b, c)' \/ Unlogged(b, c)'
                /\ Sending(b, c)' => Sending(b, c)
  <2>1. CASE b = a
    BY <1>1, <2>1
  <2>2. CASE b # a
    <3>1. told'[b][c] = told[b][c] /\ rows'[b].occ = rows[b].occ
      BY <1>1, <2>2
    <3>2. AlreadySent(b, c)' <=> AlreadySent(b, c)
      BY <3>1, SentSame
    <3>3. Unlogged(b, c) => Unlogged(b, c)'
      BY DEF Unlogged, Channel
    <3>4. Sending(b, c)' => Sending(b, c)
      BY DEF Sending, Channel
    <3> QED BY <3>1, <3>2, <3>3, <3>4
  <2> QED BY <2>1, <2>2
<1> QED BY <1>2, ToldSteps

LEMMA EnvironmentTold ==
  ASSUME NoticeInv, ToldInv,
         \/ \E w \in Worlds : ProviderChanges(w)
         \/ \E i \in IssueIDs : ClosedByHand(i)
         \/ \E a \in Alerts : OperatorReads(a)
  PROVE  ToldInv'
<1>1. log' = log /\ told' = told /\ doubt' = doubt /\ rows' = rows
  BY DEF ProviderChanges, ClosedByHand, OperatorReads
<1>2. calls'["check"] = calls["check"]
  BY DEF ProviderChanges, ClosedByHand, OperatorReads, NoticeInv, StateInv, Callers
<1> QED BY <1>1, <1>2, ToldQuiet

LEMMA OperatorSetsTold ==
  ASSUME NoticeInv, ToldInv, NEW a \in Alerts, NEW status \in {"active", "acknowledged", "ignored"}, OperatorSets(a, status)
  PROVE  ToldInv'
<1>1. log' = log /\ calls' = calls /\ doubt \subseteq doubt' /\ status \in IssueRowStatuses
  BY DEF OperatorSets, IssueRowStatuses
<1>2. CASE rows[a].occ < MaxOcc /\ Starts(a, status)
  BY <1>1, <1>2, StartsTold
<1>3. CASE rows' = [rows EXCEPT ![a].status = status] /\ told' = told
  <2>1. \A b \in Alerts : rows'[b].occ = rows[b].occ
    BY <1>1, <1>3, StatusSet
  <2> QED BY <1>1, <1>3, <2>1, ToldQuiet
<1> QED BY <1>2, <1>3 DEF OperatorSets

LEMMA DetectTold == ASSUME NoticeInv, ToldInv, NEW a \in Alerts, Detect(a) PROVE ToldInv'
<1>1. log' = log /\ doubt' = doubt /\ calls["check"].pc = "idle"
  BY DEF Detect, At
<1>2. calls'["check"].pc = "supersede"
  BY DEF Detect, NoticeInv, StateInv, Calls, Callers, Idle
<1>3. calls["check"].pc # "log" /\ calls'["check"].pc \notin SendSteps /\ "active" \in IssueRowStatuses
  BY <1>1, <1>2 DEF SendSteps, IssueRowStatuses
<1>4. CASE rows[a].occ < MaxOcc /\ Starts(a, "active")
  BY <1>1, <1>3, <1>4, StartsTold
<1>5. CASE rows' = rows /\ told' = told
  BY <1>1, <1>3, <1>5, ToldQuiet
<1> QED BY <1>4, <1>5 DEF Detect

LEMMA ListOpenTold == ASSUME NoticeInv, ToldInv, NEW a \in Alerts, ListOpen(a) PROVE ToldInv'
<1>1. log' = log /\ doubt' = doubt /\ told' = told /\ rows' = rows /\ calls["check"].pc = "idle"
  BY DEF ListOpen, At
<1>2. calls'["check"].pc = "resolve"
  BY DEF ListOpen, NoticeInv, StateInv, Calls, Callers, Idle
<1> QED BY <1>1, <1>2, ToldQuiet DEF SendSteps

LEMMA resolveReplacedTold == ASSUME NoticeInv, ToldInv, resolveReplaced PROVE ToldInv'
<1>1. log' = log /\ doubt' = doubt /\ told' = told /\ calls["check"].pc = "supersede"
  BY DEF resolveReplaced, At
<1>2. (\A b \in Alerts : rows'[b].occ = rows[b].occ) /\ calls'["check"].pc \in {"idle", "check"}
  BY resolveReplacedNotice
<1> QED BY <1>1, <1>2, ToldQuiet DEF SendSteps

\* The steps of a resolution, and of an alert's resolve, announce nothing.
LEMMA ResolvesTold ==
  ASSUME NoticeInv, ToldInv, NEW p \in Callers,
         \/ ResolveListed(p) \/ ResolutionCheck(p) \/ NotifyResolution(p)
         \/ CountSharing(p) \/ CommentResolved(p) \/ CloseIssue(p)
  PROVE  ToldInv'
<1>1. log' = log /\ told' = told /\ doubt' = doubt
  BY DEF ResolveListed, ResolutionCheck, NotifyResolution, CountSharing, CommentResolved, CloseIssue
<1>2. calls[p].pc \in {"resolve"} \cup ResolutionSteps
  BY DEF ResolveListed, ResolutionCheck, NotifyResolution, CountSharing, CommentResolved, CloseIssue, At, ResolutionSteps
<1>3. \A a \in Alerts : rows'[a].occ = rows[a].occ
  <2>1. CASE ResolveListed(p)
    <3> DEFINE a == calls[p].alert
    <3>1. rows' = rows \/ rows' = [rows EXCEPT ![a].status = "resolved"]
      BY <2>1 DEF ResolveListed, Call
    <3>2. a \in Alerts /\ "resolved" \in IssueRowStatuses
      BY <1>2, CallHas DEF IssueRowStatuses, ResolutionSteps
    <3> HIDE DEF a
    <3> QED BY <3>1, <3>2, StatusSet
  <2>2. CASE ~ResolveListed(p)
    <3>1. rows' = rows
      BY <2>2 DEF ResolutionCheck, NotifyResolution, CountSharing, CommentResolved, CloseIssue
    <3> QED BY <3>1
  <2> QED BY <2>1, <2>2
<1>4. calls'[p].pc \notin SendSteps /\ \A q \in Callers : q # p => calls'[q] = calls[q]
  <2>1. CASE Skip(p) /\ calls[p].pc \in ResolutionSteps
    <3> DEFINE next == NextChannel(calls[p])
    <3>1. next.pc \in {"idle", "check", "rcheck"}
      BY <2>1, NextChannelFits DEF NoticeInv, CallInv
    <3>2. calls' = [calls EXCEPT ![p] = next] /\ calls \in [Callers -> Calls]
      BY <2>1 DEF Skip, NoticeInv, StateInv
    <3> HIDE DEF next
    <3> QED BY <3>1, <3>2 DEF SendSteps
  <2>2. CASE ResolveListed(p)
    <3> DEFINE a == calls[p].alert
    <3>1. PICK call \in {Idle, Resolution(a)} : calls' = [calls EXCEPT ![p] = call]
      BY <2>2 DEF ResolveListed, Call, NoticeInv, StateInv
    <3>2. a \in Alerts
      BY <1>2, CallHas DEF ResolutionSteps
    <3> HIDE DEF a
    <3>3. call.pc \in {"idle", "rcheck"}
      <4>1. Idle.pc = "idle"
        BY DEF Idle
      <4>2. Resolution(a).pc \in {"idle", "rcheck"}
        BY <3>2, ResolutionFits
      <4> QED BY <3>1, <4>1, <4>2
    <3> QED BY <3>1, <3>3 DEF NoticeInv, StateInv, SendSteps
  <2>3. CASE \E pc \in {"rpost", "close"} : Goto(p, pc)
    BY <2>3 DEF Goto, NoticeInv, StateInv, Calls, SendSteps
  <2>4. CASE \E issue : calls' = [calls EXCEPT ![p].issue = issue, ![p].pc = "rcount"]
    BY <2>4 DEF NoticeInv, StateInv, Calls, SendSteps
  <2>5. CASE \E others : calls' = [calls EXCEPT ![p].others = others, ![p].pc = "rnote"]
    BY <2>5 DEF NoticeInv, StateInv, Calls, SendSteps
  <2>6. ResolutionCheck(p) => \/ Skip(p) \/ Goto(p, "rpost")
                              \/ \E issue : calls' = [calls EXCEPT ![p].issue = issue, ![p].pc = "rcount"]
    BY DEF ResolutionCheck
  <2>7. CountSharing(p) => Skip(p) \/ \E others : calls' = [calls EXCEPT ![p].others = others, ![p].pc = "rnote"]
    BY DEF CountSharing
  <2>8. CommentResolved(p) => Skip(p) \/ Goto(p, "close")
    BY DEF CommentResolved
  <2>9. NotifyResolution(p) \/ CloseIssue(p) => Skip(p)
    BY DEF NotifyResolution, CloseIssue
  <2>10. calls[p].pc \in ResolutionSteps \/ ResolveListed(p)
    BY DEF ResolutionCheck, NotifyResolution, CountSharing, CommentResolved, CloseIssue, At, ResolutionSteps
  <2> QED BY <2>1, <2>2, <2>3, <2>4, <2>5, <2>6, <2>7, <2>8, <2>9, <2>10
<1>5. calls[p].pc # "log"
  BY <1>2 DEF ResolutionSteps
<1> QED BY <1>1, <1>3, <1>4, <1>5, ToldLeaves

LEMMA SendsAreTheChecks ==
  ASSUME NoticeInv, NEW p \in Callers, calls[p].pc \in AnnouncementSteps
  PROVE  p = "check" /\ calls[p].alert \in Alerts /\ Channel(p) \in Channels
BY CallHas DEF NoticeInv, CallInv, Fits, AnnouncementSteps

LEMMA CheckAlreadySentTold == ASSUME NoticeInv, ToldInv, NEW p \in Callers, CheckAlreadySent(p) PROVE ToldInv'
<1> DEFINE x == calls[p].alert
           d == Channel(p)
           pc == IF Channel(p) = "gitlab" THEN "find" ELSE "post"
<1>1. rows' = rows /\ log' = log /\ told' = told /\ calls[p].pc = "check" /\ doubt \subseteq doubt' /\ IssueIDs \subseteq IssueIDs'
  BY DEF CheckAlreadySent, At, IssueIDs
<1>2. p = "check" /\ x \in Alerts /\ d \in Channels
  BY <1>1, SendsAreTheChecks DEF AnnouncementSteps
<1>3. CASE Skip(p)
  <2>1. calls[p].pc \in (AnnouncementSteps \cup ResolutionSteps) \ {"log"}
    BY <1>1 DEF AnnouncementSteps
  <2> HIDE DEF x, d
  <2> QED BY <1>1, <1>3, <2>1, SkipTold
<1>4. CASE Goto(p, pc) /\ (~AlreadySent(x, d) \/ x \in doubt')
  <2>1. pc \in {"find", "post"} /\ (pc = "find" <=> d = "gitlab")
    OBVIOUS
  <2>2. calls[p].pc \in AnnouncementSteps /\ pc \in AnnouncementSteps
    BY <1>1, <2>1 DEF AnnouncementSteps
  <2> HIDE DEF pc
  <2>3. calls'[p].pc = pc /\ calls'[p].alert = x /\ ChannelOf(calls'[p]) = ChannelOf(calls[p])
    BY <1>1, <1>4, <2>1, <2>2, GotoFits
  <2>4. ASSUME NEW a \in Alerts \ doubt', NEW c \in Channels
        PROVE  \/ told'[a][c] = 0
               \/ /\ told'[a][c] = told[a][c]
                  /\ AlreadySent(a, c) \/ Unlogged(a, c) => AlreadySent(a, c)' \/ Unlogged(a, c)'
                  /\ Sending(a, c)' => Sending(a, c)
    <3>1. AlreadySent(a, c)' <=> AlreadySent(a, c)
      BY <1>1, SentSame
    <3>2. ~Unlogged(a, c)
      BY <1>1, <1>2 DEF Unlogged
    <3>3. CASE Sending(a, c)'
      <4>1. a = x /\ c = d
        BY <1>2, <2>3, <3>3 DEF Sending, Channel
      <4>2. ~AlreadySent(a, c)
        BY <1>4, <4>1
      <4>3. told[a][c] <= 1 /\ told[a][c] # 1 /\ told[a][c] \in Nat
        BY <1>1, <3>2, <4>2 DEF ToldInv, NoticeInv, StateInv
      <4> QED BY <1>1, <4>3
    <3>4. CASE ~Sending(a, c)'
      BY <1>1, <3>1, <3>2, <3>4
    <3> QED BY <3>3, <3>4
  <2> HIDE DEF x, d
  <2> QED BY <1>1, <2>4, ToldSteps
<1> QED BY <1>3, <1>4 DEF CheckAlreadySent, Call

\* A send's next step, on the same channel.
LEMMA SendGoesOn ==
  ASSUME NoticeInv, ToldInv, rows' = rows, log' = log, told' = told, doubt' = doubt, NEW p \in Callers,
         calls[p].pc \in SendSteps, NEW next, calls' = [calls EXCEPT ![p] = next],
         next.pc \in SendSteps, next.alert = calls[p].alert, next.todo = calls[p].todo
  PROVE  ToldInv'
<1>1. p = "check" /\ calls \in [Callers -> Calls]
  BY SendsAreTheChecks DEF SendSteps, AnnouncementSteps, NoticeInv, StateInv
<1>2. calls'["check"] = next
  BY <1>1
<1>3. ChannelOf(next) = ChannelOf(calls[p])
  BY DEF ChannelOf, SendSteps, ResolutionSteps
<1> QED BY <1>1, <1>2, <1>3, ToldQuiet

LEMMA FindTold == ASSUME NoticeInv, ToldInv, NEW p \in Callers, Find(p) PROVE ToldInv'
<1>1. rows' = rows /\ log' = log /\ told' = told /\ doubt' = doubt /\ calls[p].pc \in SendSteps
  BY DEF Find, At, SendSteps
<1>2. PICK pc \in {"create", "read"} : (\E i : calls' = [calls EXCEPT ![p].issue = i, ![p].pc = pc]) \/ Goto(p, pc)
  BY DEF Find
<1>3. calls \in [Callers -> Calls]
  BY DEF NoticeInv, StateInv
<1>4. CASE \E i : calls' = [calls EXCEPT ![p].issue = i, ![p].pc = pc]
  <2>1. PICK i : calls' = [calls EXCEPT ![p].issue = i, ![p].pc = pc]
    BY <1>4
  <2> DEFINE next == [calls[p] EXCEPT !.issue = i, !.pc = pc]
  <2>2. calls' = [calls EXCEPT ![p] = next]
    BY <1>3, <2>1
  <2>3. next.pc \in SendSteps /\ next.alert = calls[p].alert /\ next.todo = calls[p].todo
    BY <1>3 DEF Calls, SendSteps
  <2> HIDE DEF next
  <2> QED BY <1>1, <2>2, <2>3, SendGoesOn
<1>5. CASE Goto(p, pc)
  <2> DEFINE next == [calls[p] EXCEPT !.pc = pc]
  <2>1. calls' = [calls EXCEPT ![p] = next]
    BY <1>3, <1>5 DEF Goto
  <2>2. next.pc \in SendSteps /\ next.alert = calls[p].alert /\ next.todo = calls[p].todo
    BY <1>3 DEF Calls, SendSteps
  <2> HIDE DEF next
  <2> QED BY <1>1, <2>1, <2>2, SendGoesOn
<1> QED BY <1>2, <1>4, <1>5

LEMMA EditsTold == ASSUME NoticeInv, ToldInv, NEW p \in Callers, readIssue(p) \/ reopenIssue(p) PROVE ToldInv'
<1>1. rows' = rows /\ log' = log /\ told' = told /\ doubt' = doubt /\ calls[p].pc \in {"read", "edit"}
  BY DEF readIssue, reopenIssue, At
<1>2. IssueIDs \subseteq IssueIDs'
  BY DEF readIssue, reopenIssue, IssueIDs, NoticeInv, StateInv
<1>3. CASE Skip(p)
  <2>1. calls[p].pc \in (AnnouncementSteps \cup ResolutionSteps) \ {"log"}
    BY <1>1 DEF AnnouncementSteps
  <2> QED BY <1>1, <1>2, <1>3, <2>1, SkipTold
<1>4. CASE \E pc \in {"edit", "note"} : Goto(p, pc)
  <2>1. PICK pc \in {"edit", "note"} : Goto(p, pc)
    BY <1>4
  <2> DEFINE next == [calls[p] EXCEPT !.pc = pc]
  <2>2. calls' = [calls EXCEPT ![p] = next] /\ calls \in [Callers -> Calls]
    BY <2>1 DEF Goto, NoticeInv, StateInv
  <2>3. next.pc \in SendSteps /\ next.alert = calls[p].alert /\ next.todo = calls[p].todo
    BY <2>2 DEF Calls, SendSteps
  <2>4. calls[p].pc \in SendSteps
    BY <1>1 DEF SendSteps
  <2> HIDE DEF next
  <2> QED BY <1>1, <2>2, <2>3, <2>4, SendGoesOn
<1> QED BY <1>3, <1>4 DEF readIssue, reopenIssue

\* A send is announced, and is to be logged; or is not known to be.
LEMMA AnnouncesTold ==
  ASSUME NoticeInv, ToldInv, rows' = rows, log' = log, NEW p \in Callers, NEW c \in Channels,
         calls[p].pc \in SendSteps, Channel(p) = c, Tell(p, c), doubt \subseteq doubt',
         \/ calls[p].alert \in doubt' /\ Skip(p) /\ IssueIDs \subseteq IssueIDs'
         \/ /\ calls'["check"].pc = "log" /\ calls'["check"].alert = calls[p].alert
            /\ calls'["check"].todo = calls[p].todo
  PROVE  ToldInv'
<1> DEFINE x == calls[p].alert
<1>1. p = "check" /\ x \in Alerts /\ calls \in [Callers -> Calls]
  BY SendsAreTheChecks DEF SendSteps, AnnouncementSteps, NoticeInv, StateInv
<1>2. \A a \in Alerts, d \in Channels : told'[a][d] = IF a = x /\ d = c THEN told[a][d] + 1 ELSE told[a][d]
  BY <1>1, ToldOne DEF Call
<1>3. ASSUME NEW a \in Alerts \ doubt', NEW d \in Channels
      PROVE  \/ told'[a][d] = 1 /\ Unlogged(a, d)'
             \/ /\ told'[a][d] = told[a][d]
                /\ AlreadySent(a, d) \/ Unlogged(a, d) => AlreadySent(a, d)' \/ Unlogged(a, d)'
                /\ Sending(a, d)' => Sending(a, d)
  <2>1. AlreadySent(a, d)' <=> AlreadySent(a, d)
    BY SentSame
  <2>2. ~Unlogged(a, d)
    BY <1>1 DEF Unlogged, SendSteps
  <2>3. CASE x \in doubt' /\ Skip(p) /\ IssueIDs \subseteq IssueIDs'
    <3>1. calls[p].pc \in AnnouncementSteps \cup ResolutionSteps
      BY DEF SendSteps, AnnouncementSteps
    <3> HIDE DEF x
    <3>2. calls'[p].pc \in {"idle", "check", "rcheck"}
      BY <2>3, <3>1, SkipFits
    <3>3. ~Sending(a, d)'
      BY <1>1, <3>2 DEF Sending, SendSteps
    <3>4. told'[a][d] = told[a][d]
      BY <1>2, <2>3
    <3> QED BY <2>1, <2>2, <3>3, <3>4
  <2>4. CASE calls'["check"].pc = "log" /\ calls'["check"].alert = x /\ calls'["check"].todo = calls[p].todo
    <3>1. ~Sending(a, d)'
      BY <2>4 DEF Sending, SendSteps
    <3>2. ChannelOf(calls'["check"]) = c
      BY <2>4 DEF ChannelOf, Channel, SendSteps, ResolutionSteps
    <3>3. CASE a = x /\ d = c
      <4>1. Unlogged(a, d)'
        BY <2>4, <3>2, <3>3 DEF Unlogged, Channel
      <4>2. Sending(a, d)
        BY <1>1, <3>3 DEF Sending
      <4>3. told[a][d] = 0
        BY <4>2 DEF ToldInv
      <4> QED BY <1>2, <3>3, <4>1, <4>3
    <3>4. CASE ~(a = x /\ d = c)
      BY <1>2, <2>1, <2>2, <3>1, <3>4
    <3> QED BY <3>3, <3>4
  <2> QED BY <2>3, <2>4
<1> QED BY <1>3, ToldSteps

LEMMA createIssueTold == ASSUME NoticeInv, ToldInv, NEW p \in Callers, createIssue(p) PROVE ToldInv'
<1> DEFINE new == Len(issues) + 1
<1>1. rows' = rows /\ log' = log /\ calls[p].pc = "create" /\ doubt \subseteq doubt'
  BY DEF createIssue, At
<1>2. p = "check" /\ Channel(p) = "gitlab" /\ "gitlab" \in Channels /\ calls \in [Callers -> Calls]
  <2>1. p = "check" /\ Channel(p) \in Channels
    BY <1>1, SendsAreTheChecks DEF AnnouncementSteps
  <2> QED BY <1>1, <2>1 DEF NoticeInv, StateInv, CallInv, Fits, Channel
<1>3. calls[p].pc \in (AnnouncementSteps \cup ResolutionSteps) \ {"log"} /\ calls[p].pc \in SendSteps
  BY <1>1 DEF AnnouncementSteps, SendSteps
<1>4. IssueIDs \subseteq IssueIDs'
  BY DEF createIssue, IssueIDs, NoticeInv, StateInv
<1>5. CASE Skip(p) /\ told' = told
  BY <1>1, <1>3, <1>4, <1>5, SkipTold
<1>6. CASE Skip(p) /\ Tell(p, "gitlab") /\ doubt' = doubt \cup {calls[p].alert}
  BY <1>1, <1>2, <1>3, <1>4, <1>6, AnnouncesTold
<1>7. CASE calls' = [calls EXCEPT ![p].issue = new, ![p].pc = "log"] /\ Tell(p, "gitlab")
  <2>1. /\ calls'["check"].pc = "log" /\ calls'["check"].alert = calls[p].alert
        /\ calls'["check"].todo = calls[p].todo
    BY <1>2, <1>7 DEF Calls
  <2> QED BY <1>1, <1>2, <1>3, <1>7, <2>1, AnnouncesTold
<1> QED BY <1>5, <1>6, <1>7 DEF createIssue, Call

LEMMA PostTold == ASSUME NoticeInv, ToldInv, NEW p \in Callers, Post(p) PROVE ToldInv'
<1> DEFINE c == Channel(p)
<1>1. rows' = rows /\ log' = log /\ calls[p].pc \in {"note", "post"} /\ doubt \subseteq doubt'
  BY DEF Post, At
<1>2. p = "check" /\ c \in Channels /\ calls \in [Callers -> Calls]
  BY <1>1, SendsAreTheChecks DEF AnnouncementSteps, NoticeInv, StateInv
<1>3. calls[p].pc \in (AnnouncementSteps \cup ResolutionSteps) \ {"log"} /\ calls[p].pc \in SendSteps
  BY <1>1 DEF AnnouncementSteps, SendSteps
<1>4. IssueIDs \subseteq IssueIDs'
  BY DEF Post, IssueIDs
<1>5. CASE Skip(p) /\ told' = told
  BY <1>1, <1>3, <1>4, <1>5, SkipTold
<1>6. CASE Skip(p) /\ Tell(p, c) /\ doubt' = doubt \cup {calls[p].alert}
  <2>1. c = Channel(p)
    OBVIOUS
  <2> HIDE DEF c
  <2> QED BY <1>1, <1>2, <1>3, <1>4, <1>6, <2>1, AnnouncesTold
<1>7. CASE Goto(p, "log") /\ Tell(p, c)
  <2>1. /\ calls'["check"].pc = "log" /\ calls'["check"].alert = calls[p].alert
        /\ calls'["check"].todo = calls[p].todo
    BY <1>2, <1>7 DEF Calls, Goto
  <2>2. c = Channel(p)
    OBVIOUS
  <2> HIDE DEF c
  <2> QED BY <1>1, <1>2, <1>3, <1>7, <2>1, <2>2, AnnouncesTold
<1> QED BY <1>5, <1>6, <1>7 DEF Post, Call

LEMMA LogNotificationTold == ASSUME NoticeInv, ToldInv, NEW p \in Callers, LogNotification(p) PROVE ToldInv'
<1> DEFINE x == calls[p].alert
           d == Channel(p)
           e == [alert |-> x, occ |-> rows[x].occ, channel |-> d, issue |-> IF d = "gitlab" THEN calls[p].issue ELSE NoIssue]
<1>1. rows' = rows /\ told' = told /\ calls[p].pc = "log" /\ Skip(p) /\ doubt \subseteq doubt' /\ IssueIDs \subseteq IssueIDs'
  BY DEF LogNotification, At, IssueIDs
<1>2. p = "check" /\ x \in Alerts /\ d \in Channels /\ calls[p].pc \in AnnouncementSteps \cup ResolutionSteps
  BY <1>1, SendsAreTheChecks DEF AnnouncementSteps
<1>3. calls'["check"].pc \in {"idle", "check", "rcheck"}
  BY <1>1, <1>2, SkipFits
<1>4. \/ log' = log /\ x \in doubt'
      \/ log' = Append(log, e)
  BY DEF LogNotification, Call
<1>5. e.alert = x /\ e.occ = rows[x].occ /\ e.channel = d
  OBVIOUS
<1>6. log \in Seq(Sent)
  BY DEF NoticeInv, StateInv
<1> HIDE DEF e
<1>7. ASSUME NEW a \in Alerts \ doubt', NEW c \in Channels
      PROVE  /\ AlreadySent(a, c) \/ Unlogged(a, c) => AlreadySent(a, c)' \/ Unlogged(a, c)'
             /\ Sending(a, c)' => Sending(a, c)
  <2>1. ~Sending(a, c)'
    BY <1>3 DEF Sending, SendSteps
  <2>2. CASE log' = log
    <3>1. AlreadySent(a, c)' <=> AlreadySent(a, c)
      BY <1>1, <2>2, SentSame
    <3>2. a # x
      BY <1>4, <1>6, <2>2
    <3>3. ~Unlogged(a, c)
      BY <1>2, <3>2 DEF Unlogged
    <3> QED BY <2>1, <3>1, <3>3
  <2>3. CASE log' = Append(log, e)
    <3>1. /\ DOMAIN log' = DOMAIN log \cup {Len(log) + 1} /\ log'[Len(log) + 1] = e
          /\ \A n \in DOMAIN log : log'[n] = log[n]
      BY <1>6, <2>3
    <3>2. ASSUME AlreadySent(a, c)
          PROVE  AlreadySent(a, c)'
      <4>1. PICK n \in DOMAIN log : log[n].alert = a /\ log[n].channel = c /\ log[n].occ = rows[a].occ
        BY <3>2 DEF AlreadySent, Sends
      <4>2. n \in DOMAIN log' /\ log'[n].alert = a /\ log'[n].channel = c /\ log'[n].occ = rows'[a].occ
        BY <1>1, <3>1, <4>1
      <4> QED BY <4>2 DEF AlreadySent, Sends
    <3>3. ASSUME Unlogged(a, c)
          PROVE  AlreadySent(a, c)'
      <4>1. a = x /\ c = d
        BY <1>2, <3>3 DEF Unlogged
      <4> DEFINE n == Len(log) + 1
      <4>2. n \in DOMAIN log' /\ log'[n].alert = a /\ log'[n].channel = c /\ log'[n].occ = rows'[a].occ
        BY <1>1, <1>5, <3>1, <4>1
      <4> HIDE DEF n
      <4> QED BY <4>2 DEF AlreadySent, Sends
    <3> QED BY <2>1, <3>2, <3>3
  <2> QED BY <1>4, <2>2, <2>3
<1> HIDE DEF x, d
<1> QED BY <1>1, <1>7, ToldSteps

LEMMA NextTold == NoticeInv /\ ToldInv /\ [IssuesNext]_issueVars => ToldInv'
<1> SUFFICES ASSUME NoticeInv, ToldInv, [IssuesNext]_issueVars PROVE ToldInv'
  OBVIOUS
<1>1. CASE UNCHANGED issueVars
  BY <1>1, ToldQuiet DEF issueVars
<1>2. CASE \E p \in Callers : Step(p)
  <2>1. PICK p \in Callers : Step(p)
    BY <1>2
  <2> QED BY <2>1, ResolvesTold, CheckAlreadySentTold, FindTold, EditsTold, createIssueTold, PostTold, LogNotificationTold DEF Step
<1>3. CASE resolveReplaced
  BY <1>3, resolveReplacedTold
<1>4. CASE \E a \in Alerts : Detect(a) \/ ListOpen(a)
  BY <1>4, DetectTold, ListOpenTold
<1>5. CASE \/ \E w \in Worlds : ProviderChanges(w)
           \/ \E i \in IssueIDs : ClosedByHand(i)
           \/ \E a \in Alerts : OperatorReads(a)
  BY <1>5, EnvironmentTold
<1>6. CASE \E a \in Alerts, status \in {"active", "acknowledged", "ignored"} : OperatorSets(a, status)
  BY <1>6, OperatorSetsTold
<1>7. Step("check") \/ Step("operator") => \E p \in Callers : Step(p)
  BY DEF Callers
<1> QED BY <1>1, <1>2, <1>3, <1>4, <1>5, <1>6, <1>7 DEF IssuesNext, CheckStep

\* Once per occurrence: for any set of alerts and channels, and any number of runs,
\* occurrences and failures, an occurrence is announced at most once on a channel
\* unless its lookup, its answer or its log failed.
THEOREM AnnouncedAtMostOnce == IssuesSpec => []AnnouncedOnce
<1>1. IssuesInit => ToldInv
  BY DEF IssuesInit, ToldInv, Sending, SendSteps, Idle, Callers
<1>2. IssueInv => NoticeInv
  BY NoticeOf
<1>3. NoticeInv /\ ToldInv => AnnouncedOnce
  <2> SUFFICES ASSUME NoticeInv, ToldInv, NEW a \in Alerts, NEW c \in Channels, told[a][c] > 1 PROVE a \in doubt
    BY DEF AnnouncedOnce
  <2> QED BY DEF ToldInv, NoticeInv, StateInv
<1>4. NoticeInv /\ ToldInv /\ [IssuesNext]_issueVars => ToldInv'
  BY NextTold
<1>5. IssuesSpec => []NoticeInv
  BY <1>2, IssueInvariance, PTL
<1> QED BY <1>1, <1>3, <1>4, <1>5, PTL DEF IssuesSpec

-----------------------------------------------------------------------------
(* SharedIssues: no issue is left open.                                      *)

Unresolved(a) == rows[a].status \notin {"none", "resolved"}

\* An alert is to deal with the issues it holds, and with those of the alerts it
\* replaces.
Bears(a, i) == \E b \in {a} \cup Replaces[a] : Holds(b, i)

\* What began: an alert that was raised has a row, and a call's alert was raised.
\* An alert that another replaces is neither found nor announced once the other
\* was raised.  A resolution that tells Slack is to go on to GitLab.
BegunInv ==
  /\ found \in Worlds /\ \A n \in DOMAIN log : log[n].occ # 0
  /\ \A a \in Alerts : rows[a].status = "none" <=> rows[a].occ = 0
  /\ \A p \in Callers : calls[p].pc # "idle" => rows[calls[p].alert].occ # 0
  /\ \A a \in Alerts : \A b \in Replaces[a] : b \in found => rows[a].occ = 0
  /\ calls["check"].pc \in {"supersede"} \cup AnnouncementSteps =>
       \A a \in Alerts : calls["check"].alert \in Replaces[a] => rows[a].occ = 0
  /\ \A p \in Callers : calls[p].pc \in {"rcheck", "rpost"} =>
       /\ "gitlab" \in Channels => "gitlab" \in calls[p].todo
       /\ calls[p].pc = "rpost" => "slack" \in calls[p].todo

\* A send that has looked for an issue has found the one its alert bears.
Choosing ==
  \/ calls["check"].pc \in {"create", "read", "edit", "note"}
  \/ calls["check"].pc = "log" /\ Channel("check") = "gitlab"
ChoiceInv ==
  Choosing => \A i \in IssueIDs \ excused :
    Bears(calls["check"].alert, i) => calls["check"].pc # "create" /\ calls["check"].issue = i

\* An issue that an alert holds is the last it was sent on, and one it takes over
\* it holds itself once it was sent.
LatestInv ==
  \A a \in Alerts : \A n \in Sends(a, "gitlab") : log[n].issue \notin excused =>
    \A m \in DOMAIN log : m > n /\ log[m].alert = a /\ log[m].channel = "gitlab" => log[m].issue = log[n].issue
PassedInv ==
  \A a \in Alerts : \A i \in IssueIDs \ excused : AlreadySent(a, "gitlab") /\ Bears(a, i) => Holds(a, i)

\* An open issue is borne by an alert that is not resolved, or minded by a call.
Minds(p, i) ==
  \/ Joins(p, i)
  \/ calls[p].pc \in {"rcheck", "rpost"} /\ Bears(calls[p].alert, i)
  \/ (calls[p].pc = "rcount" \/ Closes(p)) /\ calls[p].issue = i
Minded(i) == (\E a \in Alerts : Unresolved(a) /\ Bears(a, i)) \/ \E p \in Callers : Minds(p, i)
LeftInv == \A i \in IssueIDs \ excused : issues[i] = "open" => Minded(i)

LeaveNoneInv == BegunInv /\ ChoiceInv /\ LatestInv /\ PassedInv /\ LeftInv

-----------------------------------------------------------------------------
LEMMA BearsIssues == ASSUME NoticeInv, NEW a \in Alerts, NEW i, Bears(a, i)
  PROVE i \in IssueIDs /\ "gitlab" \in Channels /\ i \in LeftBy(a)
<1>1. PICK b \in {a} \cup Replaces[a], n \in DOMAIN log : log[n].alert = b /\ log[n].channel = "gitlab" /\ log[n].issue = i
  BY DEF Bears, Holds, Sends
<1>2. log[n] \in Sent
  BY DEF NoticeInv, StateInv
<1> QED BY <1>1, <1>2 DEF NoticeInv, LogInv, LeftBy, Sent

\* A step that logs nothing and begins no occurrence.
LEMMA HoldingSame ==
  ASSUME NoticeInv, BegunInv, log' = log, \A a \in Alerts : rows'[a].occ = rows[a].occ
  PROVE  /\ \A a \in Alerts : \A i : Holds(a, i)' <=> Holds(a, i)
         /\ \A a \in Alerts : \A i : Bears(a, i)' <=> Bears(a, i)
         /\ \A a \in Alerts : \A c : Sends(a, c)' = Sends(a, c)
<1>1. \A a \in Alerts : \A c : Sends(a, c)' = Sends(a, c)
  BY DEF Sends
<1>2. \A a \in Alerts : \A i : Holds(a, i)' <=> Holds(a, i)
  BY <1>1 DEF Holds
<1>3. \A a \in Alerts : {a} \cup Replaces[a] \subseteq Alerts
  BY NoticeAssumption
<1> QED BY <1>1, <1>2, <1>3 DEF Bears

LEMMA HoldingKept ==
  ASSUME NoticeInv, BegunInv, LatestInv, PassedInv, log' = log, \A a \in Alerts : rows'[a].occ = rows[a].occ,
         excused \subseteq excused', IssueIDs \subseteq IssueIDs'
  PROVE  LatestInv' /\ PassedInv'
<1>1. LatestInv'
  BY HoldingSame DEF LatestInv
<1>2. PassedInv'
  <2> SUFFICES ASSUME NEW a \in Alerts, NEW i \in IssueIDs' \ excused', AlreadySent(a, "gitlab")', Bears(a, i)'
               PROVE  Holds(a, i)'
    BY DEF PassedInv
  <2>1. Bears(a, i) /\ AlreadySent(a, "gitlab") /\ i \notin excused
    BY HoldingSame DEF AlreadySent
  <2>2. i \in IssueIDs
    BY <2>1, BearsIssues
  <2> QED BY <2>1, <2>2, HoldingSame DEF PassedInv
<1> QED BY <1>1, <1>2

\* What a call does next: nothing, or something about its alert; or it begins with
\* an alert that was raised.
GoesOn(p) ==
  \/ calls'[p] = calls[p] \/ calls'[p].pc = "idle"
  \/ /\ calls[p].pc # "idle" /\ calls'[p].alert = calls[p].alert
     /\ calls'[p].pc \in {"supersede"} \cup AnnouncementSteps => calls[p].pc \in {"supersede"} \cup AnnouncementSteps
     /\ calls'[p].pc \in {"rcheck", "rpost"} =>
          /\ "gitlab" \in Channels => "gitlab" \in calls'[p].todo
          /\ calls'[p].pc = "rpost" => "slack" \in calls'[p].todo
  \/ /\ calls'[p].alert \in Alerts /\ rows[calls'[p].alert].occ # 0
     /\ calls'[p].pc = "resolve" \/ (calls'[p].pc = "supersede" /\ calls'[p].alert \in found)

LEMMA BegunKept ==
  ASSUME NoticeInv, BegunInv, found' = found, \A p \in Callers : GoesOn(p), \A n \in DOMAIN log' : log'[n].occ # 0,
         \A a \in Alerts : rows'[a].occ = rows[a].occ /\ (rows'[a].status = "none" <=> rows[a].status = "none")
  PROVE  BegunInv'
<1>1. \A p \in Callers : calls[p].pc # "idle" => calls[p].alert \in Alerts
  BY CallHas
<1>2. found' \in Worlds /\ \A n \in DOMAIN log' : log'[n].occ # 0
  BY DEF BegunInv
<1>3. \A a \in Alerts : rows'[a].status = "none" <=> rows'[a].occ = 0
  BY DEF BegunInv
<1>4. ASSUME NEW p \in Callers, calls'[p].pc # "idle"
      PROVE  rows'[calls'[p].alert].occ # 0
  <2>1. CASE calls'[p].alert = calls[p].alert /\ calls[p].pc # "idle"
    BY <1>1, <2>1 DEF BegunInv
  <2>2. CASE calls'[p].alert \in Alerts /\ rows[calls'[p].alert].occ # 0
    BY <2>2
  <2> QED BY <1>4, <2>1, <2>2 DEF GoesOn
<1>5. \A a \in Alerts : \A b \in Replaces[a] : b \in found' => rows'[a].occ = 0
  BY DEF BegunInv
<1>6. ASSUME calls'["check"].pc \in {"supersede"} \cup AnnouncementSteps
      PROVE  \A a \in Alerts : calls'["check"].alert \in Replaces[a] => rows'[a].occ = 0
  <2>1. CASE calls'["check"].alert = calls["check"].alert /\ calls["check"].pc \in {"supersede"} \cup AnnouncementSteps
    BY <2>1 DEF BegunInv
  <2>2. CASE calls'["check"].alert \in found
    BY <2>2 DEF BegunInv
  <2> QED BY <1>6, <2>1, <2>2 DEF GoesOn, Callers, AnnouncementSteps
<1>7. ASSUME NEW p \in Callers, calls'[p].pc \in {"rcheck", "rpost"}
      PROVE  /\ "gitlab" \in Channels => "gitlab" \in calls'[p].todo
             /\ calls'[p].pc = "rpost" => "slack" \in calls'[p].todo
  BY <1>7 DEF GoesOn, BegunInv
<1> QED BY <1>2, <1>3, <1>4, <1>5, <1>6, <1>7 DEF BegunInv

\* A step, of p if it is a caller's, that logs nothing and begins no occurrence.
LEMMA LeaveSteps ==
  ASSUME NoticeInv, NoticeInv', LeaveNoneInv, NEW p, \A q \in Callers : q # p => calls'[q] = calls[q],
         found' = found, log' = log, excused \subseteq excused', IssueIDs \subseteq IssueIDs',
         \A a \in Alerts : rows'[a].occ = rows[a].occ /\ (rows'[a].status = "none" <=> rows[a].status = "none"),
         p \in Callers => GoesOn(p),
         p = "check" /\ Choosing' =>
           \/ /\ Choosing /\ calls'[p].alert = calls[p].alert
              /\ (calls'[p].pc # "create" /\ calls'[p].issue = calls[p].issue) \/ calls[p].pc = "create"
           \/ ChoiceInv',
         \A i \in IssueIDs' \ excused' : issues'[i] = "open" => Minded(i)' \/ (i \in IssueIDs /\ issues[i] = "open"),
         \A i \in IssueIDs \ excused' : issues'[i] = "open" => Minded(i)' \/
           /\ \A a \in Alerts : Unresolved(a) /\ Bears(a, i) => Unresolved(a)'
           /\ p \in Callers => ~Minds(p, i)
  PROVE  LeaveNoneInv'
<1>1. BegunInv /\ ChoiceInv /\ LatestInv /\ PassedInv /\ LeftInv
  BY DEF LeaveNoneInv
<1>2. BegunInv'
  <2>1. \A q \in Callers : GoesOn(q)
    BY DEF GoesOn
  <2>2. \A n \in DOMAIN log' : log'[n].occ # 0
    BY <1>1 DEF BegunInv
  <2> QED BY <1>1, <2>1, <2>2, BegunKept
<1>3. LatestInv' /\ PassedInv'
  BY <1>1, HoldingKept
<1>4. /\ \A a \in Alerts : \A i : Bears(a, i)' <=> Bears(a, i)
      /\ \A q \in Callers : calls[q].pc # "idle" => calls[q].alert \in Alerts
  BY <1>1, HoldingSame, CallHas
<1>5. ChoiceInv'
  <2> SUFFICES ASSUME ~ChoiceInv', Choosing', NEW i \in IssueIDs' \ excused', Bears(calls["check"].alert, i)'
               PROVE  calls'["check"].pc # "create" /\ calls'["check"].issue = i
    BY DEF ChoiceInv
  <2>1. /\ Choosing /\ calls'["check"].alert = calls["check"].alert
        /\ calls["check"].pc = "create" \/ (calls'["check"].pc # "create" /\ calls'["check"].issue = calls["check"].issue)
    <3>1. "check" \in Callers
      BY DEF Callers
    <3>2. CASE p = "check"
      BY <3>2
    <3>3. CASE p # "check"
      <4>1. calls'["check"] = calls["check"]
        BY <3>1, <3>3
      <4>2. Choosing
        BY <4>1 DEF Choosing, Channel
      <4>3. calls["check"].pc = "create" \/ calls'["check"].pc # "create"
        BY <4>1
      <4> QED BY <4>1, <4>2, <4>3
    <3> QED BY <3>2, <3>3
  <2>2. calls["check"].alert \in Alerts
    BY <1>4, <2>1 DEF Choosing, Callers
  <2>3. PICK a \in Alerts : a = calls["check"].alert /\ a = calls'["check"].alert
    BY <2>1, <2>2
  <2>4. Bears(a, i)'
    BY <2>3 DEF Bears, Holds, Sends
  <2>5. Bears(calls["check"].alert, i)
    BY <1>4, <2>3, <2>4
  <2>6. i \in IssueIDs \ excused
    BY <2>2, <2>5, BearsIssues
  <2> QED BY <1>1, <2>1, <2>5, <2>6 DEF ChoiceInv
<1>6. LeftInv'
  <2> SUFFICES ASSUME NEW i \in IssueIDs' \ excused', issues'[i] = "open", ~Minded(i)'
               PROVE  FALSE
    BY DEF LeftInv
  <2>1. i \in IssueIDs \ excused /\ issues[i] = "open"
    OBVIOUS
  <2>2. Minded(i)
    BY <1>1, <2>1 DEF LeftInv
  <2>3. /\ \A a \in Alerts : Unresolved(a) /\ Bears(a, i) => Unresolved(a)'
        /\ p \in Callers => ~Minds(p, i)
    BY <2>1
  <2>4. ASSUME NEW a \in Alerts, Unresolved(a), Bears(a, i)
        PROVE  FALSE
    BY <1>4, <2>3, <2>4 DEF Minded
  <2>5. PICK q \in Callers : Minds(q, i) /\ q # p
    BY <2>2, <2>3, <2>4 DEF Minded
  <2>6. calls'[q] = calls[q]
    BY <2>5
  <2>7. Minds(q, i)'
    <3>1. CASE Joins(q, i)
      BY <2>6, <3>1 DEF Joins, Channel, Minds
    <3>2. CASE calls[q].pc \in {"rcheck", "rpost"} /\ Bears(calls[q].alert, i)
      <4>1. PICK a \in Alerts : a = calls[q].alert
        BY <1>4, <3>2
      <4>2. Bears(a, i)' /\ a = calls'[q].alert
        BY <1>4, <2>6, <3>2, <4>1
      <4>3. Bears(calls[q].alert, i)'
        BY <4>2 DEF Bears, Holds, Sends
      <4> QED BY <2>6, <3>2, <4>3 DEF Minds
    <3>3. CASE (calls[q].pc = "rcount" \/ Closes(q)) /\ calls[q].issue = i
      BY <2>6, <3>3 DEF Closes, Minds
    <3> QED BY <2>5, <3>1, <3>2, <3>3 DEF Minds
  <2> QED BY <2>7 DEF Minded
<1> QED BY <1>2, <1>3, <1>5, <1>6 DEF LeaveNoneInv

LEMMA ProviderChangesLeaves ==
  ASSUME NoticeInv, NoticeInv', LeaveNoneInv, NEW w \in Worlds, ProviderChanges(w) PROVE LeaveNoneInv'
<1>1. /\ found' = w /\ rows' = rows /\ log' = log /\ issues' = issues /\ calls' = calls /\ excused' = excused
      /\ \A a \in w, b \in Alerts : a \in Replaces[b] => rows[b].occ = 0 /\ b \notin found
  BY DEF ProviderChanges
<1>2. BegunInv'
  <2>1. BegunInv /\ w \subseteq Alerts
    BY NoticeAssumption DEF LeaveNoneInv
  <2>2. \A a \in Alerts : \A b \in Replaces[a] : b \in w => rows[a].occ = 0
    BY <1>1
  <2> QED BY <1>1, <2>1, <2>2 DEF BegunInv
<1>3. ChoiceInv' /\ LatestInv' /\ PassedInv' /\ LeftInv'
  BY <1>1 DEF LeaveNoneInv, ChoiceInv, Choosing, LatestInv, PassedInv, LeftInv, Minded, Minds, Unresolved, Bears,
    Holds, Sends, AlreadySent, Joins, Closes, Channel, IssueIDs
<1> QED BY <1>2, <1>3 DEF LeaveNoneInv

LEMMA ClosedByHandLeaves ==
  ASSUME NoticeInv, NoticeInv', LeaveNoneInv, NEW k \in IssueIDs, ClosedByHand(k) PROVE LeaveNoneInv'
<1>1. /\ found' = found /\ rows' = rows /\ log' = log /\ calls' = calls /\ issues' = [issues EXCEPT ![k] = "closed"]
      /\ excused' = excused \cup {k}
  BY DEF ClosedByHand
<1>2. /\ IssueIDs' = IssueIDs
      /\ \A i \in IssueIDs : issues'[i] = "open" => issues[i] = "open"
  BY <1>1 DEF IssueIDs
<1>3. \A a \in Alerts : Unresolved(a)' <=> Unresolved(a)
  BY <1>1 DEF Unresolved
<1>4. "nobody" \notin Callers /\ "nobody" # "check"
  BY DEF Callers
<1> QED BY <1>1, <1>2, <1>3, <1>4, LeaveSteps

\* Somebody begins to resolve an alert that is not resolved.
LEMMA BeginsLeaves ==
  ASSUME NoticeInv, NoticeInv', LeaveNoneInv, NEW p \in Callers, NEW a \in Alerts, NEW pc \in {"resolve", "supersede"},
         calls[p].pc = "idle", calls' = [calls EXCEPT ![p] = [Idle EXCEPT !.pc = pc, !.alert = a]],
         rows[a].status # "none", pc = "supersede" => a \in found,
         found' = found, rows' = rows, log' = log, issues' = issues, excused' = excused
  PROVE  LeaveNoneInv'
<1>1. calls \in [Callers -> Calls]
  BY DEF NoticeInv, StateInv
<1>2. calls'[p].pc = pc /\ calls'[p].alert = a /\ \A q \in Callers : q # p => calls'[q] = calls[q]
  BY <1>1 DEF Idle
<1>3. rows[a].occ # 0
  BY DEF LeaveNoneInv, BegunInv
<1>4. GoesOn(p)
  BY <1>2, <1>3 DEF GoesOn
<1>5. IssueIDs' = IssueIDs
  BY DEF IssueIDs
<1>6. \A x \in Alerts : Unresolved(x)' <=> Unresolved(x)
  BY DEF Unresolved
<1>7. ~(p = "check" /\ Choosing')
  BY <1>2 DEF Choosing
<1>8. \A i : ~Minds(p, i)
  BY DEF Minds, Joins, Closes
<1> QED BY <1>2, <1>4, <1>5, <1>6, <1>7, <1>8, LeaveSteps

LEMMA OperatorReadsLeaves ==
  ASSUME NoticeInv, NoticeInv', LeaveNoneInv, NEW a \in Alerts, OperatorReads(a) PROVE LeaveNoneInv'
<1> DEFINE pc == "resolve"
           p == "operator"
<1>1. /\ calls[p].pc = "idle" /\ calls' = [calls EXCEPT ![p] = [Idle EXCEPT !.pc = pc, !.alert = a]]
      /\ rows[a].status # "none" /\ p \in Callers /\ pc \in {"resolve", "supersede"} /\ pc # "supersede"
      /\ found' = found /\ rows' = rows /\ log' = log /\ issues' = issues /\ excused' = excused
  BY DEF OperatorReads, At, Callers
<1> HIDE DEF pc, p
<1> QED BY <1>1, BeginsLeaves

LEMMA ListOpenLeaves ==
  ASSUME NoticeInv, NoticeInv', LeaveNoneInv, NEW a \in Alerts, ListOpen(a) PROVE LeaveNoneInv'
<1> DEFINE pc == "resolve"
           p == "check"
<1>1. /\ calls[p].pc = "idle" /\ calls' = [calls EXCEPT ![p] = [Idle EXCEPT !.pc = pc, !.alert = a]]
      /\ rows[a].status # "none" /\ p \in Callers /\ pc \in {"resolve", "supersede"} /\ pc # "supersede"
      /\ found' = found /\ rows' = rows /\ log' = log /\ issues' = issues /\ excused' = excused
  BY DEF ListOpen, OpenAlert, At, Callers
<1> HIDE DEF pc, p
<1> QED BY <1>1, BeginsLeaves

\* An occurrence begins: an operator makes the alert active again, or the check
\* finds it.
LEMMA StartsHolding ==
  ASSUME NoticeInv, NEW a \in Alerts, log' = log, rows'[a].occ \in Nat, rows'[a].occ > rows[a].occ,
         \A b \in Alerts \ {a} : rows'[b] = rows[b]
  PROVE  /\ \A i : ~Holds(a, i)'
         /\ Sends(a, "gitlab")' = {}
         /\ \A b \in Alerts \ {a} : Sends(b, "gitlab")' = Sends(b, "gitlab") /\ \A i : Holds(b, i)' <=> Holds(b, i)
         /\ \A b \in Alerts : \A i : Bears(b, i)' => Bears(b, i)
         /\ \A b \in Alerts : \A i : Bears(b, i) => Bears(b, i)' \/ (i \in LeftBy(a) /\ a \in {b} \cup Replaces[b])
<1>1. \A i : ~Holds(a, i)'
  BY KeepsSame
<1>2. Sends(a, "gitlab")' = {}
  <2> SUFFICES ASSUME NEW n \in Sends(a, "gitlab")' PROVE FALSE
    OBVIOUS
  <2>1. Holds(a, log[n].issue)'
    BY DEF Holds, Sends
  <2> QED BY <1>1, <2>1
<1>3. \A b \in Alerts \ {a} : Sends(b, "gitlab")' = Sends(b, "gitlab") /\ \A i : Holds(b, i)' <=> Holds(b, i)
  BY DEF Holds, Sends
<1>4. \A b \in Alerts : {b} \cup Replaces[b] \subseteq Alerts
  BY NoticeAssumption
<1>5. \A b \in Alerts : \A i : Holds(b, i)' => Holds(b, i)
  BY <1>1, <1>3
<1>6. \A b \in Alerts : \A i : Bears(b, i)' => Bears(b, i)
  BY <1>4, <1>5 DEF Bears
<1>7. ASSUME NEW b \in Alerts, NEW i, Bears(b, i), ~Bears(b, i)'
      PROVE  i \in LeftBy(a) /\ a \in {b} \cup Replaces[b]
  <2>1. PICK x \in {b} \cup Replaces[b] : Holds(x, i)
    BY <1>7 DEF Bears
  <2>2. ~Holds(x, i)'
    BY <1>7, <2>1 DEF Bears
  <2>3. x = a
    BY <1>3, <1>4, <2>1, <2>2
  <2>4. Bears(a, i)
    BY <2>1, <2>3 DEF Bears
  <2> QED BY <2>1, <2>3, <2>4, BearsIssues
<1> QED BY <1>1, <1>2, <1>3, <1>6, <1>7

LEMMA StartsLeaves ==
  ASSUME NoticeInv, NoticeInv', LeaveNoneInv, NEW a \in Alerts, Starts(a, "active"), rows[a].occ < MaxOcc,
         found' = found, log' = log, issues' = issues, excused \subseteq excused',
         \/ calls' = calls /\ rows[a].status = "resolved" /\ LeftBy(a) \subseteq excused'
         \/ /\ calls["check"].pc = "idle" /\ calls' = [calls EXCEPT !["check"] = [Idle EXCEPT !.pc = "supersede", !.alert = a]]
            /\ a \in found /\ rows[a].status \in {"none", "resolved"}
            /\ Resolving(a) => LeftBy(a) \subseteq excused'
  PROVE  LeaveNoneInv'
<1> DEFINE Sets == calls' = calls /\ rows[a].status = "resolved" /\ LeftBy(a) \subseteq excused'
           Detects == /\ calls["check"].pc = "idle" /\ calls' = [calls EXCEPT !["check"] = [Idle EXCEPT !.pc = "supersede", !.alert = a]]
                      /\ a \in found /\ rows[a].status \in {"none", "resolved"}
                      /\ Resolving(a) => LeftBy(a) \subseteq excused'
<1>1. BegunInv /\ ChoiceInv /\ LatestInv /\ PassedInv /\ LeftInv
  BY DEF LeaveNoneInv
<1>2. /\ rows'[a].occ = rows[a].occ + 1 /\ rows[a].occ \in Nat /\ rows'[a].status = "active"
      /\ \A b \in Alerts \ {a} : rows'[b] = rows[b]
  <2>1. "active" \in IssueRowStatuses
    BY DEF IssueRowStatuses
  <2>2. rows[a].occ \in Nat
    BY NoticeAssumption DEF NoticeInv, StateInv
  <2> QED BY <2>1, <2>2, OccurrenceStarts
<1>3. /\ Sends(a, "gitlab")' = {}
      /\ \A b \in Alerts \ {a} : Sends(b, "gitlab")' = Sends(b, "gitlab") /\ \A i : Holds(b, i)' <=> Holds(b, i)
      /\ \A b \in Alerts : \A i : Bears(b, i)' => Bears(b, i)
      /\ \A b \in Alerts : \A i : Bears(b, i) => Bears(b, i)' \/ (i \in LeftBy(a) /\ a \in {b} \cup Replaces[b])
  <2>1. rows'[a].occ \in Nat /\ rows'[a].occ > rows[a].occ
    BY <1>2
  <2> QED BY <1>2, <2>1, StartsHolding
<1>4. IssueIDs' = IssueIDs
  BY DEF IssueIDs
<1>5. Detects => /\ calls'["check"].pc = "supersede" /\ calls'["check"].alert = a
                 /\ \A q \in Callers : q # "check" => calls'[q] = calls[q]
  BY DEF NoticeInv, StateInv, Callers, Idle
<1>6. Sets \/ Detects
  OBVIOUS
<1> HIDE DEF Sets, Detects
<1>7. \A p \in Callers : calls[p].pc # "idle" => calls[p].alert \in Alerts
  BY CallHas
<1>8. a \in found => \A x \in Alerts : a \in Replaces[x] => rows[x].occ = 0 /\ x # a
  BY <1>1, NoticeAssumption DEF BegunInv
<1>9. BegunInv'
  <2>1. \A x \in Alerts : rows'[x].status = "none" <=> rows'[x].occ = 0
    BY <1>1, <1>2 DEF BegunInv
  <2>2. ASSUME NEW p \in Callers, calls'[p].pc # "idle" PROVE rows'[calls'[p].alert].occ # 0
    <3>1. \A x \in Alerts : rows[x].occ # 0 => rows'[x].occ # 0
      BY <1>2
    <3>2. CASE calls'[p] = calls[p]
      BY <1>1, <1>7, <2>2, <3>1, <3>2 DEF BegunInv
    <3>3. CASE calls'[p].alert = a
      BY <1>2, <3>3
    <3> QED BY <1>5, <1>6, <3>2, <3>3 DEF Sets
  <2>3. ASSUME NEW x \in Alerts, NEW b \in Replaces[x], b \in found PROVE rows'[x].occ = 0
    <3>1. rows[x].occ = 0
      BY <1>1, <2>3 DEF BegunInv
    <3>2. x # a
      <4>1. CASE Sets
        BY <1>1, <3>1, <4>1 DEF BegunInv, Sets
      <4>2. CASE Detects
        BY <1>1, <2>3, <4>2, NoticeAssumption DEF BegunInv, Detects
      <4> QED BY <1>6, <4>1, <4>2
    <3> QED BY <1>2, <3>1, <3>2
  <2>4. ASSUME calls'["check"].pc \in {"supersede"} \cup AnnouncementSteps, NEW x \in Alerts, calls'["check"].alert \in Replaces[x]
        PROVE  rows'[x].occ = 0
    <3>1. CASE Sets
      <4>1. rows[x].occ = 0
        BY <1>1, <2>4, <3>1 DEF BegunInv, Sets
      <4>2. x # a
        BY <1>1, <3>1, <4>1 DEF BegunInv, Sets
      <4> QED BY <1>2, <4>1, <4>2
    <3>2. CASE Detects
      BY <1>2, <1>5, <1>8, <2>4, <3>2 DEF Detects
    <3> QED BY <1>6, <3>1, <3>2
  <2>5. ASSUME NEW p \in Callers, calls'[p].pc \in {"rcheck", "rpost"}
        PROVE  /\ "gitlab" \in Channels => "gitlab" \in calls'[p].todo
               /\ calls'[p].pc = "rpost" => "slack" \in calls'[p].todo
    <3>1. calls'[p] = calls[p]
      BY <1>5, <1>6, <2>5 DEF Sets
    <3> QED BY <1>1, <2>5, <3>1 DEF BegunInv
  <2> QED BY <1>1, <2>1, <2>2, <2>3, <2>4, <2>5 DEF BegunInv
<1>10. ChoiceInv'
  <2> SUFFICES ASSUME Choosing', NEW i \in IssueIDs' \ excused', Bears(calls["check"].alert, i)'
               PROVE  calls'["check"].pc # "create" /\ calls'["check"].issue = i
    BY DEF ChoiceInv
  <2>1. Sets
    BY <1>5, <1>6 DEF Choosing
  <2>2. Choosing /\ "check" \in Callers
    BY <2>1 DEF Sets, Choosing, Channel, Callers
  <2>3. PICK x \in Alerts : x = calls["check"].alert /\ x = calls'["check"].alert
    BY <1>7, <2>1, <2>2 DEF Sets, Choosing
  <2>4. Bears(x, i)'
    BY <2>3 DEF Bears, Holds, Sends
  <2>5. Bears(calls["check"].alert, i)
    BY <1>3, <2>3, <2>4
  <2> QED BY <1>1, <1>4, <2>1, <2>2, <2>5 DEF ChoiceInv, Sets
<1>11. LatestInv'
  BY <1>1, <1>3 DEF LatestInv
<1>12. PassedInv'
  <2> SUFFICES ASSUME NEW x \in Alerts, NEW i \in IssueIDs' \ excused', AlreadySent(x, "gitlab")', Bears(x, i)'
               PROVE  Holds(x, i)'
    BY DEF PassedInv
  <2>1. x # a
    BY <1>3 DEF AlreadySent
  <2>2. AlreadySent(x, "gitlab") /\ Bears(x, i)
    BY <1>3, <2>1 DEF AlreadySent
  <2> QED BY <1>1, <1>3, <1>4, <2>1, <2>2 DEF PassedInv
<1>13. LeftInv'
  <2> SUFFICES ASSUME NEW i \in IssueIDs' \ excused', issues'[i] = "open"
               PROVE  Minded(i)'
    BY DEF LeftInv
  <2>1. Minded(i) /\ i \notin excused'
    BY <1>1, <1>4 DEF LeftInv
  <2>2. ASSUME NEW x \in Alerts, Unresolved(x), Bears(x, i) PROVE Minded(i)'
    <3>1. Unresolved(x)'
      BY <1>2, <2>2 DEF Unresolved
    <3>2. Bears(x, i)'
      <4> SUFFICES ASSUME i \in LeftBy(a), a \in {x} \cup Replaces[x] PROVE FALSE
        BY <1>3, <2>2
      <4>1. Detects
        BY <1>6, <2>1 DEF Sets
      <4>2. x # a /\ a \in Replaces[x]
        BY <2>2, <4>1 DEF Detects, Unresolved
      <4> QED BY <1>1, <1>8, <2>2, <4>1, <4>2 DEF Detects, Unresolved, BegunInv
    <3> QED BY <3>1, <3>2 DEF Minded
  <2>3. ASSUME NEW p \in Callers, Minds(p, i) PROVE Minded(i)'
    <3>1. calls'[p] = calls[p]
      <4>1. calls[p].pc # "idle"
        BY <2>3 DEF Minds, Joins, Closes
      <4> QED BY <1>5, <1>6, <4>1 DEF Sets, Detects
    <3>2. Minds(p, i)'
      <4>1. CASE Joins(p, i)
        BY <3>1, <4>1 DEF Joins, Channel, Minds
      <4>2. CASE calls[p].pc \in {"rcheck", "rpost"} /\ Bears(calls[p].alert, i)
        <5>1. PICK x \in Alerts : x = calls[p].alert
          BY <1>7, <4>2
        <5>2. Bears(x, i)'
          <6> SUFFICES ASSUME i \in LeftBy(a), a \in {x} \cup Replaces[x] PROVE FALSE
            BY <1>3, <4>2, <5>1
          <6>1. Detects
            BY <1>6, <2>1 DEF Sets
          <6>2. x # a
            BY <2>1, <4>2, <5>1, <6>1 DEF Detects, Resolving, ResolutionSteps
          <6> QED BY <1>1, <1>8, <4>2, <5>1, <6>1, <6>2 DEF Detects, BegunInv
        <5>3. Bears(calls[p].alert, i)'
          BY <3>1, <5>1, <5>2 DEF Bears, Holds, Sends
        <5> QED BY <3>1, <4>2, <5>3 DEF Minds
      <4>3. CASE (calls[p].pc = "rcount" \/ Closes(p)) /\ calls[p].issue = i
        BY <3>1, <4>3 DEF Closes, Minds
      <4> QED BY <2>3, <4>1, <4>2, <4>3 DEF Minds
    <3> QED BY <3>2 DEF Minded
  <2> QED BY <2>1, <2>2, <2>3 DEF Minded
<1> QED BY <1>9, <1>10, <1>11, <1>12, <1>13 DEF LeaveNoneInv

LEMMA DetectLeaves ==
  ASSUME NoticeInv, NoticeInv', LeaveNoneInv, NEW a \in Alerts, Detect(a) PROVE LeaveNoneInv'
<1>1. /\ found' = found /\ log' = log /\ issues' = issues /\ calls["check"].pc = "idle" /\ a \in found
      /\ calls' = [calls EXCEPT !["check"] = [Idle EXCEPT !.pc = "supersede", !.alert = a]]
  BY DEF Detect, At
<1>2. CASE /\ rows[a].status \in {"none", "resolved"} /\ rows[a].occ < MaxOcc /\ Starts(a, "active")
           /\ excused' = IF Resolving(a) THEN excused \cup LeftBy(a) ELSE excused
  <2>1. excused \subseteq excused' /\ (Resolving(a) => LeftBy(a) \subseteq excused')
    BY <1>2
  <2> QED BY <1>1, <1>2, <2>1, StartsLeaves
<1>3. CASE rows[a].status = "active" /\ rows' = rows /\ excused' = excused
  <2> DEFINE pc == "supersede"
             p == "check"
  <2>1. /\ calls[p].pc = "idle" /\ calls' = [calls EXCEPT ![p] = [Idle EXCEPT !.pc = pc, !.alert = a]]
        /\ rows[a].status # "none" /\ p \in Callers /\ pc \in {"resolve", "supersede"}
    BY <1>1, <1>3 DEF Callers
  <2> HIDE DEF pc, p
  <2> QED BY <1>1, <1>3, <2>1, BeginsLeaves
<1> QED BY <1>2, <1>3 DEF Detect

LEMMA OperatorSetsLeaves ==
  ASSUME NoticeInv, NoticeInv', LeaveNoneInv, NEW a \in Alerts, NEW status \in {"active", "acknowledged", "ignored"},
         OperatorSets(a, status)
  PROVE  LeaveNoneInv'
<1>1. /\ found' = found /\ log' = log /\ issues' = issues /\ calls' = calls /\ excused \subseteq excused'
      /\ rows[a].status # "none"
  BY DEF OperatorSets
<1>2. CASE rows[a].status = "resolved" /\ status = "active"
  <2>1. rows[a].occ < MaxOcc /\ Starts(a, "active") /\ excused' = excused \cup LeftBy(a)
    BY <1>2 DEF OperatorSets
  <2> QED BY <1>1, <1>2, <2>1, StartsLeaves
<1>3. CASE ~(rows[a].status = "resolved" /\ status = "active")
  <2>1. rows' = [rows EXCEPT ![a].status = status] /\ status \in IssueRowStatuses
    BY <1>3 DEF OperatorSets, IssueRowStatuses
  <2>2. rows'[a].status = status /\ (\A x \in Alerts \ {a} : rows'[x] = rows[x]) /\ \A x \in Alerts : rows'[x].occ = rows[x].occ
    BY <2>1, StatusSet
  <2>3. \A x \in Alerts : rows'[x].occ = rows[x].occ /\ (rows'[x].status = "none" <=> rows[x].status = "none")
    BY <1>1, <2>2
  <2>4. \A x \in Alerts : Unresolved(x) => Unresolved(x)'
    BY <2>2 DEF Unresolved
  <2>5. IssueIDs' = IssueIDs
    BY <1>1 DEF IssueIDs
  <2>6. "nobody" \notin Callers /\ "nobody" # "check"
    BY DEF Callers
  <2> QED BY <1>1, <2>3, <2>4, <2>5, <2>6, LeaveSteps
<1> QED BY <1>2, <1>3
-----------------------------------------------------------------------------
(* SharedIssues: a call goes on.                                             *)

LEMMA SkipGoesOn ==
  ASSUME NoticeInv, BegunInv, NEW p \in Callers, Skip(p), calls[p].pc \in AnnouncementSteps \cup ResolutionSteps,
         IssueIDs \subseteq IssueIDs'
  PROVE  /\ GoesOn(p) /\ calls'[p].pc \in {"idle", "check", "rcheck"}
         /\ \A q \in Callers : q # p => calls'[q] = calls[q]
         /\ calls[p].pc \in ResolutionSteps /\ Channel(p) = "slack" /\ "gitlab" \in calls[p].todo =>
              calls'[p].pc = "rcheck" /\ calls'[p].alert = calls[p].alert
<1> DEFINE call == calls[p]
           next == NextChannel(call)
           left == call.todo \ {ChannelOf(call)}
           pc == IF call.pc \in ResolutionSteps THEN "rcheck" ELSE "check"
<1>1. call \in Calls /\ Fits(p, call, IssueIDs) /\ calls \in [Callers -> Calls] /\ call.alert \in Alerts
  BY CallHas DEF NoticeInv, StateInv, CallInv, AnnouncementSteps, ResolutionSteps
<1>2. calls' = [calls EXCEPT ![p] = next]
  BY DEF Skip
<1>3. \/ call.todo \subseteq {ChannelOf(call)} /\ next.pc = "idle"
      \/ ~(call.todo \subseteq {ChannelOf(call)}) /\ next.todo = left /\ next.pc = pc /\ next.alert = call.alert
  BY <1>1 DEF NextChannel, Calls, Idle
<1>4. ASSUME next.pc = "rcheck", "gitlab" \in Channels
      PROVE  "gitlab" \in left
  <2>1. call.pc \in ResolutionSteps /\ ~(call.todo \subseteq {ChannelOf(call)})
    BY <1>3, <1>4
  <2>2. call.todo \subseteq {"slack", "gitlab"}
    BY <1>1, <2>1 DEF Fits
  <2> QED BY <2>1, <2>2 DEF ChannelOf
<1>5. call.pc \in ResolutionSteps /\ Channel(p) = "slack" /\ "gitlab" \in call.todo => next.pc = "rcheck" /\ next.alert = call.alert
  BY <1>3 DEF Channel
<1>6. call.pc \notin ResolutionSteps => call.pc \in {"supersede"} \cup AnnouncementSteps
  OBVIOUS
<1>7. call.pc # "idle"
  BY DEF AnnouncementSteps, ResolutionSteps
<1> HIDE DEF next, left
<1>8. calls'[p] = next /\ \A q \in Callers : q # p => calls'[q] = calls[q]
  BY <1>1, <1>2
<1>9. GoesOn(p)
  BY <1>3, <1>4, <1>6, <1>7, <1>8 DEF GoesOn, AnnouncementSteps
<1> QED BY <1>3, <1>5, <1>8, <1>9

\* A call's step that changes neither the alerts nor the log.
LEMMA CallLeaves ==
  ASSUME NoticeInv, NoticeInv', LeaveNoneInv, NEW p \in Callers, \A q \in Callers : q # p => calls'[q] = calls[q],
         found' = found, rows' = rows, log' = log, excused \subseteq excused', IssueIDs \subseteq IssueIDs', GoesOn(p),
         p = "check" /\ Choosing' =>
           \/ /\ Choosing /\ calls'[p].alert = calls[p].alert
              /\ (calls'[p].pc # "create" /\ calls'[p].issue = calls[p].issue) \/ calls[p].pc = "create"
           \/ ChoiceInv',
         \A i \in IssueIDs' \ excused' : issues'[i] = "open" => Minds(p, i)' \/ (i \in IssueIDs /\ issues[i] = "open"),
         \A i \in IssueIDs \ excused' : issues'[i] = "open" /\ Minds(p, i) => Minded(i)'
  PROVE  LeaveNoneInv'
<1>1. \A a \in Alerts : Unresolved(a)' <=> Unresolved(a)
  BY DEF Unresolved
<1>2. \A i \in IssueIDs' \ excused' : issues'[i] = "open" => Minded(i)' \/ (i \in IssueIDs /\ issues[i] = "open")
  BY DEF Minded
<1> QED BY <1>1, <1>2, LeaveSteps

\* One that gives up, or is done with, its channel.
LEMMA SkipLeaves ==
  ASSUME NoticeInv, NoticeInv', LeaveNoneInv, NEW p \in Callers, Skip(p), calls[p].pc \in AnnouncementSteps \cup ResolutionSteps,
         found' = found, rows' = rows, log' = log, excused \subseteq excused', IssueIDs \subseteq IssueIDs',
         \A i \in IssueIDs' \ excused' : issues'[i] = "open" => i \in IssueIDs /\ issues[i] = "open",
         \A i \in IssueIDs \ excused' : issues'[i] = "open" /\ Minds(p, i) => Channel(p) = "slack"
  PROVE  LeaveNoneInv'
<1>1. BegunInv
  BY DEF LeaveNoneInv
<1>2. /\ GoesOn(p) /\ calls'[p].pc \in {"idle", "check", "rcheck"} /\ \A q \in Callers : q # p => calls'[q] = calls[q]
      /\ calls[p].pc \in ResolutionSteps /\ Channel(p) = "slack" /\ "gitlab" \in calls[p].todo =>
           calls'[p].pc = "rcheck" /\ calls'[p].alert = calls[p].alert
  BY <1>1, SkipGoesOn
<1>3. ~(p = "check" /\ Choosing')
  BY <1>2 DEF Choosing
<1>4. ASSUME NEW i \in IssueIDs \ excused', issues'[i] = "open", Minds(p, i)
      PROVE  Minded(i)'
  <2>1. Channel(p) = "slack"
    BY <1>4
  <2>2. calls[p].pc \in {"rcheck", "rpost"} /\ Bears(calls[p].alert, i)
    <3>1. calls[p].pc \in {"rcount", "rnote", "close"} => Channel(p) = "gitlab"
      BY DEF NoticeInv, CallInv, Fits, Channel
    <3> QED BY <1>4, <2>1, <3>1 DEF Minds, Joins, Closes
  <2>3. PICK a \in Alerts : a = calls[p].alert
    BY <2>2, CallHas
  <2>4. Bears(a, i) /\ "gitlab" \in Channels
    BY <2>2, <2>3, BearsIssues
  <2>5. calls'[p].pc = "rcheck" /\ calls'[p].alert = a
    BY <1>1, <1>2, <2>1, <2>2, <2>3, <2>4 DEF BegunInv, ResolutionSteps
  <2>6. Bears(calls[p].alert, i)'
    BY <2>4, <2>5 DEF Bears, Holds, Sends
  <2> QED BY <2>5, <2>6 DEF Minded, Minds
<1> QED BY <1>2, <1>3, <1>4, CallLeaves

\* What the steps of a call leave alone.
LEMMA NoIssueMade == ASSUME issues' = issues
  PROVE  IssueIDs' = IssueIDs /\ \A i \in IssueIDs' : issues'[i] = "open" => i \in IssueIDs /\ issues[i] = "open"
BY DEF IssueIDs

LEMMA GotoGoesOn ==
  ASSUME NoticeInv, NEW p \in Callers, NEW pc, Goto(p, pc), calls[p].pc \in AnnouncementSteps \cup ResolutionSteps,
         pc \in AnnouncementSteps => calls[p].pc \in AnnouncementSteps, pc # "supersede", pc # "rcheck", pc # "rpost"
  PROVE  /\ GoesOn(p) /\ \A q \in Callers : q # p => calls'[q] = calls[q]
         /\ calls'[p].pc = pc /\ calls'[p].issue = calls[p].issue /\ calls'[p].alert = calls[p].alert
         /\ calls'[p].todo = calls[p].todo /\ calls'[p].others = calls[p].others
<1>1. calls \in [Callers -> Calls] /\ calls[p].pc # "idle"
  BY DEF NoticeInv, StateInv, AnnouncementSteps, ResolutionSteps
<1>2. /\ \A q \in Callers : q # p => calls'[q] = calls[q]
      /\ calls'[p].pc = pc /\ calls'[p].issue = calls[p].issue /\ calls'[p].alert = calls[p].alert
      /\ calls'[p].todo = calls[p].todo /\ calls'[p].others = calls[p].others
  BY <1>1 DEF Goto, Calls
<1> QED BY <1>1, <1>2 DEF GoesOn

LEMMA CheckAlreadySentLeaves ==
  ASSUME NoticeInv, NoticeInv', LeaveNoneInv, NEW p \in Callers, CheckAlreadySent(p) PROVE LeaveNoneInv'
<1>1. /\ found' = found /\ rows' = rows /\ log' = log /\ issues' = issues /\ excused' = excused /\ calls[p].pc = "check"
  BY DEF CheckAlreadySent, At
<1>2. calls[p].pc \in AnnouncementSteps /\ \A i : ~Minds(p, i)
  BY <1>1 DEF AnnouncementSteps, Minds, Joins, Closes
<1>3. IssueIDs' = IssueIDs /\ \A i \in IssueIDs' : issues'[i] = "open" => i \in IssueIDs /\ issues[i] = "open"
  BY <1>1, NoIssueMade
<1>4. CASE Skip(p)
  BY <1>1, <1>2, <1>3, <1>4, SkipLeaves
<1>5. CASE \E pc \in {"find", "post"} : Goto(p, pc)
  <2>1. PICK pc \in {"find", "post"} : Goto(p, pc)
    BY <1>5
  <2>2. pc \in AnnouncementSteps /\ pc # "supersede" /\ pc # "rcheck" /\ pc # "rpost"
    BY DEF AnnouncementSteps
  <2>3. GoesOn(p) /\ calls'[p].pc = pc /\ \A q \in Callers : q # p => calls'[q] = calls[q]
    BY <1>2, <2>1, <2>2, GotoGoesOn
  <2>4. ~(p = "check" /\ Choosing')
    BY <2>3 DEF Choosing
  <2> QED BY <1>1, <1>2, <1>3, <2>3, <2>4, CallLeaves
<1> QED BY <1>4, <1>5 DEF CheckAlreadySent

LEMMA FindLeaves ==
  ASSUME NoticeInv, NoticeInv', LeaveNoneInv, NEW p \in Callers, Find(p) PROVE LeaveNoneInv'
<1>1. /\ found' = found /\ rows' = rows /\ log' = log /\ issues' = issues /\ calls[p].pc = "find"
  BY DEF Find, At
<1>2. /\ calls[p].pc \in AnnouncementSteps /\ (\A i : ~Minds(p, i)) /\ p = "check"
      /\ calls \in [Callers -> Calls] /\ BegunInv
  BY <1>1, SendsAreTheChecks DEF AnnouncementSteps, Minds, Joins, Closes, NoticeInv, StateInv, LeaveNoneInv
<1> PICK a \in Alerts : a = calls[p].alert
  BY <1>1, CallHas
<1> DEFINE held == {i \in IssueIDs : i = FindShared \/ \E b \in {a} \cup Replaces[a] : Holds(b, i)}
<1>3. IssueIDs' = IssueIDs /\ \A i \in IssueIDs' : issues'[i] = "open" => i \in IssueIDs /\ issues[i] = "open"
  BY <1>1, NoIssueMade
<1>4. excused \subseteq excused'
  BY DEF Find
<1>5. \A i : Bears(a, i)' <=> Bears(a, i)
  BY <1>1, <1>2, HoldingSame
<1>6. ChoiceInv' /\ GoesOn(p) /\ \A q \in Callers : q # p => calls'[q] = calls[q]
  <2> DEFINE issue == sharedIssue(a)
             pc == IF sharedIssue(a) = NoIssue THEN "create" ELSE "read"
  <2>1. CASE calls' = [calls EXCEPT ![p].issue = issue, ![p].pc = pc] /\ excused' = excused \cup (held \ {issue})
    <3>1. (pc = "create" /\ issue = NoIssue) \/ (pc = "read" /\ issue # NoIssue)
      OBVIOUS
    <3> HIDE DEF pc, issue
    <3>2. /\ calls'[p].issue = issue /\ calls'[p].pc = pc /\ calls'[p].alert = a
          /\ \A q \in Callers : q # p => calls'[q] = calls[q]
      BY <1>2, <2>1 DEF Calls
    <3>3. ASSUME NEW i \in IssueIDs' \ excused', Bears(calls["check"].alert, i)'
          PROVE  calls'["check"].pc # "create" /\ calls'["check"].issue = i
      <4>1. Bears(a, i)'
        BY <1>2, <3>2, <3>3 DEF Bears, Holds, Sends
      <4>2. i \in held
        BY <1>3, <1>5, <4>1 DEF Bears
      <4>3. i = issue /\ i # NoIssue
        BY <1>3, <2>1, <3>3, <4>2, IssuesAre
      <4> QED BY <1>2, <3>1, <3>2, <4>3
    <3>4. ChoiceInv'
      BY <3>3 DEF ChoiceInv
    <3>5. GoesOn(p)
      BY <1>1, <1>2, <3>1, <3>2 DEF GoesOn
    <3> QED BY <3>2, <3>4, <3>5
  <2>2. CASE Goto(p, "create") /\ excused' = excused \cup held
    <3>1. /\ GoesOn(p) /\ calls'[p].pc = "create" /\ calls'[p].alert = a
          /\ \A q \in Callers : q # p => calls'[q] = calls[q]
      <4> DEFINE step == "create"
      <4>1. step \in AnnouncementSteps /\ step # "supersede" /\ step # "rcheck" /\ step # "rpost" /\ Goto(p, step)
        BY <2>2 DEF AnnouncementSteps
      <4> HIDE DEF step
      <4>2. GoesOn(p) /\ calls'[p].pc = step /\ calls'[p].alert = a /\ \A q \in Callers : q # p => calls'[q] = calls[q]
        BY <1>2, <4>1, GotoGoesOn
      <4> QED BY <4>2 DEF step
    <3>2. ASSUME NEW i \in IssueIDs' \ excused', Bears(calls["check"].alert, i)'
          PROVE  FALSE
      <4>1. Bears(a, i)'
        BY <1>2, <3>1, <3>2 DEF Bears, Holds, Sends
      <4>2. i \in held
        BY <1>3, <1>5, <4>1 DEF Bears
      <4> QED BY <2>2, <3>2, <4>2
    <3> QED BY <3>1, <3>2 DEF ChoiceInv
  <2> QED BY <2>1, <2>2 DEF Find, Call, sharedIssue
<1> HIDE DEF held
<1> QED BY <1>1, <1>2, <1>3, <1>4, <1>6, CallLeaves

LEMMA createIssueLeaves ==
  ASSUME NoticeInv, NoticeInv', LeaveNoneInv, NEW p \in Callers, createIssue(p) PROVE LeaveNoneInv'
<1> DEFINE new == Len(issues) + 1
<1>1. found' = found /\ rows' = rows /\ log' = log /\ calls[p].pc = "create" /\ excused \subseteq excused'
  BY DEF createIssue, At
<1>2. /\ calls[p].pc \in AnnouncementSteps /\ (\A i : ~Minds(p, i)) /\ p = "check" /\ calls \in [Callers -> Calls]
      /\ calls[p].alert \in Alerts /\ Channel(p) = "gitlab"
  BY <1>1, SendsAreTheChecks DEF AnnouncementSteps, Minds, Joins, Closes, NoticeInv, StateInv, CallInv, Fits, Channel
<1>3. \/ issues' = issues /\ Skip(p)
      \/ issues' = Append(issues, "open") /\ Skip(p) /\ excused' = excused \cup {new}
      \/ issues' = Append(issues, "open") /\ calls' = [calls EXCEPT ![p].issue = new, ![p].pc = "log"]
  BY DEF createIssue
<1>4. CASE issues' = issues /\ Skip(p)
  <2>1. IssueIDs' = IssueIDs /\ \A i \in IssueIDs' : issues'[i] = "open" => i \in IssueIDs /\ issues[i] = "open"
    BY <1>4, NoIssueMade
  <2> QED BY <1>1, <1>2, <1>4, <2>1, SkipLeaves
<1>5. ASSUME issues' = Append(issues, "open")
      PROVE  IssueIDs \subseteq IssueIDs' /\ \A i \in IssueIDs' : i # new => i \in IssueIDs /\ issues'[i] = issues[i]
  BY <1>5 DEF NoticeInv, StateInv, IssueIDs
<1>6. CASE issues' = Append(issues, "open") /\ Skip(p) /\ excused' = excused \cup {new}
  <2>1. IssueIDs \subseteq IssueIDs' /\ \A i \in IssueIDs' \ excused' : issues'[i] = "open" => i \in IssueIDs /\ issues[i] = "open"
    BY <1>5, <1>6
  <2> HIDE DEF new
  <2> QED BY <1>1, <1>2, <1>6, <2>1, SkipLeaves
<1>7. CASE issues' = Append(issues, "open") /\ calls' = [calls EXCEPT ![p].issue = new, ![p].pc = "log"]
  <2> HIDE DEF new
  <2>1. /\ calls'[p].issue = new /\ calls'[p].pc = "log" /\ calls'[p].alert = calls[p].alert /\ calls'[p].todo = calls[p].todo
        /\ \A q \in Callers : q # p => calls'[q] = calls[q]
    BY <1>2, <1>7 DEF Calls
  <2>2. GoesOn(p)
    BY <1>1, <1>2, <2>1 DEF GoesOn
  <2>3. IssueIDs \subseteq IssueIDs' /\ \A i \in IssueIDs' : issues'[i] = "open" => Minds(p, i)' \/ (i \in IssueIDs /\ issues[i] = "open")
    <3>1. \A i : i = new => Minds(p, i)'
      BY <1>1, <1>2, <2>1 DEF Minds, Joins, Channel, ChannelOf, ResolutionSteps
    <3> QED BY <1>5, <1>7, <3>1
  <2>4. Choosing /\ calls[p].pc = "create"
    BY <1>1, <1>2 DEF Choosing
  <2> QED BY <1>1, <1>2, <2>1, <2>2, <2>3, <2>4, CallLeaves
<1> QED BY <1>3, <1>4, <1>6, <1>7

LEMMA readIssueLeaves ==
  ASSUME NoticeInv, NoticeInv', LeaveNoneInv, NEW p \in Callers, readIssue(p) PROVE LeaveNoneInv'
<1>1. /\ found' = found /\ rows' = rows /\ log' = log /\ issues' = issues /\ excused' = excused /\ calls[p].pc = "read"
  BY DEF readIssue, At
<1>2. calls[p].pc \in AnnouncementSteps /\ (\A i : ~Minds(p, i)) /\ p = "check"
  BY <1>1, SendsAreTheChecks DEF AnnouncementSteps, Minds, Joins, Closes
<1>3. IssueIDs' = IssueIDs /\ \A i \in IssueIDs' : issues'[i] = "open" => i \in IssueIDs /\ issues[i] = "open"
  BY <1>1, NoIssueMade
<1>4. CASE Skip(p)
  BY <1>1, <1>2, <1>3, <1>4, SkipLeaves
<1>5. CASE \E pc \in {"edit", "note"} : Goto(p, pc)
  <2>1. PICK pc \in {"edit", "note"} : Goto(p, pc)
    BY <1>5
  <2>2. pc # "supersede" /\ pc # "rcheck" /\ pc # "rpost" /\ pc # "create"
    OBVIOUS
  <2>3. /\ GoesOn(p) /\ calls'[p].pc = pc /\ calls'[p].issue = calls[p].issue /\ calls'[p].alert = calls[p].alert
        /\ \A q \in Callers : q # p => calls'[q] = calls[q]
    BY <1>2, <2>1, <2>2, GotoGoesOn
  <2>4. Choosing
    BY <1>1, <1>2 DEF Choosing
  <2> QED BY <1>1, <1>2, <1>3, <2>2, <2>3, <2>4, CallLeaves
<1> QED BY <1>4, <1>5 DEF readIssue

LEMMA reopenIssueLeaves ==
  ASSUME NoticeInv, NoticeInv', LeaveNoneInv, NEW p \in Callers, reopenIssue(p) PROVE LeaveNoneInv'
<1> DEFINE i == calls[p].issue
<1>1. found' = found /\ rows' = rows /\ log' = log /\ calls[p].pc = "edit" /\ excused \subseteq excused'
  BY DEF reopenIssue, At
<1>2. /\ calls[p].pc \in AnnouncementSteps /\ (\A k : ~Minds(p, k)) /\ p = "check"
      /\ Channel(p) = "gitlab" /\ i \in IssueIDs
  BY <1>1, SendsAreTheChecks DEF AnnouncementSteps, Minds, Joins, Closes, NoticeInv, CallInv, Fits, Channel
<1>3. \/ issues' = issues /\ Skip(p)
      \/ issues' = [issues EXCEPT ![i] = "open"] /\ Skip(p) /\ excused' = excused \cup {i}
      \/ issues' = [issues EXCEPT ![i] = "open"] /\ Goto(p, "note")
  BY DEF reopenIssue, Call
<1>4. CASE issues' = issues /\ Skip(p)
  <2>1. IssueIDs' = IssueIDs /\ \A k \in IssueIDs' : issues'[k] = "open" => k \in IssueIDs /\ issues[k] = "open"
    BY <1>4, NoIssueMade
  <2> QED BY <1>1, <1>2, <1>4, <2>1, SkipLeaves
<1>5. ASSUME issues' = [issues EXCEPT ![i] = "open"]
      PROVE  IssueIDs' = IssueIDs /\ \A k \in IssueIDs : k # i => issues'[k] = issues[k]
  BY <1>5 DEF NoticeInv, StateInv, IssueIDs
<1>6. CASE issues' = [issues EXCEPT ![i] = "open"] /\ Skip(p) /\ excused' = excused \cup {i}
  <2>1. IssueIDs \subseteq IssueIDs' /\ \A k \in IssueIDs' \ excused' : issues'[k] = "open" => k \in IssueIDs /\ issues[k] = "open"
    BY <1>5, <1>6
  <2> HIDE DEF i
  <2> QED BY <1>1, <1>2, <1>6, <2>1, SkipLeaves
<1>7. CASE issues' = [issues EXCEPT ![i] = "open"] /\ Goto(p, "note")
  <2> DEFINE pc == "note"
  <2>1. pc \in AnnouncementSteps /\ pc # "supersede" /\ pc # "rcheck" /\ pc # "rpost" /\ pc # "create" /\ Goto(p, pc)
    BY <1>7 DEF AnnouncementSteps
  <2>2. pc = "note"
    OBVIOUS
  <2> HIDE DEF pc
  <2>3. /\ GoesOn(p) /\ calls'[p].pc = pc /\ calls'[p].issue = i /\ calls'[p].alert = calls[p].alert
        /\ calls'[p].todo = calls[p].todo /\ \A q \in Callers : q # p => calls'[q] = calls[q]
    BY <1>2, <2>1, GotoGoesOn
  <2>4. \A k : k = i => Minds(p, k)'
    BY <1>1, <1>2, <2>2, <2>3 DEF Minds, Joins, Channel, ChannelOf, ResolutionSteps
  <2>5. /\ IssueIDs \subseteq IssueIDs'
        /\ \A k \in IssueIDs' : issues'[k] = "open" => Minds(p, k)' \/ (k \in IssueIDs /\ issues[k] = "open")
    BY <1>5, <1>7, <2>4
  <2>6. Choosing
    BY <1>1, <1>2 DEF Choosing
  <2> HIDE DEF i
  <2>7. calls'[p].issue = calls[p].issue
    BY <2>3 DEF i
  <2> QED BY <1>1, <1>2, <2>1, <2>3, <2>5, <2>6, <2>7, CallLeaves
<1> QED BY <1>3, <1>4, <1>6, <1>7

LEMMA PostLeaves ==
  ASSUME NoticeInv, NoticeInv', LeaveNoneInv, NEW p \in Callers, Post(p) PROVE LeaveNoneInv'
<1>1. /\ found' = found /\ rows' = rows /\ log' = log /\ issues' = issues /\ calls[p].pc \in {"note", "post"}
      /\ excused \subseteq excused'
  BY DEF Post, At
<1>2. calls[p].pc \in AnnouncementSteps /\ p = "check" /\ \A i : Minds(p, i) => Joins(p, i)
  BY <1>1, SendsAreTheChecks DEF AnnouncementSteps, Minds, Closes
<1>3. IssueIDs' = IssueIDs /\ \A i \in IssueIDs' : issues'[i] = "open" => i \in IssueIDs /\ issues[i] = "open"
  BY <1>1, NoIssueMade
<1>4. CASE Skip(p) /\ excused' = IF At(p, "note") THEN excused \cup {Call(p).issue} ELSE excused
  <2>1. \A i \in IssueIDs \ excused' : ~Minds(p, i)
    BY <1>1, <1>2, <1>4 DEF Joins, At, Call
  <2> QED BY <1>1, <1>2, <1>3, <1>4, <2>1, SkipLeaves
<1>5. CASE Goto(p, "log")
  <2> DEFINE pc == "log"
  <2>1. pc \in AnnouncementSteps /\ pc # "supersede" /\ pc # "rcheck" /\ pc # "rpost" /\ pc # "create" /\ Goto(p, pc)
    BY <1>5 DEF AnnouncementSteps
  <2>2. pc = "log"
    OBVIOUS
  <2> HIDE DEF pc
  <2>3. /\ GoesOn(p) /\ calls'[p].pc = pc /\ calls'[p].issue = calls[p].issue /\ calls'[p].alert = calls[p].alert
        /\ calls'[p].todo = calls[p].todo /\ \A q \in Callers : q # p => calls'[q] = calls[q]
    BY <1>2, <2>1, GotoGoesOn
  <2>4. ChannelOf(calls'[p]) = Channel(p)
    BY <1>1, <2>2, <2>3 DEF Channel, ChannelOf, ResolutionSteps
  <2>5. p = "check" /\ Choosing' => Choosing
    <3>1. calls[p].pc = "post" => Channel(p) # "gitlab"
      BY DEF NoticeInv, CallInv, Fits, Channel
    <3> QED BY <1>1, <2>2, <2>3, <2>4, <3>1 DEF Choosing, Channel
  <2>6. \A i : Minds(p, i) => Minded(i)'
    BY <1>2, <2>2, <2>3, <2>4 DEF Minded, Minds, Joins, Channel
  <2> QED BY <1>1, <1>3, <2>1, <2>3, <2>5, <2>6, CallLeaves
<1> QED BY <1>4, <1>5 DEF Post

LEMMA ResolutionCheckLeaves ==
  ASSUME NoticeInv, NoticeInv', LeaveNoneInv, NEW p \in Callers, ResolutionCheck(p) PROVE LeaveNoneInv'
<1>1. /\ found' = found /\ rows' = rows /\ log' = log /\ issues' = issues /\ calls[p].pc = "rcheck"
      /\ excused \subseteq excused'
  BY DEF ResolutionCheck, At
<1>2. calls[p].pc \in ResolutionSteps /\ \A i : Minds(p, i) => Bears(calls[p].alert, i)
  BY <1>1 DEF ResolutionSteps, Minds, Joins, Closes
<1>3. IssueIDs' = IssueIDs /\ \A i \in IssueIDs' : issues'[i] = "open" => i \in IssueIDs /\ issues[i] = "open"
  BY <1>1, NoIssueMade
<1> PICK a \in Alerts : a = calls[p].alert
  BY <1>1, CallHas
<1>4. Channel(p) \in {"slack", "gitlab"} /\ (Channel(p) = "slack" <=> "slack" \in calls[p].todo)
  BY <1>2 DEF NoticeInv, CallInv, Fits, Channel, ChannelOf
<1>5. calls \in [Callers -> Calls] /\ BegunInv /\ LatestInv /\ PassedInv
  BY DEF NoticeInv, StateInv, LeaveNoneInv
<1>6. CASE Skip(p) /\ excused' = IF Channel(p) = "gitlab" THEN excused \cup LeftBy(a) ELSE excused
  <2>1. \A i \in IssueIDs \ excused' : Minds(p, i) => Channel(p) = "slack"
    BY <1>2, <1>4, <1>6, BearsIssues
  <2> QED BY <1>1, <1>2, <1>3, <1>6, <2>1, SkipLeaves
<1>7. CASE Goto(p, "rpost") /\ Channel(p) = "slack"
  <2>1. /\ calls'[p].pc = "rpost" /\ calls'[p].alert = a /\ calls'[p].todo = calls[p].todo
        /\ \A q \in Callers : q # p => calls'[q] = calls[q]
    BY <1>5, <1>7 DEF Goto, Calls
  <2>2. GoesOn(p)
    BY <1>1, <1>4, <1>5, <1>7, <2>1 DEF GoesOn, BegunInv, AnnouncementSteps
  <2>3. ~(p = "check" /\ Choosing')
    BY <2>1 DEF Choosing
  <2>4. ASSUME NEW i, Minds(p, i)
        PROVE  Minds(p, i)'
    <3>1. Bears(a, i)
      BY <1>2, <2>4
    <3>2. Bears(calls[p].alert, i)'
      <4>1. Bears(a, i)'
        BY <1>1, <1>5, <3>1, HoldingSame
      <4> QED BY <2>1, <4>1 DEF Bears, Holds, Sends
    <3> QED BY <2>1, <3>2 DEF Minds
  <2>5. \A i : Minds(p, i) => Minded(i)'
    BY <2>4 DEF Minded
  <2> QED BY <1>1, <1>3, <2>1, <2>2, <2>3, <2>5, CallLeaves
<1>8. CASE /\ calls' = [calls EXCEPT ![p].issue = LatestIssue(a), ![p].pc = "rcount"]
           /\ AlreadySent(a, Channel(p)) /\ Channel(p) # "slack"
  <2> DEFINE issue == LatestIssue(a)
             sends == {n \in DOMAIN log : log[n].alert = a /\ log[n].channel = "gitlab"}
  <2>1. ASSUME NEW i \in IssueIDs \ excused, Bears(a, i)
        PROVE  issue = i
    <3>1. AlreadySent(a, "gitlab")
      BY <1>4, <1>8
    <3>2. PICK n \in Sends(a, "gitlab") : log[n].issue = i
      BY <1>5, <2>1, <3>1 DEF PassedInv, Holds
    <3>3. sends \in SUBSET Nat /\ n \in sends /\ n \in Nat /\ Len(log) \in Nat /\ \A m \in sends : m <= Len(log)
      BY <3>2 DEF Sends, NoticeInv, StateInv
    <3>4. \A m \in sends : m > n => log[m].issue = i
      BY <1>5, <2>1, <3>2 DEF LatestInv
    <3>5. issue = Latest(sends)
      BY DEF LatestIssue
    <3> HIDE DEF sends, issue
    <3>6. \E m \in sends : \A k \in sends : k <= m
      BY <3>3, GreatestElement
    <3>7. PICK m \in sends : (\A k \in sends : k <= m) /\ Latest(sends) = log[m].issue
      BY <3>3, <3>6 DEF Latest
    <3>8. m = n \/ m > n
      BY <3>3, <3>7
    <3> QED BY <3>2, <3>4, <3>5, <3>7, <3>8
  <2> HIDE DEF issue, sends
  <2>2. /\ calls'[p].pc = "rcount" /\ calls'[p].alert = a /\ calls'[p].issue = issue
        /\ \A q \in Callers : q # p => calls'[q] = calls[q]
    BY <1>5, <1>8 DEF issue, Calls
  <2>3. GoesOn(p)
    BY <1>1, <2>2 DEF GoesOn, AnnouncementSteps
  <2>4. ~(p = "check" /\ Choosing')
    BY <2>2 DEF Choosing
  <2>5. \A i \in IssueIDs \ excused : Minds(p, i) => Minded(i)'
    BY <1>2, <2>1, <2>2 DEF Minded, Minds
  <2> QED BY <1>1, <1>3, <2>2, <2>3, <2>4, <2>5, CallLeaves
<1> QED BY <1>6, <1>7, <1>8 DEF ResolutionCheck, Call

LEMMA NotifyResolutionLeaves ==
  ASSUME NoticeInv, NoticeInv', LeaveNoneInv, NEW p \in Callers, NotifyResolution(p) PROVE LeaveNoneInv'
<1>1. /\ found' = found /\ rows' = rows /\ log' = log /\ issues' = issues /\ calls[p].pc = "rpost"
      /\ excused' = excused /\ Skip(p)
  BY DEF NotifyResolution, At
<1>2. calls[p].pc \in ResolutionSteps
  BY <1>1 DEF ResolutionSteps
<1>3. IssueIDs' = IssueIDs /\ \A i \in IssueIDs' : issues'[i] = "open" => i \in IssueIDs /\ issues[i] = "open"
  BY <1>1, NoIssueMade
<1>4. Channel(p) = "slack"
  BY <1>1, <1>2 DEF LeaveNoneInv, BegunInv, Channel, ChannelOf
<1> QED BY <1>1, <1>2, <1>3, <1>4, SkipLeaves

LEMMA CountSharingLeaves ==
  ASSUME NoticeInv, NoticeInv', LeaveNoneInv, NEW p \in Callers, CountSharing(p) PROVE LeaveNoneInv'
<1>1. /\ found' = found /\ rows' = rows /\ log' = log /\ issues' = issues /\ calls[p].pc = "rcount"
      /\ excused \subseteq excused'
  BY DEF CountSharing, At
<1>2. calls[p].pc \in ResolutionSteps /\ \A i : Minds(p, i) => calls[p].issue = i
  BY <1>1 DEF ResolutionSteps, Minds, Joins, Closes
<1>3. IssueIDs' = IssueIDs /\ \A i \in IssueIDs' : issues'[i] = "open" => i \in IssueIDs /\ issues[i] = "open"
  BY <1>1, NoIssueMade
<1> PICK a \in Alerts : a = calls[p].alert
  BY <1>1, CallHas
<1>4. calls \in [Callers -> Calls] /\ BegunInv
  BY DEF NoticeInv, StateInv, LeaveNoneInv
<1>5. CASE Skip(p) /\ excused' = excused \cup {calls[p].issue}
  <2>1. \A i \in IssueIDs \ excused' : ~Minds(p, i)
    BY <1>2, <1>5
  <2> QED BY <1>1, <1>2, <1>3, <1>5, <2>1, SkipLeaves
<1>6. CASE calls' = [calls EXCEPT ![p].others = SharedByOthers(a, calls[p].issue), ![p].pc = "rnote"]
  <2> PICK i : i = calls[p].issue
    OBVIOUS
  <2> DEFINE others == SharedByOthers(a, i)
  <2>1. others => \E b \in Alerts : Unresolved(b)' /\ Bears(b, i)'
    <3> SUFFICES ASSUME others PROVE \E b \in Alerts : Unresolved(b)' /\ Bears(b, i)'
      OBVIOUS
    <3>1. PICK b \in Alerts : OpenAlert(b) /\ Holds(b, i)
      BY DEF SharedByOthers
    <3>2. Unresolved(b)'
      BY <1>1, <3>1 DEF Unresolved, OpenAlert
    <3>3. Bears(b, i)
      BY <3>1 DEF Bears
    <3>4. Bears(b, i)'
      BY <1>1, <1>4, <3>3, HoldingSame
    <3> QED BY <3>2, <3>4
  <2>2. calls' = [calls EXCEPT ![p].others = others, ![p].pc = "rnote"]
    BY <1>6
  <2> HIDE DEF others
  <2>3. /\ calls'[p].pc = "rnote" /\ calls'[p].alert = a /\ calls'[p].issue = i /\ calls'[p].others = others
        /\ \A q \in Callers : q # p => calls'[q] = calls[q]
    BY <1>4, <2>2 DEF Calls
  <2>4. GoesOn(p)
    BY <1>1, <2>3 DEF GoesOn, AnnouncementSteps
  <2>5. ~(p = "check" /\ Choosing')
    BY <2>3 DEF Choosing
  <2>6. Minded(i)'
    BY <2>1, <2>3 DEF Minded, Minds, Closes
  <2> QED BY <1>1, <1>2, <1>3, <2>3, <2>4, <2>5, <2>6, CallLeaves
<1> QED BY <1>5, <1>6 DEF CountSharing, Call

LEMMA CommentResolvedLeaves ==
  ASSUME NoticeInv, NoticeInv', LeaveNoneInv, NEW p \in Callers, CommentResolved(p) PROVE LeaveNoneInv'
<1>1. /\ found' = found /\ rows' = rows /\ log' = log /\ issues' = issues /\ calls[p].pc = "rnote"
      /\ excused \subseteq excused'
  BY DEF CommentResolved, At
<1>2. calls[p].pc \in ResolutionSteps /\ \A i : Minds(p, i) => calls[p].issue = i /\ ~calls[p].others
  BY <1>1 DEF ResolutionSteps, Minds, Joins, Closes
<1>3. IssueIDs' = IssueIDs /\ \A i \in IssueIDs' : issues'[i] = "open" => i \in IssueIDs /\ issues[i] = "open"
  BY <1>1, NoIssueMade
<1>4. CASE Skip(p) /\ (calls[p].others \/ excused' = excused \cup {calls[p].issue})
  <2>1. \A i \in IssueIDs \ excused' : ~Minds(p, i)
    BY <1>2, <1>4
  <2> QED BY <1>1, <1>2, <1>3, <1>4, <2>1, SkipLeaves
<1>5. CASE Goto(p, "close")
  <2> DEFINE pc == "close"
  <2>1. pc # "supersede" /\ pc # "rcheck" /\ pc # "rpost" /\ pc \notin AnnouncementSteps /\ Goto(p, pc)
    BY <1>5 DEF AnnouncementSteps
  <2>2. pc = "close"
    OBVIOUS
  <2> HIDE DEF pc
  <2>3. /\ GoesOn(p) /\ calls'[p].pc = pc /\ calls'[p].issue = calls[p].issue
        /\ \A q \in Callers : q # p => calls'[q] = calls[q]
    BY <1>2, <2>1, GotoGoesOn
  <2>4. ~(p = "check" /\ Choosing')
    BY <2>2, <2>3 DEF Choosing
  <2>5. \A i : Minds(p, i) => Minded(i)'
    BY <1>2, <2>2, <2>3 DEF Minded, Minds, Closes
  <2> QED BY <1>1, <1>3, <2>3, <2>4, <2>5, CallLeaves
<1> QED BY <1>4, <1>5 DEF CommentResolved, Call

LEMMA CloseIssueLeaves ==
  ASSUME NoticeInv, NoticeInv', LeaveNoneInv, NEW p \in Callers, CloseIssue(p) PROVE LeaveNoneInv'
<1>1. /\ found' = found /\ rows' = rows /\ log' = log /\ calls[p].pc = "close" /\ Skip(p) /\ excused \subseteq excused'
  BY DEF CloseIssue, At
<1> PICK i \in IssueIDs : i = calls[p].issue
  BY <1>1 DEF NoticeInv, CallInv, Fits
<1>2. calls[p].pc \in ResolutionSteps /\ \A k : Minds(p, k) => k = i
  BY <1>1 DEF ResolutionSteps, Minds, Joins, Closes
<1>3. issues' = [issues EXCEPT ![i] = "closed"] \/ (issues' = issues /\ excused' = excused \cup {i})
  BY DEF CloseIssue, Call
<1>4. /\ IssueIDs' = IssueIDs /\ (\A k \in IssueIDs' : issues'[k] = "open" => k \in IssueIDs /\ issues[k] = "open")
      /\ i \notin excused' => issues'[i] # "open"
  BY <1>3 DEF NoticeInv, StateInv, IssueIDs
<1>5. \A k \in IssueIDs \ excused' : issues'[k] = "open" /\ Minds(p, k) => FALSE
  BY <1>2, <1>4
<1> QED BY <1>1, <1>2, <1>4, <1>5, SkipLeaves

-----------------------------------------------------------------------------
(* SharedIssues: an alert is resolved, and a send is logged.                 *)

LEMMA ResolveListedLeaves ==
  ASSUME NoticeInv, NoticeInv', LeaveNoneInv, NEW p \in Callers, ResolveListed(p) PROVE LeaveNoneInv'
<1>1. found' = found /\ log' = log /\ issues' = issues /\ calls[p].pc = "resolve" /\ excused' = excused
  BY DEF ResolveListed, At
<1> PICK a \in Alerts : a = calls[p].alert
  BY <1>1, CallHas
<1>2. calls \in [Callers -> Calls] /\ BegunInv /\ rows[a].status # "none" /\ \A i : ~Minds(p, i)
  BY <1>1 DEF NoticeInv, StateInv, LeaveNoneInv, BegunInv, Minds, Joins, Closes
<1>3. IssueIDs' = IssueIDs /\ \A i \in IssueIDs' : issues'[i] = "open" => i \in IssueIDs /\ issues[i] = "open"
  BY <1>1, NoIssueMade
<1>4. CASE rows' = rows /\ calls' = [calls EXCEPT ![p] = Idle]
  <2>1. calls'[p].pc = "idle" /\ \A q \in Callers : q # p => calls'[q] = calls[q]
    BY <1>2, <1>4 DEF Idle
  <2>2. GoesOn(p) /\ ~(p = "check" /\ Choosing')
    BY <2>1 DEF GoesOn, Choosing
  <2> QED BY <1>1, <1>2, <1>3, <1>4, <2>1, <2>2, CallLeaves
<1>5. CASE rows' = [rows EXCEPT ![a].status = "resolved"] /\ calls' = [calls EXCEPT ![p] = Resolution(a)]
  <2> DEFINE next == Resolution(a)
  <2>1. /\ next.pc \in {"idle", "rcheck"}
        /\ next.pc = "rcheck" => next.alert = a /\ ("gitlab" \in Channels => "gitlab" \in next.todo)
        /\ "gitlab" \in Channels => next.pc = "rcheck"
    BY DEF Resolution, Idle
  <2> HIDE DEF next
  <2>2. calls'[p] = next /\ \A q \in Callers : q # p => calls'[q] = calls[q]
    BY <1>2, <1>5 DEF next
  <2>3. GoesOn(p)
    BY <1>1, <2>1, <2>2 DEF GoesOn, AnnouncementSteps
  <2>4. ~(p = "check" /\ Choosing')
    BY <2>1, <2>2 DEF Choosing
  <2>5. /\ \A b \in Alerts : rows'[b].occ = rows[b].occ
        /\ \A b \in Alerts \ {a} : rows'[b] = rows[b]
        /\ rows'[a].status = "resolved"
    <3>1. "resolved" \in IssueRowStatuses
      BY DEF IssueRowStatuses
    <3> QED BY <1>5, <3>1, StatusSet
  <2>6. \A b \in Alerts : rows'[b].occ = rows[b].occ /\ (rows'[b].status = "none" <=> rows[b].status = "none")
    BY <1>2, <2>5
  <2>7. ASSUME NEW i, Bears(a, i)
        PROVE  Minded(i)'
    <3>1. Bears(a, i)' /\ "gitlab" \in Channels
      BY <1>1, <1>2, <2>6, <2>7, HoldingSame, BearsIssues
    <3>2. Bears(calls[p].alert, i)'
      BY <2>1, <2>2, <3>1 DEF Bears, Holds, Sends
    <3> QED BY <2>1, <2>2, <3>1, <3>2 DEF Minded, Minds
  <2>8. ASSUME NEW i
        PROVE  Minded(i)' \/ \A b \in Alerts : Unresolved(b) /\ Bears(b, i) => Unresolved(b)'
    BY <2>5, <2>7 DEF Unresolved
  <2> QED BY <1>1, <1>2, <1>3, <2>2, <2>3, <2>4, <2>6, <2>8, LeaveSteps
<1> QED BY <1>4, <1>5 DEF ResolveListed, Call

LEMMA resolveReplacedLeaves ==
  ASSUME NoticeInv, NoticeInv', LeaveNoneInv, resolveReplaced PROVE LeaveNoneInv'
<1> DEFINE p == "check"
<1>1. /\ found' = found /\ log' = log /\ issues' = issues /\ calls[p].pc = "supersede" /\ p \in Callers
      /\ excused \subseteq excused'
  BY DEF resolveReplaced, At, Callers
<1> PICK a \in Alerts : a = calls[p].alert
  BY <1>1, CallHas
<1>2. /\ calls \in [Callers -> Calls] /\ BegunInv /\ rows[a].status # "none" /\ (\A i : ~Minds(p, i))
      /\ calls' = [calls EXCEPT ![p] = Announcement(a)] /\ (rows[a].status = "resolved" => LeftBy(a) \subseteq excused')
  BY <1>1 DEF NoticeInv, StateInv, LeaveNoneInv, BegunInv, Minds, Joins, Closes, resolveReplaced, Call
<1>3. IssueIDs' = IssueIDs /\ \A i \in IssueIDs' : issues'[i] = "open" => i \in IssueIDs /\ issues[i] = "open"
  BY <1>1, NoIssueMade
<1>4. GoesOn(p) /\ ~(p = "check" /\ Choosing') /\ \A q \in Callers : q # p => calls'[q] = calls[q]
  <2> DEFINE next == Announcement(a)
  <2>1. next.pc = "idle" \/ (next.pc = "check" /\ next.alert = a)
    BY DEF Announcement, Idle
  <2> HIDE DEF next
  <2>2. calls'[p] = next /\ \A q \in Callers : q # p => calls'[q] = calls[q]
    BY <1>1, <1>2 DEF next
  <2> QED BY <1>1, <2>1, <2>2 DEF GoesOn, Choosing, AnnouncementSteps
<1> HIDE DEF p
<1>5. CASE rows' = rows
  BY <1>1, <1>2, <1>3, <1>4, <1>5, CallLeaves
<1>6. CASE rows' = [b \in Alerts |-> IF b \in Replaces[a] /\ rows[b].status # "none"
                                     THEN [rows[b] EXCEPT !.status = "resolved"] ELSE rows[b]]
  <2>1. /\ \A b \in Alerts : rows'[b].occ = rows[b].occ /\ (rows'[b].status = "none" <=> rows[b].status = "none")
        /\ \A b \in Alerts \ Replaces[a] : rows'[b] = rows[b]
    BY <1>6 DEF NoticeInv, StateInv
  <2>2. Replaces[a] \subseteq Alerts /\ a \notin Replaces[a] /\ \A b \in Replaces[a] : Replaces[b] = {}
    BY NoticeAssumption
  <2>3. ASSUME NEW i \in IssueIDs \ excused', NEW b \in Alerts, Unresolved(b), Bears(b, i), ~Unresolved(b)'
        PROVE  Minded(i)'
    <3>1. b \in Replaces[a]
      BY <2>1, <2>3 DEF Unresolved
    <3>2. Bears(a, i)
      BY <2>2, <2>3, <3>1 DEF Bears
    <3>3. Bears(a, i)'
      BY <1>1, <1>2, <2>1, <3>2, HoldingSame
    <3>4. rows[a].status # "resolved"
      BY <1>2, <2>3, <3>2, BearsIssues
    <3>5. Unresolved(a)'
      BY <1>2, <2>1, <2>2, <3>4 DEF Unresolved
    <3> QED BY <3>3, <3>5 DEF Minded
  <2>4. \A i \in IssueIDs \ excused' : Minded(i)' \/ \A b \in Alerts : Unresolved(b) /\ Bears(b, i) => Unresolved(b)'
    BY <2>3
  <2> QED BY <1>1, <1>2, <1>3, <1>4, <2>1, <2>4, LeaveSteps
<1> QED BY <1>5, <1>6 DEF resolveReplaced, Call, p

\* What the alerts hold once a send is logged.
LEMMA LogHolding ==
  ASSUME NoticeInv, NEW e \in Sent, log' = Append(log, e), rows' = rows, e.occ = rows[e.alert].occ
  PROVE  /\ DOMAIN log' = DOMAIN log \cup {Len(log) + 1} /\ Len(log) + 1 \notin DOMAIN log
         /\ log'[Len(log) + 1] = e /\ \A n \in DOMAIN log : log'[n] = log[n] /\ n < Len(log) + 1
         /\ \A b \in Alerts : Sends(b, "gitlab")' = Sends(b, "gitlab") \cup
              (IF b = e.alert /\ e.channel = "gitlab" THEN {Len(log) + 1} ELSE {})
         /\ \A b \in Alerts : \A i : Holds(b, i)' <=> Holds(b, i) \/ (b = e.alert /\ e.channel = "gitlab" /\ i = e.issue)
<1> DEFINE new == Len(log) + 1
<1>1. /\ DOMAIN log' = DOMAIN log \cup {new} /\ new \notin DOMAIN log
      /\ log'[new] = e /\ \A n \in DOMAIN log : log'[n] = log[n] /\ n < new
  BY DEF NoticeInv, StateInv
<1>2. PICK m : m = new
  OBVIOUS
<1>3. \A b \in Alerts : Sends(b, "gitlab")' = Sends(b, "gitlab") \cup (IF b = e.alert /\ e.channel = "gitlab" THEN {m} ELSE {})
  <2> TAKE b \in Alerts
  <2> HIDE DEF new
  <2> QED BY <1>1, <1>2 DEF Sends
<1>4. \A b \in Alerts : \A i : Holds(b, i)' <=> Holds(b, i) \/ (b = e.alert /\ e.channel = "gitlab" /\ i = e.issue)
  <2> TAKE b \in Alerts
  <2>1. \A n \in Sends(b, "gitlab") : n \in DOMAIN log
    BY DEF Sends
  <2> HIDE DEF new
  <2> QED BY <1>1, <1>2, <1>3, <2>1 DEF Holds
<1> QED BY <1>1, <1>2, <1>3, <1>4

LEMMA LogNotificationLeaves ==
  ASSUME NoticeInv, NoticeInv', LeaveNoneInv, NEW p \in Callers, LogNotification(p) PROVE LeaveNoneInv'
<1> DEFINE c == Channel(p)
<1>1. found' = found /\ rows' = rows /\ issues' = issues /\ Skip(p) /\ calls[p].pc = "log" /\ excused \subseteq excused'
  BY DEF LogNotification, At
<1>2. IssueIDs' = IssueIDs /\ \A k \in IssueIDs' : issues'[k] = "open" => k \in IssueIDs /\ issues[k] = "open"
  BY <1>1, NoIssueMade
<1>3. /\ calls[p].pc \in AnnouncementSteps /\ p = "check" /\ c \in Channels
      /\ c = "gitlab" => calls[p].issue \in IssueIDs
  BY <1>1, SendsAreTheChecks DEF AnnouncementSteps, NoticeInv, CallInv, Fits, Channel
<1>4. BegunInv /\ ChoiceInv /\ LatestInv /\ PassedInv /\ LeftInv
  BY DEF LeaveNoneInv
<1> PICK a \in Alerts : a = calls[p].alert
  BY <1>1, CallHas
<1> PICK i : i = calls[p].issue
  OBVIOUS
<1>5. \A k : Minds(p, k) => c = "gitlab" /\ k = i
  BY <1>1 DEF Minds, Joins, Closes
<1>6. CASE log' = log /\ excused' = IF c = "gitlab" THEN excused \cup {i} ELSE excused
  <2>1. \A k \in IssueIDs \ excused' : ~Minds(p, k)
    BY <1>5, <1>6
  <2> HIDE DEF c
  <2> QED BY <1>1, <1>2, <1>3, <1>6, <2>1, SkipLeaves
<1> DEFINE e == [alert |-> a, occ |-> rows[a].occ, channel |-> c, issue |-> IF c = "gitlab" THEN i ELSE NoIssue]
<1>7. CASE log' = Append(log, e) /\ excused' = IF TooLate(p) THEN excused \cup {i} ELSE excused
  <2>1. e \in Sent /\ e.alert = a /\ e.occ = rows[e.alert].occ /\ e.channel = c /\ (c = "gitlab" => e.issue = i)
    BY <1>3, NoticeAssumption, IssuesAre DEF Sent, NoticeInv, StateInv, NoIssue
  <2> HIDE DEF e
  <2> PICK new : new = Len(log) + 1
    OBVIOUS
  <2>2. /\ DOMAIN log' = DOMAIN log \cup {new} /\ new \notin DOMAIN log
        /\ log'[new] = e /\ \A n \in DOMAIN log : log'[n] = log[n] /\ n < new
        /\ \A b \in Alerts : Sends(b, "gitlab")' = Sends(b, "gitlab") \cup (IF b = a /\ c = "gitlab" THEN {new} ELSE {})
        /\ \A b \in Alerts : \A k : Holds(b, k)' <=> Holds(b, k) \/ (b = a /\ c = "gitlab" /\ k = i)
    BY <1>1, <1>7, <2>1, LogHolding
  <2> HIDE DEF c
  <2>3. /\ \A q \in Callers : GoesOn(q)
        /\ calls'[p].pc \in {"idle", "check", "rcheck"} /\ \A q \in Callers : q # p => calls'[q] = calls[q]
    <3>1. /\ GoesOn(p) /\ calls'[p].pc \in {"idle", "check", "rcheck"}
          /\ \A q \in Callers : q # p => calls'[q] = calls[q]
      BY <1>1, <1>2, <1>3, <1>4, SkipGoesOn
    <3> QED BY <3>1 DEF GoesOn
  <2>4. \A b \in Alerts : {b} \cup Replaces[b] \subseteq Alerts
    BY NoticeAssumption
  <2>5. \A b \in Alerts : \A k : Bears(b, k)' <=> Bears(b, k) \/ (a \in {b} \cup Replaces[b] /\ c = "gitlab" /\ k = i)
    BY <2>2, <2>4 DEF Bears
  <2>6. BegunInv'
    <3>1. e.occ # 0
      BY <1>1, <1>4, <2>1 DEF BegunInv
    <3>2. \A n \in DOMAIN log' : log'[n].occ # 0
      BY <1>4, <2>2, <3>1 DEF BegunInv
    <3>3. \A b \in Alerts : rows'[b].occ = rows[b].occ /\ (rows'[b].status = "none" <=> rows[b].status = "none")
      BY <1>1
    <3> QED BY <1>1, <1>4, <2>3, <3>2, <3>3, BegunKept
  <2>7. ChoiceInv'
    BY <1>3, <2>3 DEF ChoiceInv, Choosing
  <2>8. c = "gitlab" => \A k \in IssueIDs \ excused : Bears(a, k) => k = i
    BY <1>1, <1>3, <1>4 DEF ChoiceInv, Choosing, c
  <2>9. LatestInv'
    <3> SUFFICES ASSUME NEW b \in Alerts, NEW n \in Sends(b, "gitlab")', log'[n].issue \notin excused',
                        NEW m \in DOMAIN log', m > n, log'[m].alert = b, log'[m].channel = "gitlab"
                 PROVE  log'[m].issue = log'[n].issue
      BY DEF LatestInv
    <3>1. n \in DOMAIN log
      <4>1. n \in DOMAIN log' /\ n \in Nat /\ m \in Nat
        BY <2>2 DEF Sends, NoticeInv, StateInv
      <4>2. n = new => m \in DOMAIN log /\ m < n
        BY <2>2, <4>1
      <4> QED BY <2>2, <4>1, <4>2
    <3>2. n \in Sends(b, "gitlab") /\ log'[n] = log[n] /\ log[n].issue \notin excused
      BY <1>1, <2>2, <3>1
    <3>3. CASE m \in DOMAIN log
      BY <1>4, <2>2, <3>2, <3>3 DEF LatestInv
    <3>4. CASE m = new
      <4>1. b = a /\ c = "gitlab" /\ log'[m].issue = i
        BY <2>1, <2>2, <3>4
      <4>2. Bears(a, log[n].issue)
        BY <3>2, <4>1 DEF Bears, Holds
      <4>3. log[n].issue \in IssueIDs
        BY <4>2, BearsIssues
      <4> QED BY <2>8, <3>2, <4>1, <4>2, <4>3
    <3> QED BY <2>2, <3>3, <3>4
  <2>10. PassedInv'
    <3> SUFFICES ASSUME NEW b \in Alerts, NEW k \in IssueIDs \ excused, AlreadySent(b, "gitlab")', Bears(b, k)'
                 PROVE  Holds(b, k)'
      BY <1>1, <1>2 DEF PassedInv
    <3>1. CASE b = a /\ c = "gitlab"
      <4>1. k = i
        BY <2>5, <2>8, <3>1
      <4> QED BY <2>2, <3>1, <4>1
    <3>2. CASE ~(b = a /\ c = "gitlab")
      <4>1. Sends(b, "gitlab") # {} /\ AlreadySent(b, "gitlab")
        BY <2>2, <3>2 DEF AlreadySent
      <4>2. rows[b].occ # 0
        BY <1>4, <4>1 DEF BegunInv, Sends
      <4>3. ~(c = "gitlab" /\ a \in {b} \cup Replaces[b])
        BY <1>1, <1>3, <1>4, <3>2, <4>2 DEF BegunInv
      <4>4. Bears(b, k)
        BY <2>5, <4>3
      <4> QED BY <1>4, <2>2, <4>1, <4>4 DEF PassedInv
    <3> QED BY <3>1, <3>2
  <2>11. LeftInv'
    <3> SUFFICES ASSUME NEW k \in IssueIDs \ excused', issues[k] = "open"
                 PROVE  Minded(k)'
      BY <1>1, <1>2 DEF LeftInv
    <3>1. Minded(k)
      BY <1>1, <1>4 DEF LeftInv
    <3>2. ASSUME NEW b \in Alerts, Unresolved(b), Bears(b, k)
          PROVE  Minded(k)'
      BY <1>1, <2>5, <3>2 DEF Minded, Unresolved
    <3>3. ASSUME NEW q \in Callers \ {p}, calls[q].pc = "rcheck" \/ calls[q].pc = "rpost",
                 NEW b \in Alerts, b = calls[q].alert, Bears(b, k)'
          PROVE  Minded(k)'
      <4>1. calls'[q] = calls[q]
        BY <2>3
      <4>2. Bears(calls[q].alert, k)'
        BY <3>3, <4>1 DEF Bears, Holds, Sends
      <4> QED BY <3>3, <4>1, <4>2 DEF Minded, Minds
    <3>4. ASSUME NEW q \in Callers \ {p}, Minds(q, k)
          PROVE  Minded(k)'
      <4>1. calls'[q] = calls[q]
        BY <2>3
      <4>2. CASE Joins(q, k) \/ ((calls[q].pc = "rcount" \/ Closes(q)) /\ calls[q].issue = k)
        BY <4>1, <4>2 DEF Joins, Channel, Closes, Minds, Minded
      <4>3. CASE calls[q].pc \in {"rcheck", "rpost"} /\ Bears(calls[q].alert, k)
        <5>1. PICK b \in Alerts : b = calls[q].alert
          BY <4>3, CallHas
        <5>2. Bears(b, k)'
          BY <2>5, <4>3, <5>1
        <5> QED BY <3>3, <4>3, <5>1, <5>2
      <4> QED BY <3>4, <4>2, <4>3 DEF Minds
    <3>5. CASE Minds(p, k)
      <4>1. c = "gitlab" /\ k = i /\ Bears(a, k)'
        BY <1>5, <2>5, <3>5
      <4>2. ~TooLate(p)
        BY <1>7, <4>1
      <4>3. CASE rows[a].status # "resolved"
        <5>1. Unresolved(a)'
          BY <1>1, <1>4, <4>3 DEF Unresolved, BegunInv
        <5> QED BY <4>1, <5>1 DEF Minded
      <4>4. CASE ToResolve(p)
        <5>1. PICK q \in Callers \ {p} : calls[q].pc = "rcheck" /\ calls[q].alert = a
          BY <4>4 DEF ToResolve, Call
        <5> QED BY <3>3, <4>1, <5>1
      <4> QED BY <4>1, <4>2, <4>3, <4>4 DEF TooLate, Call, c
    <3> QED BY <3>1, <3>2, <3>4, <3>5 DEF Minded
  <2> QED BY <2>6, <2>7, <2>9, <2>10, <2>11 DEF LeaveNoneInv
<1> QED BY <1>6, <1>7 DEF LogNotification, Call

-----------------------------------------------------------------------------
(* SharedIssues: the theorem about the issues that are left.                 *)

LEMMA LeaveNoneInitially == IssuesInit => LeaveNoneInv
<1> SUFFICES ASSUME IssuesInit PROVE LeaveNoneInv
  OBVIOUS
<1>1. /\ found \in Worlds /\ log = <<>> /\ issues = <<>> /\ IssueIDs = {}
      /\ \A a \in Alerts : rows[a].status = "none" /\ rows[a].occ = 0
      /\ \A p \in Callers : calls[p].pc = "idle"
  BY DEF IssuesInit, IssueIDs, Idle
<1>2. \A a \in Alerts : Sends(a, "gitlab") = {}
  BY <1>1 DEF Sends
<1>3. BegunInv
  BY <1>1 DEF BegunInv, AnnouncementSteps, Callers
<1> QED BY <1>1, <1>2, <1>3 DEF LeaveNoneInv, ChoiceInv, LatestInv, PassedInv, LeftInv

LEMMA StepLeaves == ASSUME NoticeInv, NoticeInv', LeaveNoneInv, NEW p \in Callers, Step(p) PROVE LeaveNoneInv'
BY ResolveListedLeaves, CheckAlreadySentLeaves, FindLeaves, createIssueLeaves, readIssueLeaves, reopenIssueLeaves,
   PostLeaves, LogNotificationLeaves, ResolutionCheckLeaves, NotifyResolutionLeaves, CountSharingLeaves,
   CommentResolvedLeaves, CloseIssueLeaves DEF Step

LEMMA NextLeaves == IssueInv /\ IssueInv' /\ LeaveNoneInv /\ [IssuesNext]_issueVars => LeaveNoneInv'
<1> SUFFICES ASSUME NoticeInv, NoticeInv', LeaveNoneInv, [IssuesNext]_issueVars PROVE LeaveNoneInv'
  BY DEF IssueInv
<1>1. CASE UNCHANGED issueVars
  BY <1>1 DEF issueVars, LeaveNoneInv, BegunInv, ChoiceInv, Choosing, LatestInv, PassedInv, LeftInv, Minded, Minds,
              Unresolved, Bears, Holds, Sends, AlreadySent, Joins, Closes, Channel, IssueIDs
<1>2. CASE Step("check") \/ Step("operator")
  <2>1. "check" \in Callers /\ "operator" \in Callers
    BY DEF Callers
  <2> QED BY <1>2, <2>1, StepLeaves
<1>3. CASE resolveReplaced
  BY <1>3, resolveReplacedLeaves
<1>4. CASE \E a \in Alerts : Detect(a) \/ ListOpen(a) \/ OperatorReads(a)
  BY <1>4, DetectLeaves, ListOpenLeaves, OperatorReadsLeaves
<1>5. CASE \E w \in Worlds : ProviderChanges(w)
  BY <1>5, ProviderChangesLeaves
<1>6. CASE \E i \in IssueIDs : ClosedByHand(i)
  BY <1>6, ClosedByHandLeaves
<1>7. CASE \E a \in Alerts, status \in {"active", "acknowledged", "ignored"} : OperatorSets(a, status)
  BY <1>7, OperatorSetsLeaves
<1> QED BY <1>1, <1>2, <1>3, <1>4, <1>5, <1>6, <1>7 DEF IssuesNext, CheckStep

\* An issue does not outlive its alerts: an open one belongs to an alert that is not
\* resolved, or to one that such an alert superseded, or a call is dealing with it,
\* for any set of alerts and any number of occurrences, failures, issues and changes
\* by people, where an alert that replaces others is not itself replaced and no
\* problem is found together with one it replaces.
THEOREM NoIssueIsLeft == IssuesSpec => []NoIssueLeft
<1>1. NoticeInv /\ LeaveNoneInv => NoIssueLeft
  <2> SUFFICES ASSUME NoticeInv, LeftInv, NEW i \in IssueIDs, issues[i] = "open", i \notin excused
               PROVE  \/ \E a \in Alerts : rows[a].status \notin {"none", "resolved"} /\ i \in LeftBy(a)
                      \/ \E p \in Callers : /\ calls[p].pc # "idle"
                                            /\ calls[p].issue = i \/ i \in LeftBy(calls[p].alert)
    BY DEF NoIssueLeft, IsOpen, LeaveNoneInv
  <2>1. Minded(i)
    BY DEF LeftInv
  <2>2. CASE \E a \in Alerts : Unresolved(a) /\ Bears(a, i)
    BY <2>2, BearsIssues DEF Unresolved
  <2>3. ASSUME NEW p \in Callers, Minds(p, i)
        PROVE  calls[p].pc # "idle" /\ (calls[p].issue = i \/ i \in LeftBy(calls[p].alert))
    <3>1. calls[p].pc # "idle"
      BY <2>3 DEF Minds, Joins, Closes
    <3>2. calls[p].issue = i \/ Bears(calls[p].alert, i)
      BY <2>3 DEF Minds, Joins
    <3> QED BY <3>1, <3>2, CallHas, BearsIssues
  <2> QED BY <2>1, <2>2, <2>3 DEF Minded
<1>2. IssuesInit => IssueInv /\ LeaveNoneInv
  BY IssueInvInitially, LeaveNoneInitially
<1>3. IssueInv /\ LeaveNoneInv /\ [IssuesNext]_issueVars => IssueInv' /\ LeaveNoneInv'
  BY NextIssue, NextLeaves
<1>4. IssueInv => NoticeInv
  BY NoticeOf
<1> QED BY <1>1, <1>2, <1>3, <1>4, PTL DEF IssuesSpec
=============================================================================
