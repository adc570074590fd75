----------------------------- MODULE CheckAlerts ----------------------------
(* The life of the alerts a periodic check raises (configcheck, eventscheck, *)
(* amfacheck, alerts/clearing and the alert handlers): a check reads a realm *)
(* through the Keycloak API or counts its events, saves and announces what   *)
(* it found, and resolves the alerts whose problem it no longer finds, while *)
(* an operator acknowledges, ignores, resolves, reopens and deletes them.    *)
(* One check of one tenant on one realm; what the realm looks like, whether  *)
(* Keycloak lets the check read it, which sub-checks are on and which        *)
(* silences are open change under it.                                        *)
EXTENDS CheckRules

CONSTANTS
  Scenes,        \* per check: its configurations, the worlds and silences it meets,
                 \* its switches, and the bounds of the events around it
  ResolveAfter,  \* clearing.DefaultResolveAfter, in ticks
  Hour           \* the re-notification interval, in ticks

\* The bounded events: changes of the realm, its readability and the silences;
\* operator actions; failed queries, saves and sends; restarts.
Events == {"changes", "ops", "faults", "restarts"}

ASSUME CheckAssumption ==
  /\ ResolveAfter \in Nat \ {0} /\ Hour \in Nat
  /\ \A kind \in DOMAIN Scenes : Scenes[kind].max \in [Events -> Nat]
  /\ "realm" \in DOMAIN Scenes =>
       /\ Scenes.realm.switches \subseteq RealmSwitches
       /\ Scenes.realm.cfgs \subseteq [on : SUBSET RealmSwitches, minLength : Int, complexity : BOOLEAN]
  /\ "client" \in DOMAIN Scenes =>
       /\ Scenes.client.switches \subseteq ClientSwitches
       /\ Scenes.client.cfgs \subseteq [on : SUBSET ClientSwitches, production : BOOLEAN, allowLocalhost : BOOLEAN]

VARIABLES
  check, cfg,  \* the check, and the configuration the process booted with
  world,       \* the realm's settings, clients, providers or event counts
  access,      \* what Keycloak answers for the realm
  silences,    \* the silence rules whose window is open
  alerts,      \* configuration_alerts: [alert id -> row]
  misses,      \* configcheck: reads in a row that missed an open alert's problem
  run,         \* the run of the check under way; runMu lets one run at a time
  quiet,       \* history: looks in a row that truly did not find the problem
  lost,        \* history: alerts deleted between a run's lookup and its save
  skipped,     \* history: alerts whose misses a failed list kept, though found
  used         \* how often each bounded event has happened

vars == <<check, cfg, world, access, silences, alerts, misses, run, quiet, lost, skipped, used>>

-----------------------------------------------------------------------------
Config == check \in {"realm", "client", "idp"}
EventCheck ==
  check \in {"login_error", "client_error", "code_to_token_error", "common_error", "idp_error"}

\* What a check finds in a world under a configuration.
Found(kind, c, w) ==
  CASE kind = "realm" -> checkRealm(c, w)
    [] kind = "client" -> UNION {checkClient(c, x) : x \in w}
    [] kind = "idp" -> UNION {checkIdp(c, p) : p \in w}
    [] kind = "login_error" -> LoginErrorCheck(c, w)
    [] kind = "client_error" -> ClientErrorCheck(c, w)
    [] kind = "code_to_token_error" -> CodeToTokenErrorCheck(c, w)
    [] kind = "common_error" -> CommonErrorCheck(c, w)
    [] kind = "idp_error" -> IdpErrorCheck(c, w)
    [] kind = "amfa_login_error" -> AmfaLoginErrorCheck(c, w)
    [] kind = "amfa_client_login_error" -> ClientLoginErrorCheck(c, w)
    [] kind = "by_account" -> LoginErrorByAccountCheck(c, w)
    [] kind = "by_client" -> LoginErrorByClientCheck(c, w)
    [] kind = "repeated_risky" -> RepeatedRiskyCheck(c, w)
    [] kind = "reject_burst" -> RealmRejectBurstCheck(c, w)

AlertIDs(kind) ==
  {AlertID(a) : a \in UNION {Found(kind, c, w) : c \in Scenes[kind].cfgs, w \in Scenes[kind].worlds}}

AllIDs == UNION {AlertIDs(kind) : kind \in DOMAIN Scenes}

\* Resources of the realm the run could not read; their alerts are left alone.
Unread(w) == IF check = "idp" THEN UnreadIdps(w) ELSE {}

\* Covers: what an evaluation that could read the realm evaluated.  The event
\* check marks each count it read; the others mark the realm.
Covers(id, w) ==
  /\ id[2] \notin Unread(w)
  /\ EventCheck => id[1] \in CountedTypes(w)

\* looksFor: whether the sub-check that raises the alert is on.
looksFor(id) ==
  CASE check = "realm" -> RealmSwitch[id[1]] \in cfg.on
    [] check = "client" -> ClientSwitch[id[1]] \in cfg.on
    [] OTHER -> TRUE

\* The problems really there, whatever is switched on.
Problems(w) ==
  {AlertID(a) : a \in Found(check, IF check \in {"realm", "client"}
                                         THEN [cfg EXCEPT !.on = Scenes[check].switches] ELSE cfg, w)}

-----------------------------------------------------------------------------
(* Rows of configuration_alerts.  Times are ages in ticks, and stop growing  *)
(* past the last threshold the code compares them with.                      *)

MaxAge == IF ResolveAfter > Hour THEN ResolveAfter ELSE Hour + 1

Never == -1   \* no last_notified_at in the metadata

NoRow == [status |-> "absent", acked |-> FALSE, seen |-> 0, updated |-> 0,
          notified |-> Never, announced |-> FALSE]

Open(row) == row.status \in {"active", "acknowledged"}

\* Repository.Save: the upsert of a detection.  A resolved alert saved as not
\* resolved, like a new one, starts an occurrence nobody was told of; an
\* acknowledgement is cleared by a save as active and kept by any other.
SaveRow(row, status, notify) ==
  [status |-> status, acked |-> status # "active" /\ row.acked, seen |-> 0, updated |-> 0,
   notified |-> IF notify THEN 0 ELSE row.notified,
   announced |-> row.announced /\ ~(row.status = "resolved" /\ status # "resolved")]

\* Repository.UpdateStatus, by an operator.
UpdateRow(row, status) ==
  [row EXCEPT !.status = status, !.updated = 0,
              !.acked = @ \/ status = "acknowledged",
              !.announced = @ /\ ~(row.status = "resolved" /\ status = "active")]

\* Reopens (threshold checks); a misconfiguration found again always reopens.
Reopens(row) ==
  row.status = "resolved" /\ (Config \/ row.seen >= ResolveAfter)

\* The hourly request to notify again; a row that records no notification
\* counts from its last write.
RenotifyDue(row) ==
  /\ row.status = "active" /\ ~row.acked
  /\ (IF row.notified = Never THEN row.updated ELSE row.notified) > Hour

-----------------------------------------------------------------------------
NoRun == [pc |-> "idle", listed |-> "no", todo |-> {}, alert |-> None,
          existing |-> NoRow, raced |-> FALSE, notify |-> FALSE,
          detected |-> {}, covered |-> {}, fixed |-> {}]

Init ==
  /\ check \in DOMAIN Scenes
  /\ cfg \in Scenes[check].cfgs /\ world \in Scenes[check].worlds /\ access = "ok" /\ silences = {}
  /\ alerts = [id \in AlertIDs(check) |-> NoRow]
  /\ misses = [id \in AlertIDs(check) |-> 0]
  /\ quiet = [id \in AlertIDs(check) |-> 0]
  /\ lost = {} /\ skipped = {}
  /\ run = NoRun
  /\ used = [e \in Events |-> 0]

Quieter(n) == IF n < 2 THEN n + 1 ELSE n

Use(what) == used[what] < Scenes[check].max[what] /\ used' = [used EXCEPT ![what] = @ + 1]
Fault == Use("faults")

-----------------------------------------------------------------------------
(* The environment.                                                          *)

Older(age) == IF age \in 0..MaxAge - 1 THEN age + 1 ELSE age

\* A run takes much less than a tick.
Tick ==
  /\ run.pc = "idle"
  /\ alerts' = [id \in DOMAIN alerts |->
                  IF alerts[id].status = "absent" THEN NoRow
                  ELSE [alerts[id] EXCEPT !.seen = Older(@), !.updated = Older(@),
                                          !.notified = Older(@)]]
  /\ UNCHANGED <<check, cfg, world, access, silences, misses, run, quiet, lost, skipped, used>>

\* Somebody changes the realm, or events arrive and age.
WorldChanges ==
  /\ Use("changes")
  /\ world' \in Scenes[check].worlds \ {world}
  /\ UNCHANGED <<check, cfg, access, silences, alerts, misses, run, quiet, lost, skipped>>

\* Keycloak goes down, the realm is disabled or deleted, or the monitoring
\* client loses its roles in it: listed as a stub, or no longer listed.
AccessChanges ==
  /\ Use("changes")
  /\ access' \in (IF Config THEN {"ok", "down", "disabled", "stub", "unlisted", "deleted"}
                            ELSE {"ok", "down"}) \ {access}
  /\ UNCHANGED <<check, cfg, world, silences, alerts, misses, run, quiet, lost, skipped>>

\* A silence's window opens or ends.
SilenceChanges ==
  /\ Use("changes")
  /\ silences' \in {{}, Scenes[check].silences} \ {silences}
  /\ UNCHANGED <<check, cfg, world, access, alerts, misses, run, quiet, lost, skipped>>

\* The process stops anywhere in a run and starts with any configuration; the
\* misses were in memory.
Restart ==
  /\ Use("restarts")
  /\ cfg' \in Scenes[check].cfgs
  /\ run' = NoRun
  /\ misses' = [id \in DOMAIN misses |-> 0]
  /\ skipped' = {}
  /\ UNCHANGED <<check, world, access, silences, alerts, quiet, lost>>

-----------------------------------------------------------------------------
(* The operator.  Every handler reads the alert, to see that it is in the    *)
(* caller's scope, and writes one statement.                                 *)

\* The operator writes the alert while a run holds what it read of it.
Racing(id) == run.pc = "save" /\ AlertID(run.alert) = id

Write(id, row) ==
  /\ Use("ops")
  /\ alerts[id].status # "absent"
  /\ alerts' = [alerts EXCEPT ![id] = row]
  /\ run' = [run EXCEPT !.raced = @ \/ Racing(id)]
  /\ UNCHANGED <<check, cfg, world, access, silences, misses, quiet, skipped>>

updateAlertStatus(id, status) == Write(id, UpdateRow(alerts[id], status)) /\ UNCHANGED lost

resolveAlert(id) ==
  Write(id, [alerts[id] EXCEPT !.status = "resolved", !.updated = 0]) /\ UNCHANGED lost

deleteAlert(id) ==
  /\ Write(id, NoRow)
  /\ lost' = IF Racing(id) THEN lost \cup {id} ELSE lost \ {id}

Operator ==
  \E id \in DOMAIN alerts :
    \/ \E status \in {"active", "acknowledged", "ignored"} : updateAlertStatus(id, status)
    \/ resolveAlert(id)
    \/ deleteAlert(id)

-----------------------------------------------------------------------------
(* A run.                                                                    *)

\* scopeRealms: a realm Keycloak lists with its settings is visible, and
\* checked when it is enabled; one listed without them is unreadable.  A list
\* that cannot be read fails the run, as it does for the threshold checks.
scopeRealms ==
  /\ run.pc = "idle" /\ access # "down"
  /\ run' = [NoRun EXCEPT !.pc = "read",
                          !.listed = CASE access = "ok" -> "checked"
                                       [] access = "disabled" -> "visible"
                                       [] access = "stub" -> "unreadable"
                                       [] OTHER -> "no"]
  /\ UNCHANGED <<check, cfg, world, access, silences, alerts, misses, quiet, lost, skipped, used>>

\* Evaluate: the realm is read, unless it is out of the run or does not answer
\* with its settings any more; a failed query skips the realm, a failed count
\* of the AMFA checks the run.
Evaluate ==
  /\ run.pc = "read"
  /\ LET readable == run.listed = "checked" /\ access \in {"ok", "disabled"}
         found == Found(check, cfg, world)
         covered == {id \in DOMAIN alerts : Covers(id, world)} IN
     \/ /\ readable
        /\ run' = [run EXCEPT !.pc = "alerts", !.todo = found, !.covered = covered,
                              !.detected = {AlertID(a) : a \in found}]
        /\ quiet' = [id \in DOMAIN quiet |->
                       IF id \in covered /\ looksFor(id)
                       THEN IF id \in Problems(world) THEN 0 ELSE Quieter(quiet[id])
                       ELSE quiet[id]]
        /\ UNCHANGED used
     \/ /\ ~readable
        /\ run' = IF Config
                  THEN [run EXCEPT !.pc = "alerts",
                          !.listed = IF run.listed = "checked" /\ check = "realm"
                                        /\ access \in {"stub", "unlisted"}
                                     THEN "unreadable" ELSE @]
                  ELSE NoRun
        /\ UNCHANGED <<quiet, used>>
     \/ /\ readable /\ Fault
        /\ run' = IF Config THEN [run EXCEPT !.pc = "alerts"] ELSE NoRun
        /\ UNCHANGED quiet
  /\ UNCHANGED <<check, cfg, world, access, silences, alerts, misses, lost, skipped>>

\* Mutant of LookupFails: a failed lookup is taken for a new alert.
LookupFailsAsNew(a) ==
  /\ Fault
  /\ run' = [run EXCEPT !.pc = "save", !.todo = @ \ {a}, !.alert = a, !.existing = NoRow]

\* A failed lookup says nothing about the alert: it is left alone.
LookupFails(a) == Fault /\ run' = [run EXCEPT !.todo = @ \ {a}]

\* The next alert of the run.  A silenced one is neither stored nor announced.
Lookup(a) ==
  /\ run.pc = "alerts" /\ a \in run.todo
  /\ \/ /\ ~ShouldSilence(a, silences)
        /\ run' = [run EXCEPT !.pc = "save", !.todo = @ \ {a}, !.alert = a,
                              !.existing = alerts[AlertID(a)]]
        /\ UNCHANGED used
     \/ /\ ShouldSilence(a, silences)
        /\ run' = [run EXCEPT !.todo = @ \ {a}]
        /\ UNCHANGED used
     \/ ~ShouldSilence(a, silences) /\ LookupFails(a)
  /\ UNCHANGED <<check, cfg, world, access, silences, alerts, misses, quiet, lost, skipped>>

\* The run has dealt with its alert, and what it read of it is forgotten.
NextAlert(pc) ==
  [run EXCEPT !.pc = pc, !.existing = NoRow, !.raced = FALSE,
              !.alert = IF pc = "alerts" THEN None ELSE @,
              !.notify = IF pc = "alerts" THEN FALSE ELSE @]

\* The save, built from the row the lookup read.
SaveAlert ==
  /\ run.pc = "save"
  /\ LET id == AlertID(run.alert)
         fresh == run.existing.status = "absent" \/ Reopens(run.existing)
         notify == fresh \/ RenotifyDue(run.existing) IN
     \/ /\ alerts' = [alerts EXCEPT ![id] =
                        SaveRow(@, IF fresh THEN "active" ELSE run.existing.status, notify)]
        /\ run' = IF Supersedes(run.alert) # {} THEN [NextAlert("supersede") EXCEPT !.notify = notify]
                  ELSE NextAlert(IF notify THEN "notify" ELSE "alerts")
        /\ UNCHANGED used
     \/ /\ Fault
        /\ run' = NextAlert("alerts")
        /\ UNCHANGED alerts
  /\ UNCHANGED <<check, cfg, world, access, silences, misses, quiet, lost, skipped>>

\* resolveSuperseded: the alert replaces an older one, whatever its status.
resolveSuperseded ==
  /\ run.pc = "supersede"
  /\ run' = NextAlert(IF run.notify THEN "notify" ELSE "alerts")
  /\ \/ /\ alerts' = [id \in DOMAIN alerts |->
                        IF id \in Supersedes(run.alert) /\ alerts[id].status \notin {"absent", "resolved"}
                        THEN [alerts[id] EXCEPT !.status = "resolved", !.updated = 0] ELSE alerts[id]]
        /\ UNCHANGED used
     \/ Fault /\ UNCHANGED alerts
  /\ UNCHANGED <<check, cfg, world, access, silences, misses, quiet, lost, skipped>>

\* NotifyAlert: every channel got the occurrence, now or before, or some
\* delivery failed.
NotifyAlert ==
  /\ run.pc = "notify"
  /\ run' = NextAlert("alerts")
  /\ \/ /\ LET id == AlertID(run.alert) IN
           alerts' = [alerts EXCEPT ![id].announced = alerts[id].status # "absent"]
        /\ UNCHANGED used
     \/ Fault /\ UNCHANGED alerts
  /\ UNCHANGED <<check, cfg, world, access, silences, misses, quiet, lost, skipped>>

\* Mutant of goneWith: only a realm that was read says anything.
goneWithNever == FALSE

\* goneWith: the realm was left out of the run on purpose, or was deleted; only
\* a 404 says that.
goneWith ==
  \/ run.listed = "visible"
  \/ run.listed = "no" /\ access = "deleted"

\* Mutant of MissesAfter: a run that could not read the realm counts.
MissesAfterAny(id) ==
  IF id \in run.detected THEN 0 ELSE IF misses[id] < 2 THEN misses[id] + 1 ELSE misses[id]

\* The reads in a row that missed the problem of an open alert: found, missed,
\* gone with its realm, or not read this run.
MissesAfter(id) ==
  LET missed == IF id \in run.covered THEN looksFor(id) ELSE goneWith IN
  CASE id \in run.detected -> 0
    [] id \notin run.detected /\ missed -> misses[id] + 1
    [] OTHER -> misses[id]

missesToResolve == 2

\* resolveFixed: the open alerts' counts, and which have enough of them.  Only
\* the open alerts carry a count over.
resolveFixed ==
  /\ Config /\ run.pc = "alerts" /\ run.todo = {}
  /\ \/ LET count(id) == IF Open(alerts[id]) THEN MissesAfter(id) ELSE 0
            fixed == {id \in DOMAIN alerts : count(id) > misses[id] /\ count(id) >= missesToResolve} IN
        /\ misses' = [id \in DOMAIN misses |->
                        IF count(id) < missesToResolve THEN count(id) ELSE missesToResolve]
        /\ run' = [run EXCEPT !.pc = "clear", !.fixed = fixed]
        /\ quiet' = [id \in DOMAIN quiet |->
                       IF id \notin run.covered /\ goneWith THEN Quieter(quiet[id]) ELSE quiet[id]]
        /\ skipped' = {id \in skipped : count(id) > 0}
        /\ UNCHANGED used
     \/ /\ Fault /\ run' = NoRun
        /\ skipped' = skipped \cup {id \in run.detected : misses[id] > 0}
        /\ UNCHANGED <<misses, quiet>>
  /\ UNCHANGED <<check, cfg, world, access, silences, alerts, lost>>

\* ResolveCleared of the threshold checks: the open alerts whose condition was
\* evaluated and not found, and that were last saved long enough ago.
Cleared ==
  {id \in run.covered \ run.detected : alerts[id].seen >= ResolveAfter}

\* ResolveCleared: lists the open alerts and resolves the ones to clear.
ListOpenAlertsByCheck ==
  /\ \/ Config /\ run.pc = "clear"
     \/ ~Config /\ run.pc = "alerts" /\ run.todo = {}
  /\ \/ /\ LET clear == {id \in IF Config THEN run.fixed ELSE Cleared : Open(alerts[id])} IN
           run' = IF clear = {} THEN NoRun ELSE [NoRun EXCEPT !.pc = "resolve", !.fixed = clear]
        /\ UNCHANGED used
     \/ Fault /\ run' = NoRun
  /\ UNCHANGED <<check, cfg, world, access, silences, alerts, misses, quiet, lost, skipped>>

\* ResolveAlert, for one of them; a failed write leaves it for the next run.
ResolveAlert ==
  /\ run.pc = "resolve"
  /\ \E id \in run.fixed :
       /\ run' = IF run.fixed = {id} THEN NoRun ELSE [run EXCEPT !.fixed = @ \ {id}]
       /\ \/ /\ alerts' = [alerts EXCEPT ![id] = IF @.status = "absent" THEN @
                             ELSE [@ EXCEPT !.status = "resolved", !.updated = 0]]
             /\ UNCHANGED used
          \/ Fault /\ UNCHANGED alerts
  /\ UNCHANGED <<check, cfg, world, access, silences, misses, quiet, lost, skipped>>

-----------------------------------------------------------------------------
RunStep ==
  \/ Evaluate \/ (\E a \in run.todo : Lookup(a)) \/ SaveAlert \/ resolveSuperseded
  \/ NotifyAlert \/ resolveFixed \/ ListOpenAlertsByCheck \/ ResolveAlert

Next ==
  \/ Tick \/ WorldChanges \/ AccessChanges \/ SilenceChanges \/ Restart \/ Operator
  \/ scopeRealms \/ RunStep

Spec == Init /\ [][Next]_vars

\* Fairness: the ticker starts a run again and again, a run finishes, and time
\* passes between runs, however many of them there are.
FairSpec ==
  Spec /\ WF_vars(RunStep) /\ WF_vars(scopeRealms) /\ SF_vars(Tick)

-----------------------------------------------------------------------------
(* Properties.                                                               *)

Statuses == {"absent", "active", "acknowledged", "ignored", "resolved"}

\* The types of the state.
TypeOK ==
  /\ check \in DOMAIN Scenes /\ cfg \in Scenes[check].cfgs /\ world \in Scenes[check].worlds
  /\ access \in {"ok", "down", "disabled", "stub", "unlisted", "deleted"}
  /\ silences \subseteq Scenes[check].silences /\ lost \cup skipped \subseteq DOMAIN alerts
  /\ \A id \in DOMAIN alerts :
       /\ alerts[id].status \in Statuses /\ alerts[id].notified \in Never..MaxAge
       /\ {alerts[id].seen, alerts[id].updated} \subseteq 0..MaxAge
       /\ misses[id] \in 0..missesToResolve /\ quiet[id] \in 0..missesToResolve

\* The run resolves the alert because its problem was not found.
Clears(id) ==
  /\ run.pc = "resolve" /\ Open(alerts[id]) /\ alerts'[id].status = "resolved"
  /\ used'.ops = used.ops

\* A check resolves an alert only after looking for its problem, which truly was
\* not there: twice in a row for a misconfiguration (missesToResolve), once for a
\* counted condition (Evaluated).  A realm that did not answer, a provider whose
\* metadata was not fetched, a sub-check switched off, a silence, a restart or
\* an operator never counts as a look.  Left out is the alert a run found without
\* being able to list it (skipped).  The types hold.
ResolvedOnlyWhenFixed ==
  [][TypeOK' /\ \A id \in DOMAIN alerts :
       Clears(id) => \/ quiet[id] >= IF Config THEN missesToResolve ELSE 1
                     \/ id \in skipped]_vars

\* What missesToResolve says, without that exception: the looks that missed the
\* problem come in a row.
MissesInARow ==
  [][\A id \in DOMAIN alerts : Clears(id) /\ Config => quiet[id] >= missesToResolve]_vars

\* executeCheck keeps the status an operator gave an alert (acknowledged or
\* ignored) as long as the problem is there, failed lookups and saves included;
\* only an operator's write between a run's read and its save is overwritten.
OperatorChoiceKept ==
  [][\A id \in DOMAIN alerts :
       run.pc = "save" /\ ~run.raced /\ alerts[id].status \in {"acknowledged", "ignored"}
         /\ used'.ops = used.ops
       => alerts'[id].status = alerts[id].status]_vars

\* The same of every operator's write, as the comment in executeCheck says.
OperatorChoiceAlwaysKept ==
  [][\A id \in DOMAIN alerts :
       run.pc = "save" /\ alerts[id].status \in {"acknowledged", "ignored"}
         /\ used'.ops = used.ops
       => alerts'[id].status = alerts[id].status]_vars

\* A problem is there, the check looks for it and can read it, and no silence
\* covers it.
Standing(id) ==
  /\ id \in DOMAIN alerts /\ access = "ok"
  /\ \E a \in Found(check, cfg, world) : AlertID(a) = id /\ ~ShouldSilence(a, silences)

\* The operators know: the occurrence is announced on every channel, or one of
\* them acknowledged, ignored or (a counted condition's alert) resolved it.
Told(id) ==
  id \in DOMAIN alerts =>
    \/ alerts[id].announced
    \/ alerts[id].status \in {"acknowledged", "ignored"}
    \/ ~Config /\ alerts[id].status = "resolved"

\* Every standing problem gets to the operators, whatever failed before: a
\* failed save is tried at the next run, a failed delivery after an hour.  An
\* alert deleted while a run was saving it is left out: its new row records no
\* notification.
ProblemAnnounced == \A id \in AllIDs : <>[](Standing(id) /\ id \notin lost) => <>[]Told(id)

\* A problem that is gone, and that the check can see is gone.
Fixed(id) ==
  /\ id \in DOMAIN alerts
  /\ \/ Config /\ access \in {"disabled", "deleted"}
     \/ access = "ok" /\ Covers(id, world) /\ looksFor(id)
        /\ \A a \in Found(check, cfg, world) : AlertID(a) # id

\* The alert of a problem that stays fixed does not stay open: resolveFixed and
\* ResolveCleared come back to it until a run resolves it.
FixedCloses == \A id \in AllIDs : <>[]Fixed(id) => <>[](id \in DOMAIN alerts => ~Open(alerts[id]))

\* In the end the alerts say what is the case: no problem is kept from the
\* operators, and none is left open that is gone.
AlertsFollowProblems == ProblemAnnounced /\ FixedCloses
=============================================================================
