---------------------------- MODULE OutageAlerts ----------------------------
(***************************************************************************)
(* A tenant's DOWN alert from the health check to the GitLab issue: the    *)
(* health alert manager (internal/fx/monitoring.go), the stored alert and  *)
(* its occurrences (internal/alerts/postgres/repository.go), the           *)
(* notification service and its log (internal/notifications), the retrier  *)
(* of failed notifications (internal/fx/notification_retry.go) and the     *)
(* operator's actions (internal/http/chi/alerts_handlers.go).              *)
(*                                                                         *)
(* Four goroutines work on the alert: "monitor", which handles one health  *)
(* status at a time, "retrier", "operator", the request that resolves the  *)
(* alert, and "notice", the goroutine that request leaves behind.  Every   *)
(* database or GitLab call is a step of its own, but the two reads of the  *)
(* log before an issue is closed are one.                                  *)
(*                                                                         *)
(* An occurrence is a number: a resolved or deleted alert raised again     *)
(* starts the next one.  The notification log dates a send by its          *)
(* created_at, the time it is written, so an entry belongs to the          *)
(* occurrence that is current then.  GetHealthMetrics returns UP or DOWN   *)
(* only, so the alert for DEGRADED is never raised and is left out.        *)
(***************************************************************************)
EXTENDS Naturals, FiniteSets

CONSTANTS MaxOcc,     \* bound: occurrences in a behaviour
          MaxIssues,  \* bound: issues opened in a behaviour
          Faults,     \* calls that may fail, and whether the server restarts
          Ops         \* what the operator does; "silence": a rule may cover the alert

FaultKinds == {"save", "resolve", "check", "log", "close", "restart"}
OpKinds == {"ack", "ignore", "reopen", "resolve", "delete", "late", "silence"}

ASSUME BoundsAssumption == MaxOcc \in Nat /\ MaxIssues \in Nat
ASSUME KindsAssumption == Faults \subseteq FaultKinds /\ Ops \subseteq OpKinds

VARIABLES
    prev,     \* previousStatus: "none", "UP" or "DOWN"
    row,      \* the alert row's status, or "absent"
    ack,      \* the row has an acknowledged_at
    occ,      \* the row's occurrence
    sent,     \* notification log: the newest issue sent in each occurrence, or 0
    failed,   \* notification log: occurrences with a failed send
    issues,   \* issues opened so far
    open,     \* issues open in GitLab
    pc,       \* where each goroutine is
    loc,      \* each goroutine's issue, and the occurrence it set out to announce
    raised,   \* occurrences a health check started
    healed,   \* the occurrence that was over at the last recovery
    hushed    \* the outage in previousStatus was silenced when it was seen

logVars == <<sent, failed>>
rowVars == <<row, ack, occ>>
gitlab  == <<issues, open>>
hist    == <<raised, healed, hushed>>
outageVars == <<prev, rowVars, logVars, gitlab, pc, loc, hist>>

Actors == {"monitor", "retrier", "operator", "notice"}
Occs == 0 .. MaxOcc + 2

NoLocals == [occ |-> 0, issue |-> 0]

Goto(a, where) == pc' = [pc EXCEPT ![a] = where]

\* The goroutine's call returns.
Return(a) ==
    /\ Goto(a, "idle")
    /\ loc' = [loc EXCEPT ![a] = NoLocals]

----------------------------------------------------------------------------
(* The alert row and the notification log *)

\* Save as active: a new row and a resolved one start an occurrence, and the
\* acknowledgement is cleared.
SaveActive ==
    /\ row' = "active"
    /\ ack' = FALSE
    /\ occ' = IF row \in {"absent", "resolved"} THEN occ + 1 ELSE occ

\* Resolve: an update, which finds no row when the alert was deleted.
Resolve ==
    /\ row' = IF row = "absent" THEN "absent" ELSE "resolved"
    /\ UNCHANGED <<ack, occ>>

\* CheckAlreadySent: a send since the occurrence began, or any without a row.
AlreadySent == IF row = "absent" THEN \E o \in Occs : sent[o] # 0 ELSE sent[occ] # 0

\* GetByAlertAndChannel: the issue of the most recent send.
LatestIssue ==
    LET last == CHOOSE o \in Occs : sent[o] # 0 /\ \A p \in Occs : sent[p] # 0 => p <= o
    IN  sent[last]

\* undeliveredSince: a failed send and no successful one in this occurrence.
Undelivered == row # "absent" /\ occ \in failed /\ sent[occ] = 0

\* Mutant: an acknowledged alert is not seen as open.
HealthAlertActive == row = "active"

HealthAlertOpen == row \in {"active", "acknowledged"}
----------------------------------------------------------------------------
(* ProcessHealthStatus, TenantUnmonitored *)

HealthCheck(status) ==
    /\ pc["monitor"] = "idle"
    /\ status = "DOWN" => occ < MaxOcc
    /\ prev' = status
    /\ hushed' = (hushed /\ prev = status)
    /\ Goto("monitor", IF prev = status THEN "idle"
                       ELSE IF status = "DOWN" THEN "save" ELSE "lookup")
    /\ UNCHANGED <<rowVars, logVars, gitlab, loc, raised, healed>>

\* createTenantDownAlert, up to the notification.  A silence ends it before the
\* save: nothing is stored, sent or logged, though previousStatus has the outage.
RaiseAlert ==
    /\ pc["monitor"] = "save"
    /\ \/ /\ SaveActive
          /\ raised' = IF occ' = occ THEN raised ELSE raised \union {occ'}
          /\ Goto("monitor", "check")
          /\ UNCHANGED hushed
       \/ /\ "save" \in Faults
          /\ Goto("monitor", "idle")
          /\ UNCHANGED <<rowVars, raised, hushed>>
       \/ /\ "silence" \in Ops
          /\ Goto("monitor", "idle")
          /\ hushed' = TRUE
          /\ UNCHANGED <<rowVars, raised>>
    /\ UNCHANGED <<prev, logVars, gitlab, loc, healed>>

\* TenantUnmonitored runs once the monitor has stopped; it also forgets the
\* tracked status.
TenantUnmonitored ==
    /\ pc["monitor"] = "idle"
    /\ prev' = "none"
    /\ hushed' = FALSE
    /\ Goto("monitor", "lookup")
    /\ UNCHANGED <<rowVars, logVars, gitlab, loc, raised, healed>>

\* resolveTenantDownAlert and TenantUnmonitored look for an open alert ...
LookupAlert ==
    /\ pc["monitor"] = "lookup"
    /\ healed' = IF row = "ignored" \/ HealthAlertOpen THEN healed ELSE occ
    /\ Goto("monitor", IF HealthAlertOpen THEN "resolve" ELSE "idle")
    /\ UNCHANGED <<prev, rowVars, logVars, gitlab, loc, raised, hushed>>

\* ... and resolve it.
ResolveAlert ==
    /\ pc["monitor"] = "resolve"
    /\ \/ /\ Resolve
          /\ healed' = occ
          /\ Goto("monitor", "rescheck")
       \/ /\ "resolve" \in Faults
          /\ Goto("monitor", "idle")
          /\ UNCHANGED <<rowVars, healed>>
    /\ UNCHANGED <<prev, logVars, gitlab, loc, raised, hushed>>
----------------------------------------------------------------------------
(* sendToChannel, run by the monitor and by the retrier *)

CheckAlreadySent(a) ==
    /\ pc[a] = "check"
    /\ \/ AlreadySent /\ Return(a)
       \/ /\ ~AlreadySent \/ "check" \in Faults
          /\ loc' = [loc EXCEPT ![a].occ = occ]
          /\ Goto(a, "send")
    /\ UNCHANGED <<prev, rowVars, logVars, gitlab, hist>>

Send(a) ==
    /\ pc[a] = "send"
    /\ issues < MaxIssues
    /\ issues' = issues + 1
    /\ open' = open \union {issues + 1}
    /\ loc' = [loc EXCEPT ![a].issue = issues + 1]
    /\ Goto(a, "log")
    /\ UNCHANGED <<prev, rowVars, logVars, hist>>

\* Mutant: the failed send leaves no trace in the log.
SendFailsSilently(a) ==
    /\ pc[a] = "send"
    /\ Return(a)
    /\ UNCHANGED <<prev, rowVars, logVars, gitlab, hist>>

SendFails(a) ==
    /\ pc[a] = "send"
    /\ Goto(a, "logfailed")
    /\ UNCHANGED <<prev, rowVars, logVars, gitlab, loc, hist>>

LogSent(a) ==
    /\ pc[a] = "log"
    /\ \/ sent' = [sent EXCEPT ![occ] = loc[a].issue]
       \/ "log" \in Faults /\ UNCHANGED sent
    /\ Return(a)
    /\ UNCHANGED <<prev, rowVars, failed, gitlab, hist>>

LogFailed(a) ==
    /\ pc[a] = "logfailed"
    /\ \/ failed' = failed \union {occ}
       \/ "log" \in Faults /\ UNCHANGED failed
    /\ Return(a)
    /\ UNCHANGED <<prev, rowVars, sent, gitlab, hist>>
----------------------------------------------------------------------------
(* sendResolutionToGitLab, run by the monitor and by the operator's notice *)

ResolutionCheck(a) ==
    /\ pc[a] = "rescheck"
    /\ \/ /\ AlreadySent
          /\ loc' = [loc EXCEPT ![a].issue = LatestIssue]
          /\ Goto(a, "close")
       \/ /\ ~AlreadySent \/ "check" \in Faults
          /\ Goto(a, "idle")
          /\ UNCHANGED loc
    /\ UNCHANGED <<prev, rowVars, logVars, gitlab, hist>>

CloseIssue(a) ==
    /\ pc[a] = "close"
    /\ open' = open \ {loc[a].issue} \/ ("close" \in Faults /\ UNCHANGED open)
    /\ Return(a)
    /\ UNCHANGED <<prev, rowVars, logVars, issues, hist>>
----------------------------------------------------------------------------
(* The retrier: retryOnce and RetryFailedNotifications *)

Unattended == row = "active" /\ ~ack

ListUndelivered ==
    /\ pc["retrier"] = "idle"
    /\ Unattended /\ Undelivered
    /\ Goto("retrier", "reload")
    /\ UNCHANGED <<prev, rowVars, logVars, gitlab, loc, hist>>

\* Mutant: the condition on the acknowledgement is the wrong way round.
ReloadInverted ==
    /\ pc["retrier"] = "reload"
    /\ Goto("retrier", IF row = "active" /\ ack THEN "channels" ELSE "idle")
    /\ UNCHANGED <<prev, rowVars, logVars, gitlab, loc, hist>>

ReloadAlert ==
    /\ pc["retrier"] = "reload"
    /\ Goto("retrier", IF Unattended THEN "channels" ELSE "idle")
    /\ UNCHANGED <<prev, rowVars, logVars, gitlab, loc, hist>>

UndeliveredChannels ==
    /\ pc["retrier"] = "channels"
    /\ Goto("retrier", IF Undelivered THEN "check" ELSE "idle")
    /\ UNCHANGED <<prev, rowVars, logVars, gitlab, loc, hist>>
----------------------------------------------------------------------------
(* The operator *)

\* UpdateStatus.  "late": the page still showed the alert open.
UpdateStatus(op) ==
    /\ op \in Ops
    /\ row # "absent"
    /\ row = "resolved" => op = "reopen" \/ "late" \in Ops
    /\ \/ /\ op = "ack"
          /\ row' = "acknowledged"
          /\ ack' = TRUE
          /\ UNCHANGED occ
       \/ /\ op = "ignore"
          /\ row' = "ignored"
          /\ UNCHANGED <<ack, occ>>
       \/ /\ op = "reopen"
          /\ row' = "active"
          /\ row = "resolved" => occ < MaxOcc
          /\ occ' = IF row = "resolved" THEN occ + 1 ELSE occ
          /\ UNCHANGED ack
    /\ UNCHANGED <<prev, logVars, gitlab, pc, loc, hist>>

\* resolveAlertByID reads the alert, then resolves it; if it was not resolved
\* before, a goroutine sends the notices.
OperatorReads ==
    /\ "resolve" \in Ops
    /\ pc["operator"] = "idle"
    /\ row # "absent"
    /\ Goto("operator", IF row = "resolved" THEN "again" ELSE "resolve")
    /\ UNCHANGED <<prev, rowVars, logVars, gitlab, loc, hist>>

OperatorResolves ==
    /\ pc["operator"] \in {"again", "resolve"}
    /\ pc["notice"] = "idle"
    /\ Resolve
    /\ pc' = [pc EXCEPT !["operator"] = "idle",
                        !["notice"] = IF pc["operator"] = "resolve" /\ row # "absent"
                                      THEN "rescheck" ELSE "idle"]
    /\ UNCHANGED <<prev, logVars, gitlab, loc, hist>>

DeleteAlert ==
    /\ "delete" \in Ops
    /\ row # "absent"
    /\ row' = "absent"
    /\ ack' = FALSE
    /\ UNCHANGED <<prev, occ, logVars, gitlab, pc, loc, hist>>
----------------------------------------------------------------------------
\* The server restarts: what was in memory is lost.
Restart ==
    /\ "restart" \in Faults
    /\ prev' = "none"
    /\ hushed' = FALSE
    /\ pc' = [a \in Actors |-> "idle"]
    /\ loc' = [a \in Actors |-> NoLocals]
    /\ UNCHANGED <<rowVars, logVars, gitlab, raised, healed>>

OutageInit ==
    /\ prev = "none"
    /\ row = "absent"
    /\ ack = FALSE
    /\ occ = 0
    /\ sent = [o \in Occs |-> 0]
    /\ failed = {}
    /\ issues = 0
    /\ open = {}
    /\ pc = [a \in Actors |-> "idle"]
    /\ loc = [a \in Actors |-> NoLocals]
    /\ raised = {}
    /\ healed = 0
    /\ hushed = FALSE

Notify(a) == CheckAlreadySent(a) \/ Send(a) \/ SendFails(a) \/ LogSent(a) \/ LogFailed(a)
NotifyResolution(a) == ResolutionCheck(a) \/ CloseIssue(a)

Monitor ==
    \/ RaiseAlert \/ LookupAlert \/ ResolveAlert
    \/ Notify("monitor") \/ NotifyResolution("monitor")

Retrier == ListUndelivered \/ ReloadAlert \/ UndeliveredChannels \/ Notify("retrier")

Operator ==
    \/ \E op \in {"ack", "ignore", "reopen"} : UpdateStatus(op)
    \/ OperatorReads \/ OperatorResolves \/ DeleteAlert

OutageNext ==
    \/ \E status \in {"UP", "DOWN"} : HealthCheck(status)
    \/ TenantUnmonitored
    \/ Monitor
    \/ Retrier
    \/ Operator
    \/ NotifyResolution("notice")
    \/ Restart

OutageSpec == OutageInit /\ [][OutageNext]_outageVars
----------------------------------------------------------------------------
PCs == {"idle", "save", "lookup", "resolve", "check", "send", "log", "logfailed",
        "rescheck", "close", "reload", "channels", "again"}

OutageTypes ==
    /\ prev \in {"none", "UP", "DOWN"}
    /\ row \in {"absent", "active", "acknowledged", "ignored", "resolved"}
    /\ ack \in BOOLEAN
    /\ occ \in Occs
    /\ sent \in [Occs -> 0 .. MaxIssues]
    /\ failed \in SUBSET Occs
    /\ issues \in 0 .. MaxIssues
    /\ open \in SUBSET (1 .. issues)
    /\ pc \in [Actors -> PCs]
    /\ loc \in [Actors -> [occ : Occs, issue : 0 .. MaxIssues]]
    /\ raised \in SUBSET Occs
    /\ healed \in Occs
    /\ hushed \in BOOLEAN
----------------------------------------------------------------------------
(* Properties *)

AllIdle == \A a \in Actors : pc[a] = "idle"

\* An outage the manager tracks, whose alert is active and not acknowledged, is
\* in the notification log: as sent, or as a failure the retrier picks up.  A
\* restart between the save and the send does not leave it out (the first check
\* reconciles), unless a silence covers that first check.  A silenced outage is
\* excepted: it is tracked, so that no later check announces it, and if its alert
\* was left unannounced, or has no row, nobody is told until it recovers.  The
\* types hold.
AnnouncedOrRetried ==
    /\ OutageTypes
    /\ AllIdle /\ prev = "DOWN" /\ ~hushed /\ Unattended /\ occ \in raised =>
           sent[occ] # 0 \/ occ \in failed

\* "Every new outage notifies": an outage after a recovery is a new occurrence,
\* never one more sighting of the outage before, which was announced already.
NewOutageNewOccurrence ==
    AllIdle /\ prev = "DOWN" /\ row = "active" => occ > healed

\* A failed announcement of an outage is sent in the end (the retrier), unless the
\* alert is closed or acknowledged first or servers restart without end.  The last
\* disjunct is where the bound on issues stops the model.
EventuallyAnnounced ==
    <>[][~Restart]_outageVars =>
        (Unattended /\ Undelivered ~> ~(Unattended /\ Undelivered) \/ issues = MaxIssues)

\* "Every new outage notifies": a tenant the manager knows to be down has its
\* alert.
OutageRecorded == AllIdle /\ prev = "DOWN" => row # "absent"

=============================================================================
