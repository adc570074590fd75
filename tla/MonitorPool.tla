---------------------------- MODULE MonitorPool ----------------------------
(***************************************************************************)
(* The pool of Keycloak monitors, one per enabled tenant, and the retry    *)
(* loop that keeps trying the ones that could not start                    *)
(* (internal/tenant/monitor_pool.go, monitor_pool_retry.go).               *)
(*                                                                         *)
(* Three goroutines work on the pool:                                      *)
(*   "main"     Start at boot and Stop at shutdown,                        *)
(*   "handler"  the worker that runs handleTenantChange on queued changes, *)
(*   "retry"    retryLoop.                                                 *)
(* Starting and stopping a monitor hold the pool's mutex `mu`; the pending *)
(* retries have a mutex of their own (retryMu) that is only held across    *)
(* single map operations, so each of those is one step here.  Reads of the *)
(* monitor map (sync.Map) and of the tenant service take neither.          *)
(*                                                                         *)
(* A tenant's settings are a revision number: every accepted change gives  *)
(* the tenant a new one, and a running monitor remembers the revision it   *)
(* was started from.  Time is abstracted: a pending retry may fall due at  *)
(* any moment.                                                             *)
(***************************************************************************)
EXTENDS Naturals, Sequences, FiniteSets

CONSTANTS Tenants,      \* tenant ids
          MaxRev,       \* bound: administrative changes in a behaviour
          QueueSize     \* capacity of the callback queue (callbackQueueSize)

ASSUME TenantsAssumption == Tenants # {}
ASSUME MaxRevAssumption == MaxRev \in Nat
ASSUME QueueSizeAssumption == QueueSize \in Nat \ {0}

VARIABLES
    tenant,     \* the tenant service's cached tenants: whether each exists, is
                \* enabled, its revision and the revision it was created with
    rev,        \* number of changes accepted so far
    notice,     \* the change the service is about to queue, if any (as a set)
    queue,      \* changes queued for the pool's callback
    registered, \* Start has registered the callback
    missed,     \* tenants changed before the callback was registered
    th,         \* where each goroutine is, and on which tenant and revision
    mu,         \* holder of the pool mutex, or Free
    todo,       \* main: tenants still to start (boot) or to stop (shutdown)
    monitors,   \* the monitor map: revision of the running monitor, or None
    live,       \* how many monitors of the tenant are running, in the map or not
    pending,    \* tenants with a pending retry
    same,       \* retry: the pending entry it took is still the one in the map
    loop,       \* "off", "on", "cancelled", "done"
    health,     \* the tenant record's health_status
    alert       \* the tenant's DOWN alert is open

svcVars  == <<tenant, rev, notice, queue, registered, missed>>
poolVars == <<mu, todo, monitors, live>>
retVars  == <<pending, same, loop>>
vars == <<svcVars, th, poolVars, retVars, health, alert>>

Free == "free"
None == 0
Revs == 1 .. MaxRev + 1     \* Init uses revision 1
Goroutines == {"main", "handler", "retry"}
Events == {"added", "updated", "enabled", "disabled", "removed"}
Job == [event : Events, t : Tenants, on : BOOLEAN, ver : Revs]

PCs == {"off", "pick", "idle", "start", "creating", "started", "alert",
        "schedule", "restart", "stop", "close", "read", "check", "drop",
        "errcheck", "recheck", "undo", "up", "cancelling", "draining", "stopping", "stopped"}

Local == [pc : PCs, t : Tenants, ver : Revs, ok : BOOLEAN]

----------------------------------------------------------------------------
(* Helpers *)

Running(t) == monitors[t] # None

\* The tenants ListEnabledTenants returns.
EnabledTenants == {t \in Tenants : tenant[t].exists /\ tenant[t].on}

\* The goroutine moves on, with new locals or only to another place.
Become(g, local) == th' = [th EXCEPT ![g] = local]
Goto(g, pc) == Become(g, [th[g] EXCEPT !.pc = pc])

\* cancelRetry: forget the pending entry; an attempt in progress that holds it
\* will find another entry, or none, in the map.
CancelRetry(t) ==
    /\ pending' = pending \ {t}
    /\ same' = (same /\ th["retry"].t # t)

\* Where a goroutine goes when an attempt to start is over.
Home(g) == IF g = "main" THEN "pick" ELSE "idle"
----------------------------------------------------------------------------
(* The tenant service.  updateMu serialises the changes: one is accepted    *)
(* once the notice of the one before is queued.                            *)

\* A change is in the database and in the cache.
Accept(event, t, record) ==
    /\ rev < MaxRev
    /\ notice = {}
    /\ rev' = rev + 1
    /\ tenant' = [tenant EXCEPT ![t] = record]
    /\ notice' = {[event |-> event, t |-> t, on |-> record.on, ver |-> record.ver]}
    /\ UNCHANGED <<queue, registered, missed, th, poolVars, retVars, alert>>

\* notifyCallbacks queues it for the pool, if the pool has registered, and
\* blocks while the queue is full.
NotifyCallbacks ==
    /\ notice # {}
    /\ notice' = {}
    /\ \/ /\ registered
          /\ Len(queue) < QueueSize
          /\ \E job \in notice : queue' = Append(queue, job)
          /\ UNCHANGED missed
       \/ /\ ~registered
          /\ missed' = missed \union {job.t : job \in notice}
          /\ UNCHANGED queue
    /\ UNCHANGED <<tenant, rev, registered, th, poolVars, retVars, health, alert>>

CreateTenant(t, on) ==
    /\ ~tenant[t].exists
    /\ health' = [health EXCEPT ![t] = "unknown"]
    /\ Accept("added", t, [exists |-> TRUE, on |-> on, ver |-> rev + 2, born |-> rev + 2])

UpdateTenant(t, on) ==
    /\ tenant[t].exists
    /\ UNCHANGED health
    /\ Accept(IF ~tenant[t].on /\ on THEN "enabled"
              ELSE IF tenant[t].on /\ ~on THEN "disabled" ELSE "updated",
              t, [tenant[t] EXCEPT !.on = on, !.ver = rev + 2])

\* The change carries the tenant as it was before the deletion.
DeleteTenant(t) ==
    /\ tenant[t].exists
    /\ UNCHANGED health
    /\ Accept("removed", t, [tenant[t] EXCEPT !.exists = FALSE])
----------------------------------------------------------------------------
(* startMonitorForTenant, run by any of the three goroutines.              *)

\* Mutant: no check for a monitor that runs already.
StartUnchecked(g) ==
    /\ th[g].pc = "start"
    /\ mu = Free
    /\ mu' = g
    /\ Goto(g, "creating")
    /\ UNCHANGED <<svcVars, todo, monitors, live, retVars, health, alert>>

\* Take the mutex and refuse a tenant that already has a monitor.
StartBegin(g) ==
    /\ th[g].pc = "start"
    /\ mu = Free
    /\ \/ /\ Running(th[g].t)
          /\ Become(g, [th[g] EXCEPT !.pc = "started", !.ok = FALSE])
          /\ UNCHANGED mu
       \/ /\ ~Running(th[g].t)
          /\ mu' = g
          /\ Goto(g, "creating")
    /\ UNCHANGED <<svcVars, todo, monitors, live, retVars, health, alert>>

\* Mutant: a failed start keeps the mutex.
StartEndKeepsMutex(g) ==
    LET t == th[g].t IN
    /\ th[g].pc = "creating"
    /\ \/ /\ mu' = Free
          /\ monitors' = [monitors EXCEPT ![t] = th[g].ver]
          /\ live' = [live EXCEPT ![t] = @ + 1]
          /\ health' = [health EXCEPT ![t] = "healthy"]
          /\ Become(g, [th[g] EXCEPT !.pc = "started", !.ok = TRUE])
       \/ /\ health' = [health EXCEPT ![t] = "unhealthy"]
          /\ Become(g, [th[g] EXCEPT !.pc = "started", !.ok = FALSE])
          /\ UNCHANGED <<mu, monitors, live>>
    /\ UNCHANGED <<svcVars, todo, retVars, alert>>

\* Under the mutex: the client is created and the monitor starts, or Keycloak
\* cannot be reached.  The record's health is written either way.
StartEnd(g) ==
    LET t == th[g].t IN
    /\ th[g].pc = "creating"
    /\ mu' = Free
    /\ \/ /\ monitors' = [monitors EXCEPT ![t] = th[g].ver]
          /\ live' = [live EXCEPT ![t] = @ + 1]
          /\ health' = [health EXCEPT ![t] = "healthy"]
          /\ Become(g, [th[g] EXCEPT !.pc = "started", !.ok = TRUE])
       \/ /\ health' = [health EXCEPT ![t] = "unhealthy"]
          /\ Become(g, [th[g] EXCEPT !.pc = "started", !.ok = FALSE])
          /\ UNCHANGED <<monitors, live>>
    /\ UNCHANGED <<svcVars, todo, retVars, alert>>

\* Boot and the callback handler react to the result the same way.
Settle(g) ==
    /\ g # "retry"
    /\ th[g].pc = "started"
    /\ Goto(g, IF th[g].ok THEN Home(g) ELSE "alert")
    /\ UNCHANGED <<svcVars, poolVars, retVars, health, alert>>

\* startFailed, first half: report the tenant DOWN.
RaiseAlert(g) ==
    /\ th[g].pc = "alert"
    /\ alert' = [alert EXCEPT ![th[g].t] = TRUE]
    /\ Goto(g, "schedule")
    /\ UNCHANGED <<svcVars, poolVars, retVars, health>>

\* startFailed, second half, and a failed GetTenant in attemptRetry.
ScheduleRetry(g) ==
    /\ th[g].pc = "schedule"
    /\ pending' = pending \union {th[g].t}
    /\ Goto(g, Home(g))
    /\ UNCHANGED <<svcVars, poolVars, same, loop, health, alert>>

\* stopMonitorForTenant: under the mutex, stop the tenant's monitor if there
\* is one.
StopMonitorForTenant(t) ==
    /\ mu = Free
    /\ monitors' = [monitors EXCEPT ![t] = None]
    /\ live' = [live EXCEPT ![t] = IF Running(t) THEN @ - 1 ELSE @]
----------------------------------------------------------------------------
(* The callback worker: handleTenantChange.                                *)

\* The step after cancelRetry, by event; a change of a disabled tenant that
\* does not disable it is ignored.
FirstStep(job) ==
    CASE job.event \in {"added", "enabled"}    -> "start"
      [] job.event = "updated"                 -> "restart"
      [] job.event \in {"disabled", "removed"} -> "stop"

Ignored(job) == job.event \in {"added", "updated"} /\ ~job.on

HandleTenantChange ==
    LET job == Head(queue) IN
    /\ queue # <<>>
    /\ th["handler"].pc = "idle"
    /\ queue' = Tail(queue)
    /\ \/ /\ Ignored(job)
          /\ UNCHANGED <<th, pending, same>>
       \/ /\ ~Ignored(job)
          /\ CancelRetry(job.t)
          /\ Become("handler", [pc |-> FirstStep(job), t |-> job.t, ver |-> job.ver, ok |-> FALSE])
    /\ UNCHANGED <<tenant, rev, notice, registered, missed, poolVars, loop, health, alert>>

HandlerStop ==
    /\ th["handler"].pc \in {"restart", "stop"}
    /\ StopMonitorForTenant(th["handler"].t)
    /\ Goto("handler", IF th["handler"].pc = "restart" THEN "start" ELSE "close")
    /\ UNCHANGED <<svcVars, mu, todo, retVars, health, alert>>

\* closeHealthAlerts.
HandlerClose ==
    /\ th["handler"].pc = "close"
    /\ alert' = [alert EXCEPT ![th["handler"].t] = FALSE]
    /\ Goto("handler", "idle")
    /\ UNCHANGED <<svcVars, poolVars, retVars, health>>
----------------------------------------------------------------------------
(* The retry loop: attemptRetry on a tenant that is due.                   *)

RetryBegin(t) ==
    /\ loop = "on"
    /\ th["retry"].pc = "idle"
    /\ t \in pending
    /\ Become("retry", [th["retry"] EXCEPT !.pc = "read", !.t = t])
    /\ same' = TRUE
    /\ UNCHANGED <<svcVars, poolVars, pending, loop, health, alert>>

\* GetTenant: an error for a deleted tenant, else the cached tenant.
RetryRead ==
    LET r == tenant[th["retry"].t] IN
    /\ th["retry"].pc = "read"
    /\ \/ ~r.exists /\ Goto("retry", "schedule")
       \/ r.exists /\ ~r.on /\ Goto("retry", "drop")
       \/ r.exists /\ r.on
          /\ Become("retry", [th["retry"] EXCEPT !.pc = "check", !.ver = r.ver])
    /\ UNCHANGED <<svcVars, poolVars, retVars, health, alert>>

RetryCheck ==
    /\ th["retry"].pc = "check"
    /\ Goto("retry", IF Running(th["retry"].t) THEN "drop" ELSE "start")
    /\ UNCHANGED <<svcVars, poolVars, retVars, health, alert>>

RetryDrop ==
    /\ th["retry"].pc = "drop"
    /\ CancelRetry(th["retry"].t)
    /\ Goto("retry", "idle")
    /\ UNCHANGED <<svcVars, poolVars, loop, health, alert>>

\* The result of the attempt, read together with whether the pending entry is
\* still the one the attempt took.
RetrySettle ==
    LET me == th["retry"] IN
    /\ me.pc = "started"
    /\ \/ /\ me.ok /\ same
          /\ pending' = pending \ {me.t}
          /\ Goto("retry", "idle")
       \/ me.ok /\ ~same /\ Goto("retry", "recheck") /\ UNCHANGED pending
       \/ /\ ~me.ok
          /\ Become("retry", [me EXCEPT !.pc = "errcheck", !.ok = same])
          /\ UNCHANGED pending
    /\ UNCHANGED <<svcVars, poolVars, same, loop, health, alert>>

\* A failed attempt: the tenant was started by an administrator meanwhile, or
\* the failure is reported if the entry was still current (kept in `ok`).
RetryErrCheck ==
    /\ th["retry"].pc = "errcheck"
    /\ Goto("retry", IF Running(th["retry"].t) THEN "drop"
                     ELSE IF th["retry"].ok THEN "alert" ELSE "idle")
    /\ UNCHANGED <<svcVars, poolVars, retVars, health, alert>>

\* Mutant: no second look at the tenant.
RetryTrusts ==
    /\ th["retry"].pc = "recheck"
    /\ Goto("retry", "idle")
    /\ UNCHANGED <<svcVars, poolVars, retVars, health, alert>>

\* A successful attempt whose entry was cancelled: stop the monitor again if
\* GetTenant answers without an error that the tenant is disabled.
RetryRecheck ==
    LET r == tenant[th["retry"].t] IN
    /\ th["retry"].pc = "recheck"
    /\ Goto("retry", IF r.exists /\ ~r.on THEN "undo" ELSE "idle")
    /\ UNCHANGED <<svcVars, poolVars, retVars, health, alert>>

RetryUndo ==
    /\ th["retry"].pc = "undo"
    /\ StopMonitorForTenant(th["retry"].t)
    /\ Goto("retry", "idle")
    /\ UNCHANGED <<svcVars, mu, todo, retVars, health, alert>>

\* Mutant: the loop only ends when nothing is pending.
RetryExitDrained ==
    /\ loop = "cancelled"
    /\ th["retry"].pc = "idle"
    /\ pending = {}
    /\ loop' = "done"
    /\ UNCHANGED <<svcVars, th, poolVars, pending, same, health, alert>>

\* The loop ends between two attempts once it is cancelled.
RetryExit ==
    /\ loop = "cancelled"
    /\ th["retry"].pc = "idle"
    /\ loop' = "done"
    /\ UNCHANGED <<svcVars, th, poolVars, pending, same, health, alert>>
----------------------------------------------------------------------------
(* Start and Stop.  The HTTP server is already serving while Start runs.   *)

\* ListEnabledTenants and startRetryLoop.
Start ==
    /\ th["main"].pc = "off"
    /\ todo' = {<<t, tenant[t].ver>> : t \in EnabledTenants}
    /\ loop' = "on"
    /\ Goto("main", "pick")
    /\ UNCHANGED <<svcVars, mu, monitors, live, pending, same, health, alert>>

StartNext ==
    /\ th["main"].pc = "pick"
    /\ \E x \in todo :
         /\ todo' = todo \ {x}
         /\ Become("main", [th["main"] EXCEPT !.pc = "start", !.t = x[1], !.ver = x[2]])
    /\ UNCHANGED <<svcVars, mu, monitors, live, retVars, health, alert>>

\* RegisterCallback, once every enabled tenant was tried.
StartRegister ==
    /\ th["main"].pc = "pick"
    /\ todo = {}
    /\ registered' = TRUE
    /\ Goto("main", "up")
    /\ UNCHANGED <<tenant, rev, notice, queue, missed, poolVars, retVars, health, alert>>

\* Stop: stopRetryLoop drops the pending retries ...
StopBegin ==
    /\ th["main"].pc = "up"
    /\ pending' = {}
    /\ same' = FALSE
    /\ Goto("main", "cancelling")
    /\ UNCHANGED <<svcVars, poolVars, loop, health, alert>>

\* ... cancels the loop and waits for it.
StopCancel ==
    /\ th["main"].pc = "cancelling"
    /\ loop' = "cancelled"
    /\ Goto("main", "draining")
    /\ UNCHANGED <<svcVars, poolVars, pending, same, health, alert>>

\* The loop is done: collect the monitors to stop.
StopRange ==
    /\ th["main"].pc = "draining"
    /\ loop = "done"
    /\ todo' = {<<t, monitors[t]>> : t \in {u \in Tenants : Running(u)}}
    /\ Goto("main", "stopping")
    /\ UNCHANGED <<svcVars, mu, monitors, live, retVars, health, alert>>

\* stopMonitor without the mutex: it stops the instance it collected, and
\* deletes whatever the map holds for the tenant by then.
StopOne ==
    /\ th["main"].pc = "stopping"
    /\ \E x \in todo :
         /\ todo' = todo \ {x}
         /\ monitors' = [monitors EXCEPT ![x[1]] = None]
         /\ live' = [live EXCEPT ![x[1]] = IF monitors[x[1]] = x[2] THEN @ - 1 ELSE @]
    /\ UNCHANGED <<svcVars, th, mu, retVars, health, alert>>

StopDone ==
    /\ th["main"].pc = "stopping"
    /\ todo = {}
    /\ Goto("main", "stopped")
    /\ UNCHANGED <<svcVars, poolVars, retVars, health, alert>>

\* A running monitor checks its Keycloak: UP closes the DOWN alert, DOWN opens
\* it, and the record's health follows.
HealthCheck(t, up) ==
    /\ Running(t)
    /\ alert' = [alert EXCEPT ![t] = ~up]
    /\ health' = [health EXCEPT ![t] = IF up THEN "healthy" ELSE "unhealthy"]
    /\ UNCHANGED <<svcVars, th, poolVars, retVars>>
----------------------------------------------------------------------------
NoTenant == CHOOSE t \in Tenants : TRUE   \* of an idle goroutine: never read
NoWork == [pc |-> "idle", t |-> NoTenant, ver |-> 1, ok |-> FALSE]

Init ==
    /\ tenant \in [Tenants -> [exists : BOOLEAN, on : BOOLEAN, ver : {1}, born : {1}]]
    /\ rev = 0
    /\ notice = {}
    /\ queue = <<>>
    /\ registered = FALSE
    /\ missed = {}
    /\ th = [g \in Goroutines |-> IF g = "main" THEN [NoWork EXCEPT !.pc = "off"] ELSE NoWork]
    /\ mu = Free
    /\ todo = {}
    /\ monitors = [t \in Tenants |-> None]
    /\ live = [t \in Tenants |-> 0]
    /\ pending = {}
    /\ same = FALSE
    /\ loop = "off"
    /\ health = [t \in Tenants |-> "unknown"]
    /\ alert \in {a \in [Tenants -> BOOLEAN] : \A t \in Tenants : a[t] => tenant[t].exists /\ tenant[t].on}

Admin ==
    \E t \in Tenants :
        \/ \E on \in BOOLEAN : CreateTenant(t, on) \/ UpdateTenant(t, on)
        \/ DeleteTenant(t)

StartStep(g) == StartBegin(g) \/ StartEnd(g) \/ Settle(g) \/ RaiseAlert(g) \/ ScheduleRetry(g)

Handler == HandleTenantChange \/ HandlerStop \/ HandlerClose \/ StartStep("handler")

RetryLoop ==
    \/ \E t \in Tenants : RetryBegin(t)
    \/ RetryRead \/ RetryCheck \/ RetryDrop \/ RetrySettle \/ RetryErrCheck
    \/ RetryRecheck \/ RetryUndo \/ RetryExit
    \/ StartStep("retry")

Boot == Start \/ StartNext \/ StartRegister \/ StartStep("main")

Stop == StopBegin \/ StopCancel \/ StopRange \/ StopOne \/ StopDone

Next ==
    \/ Admin
    \/ NotifyCallbacks
    \/ Handler
    \/ RetryLoop
    \/ Boot
    \/ Stop
    \/ \E t \in Tenants, up \in BOOLEAN : HealthCheck(t, up)

Spec == Init /\ [][Next]_vars
----------------------------------------------------------------------------
TypeOK ==
    /\ tenant \in [Tenants -> [exists : BOOLEAN, on : BOOLEAN, ver : Revs, born : Revs]]
    /\ rev \in 0 .. MaxRev
    /\ notice \in SUBSET Job
    /\ queue \in Seq(Job)
    /\ registered \in BOOLEAN
    /\ missed \in SUBSET Tenants
    /\ th \in [Goroutines -> Local]
    /\ mu \in Goroutines \union {Free}
    /\ todo \in SUBSET (Tenants \X Revs)
    /\ monitors \in [Tenants -> Revs \union {None}]
    /\ live \in [Tenants -> Nat]
    /\ pending \in SUBSET Tenants
    /\ same \in BOOLEAN
    /\ loop \in {"off", "on", "cancelled", "done"}
    /\ health \in [Tenants -> {"unknown", "healthy", "unhealthy"}]
    /\ alert \in [Tenants -> BOOLEAN]

----------------------------------------------------------------------------
(* Properties *)

\* Before shutdown every running monitor is the one in the monitor map: no
\* tenant is polled twice and none is polled by a monitor nobody can stop
\* (startMonitorForTenant's exists check, made under the mutex that the boot,
\* the callback worker and the retry loop share).
OneMonitorPerTenant ==
    th["main"].pc \notin {"stopping", "stopped"} =>
        \A t \in Tenants : live[t] = IF Running(t) THEN 1 ELSE 0

\* Nothing is in flight: every change was handled and no attempt is running.
Quiescent ==
    /\ notice = {}
    /\ queue = <<>>
    /\ th["main"].pc = "up"
    /\ th["handler"].pc = "idle"
    /\ th["retry"].pc = "idle"

\* A tenant disabled while a retry was starting its monitor is not monitored
\* once the changes are handled (attemptRetry's second look at the tenant): what
\* can still run is a monitor of a tenant of that name deleted earlier.  The types
\* hold.
DisabledTenantStops ==
    /\ TypeOK
    /\ Quiescent =>
           \A t \in Tenants \ missed :
               tenant[t].exists /\ ~tenant[t].on /\ Running(t) => monitors[t] < tenant[t].born

\* Changes are handled: the request that makes one does not wait on a full queue
\* forever, and the callback worker always gets the mutex in the end, whatever
\* boot and the retry loop do.
ChangesAreHandled == (notice # {} \/ queue # <<>>) ~> (notice = {} /\ queue = <<>>)

\* Stop returns: stopRetryLoop waits for an attempt in progress, which waits
\* for the mutex, which no goroutine keeps.
StopReturns == (th["main"].pc = "cancelling") ~> (th["main"].pc = "stopped")

\* As attemptRetry says, a retry "never revives a tenant that was disabled or
\* deleted meanwhile": a deleted tenant has no monitor once the changes are
\* handled.
DeletedTenantStops ==
    Quiescent => \A t \in Tenants \ missed : ~tenant[t].exists => ~Running(t)

\* As attemptRetry says, "a retry uses the current settings": once the changes
\* are handled, a running monitor has the tenant's latest settings.
CurrentSettings ==
    Quiescent =>
        \A t \in Tenants \ missed :
            tenant[t].exists /\ tenant[t].on /\ Running(t) => monitors[t] = tenant[t].ver

\* As closeHealthAlerts says, a disabled or removed tenant's alert must not stay
\* open "forever": once the changes and retries are handled it is closed.
NoAlertForUnmonitored ==
    Quiescent =>
        \A t \in Tenants \ missed :
            tenant[t].exists /\ ~tenant[t].on /\ t \notin pending => ~alert[t]

\* A monitor that could not start is retried "for as long as the tenant stays
\* enabled": once the changes are handled an enabled tenant is monitored or has
\* a retry pending.
RetriedWhileEnabled ==
    Quiescent =>
        \A t \in Tenants \ missed :
            tenant[t].exists /\ tenant[t].on => Running(t) \/ t \in pending

\* docs/configuration.md describes `enabled` as "Enable/disable monitoring for
\* this tenant": a disabled tenant is not monitored once Start has returned and
\* the changes are handled.
DisabledIsUnmonitored ==
    Quiescent => \A t \in Tenants : tenant[t].exists /\ ~tenant[t].on => ~Running(t)

\* "Stop gracefully stops all monitors".
StopStopsAll ==
    th["main"].pc = "stopped" => \A t \in Tenants : live[t] = 0

=============================================================================
