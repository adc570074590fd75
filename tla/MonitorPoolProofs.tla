------------------------- MODULE MonitorPoolProofs -------------------------
(***************************************************************************)
(* Proofs about MonitorPool, for any tenants, any number of changes and    *)
(* any queue size: the types, that before shutdown a tenant never has a    *)
(* monitor besides the one in the monitor map, and that a disabled tenant  *)
(* does not stay monitored.                                                *)
(***************************************************************************)
EXTENDS MonitorPool, TLAPS

\* A goroutine holds the mutex exactly while it creates a monitor, and only for
\* a tenant without one.
MutexInv ==
    /\ \A g \in Goroutines : th[g].pc = "creating" <=> mu = g
    /\ \A g \in Goroutines : th[g].pc = "creating" => ~Running(th[g].t)

\* A monitor in the map is running.
LiveInv == \A t \in Tenants : Running(t) => live[t] >= 1

IInv == TypeOK /\ MutexInv /\ LiveInv /\ OneMonitorPerTenant
----------------------------------------------------------------------------
\* Revisions are positive, the first one is 1, and every change that is accepted
\* within the bound gets one.
LEMMA RevsFacts ==
    /\ 1 \in Revs
    /\ None \notin Revs
    /\ Revs \subseteq Nat
    /\ \A n \in 0 .. MaxRev : n < MaxRev => n + 2 \in Revs /\ n + 1 \in 0 .. MaxRev
  BY MaxRevAssumption DEF Revs, None

\* The initial states satisfy the invariant: nothing runs before boot.
LEMMA InitInv == Init => IInv
<1> SUFFICES ASSUME Init PROVE IInv
  OBVIOUS
<1>1. NoTenant \in Tenants
  BY TenantsAssumption DEF NoTenant
<1>2. NoWork \in Local /\ [NoWork EXCEPT !.pc = "off"] \in Local
  BY <1>1, RevsFacts DEF NoWork, Local, PCs
<1>3. th \in [Goroutines -> Local]
  BY <1>2 DEF Init
<1>4. TypeOK
  <2>1. /\ tenant \in [Tenants -> [exists : BOOLEAN, on : BOOLEAN, ver : Revs, born : Revs]]
        /\ monitors \in [Tenants -> Revs \union {None}]
        /\ live \in [Tenants -> Nat]
        /\ rev \in 0 .. MaxRev
    BY RevsFacts, MaxRevAssumption DEF Init
  <2>2. /\ alert \in [Tenants -> BOOLEAN]
        /\ health \in [Tenants -> {"unknown", "healthy", "unhealthy"}]
        /\ queue \in Seq(Job)
    BY DEF Init
  <2>3. /\ notice \in SUBSET Job /\ missed \in SUBSET Tenants /\ pending \in SUBSET Tenants
        /\ registered \in BOOLEAN /\ same \in BOOLEAN /\ mu \in Goroutines \union {Free}
        /\ todo \in SUBSET (Tenants \X Revs) /\ loop \in {"off", "on", "cancelled", "done"}
    BY DEF Init
  <2> QED
    BY <1>3, <2>1, <2>2, <2>3 DEF TypeOK
<1>5. \A g \in Goroutines : th[g].pc \in {"idle", "off"}
  BY DEF Init, NoWork
<1>6. MutexInv
  BY <1>5 DEF Init, MutexInv, Goroutines, Free
<1>7. LiveInv /\ OneMonitorPerTenant
  BY DEF Init, LiveInv, OneMonitorPerTenant, Running
<1> QED
  BY <1>4, <1>6, <1>7 DEF IInv
----------------------------------------------------------------------------
(* Moves of one goroutine *)

Down == {"stopping", "stopped"}

\* Only g moves; it neither begins nor ends the creation of a monitor, and does
\* not come back from shutdown.
Quiet(g) ==
    /\ th' \in [Goroutines -> Local]
    /\ \A h \in Goroutines : h # g => th'[h] = th[h]
    /\ th[g].pc # "creating" /\ th'[g].pc # "creating"
    /\ th[g].pc \in Down => th'[g].pc \in Down

\* What Become does to the goroutines' locals.
LEMMA BecomeFacts ==
    ASSUME TypeOK, NEW g \in Goroutines, NEW l \in Local, Become(g, l)
    PROVE  /\ th' \in [Goroutines -> Local]
           /\ th'[g] = l
           /\ \A h \in Goroutines : h # g => th'[h] = th[h]
  BY DEF TypeOK, Become

\* A goroutine's locals stay well typed when it goes elsewhere.
LEMMA GotoFacts ==
    ASSUME TypeOK, NEW g \in Goroutines, NEW p \in PCs, Goto(g, p)
    PROVE  /\ th' \in [Goroutines -> Local]
           /\ th'[g].pc = p /\ th'[g].t = th[g].t
           /\ \A h \in Goroutines : h # g => th'[h] = th[h]
<1>1. th[g] \in Local
  BY DEF TypeOK
<1>2. /\ [th[g] EXCEPT !.pc = p] \in Local
      /\ [th[g] EXCEPT !.pc = p].pc = p
      /\ [th[g] EXCEPT !.pc = p].t = th[g].t
  BY <1>1 DEF Local
<1> QED
  BY <1>2, BecomeFacts DEF Goto

\* Going from one place to another, neither of them "creating", is quiet.
LEMMA QuietGoto ==
    ASSUME TypeOK, NEW g \in Goroutines, NEW p \in PCs \ {"creating"}, Goto(g, p),
           th[g].pc # "creating", th[g].pc \in Down => p \in Down
    PROVE  Quiet(g)
  BY GotoFacts DEF Quiet

\* The same for a goroutine that takes new locals.
LEMMA QuietBecome ==
    ASSUME TypeOK, NEW g \in Goroutines, NEW l \in Local, Become(g, l),
           th[g].pc # "creating", l.pc # "creating", th[g].pc \notin Down
    PROVE  Quiet(g)
  BY BecomeFacts DEF Quiet

\* A quiet move that leaves the mutex and the monitors alone keeps the invariant.
LEMMA QuietInv ==
    ASSUME IInv, NEW g \in Goroutines, Quiet(g), mu' = mu, monitors' = monitors, live' = live
    PROVE  MutexInv' /\ LiveInv' /\ OneMonitorPerTenant'
<1>1. MutexInv'
  BY DEF IInv, MutexInv, Running, Quiet
<1>2. LiveInv'
  BY DEF IInv, LiveInv, Running
<1>3. th'["main"].pc \notin Down => th["main"].pc \notin Down
  BY DEF Quiet, Goroutines
<1>4. OneMonitorPerTenant'
  BY <1>3 DEF IInv, OneMonitorPerTenant, Running, Down
<1> QED
  BY <1>1, <1>2, <1>4

\* So does a step that moves no goroutine.
LEMMA StillInv ==
    ASSUME IInv, th' = th, mu' = mu, monitors' = monitors, live' = live
    PROVE  MutexInv' /\ LiveInv' /\ OneMonitorPerTenant'
  BY DEF IInv, MutexInv, LiveInv, OneMonitorPerTenant, Running
----------------------------------------------------------------------------
(* One lemma per part of Next *)

\* Administrative changes only touch the tenant service.
LEMMA AdminInv == ASSUME IInv, Admin \/ NotifyCallbacks PROVE IInv'
<1> USE DEF IInv
<1>1. th' = th /\ mu' = mu /\ monitors' = monitors /\ live' = live
  BY DEF Admin, CreateTenant, UpdateTenant, DeleteTenant, Accept, NotifyCallbacks, poolVars
<1>2. ASSUME NEW t \in Tenants, NEW on \in BOOLEAN, CreateTenant(t, on) PROVE TypeOK'
  BY <1>2, RevsFacts DEF CreateTenant, Accept, TypeOK, Job, Events, poolVars, retVars
<1>3. ASSUME NEW t \in Tenants, NEW on \in BOOLEAN, UpdateTenant(t, on) PROVE TypeOK'
  <2> DEFINE r == [tenant[t] EXCEPT !.on = on, !.ver = rev + 2]
  <2>1. PICK event \in Events : Accept(event, t, r)
    BY <1>3 DEF UpdateTenant, Events
  <2>2. r \in [exists : BOOLEAN, on : BOOLEAN, ver : Revs, born : Revs]
    BY <2>1, RevsFacts DEF Accept, TypeOK
  <2>3. health' = health
    BY <1>3 DEF UpdateTenant
  <2> HIDE DEF r
  <2> QED
    BY <2>1, <2>2, <2>3, RevsFacts DEF Accept, TypeOK, Job, poolVars, retVars
<1>4. ASSUME NEW t \in Tenants, DeleteTenant(t) PROVE TypeOK'
  <2> DEFINE r == [tenant[t] EXCEPT !.exists = FALSE]
  <2>1. Accept("removed", t, r) /\ "removed" \in Events
    BY <1>4 DEF DeleteTenant, Events
  <2>2. r \in [exists : BOOLEAN, on : BOOLEAN, ver : Revs, born : Revs]
    BY DEF TypeOK
  <2>3. health' = health
    BY <1>4 DEF DeleteTenant
  <2> HIDE DEF r
  <2> QED
    BY <2>1, <2>2, <2>3, RevsFacts DEF Accept, TypeOK, Job, poolVars, retVars
<1>5. ASSUME NotifyCallbacks PROVE TypeOK'
  <2>1. queue' \in Seq(Job)
    <3>1. CASE registered
      <4>1. PICK job \in Job : queue' = Append(queue, job)
        BY <1>5, <3>1 DEF NotifyCallbacks, TypeOK
      <4>2. queue \in Seq(Job)
        BY DEF TypeOK
      <4> QED
        BY <4>1, <4>2
    <3>2. CASE ~registered
      BY <1>5, <3>2 DEF NotifyCallbacks, TypeOK
    <3> QED
      BY <3>1, <3>2
  <2>2. missed' \in SUBSET Tenants
    BY <1>5 DEF NotifyCallbacks, TypeOK, Job
  <2> QED
    BY <1>5, <2>1, <2>2 DEF NotifyCallbacks, TypeOK, poolVars, retVars
<1>6. TypeOK'
  BY <1>2, <1>3, <1>4, <1>5 DEF Admin
<1> QED
  BY <1>1, <1>6, StillInv

\* startMonitorForTenant and startFailed, in any goroutine.  Only StartBegin takes
\* the mutex and only StartEnd, which releases it, adds a monitor.
LEMMA StartInv == ASSUME IInv, NEW g \in Goroutines, StartStep(g) PROVE IInv'
<1> USE DEF IInv
<1>0. th[g] \in Local
  BY DEF TypeOK
<1>1. CASE StartBegin(g)
  <2>1. CASE Running(th[g].t)
    <3> DEFINE l == [th[g] EXCEPT !.pc = "started", !.ok = FALSE]
    <3>1. l \in Local /\ l.pc = "started" /\ Become(g, l)
      BY <1>0, <1>1, <2>1 DEF StartBegin, Local, PCs
    <3>2. th[g].pc = "start" /\ UNCHANGED <<mu, monitors, live>>
      BY <1>1, <2>1 DEF StartBegin
    <3> HIDE DEF l
    <3>3. Quiet(g)
      BY <3>1, <3>2, QuietBecome DEF Down
    <3>4. TypeOK'
      BY <1>1, <3>2, <3>3 DEF StartBegin, TypeOK, Quiet, svcVars, retVars
    <3> QED
      BY <3>2, <3>3, <3>4, QuietInv
  <2>2. CASE ~Running(th[g].t)
    <3>1. mu = Free /\ mu' = g /\ Goto(g, "creating") /\ UNCHANGED <<monitors, live>>
      BY <1>1, <2>2 DEF StartBegin
    <3>2. /\ th' \in [Goroutines -> Local]
          /\ th'[g].pc = "creating" /\ th'[g].t = th[g].t
          /\ \A h \in Goroutines : h # g => th'[h] = th[h]
      BY <3>1, GotoFacts DEF PCs
    <3>3. TypeOK'
      BY <1>1, <3>1, <3>2 DEF StartBegin, TypeOK, svcVars, retVars
    <3>4. \A h \in Goroutines : h # Free
      BY DEF Goroutines, Free
    <3>5. MutexInv'
      BY <2>2, <3>1, <3>2, <3>4 DEF MutexInv, Running
    <3>6. LiveInv'
      BY <3>1 DEF LiveInv, Running
    <3>7. th["main"].pc \in Down => th'["main"].pc \in Down
      BY <1>1, <3>2 DEF StartBegin, Down, Goroutines
    <3>8. OneMonitorPerTenant'
      BY <3>1, <3>7 DEF OneMonitorPerTenant, Running, Down
    <3> QED
      BY <3>3, <3>5, <3>6, <3>8
  <2> QED
    BY <2>1, <2>2
<1>2. CASE StartEnd(g)
  <2>1. PICK b \in BOOLEAN : Become(g, [th[g] EXCEPT !.pc = "started", !.ok = b])
    BY <1>2 DEF StartEnd
  <2> DEFINE l == [th[g] EXCEPT !.pc = "started", !.ok = b]
  <2>2. l \in Local /\ l.pc = "started" /\ Become(g, l)
    BY <1>0, <2>1 DEF Local, PCs
  <2> HIDE DEF l
  <2>3. /\ th' \in [Goroutines -> Local]
        /\ th'[g].pc = "started"
        /\ \A h \in Goroutines : h # g => th'[h] = th[h]
    BY <2>2, BecomeFacts
  <2>4. th[g].pc = "creating" /\ mu = g /\ mu' = Free /\ ~Running(th[g].t)
    BY <1>2 DEF StartEnd, MutexInv
  <2>5. \A h \in Goroutines : h # Free
    BY DEF Goroutines, Free
  <2>6. \A h \in Goroutines : th'[h].pc # "creating"
    BY <2>3, <2>4 DEF MutexInv
  <2>7. MutexInv'
    BY <2>4, <2>5, <2>6 DEF MutexInv
  <2>8. th[g].t \in Tenants /\ th[g].ver \in Revs
    BY <1>0 DEF Local
  <2>9. th["main"].pc \in Down => th'["main"].pc \in Down
    BY <2>3, <2>4 DEF Down, Goroutines
  <2>10. CASE monitors' = [monitors EXCEPT ![th[g].t] = th[g].ver]
              /\ live' = [live EXCEPT ![th[g].t] = @ + 1]
    <3>1. monitors' \in [Tenants -> Revs \union {None}] /\ live' \in [Tenants -> Nat]
      BY <2>8, <2>10 DEF TypeOK
    <3>2. TypeOK'
      BY <1>2, <2>3, <2>4, <3>1 DEF StartEnd, TypeOK, svcVars, retVars
    <3>3. LiveInv'
      BY <2>8, <2>10 DEF LiveInv, Running, TypeOK
    <3>4. OneMonitorPerTenant'
      BY <2>4, <2>8, <2>9, <2>10, RevsFacts DEF OneMonitorPerTenant, Running, TypeOK, Down
    <3> QED
      BY <2>7, <3>2, <3>3, <3>4
  <2>11. CASE UNCHANGED <<monitors, live>>
    <3>1. TypeOK'
      BY <1>2, <2>3, <2>4, <2>11 DEF StartEnd, TypeOK, svcVars, retVars
    <3>2. LiveInv'
      BY <2>11 DEF LiveInv, Running
    <3>3. OneMonitorPerTenant'
      BY <2>9, <2>11 DEF OneMonitorPerTenant, Running, Down
    <3> QED
      BY <2>7, <3>1, <3>2, <3>3
  <2> QED
    BY <1>2, <2>10, <2>11 DEF StartEnd
<1>3. CASE Settle(g)
  <2>1. PICK p \in {"pick", "idle", "alert"} : Goto(g, p)
    BY <1>3 DEF Settle, Home
  <2>2. Quiet(g)
    BY <1>3, <2>1, QuietGoto DEF Settle, PCs, Down
  <2> QED
    BY <1>3, <2>2, QuietInv DEF Settle, TypeOK, Quiet, svcVars, poolVars, retVars
<1>4. CASE RaiseAlert(g)
  <2>1. Quiet(g)
    BY <1>4, QuietGoto DEF RaiseAlert, PCs, Down
  <2>2. TypeOK'
    BY <1>4, <2>1 DEF RaiseAlert, TypeOK, Quiet, svcVars, poolVars, retVars
  <2> QED
    BY <1>4, <2>1, <2>2, QuietInv DEF RaiseAlert, poolVars
<1>5. CASE ScheduleRetry(g)
  <2>1. PICK p \in {"pick", "idle"} : Goto(g, p)
    BY <1>5 DEF ScheduleRetry, Home
  <2>2. Quiet(g)
    BY <1>5, <2>1, QuietGoto DEF ScheduleRetry, PCs, Down
  <2>3. TypeOK'
    BY <1>0, <1>5, <2>2 DEF ScheduleRetry, TypeOK, Local, Quiet, svcVars, poolVars
  <2> QED
    BY <1>5, <2>2, <2>3, QuietInv DEF ScheduleRetry, poolVars
<1> QED
  BY <1>1, <1>2, <1>3, <1>4, <1>5 DEF StartStep

\* Stopping a tenant's monitor, in the handler or to undo a retry: it needs the
\* mutex, so nobody is creating a monitor meanwhile.
LEMMA StopMonitorInv ==
    ASSUME IInv, NEW g \in Goroutines, Quiet(g), mu' = mu,
           NEW t \in Tenants, StopMonitorForTenant(t)
    PROVE  /\ MutexInv' /\ LiveInv' /\ OneMonitorPerTenant'
           /\ monitors' \in [Tenants -> Revs \union {None}]
           /\ live' \in [Tenants -> Nat]
<1> USE DEF IInv
<1>1. /\ monitors' = [monitors EXCEPT ![t] = None]
      /\ live' = [live EXCEPT ![t] = IF Running(t) THEN @ - 1 ELSE @]
  BY DEF StopMonitorForTenant
<1>2. monitors' \in [Tenants -> Revs \union {None}]
  BY <1>1 DEF TypeOK
<1>3. live' \in [Tenants -> Nat]
  BY <1>1 DEF TypeOK, LiveInv
<1>4. \A u \in Tenants : Running(u)' => Running(u) /\ u # t
  BY <1>1 DEF TypeOK, Running
<1>5. \A h \in Goroutines : th'[h].pc = "creating" => th[h].pc = "creating" /\ th'[h].t = th[h].t
  BY DEF Quiet
<1>6. \A h \in Goroutines : th[h].t \in Tenants
  BY DEF TypeOK, Local
<1>7. MutexInv'
  <2>1. \A h \in Goroutines : th'[h].pc = "creating" <=> mu' = h
    BY DEF MutexInv, Quiet
  <2>2. \A h \in Goroutines : th'[h].pc = "creating" => ~Running(th[h].t)'
    BY <1>1, <1>5, <1>6 DEF MutexInv, Running, TypeOK
  <2> QED
    BY <1>5, <2>1, <2>2 DEF MutexInv, Running
<1>8. LiveInv'
  BY <1>1, <1>4 DEF LiveInv, TypeOK
<1>9. th["main"].pc \in Down => th'["main"].pc \in Down
  BY DEF Quiet, Goroutines
<1>10. OneMonitorPerTenant'
  BY <1>1, <1>9 DEF OneMonitorPerTenant, Running, TypeOK, Down
<1> QED
  BY <1>2, <1>3, <1>7, <1>8, <1>10

\* The callback worker.
LEMMA HandlerInv == ASSUME IInv, Handler PROVE IInv'
<1> USE DEF IInv
<1> "handler" \in Goroutines
  BY DEF Goroutines
<1>0. th["handler"] \in Local
  BY DEF TypeOK
<1>1. CASE HandleTenantChange
  <2>1. Head(queue) \in Job /\ queue' \in Seq(Job)
    BY <1>1 DEF HandleTenantChange, TypeOK
  <2>2. UNCHANGED <<mu, monitors, live>>
    BY <1>1 DEF HandleTenantChange, poolVars
  <2>3. CASE Ignored(Head(queue))
    <3>1. UNCHANGED <<th, pending, same>>
      BY <1>1, <2>3 DEF HandleTenantChange
    <3>2. TypeOK'
      BY <1>1, <2>1, <3>1 DEF HandleTenantChange, TypeOK, poolVars
    <3> QED
      BY <2>2, <3>1, <3>2, StillInv
  <2>4. CASE ~Ignored(Head(queue))
    <3> DEFINE job == Head(queue)
               l == [pc |-> FirstStep(job), t |-> job.t, ver |-> job.ver, ok |-> FALSE]
    <3>1. FirstStep(job) \in {"start", "restart", "stop"}
      BY <2>1 DEF FirstStep, Job, Events
    <3>2. l \in Local /\ l.pc # "creating"
      BY <2>1, <3>1 DEF Local, PCs, Job
    <3>3. Become("handler", l) /\ th["handler"].pc = "idle" /\ CancelRetry(job.t)
      BY <1>1, <2>4 DEF HandleTenantChange
    <3>4. Quiet("handler")
      <4> HIDE DEF l
      <4> QED
        BY <3>2, <3>3, QuietBecome DEF Down
    <3>5. TypeOK'
      BY <1>1, <2>1, <3>3, <3>4 DEF HandleTenantChange, CancelRetry, TypeOK, Quiet, poolVars
    <3> QED
      BY <2>2, <3>4, <3>5, QuietInv
  <2> QED
    BY <2>3, <2>4
<1>2. CASE HandlerStop
  <2>1. PICK p \in {"start", "close"} : Goto("handler", p)
    BY <1>2 DEF HandlerStop
  <2>2. Quiet("handler")
    BY <1>2, <2>1, QuietGoto DEF HandlerStop, PCs, Down
  <2>3. mu' = mu /\ StopMonitorForTenant(th["handler"].t) /\ th["handler"].t \in Tenants
    BY <1>0, <1>2 DEF HandlerStop, Local
  <2>4. /\ MutexInv' /\ LiveInv' /\ OneMonitorPerTenant'
        /\ monitors' \in [Tenants -> Revs \union {None}]
        /\ live' \in [Tenants -> Nat]
    BY <2>2, <2>3, StopMonitorInv
  <2>5. TypeOK'
    BY <1>2, <2>2, <2>4 DEF HandlerStop, TypeOK, Quiet, svcVars, retVars
  <2> QED
    BY <2>4, <2>5
<1>3. CASE HandlerClose
  <2>1. PICK p \in {"idle"} : Goto("handler", p)
    BY <1>3 DEF HandlerClose
  <2>2. Quiet("handler")
    BY <1>3, <2>1, QuietGoto DEF HandlerClose, PCs, Down
  <2>3. TypeOK'
    BY <1>3, <2>2 DEF HandlerClose, TypeOK, Quiet, svcVars, poolVars, retVars
  <2> QED
    BY <1>3, <2>2, <2>3, QuietInv DEF HandlerClose, poolVars
<1>4. CASE StartStep("handler")
  BY <1>4, StartInv
<1> QED
  BY <1>1, <1>2, <1>3, <1>4 DEF Handler

\* The retry loop.
LEMMA RetryInv == ASSUME IInv, RetryLoop PROVE IInv'
<1> USE DEF IInv
<1> "retry" \in Goroutines
  BY DEF Goroutines
<1>0. th["retry"] \in Local
  BY DEF TypeOK
<1>1. ASSUME NEW t \in Tenants, RetryBegin(t) PROVE IInv'
  <2> DEFINE l == [th["retry"] EXCEPT !.pc = "read", !.t = t]
  <2>1. l \in Local /\ l.pc = "read" /\ Become("retry", l) /\ th["retry"].pc = "idle"
    BY <1>0, <1>1 DEF RetryBegin, Local, PCs
  <2> HIDE DEF l
  <2>2. Quiet("retry")
    BY <2>1, QuietBecome DEF Down
  <2>3. TypeOK'
    BY <1>1, <2>2 DEF RetryBegin, TypeOK, Quiet, svcVars, poolVars
  <2> QED
    BY <1>1, <2>2, <2>3, QuietInv DEF RetryBegin, poolVars
<1>2. CASE RetryRead
  <2> DEFINE r == tenant[th["retry"].t]
             l == [th["retry"] EXCEPT !.pc = "check", !.ver = r.ver]
  <2>1. r.ver \in Revs
    BY <1>0 DEF TypeOK, Local
  <2>2. l \in Local /\ l.pc = "check"
    BY <1>0, <2>1 DEF Local, PCs
  <2>3. CASE Become("retry", l)
    <3> HIDE DEF l
    <3> QED
      BY <1>2, <2>2, <2>3, QuietBecome, QuietInv
         DEF RetryRead, Down, TypeOK, Quiet, svcVars, poolVars, retVars
  <2>4. CASE \E p \in {"schedule", "drop"} : Goto("retry", p)
    BY <1>2, <2>4, QuietGoto, QuietInv
       DEF RetryRead, PCs, Down, TypeOK, Quiet, svcVars, poolVars, retVars
  <2> QED
    BY <1>2, <2>3, <2>4 DEF RetryRead
<1>3. CASE RetryCheck
  <2>1. PICK p \in {"drop", "start"} : Goto("retry", p)
    BY <1>3 DEF RetryCheck
  <2>2. Quiet("retry")
    BY <1>3, <2>1, QuietGoto DEF RetryCheck, PCs, Down
  <2>3. TypeOK'
    BY <1>3, <2>2 DEF RetryCheck, TypeOK, Quiet, svcVars, poolVars, retVars
  <2> QED
    BY <1>3, <2>2, <2>3, QuietInv DEF RetryCheck, poolVars
<1>4. CASE RetryDrop
  <2>1. PICK p \in {"idle"} : Goto("retry", p)
    BY <1>4 DEF RetryDrop
  <2>2. Quiet("retry")
    BY <1>4, <2>1, QuietGoto DEF RetryDrop, PCs, Down
  <2>3. TypeOK'
    BY <1>4, <2>2 DEF RetryDrop, TypeOK, Quiet, CancelRetry, svcVars, poolVars
  <2> QED
    BY <1>4, <2>2, <2>3, QuietInv DEF RetryDrop, poolVars
<1>5. CASE RetrySettle
  <2> DEFINE l == [th["retry"] EXCEPT !.pc = "errcheck", !.ok = same]
  <2>1. l \in Local /\ l.pc = "errcheck"
    BY <1>0 DEF Local, PCs, TypeOK
  <2>2. Become("retry", l) \/ \E p \in {"idle", "recheck"} : Goto("retry", p)
    BY <1>5 DEF RetrySettle
  <2> HIDE DEF l
  <2>3. Quiet("retry")
    BY <1>5, <2>1, <2>2, QuietBecome, QuietGoto DEF RetrySettle, PCs, Down
  <2>4. TypeOK'
    BY <1>5, <2>3 DEF RetrySettle, TypeOK, Quiet, svcVars, poolVars
  <2> QED
    BY <1>5, <2>3, <2>4, QuietInv DEF RetrySettle, poolVars
<1>6. CASE RetryErrCheck
  <2>1. PICK p \in {"drop", "alert", "idle"} : Goto("retry", p)
    BY <1>6 DEF RetryErrCheck
  <2>2. Quiet("retry")
    BY <1>6, <2>1, QuietGoto DEF RetryErrCheck, PCs, Down
  <2>3. TypeOK'
    BY <1>6, <2>2 DEF RetryErrCheck, TypeOK, Quiet, svcVars, poolVars, retVars
  <2> QED
    BY <1>6, <2>2, <2>3, QuietInv DEF RetryErrCheck, poolVars
<1>7. CASE RetryRecheck
  <2>1. PICK p \in {"undo", "idle"} : Goto("retry", p)
    BY <1>7 DEF RetryRecheck
  <2>2. Quiet("retry")
    BY <1>7, <2>1, QuietGoto DEF RetryRecheck, PCs, Down
  <2>3. TypeOK'
    BY <1>7, <2>2 DEF RetryRecheck, TypeOK, Quiet, svcVars, poolVars, retVars
  <2> QED
    BY <1>7, <2>2, <2>3, QuietInv DEF RetryRecheck, poolVars
<1>8. CASE RetryUndo
  <2>1. Quiet("retry")
    BY <1>8, QuietGoto DEF RetryUndo, PCs, Down
  <2>2. mu' = mu /\ StopMonitorForTenant(th["retry"].t) /\ th["retry"].t \in Tenants
    BY <1>0, <1>8 DEF RetryUndo, Local
  <2>3. /\ MutexInv' /\ LiveInv' /\ OneMonitorPerTenant'
        /\ monitors' \in [Tenants -> Revs \union {None}]
        /\ live' \in [Tenants -> Nat]
    BY <2>1, <2>2, StopMonitorInv
  <2>4. TypeOK'
    BY <1>8, <2>1, <2>3 DEF RetryUndo, TypeOK, Quiet, svcVars, retVars
  <2> QED
    BY <2>3, <2>4
<1>9. CASE RetryExit
  BY <1>9, StillInv DEF RetryExit, TypeOK, svcVars, poolVars
<1>10. CASE StartStep("retry")
  BY <1>10, StartInv
<1> QED
  BY <1>1, <1>2, <1>3, <1>4, <1>5, <1>6, <1>7, <1>8, <1>9, <1>10 DEF RetryLoop

\* Boot.
LEMMA BootInv == ASSUME IInv, Boot PROVE IInv'
<1> USE DEF IInv
<1> "main" \in Goroutines
  BY DEF Goroutines
<1>0. th["main"] \in Local
  BY DEF TypeOK
<1>1. CASE Start
  <2>1. Quiet("main")
    BY <1>1, QuietGoto DEF Start, PCs, Down
  <2>2. todo' \in SUBSET (Tenants \X Revs)
    BY <1>1 DEF Start, EnabledTenants, TypeOK
  <2>3. TypeOK'
    BY <1>1, <2>1, <2>2 DEF Start, TypeOK, Quiet, svcVars
  <2> QED
    BY <1>1, <2>1, <2>3, QuietInv DEF Start
<1>2. CASE StartNext
  <2>1. PICK x \in todo :
          /\ todo' = todo \ {x}
          /\ Become("main", [th["main"] EXCEPT !.pc = "start", !.t = x[1], !.ver = x[2]])
    BY <1>2 DEF StartNext
  <2> DEFINE l == [th["main"] EXCEPT !.pc = "start", !.t = x[1], !.ver = x[2]]
  <2>2. x[1] \in Tenants /\ x[2] \in Revs
    BY DEF TypeOK
  <2>3. l \in Local /\ l.pc = "start" /\ Become("main", l) /\ th["main"].pc = "pick"
    BY <1>0, <1>2, <2>1, <2>2 DEF StartNext, Local, PCs
  <2> HIDE DEF l
  <2>4. Quiet("main")
    BY <2>3, QuietBecome DEF Down
  <2>5. TypeOK'
    BY <1>2, <2>1, <2>4 DEF StartNext, TypeOK, Quiet, svcVars, retVars
  <2> QED
    BY <1>2, <2>4, <2>5, QuietInv DEF StartNext
<1>3. CASE StartRegister
  <2>1. PICK p \in {"up"} : Goto("main", p)
    BY <1>3 DEF StartRegister
  <2>2. Quiet("main")
    BY <1>3, <2>1, QuietGoto DEF StartRegister, PCs, Down
  <2>3. TypeOK'
    BY <1>3, <2>2 DEF StartRegister, TypeOK, Quiet, poolVars, retVars
  <2> QED
    BY <1>3, <2>2, <2>3, QuietInv DEF StartRegister, poolVars
<1>4. CASE StartStep("main")
  BY <1>4, StartInv
<1> QED
  BY <1>1, <1>2, <1>3, <1>4 DEF Boot

\* Shutdown.  StopOne works without the mutex: from there on a monitor may be
\* left running, but never one that the map still holds.
LEMMA StopInv == ASSUME IInv, Stop PROVE IInv'
<1> USE DEF IInv
<1> "main" \in Goroutines
  BY DEF Goroutines
<1>1. CASE StopBegin
  <2>1. PICK p \in {"cancelling"} : Goto("main", p)
    BY <1>1 DEF StopBegin
  <2>2. Quiet("main")
    BY <1>1, <2>1, QuietGoto DEF StopBegin, PCs, Down
  <2>3. TypeOK'
    BY <1>1, <2>2 DEF StopBegin, TypeOK, Quiet, svcVars, poolVars
  <2> QED
    BY <1>1, <2>2, <2>3, QuietInv DEF StopBegin, poolVars
<1>2. CASE StopCancel
  <2>1. PICK p \in {"draining"} : Goto("main", p)
    BY <1>2 DEF StopCancel
  <2>2. Quiet("main")
    BY <1>2, <2>1, QuietGoto DEF StopCancel, PCs, Down
  <2>3. TypeOK'
    BY <1>2, <2>2 DEF StopCancel, TypeOK, Quiet, svcVars, poolVars
  <2> QED
    BY <1>2, <2>2, <2>3, QuietInv DEF StopCancel, poolVars
<1>3. CASE StopRange
  <2>1. Quiet("main")
    BY <1>3, QuietGoto DEF StopRange, PCs, Down
  <2>2. todo' \in SUBSET (Tenants \X Revs)
    BY <1>3 DEF StopRange, Running, TypeOK
  <2>3. TypeOK'
    BY <1>3, <2>1, <2>2 DEF StopRange, TypeOK, Quiet, svcVars, retVars
  <2> QED
    BY <1>3, <2>1, <2>3, QuietInv DEF StopRange
<1>4. CASE StopOne
  <2>1. PICK x \in todo :
          /\ todo' = todo \ {x}
          /\ monitors' = [monitors EXCEPT ![x[1]] = None]
          /\ live' = [live EXCEPT ![x[1]] = IF monitors[x[1]] = x[2] THEN @ - 1 ELSE @]
    BY <1>4 DEF StopOne
  <2>2. x[1] \in Tenants /\ x[2] \in Revs
    BY DEF TypeOK
  <2>3. monitors[x[1]] = x[2] => live[x[1]] >= 1
    BY <2>2, RevsFacts DEF LiveInv, Running
  <2>4. live' \in [Tenants -> Nat] /\ monitors' \in [Tenants -> Revs \union {None}]
    BY <2>1, <2>2, <2>3 DEF TypeOK
  <2>5. TypeOK'
    BY <1>4, <2>1, <2>4 DEF StopOne, TypeOK, svcVars, retVars
  <2>6. \A u \in Tenants : Running(u)' => Running(u) /\ u # x[1]
    BY <2>1, <2>2 DEF Running, TypeOK
  <2>7. \A h \in Goroutines : th[h].t \in Tenants
    BY DEF TypeOK, Local
  <2>8. th' = th /\ mu' = mu
    BY <1>4 DEF StopOne
  <2>9. MutexInv'
    BY <2>1, <2>2, <2>7, <2>8 DEF MutexInv, Running, TypeOK
  <2>10. LiveInv'
    BY <2>1, <2>2, <2>6 DEF LiveInv, TypeOK
  <2>11. OneMonitorPerTenant'
    BY <1>4, <2>8 DEF StopOne, OneMonitorPerTenant
  <2> QED
    BY <2>5, <2>9, <2>10, <2>11
<1>5. CASE StopDone
  <2>1. PICK p \in {"stopped"} : Goto("main", p)
    BY <1>5 DEF StopDone
  <2>2. Quiet("main")
    BY <1>5, <2>1, QuietGoto DEF StopDone, PCs, Down
  <2>3. TypeOK'
    BY <1>5, <2>2 DEF StopDone, TypeOK, Quiet, svcVars, poolVars, retVars
  <2> QED
    BY <1>5, <2>2, <2>3, QuietInv DEF StopDone, poolVars
<1> QED
  BY <1>1, <1>2, <1>3, <1>4, <1>5 DEF Stop

\* Health checks of running monitors.
LEMMA HealthCheckInv ==
    ASSUME IInv, NEW t \in Tenants, NEW up \in BOOLEAN, HealthCheck(t, up) PROVE IInv'
<1>1. TypeOK'
  BY DEF IInv, HealthCheck, TypeOK, svcVars, poolVars, retVars
<1> QED
  BY <1>1, StillInv DEF IInv, HealthCheck, poolVars

\* Every step keeps the invariant.
LEMMA NextInv == IInv /\ [Next]_vars => IInv'
<1> SUFFICES ASSUME IInv, [Next]_vars PROVE IInv'
  OBVIOUS
<1>1. CASE UNCHANGED vars
  <2>1. TypeOK'
    BY <1>1 DEF IInv, TypeOK, vars, svcVars, poolVars, retVars
  <2> QED
    BY <1>1, <2>1, StillInv DEF IInv, vars, poolVars
<1>2. CASE Next
  BY <1>2, AdminInv, HandlerInv, RetryInv, BootInv, StopInv, HealthCheckInv DEF Next
<1> QED
  BY <1>1, <1>2

\* The invariant holds in every reachable state.
LEMMA Invariance == Spec => []IInv
  BY InitInv, NextInv, PTL DEF Spec
----------------------------------------------------------------------------
\* Type correctness.  That the count of running monitors stays natural is the
\* point: no monitor is stopped that does not run, not even by the shutdown that
\* works without the mutex.
THEOREM TypeCorrect == Spec => []TypeOK
<1>1. IInv => TypeOK
  BY DEF IInv
<1> QED
  BY <1>1, Invariance, PTL

\* Before shutdown a tenant never has two monitors, nor one that the map does not
\* hold: startMonitorForTenant's check and store are one critical section.
THEOREM NoSecondMonitor == Spec => []OneMonitorPerTenant
<1>1. IInv => OneMonitorPerTenant
  BY DEF IInv
<1> QED
  BY <1>1, Invariance, PTL

----------------------------------------------------------------------------
(* A disabled tenant does not stay monitored.  Whatever could start a      *)
(* monitor of it with settings it had while it was enabled is followed by  *)
(* the change that disabled it, or is a retry that looks again.            *)

\* A change that starts a monitor when the handler takes it, and one that
\* stops the monitor of t.
Starts(job) == job.event \in {"added", "updated", "enabled"} /\ ~Ignored(job)
Disables(job, t) == job.t = t /\ job.event = "disabled"

\* The change that disables t is still to be queued, or to be handled.
Announced(t) == \E job \in notice : Disables(job, t)
StopAhead(t) == Announced(t) \/ \E k \in 1 .. Len(queue) : Disables(queue[k], t)

\* A tenant that is disabled, and that the pool is told of.
Off(t) == t \notin missed /\ tenant[t].exists /\ ~tenant[t].on

\* g is about to start a monitor of the tenant that exists now.
Reviving(g, t) ==
    /\ th[g].pc \in {"restart", "check", "start", "creating"}
    /\ th[g].t = t
    /\ th[g].ver >= tenant[t].born

\* The handler is about to stop the monitor of t.
Stopping(t) == th["handler"].pc = "stop" /\ th["handler"].t = t

\* The retry loop will look at t again before it leaves its monitor running.
Undoes(t) ==
    /\ th["retry"].t = t
    /\ \/ th["retry"].pc \in {"recheck", "undo"}
       \/ th["retry"].pc = "started" /\ th["retry"].ok /\ ~same

Booting == {"off", "pick", "start", "creating", "started", "alert", "schedule"}
Working == {"up", "cancelling", "draining", "stopping", "stopped"}

\* The callback is registered when boot is over, and the handler has nothing to
\* do before.
PhaseInv ==
    /\ th["main"].pc \in Booting \union Working
    /\ registered <=> th["main"].pc \in Working
    /\ ~registered => queue = <<>> /\ th["handler"].pc = "idle"

\* Every revision that is kept anywhere was given by a change before.
VerInv ==
    /\ \A t \in Tenants : /\ tenant[t].ver <= rev + 1
                          /\ tenant[t].born <= rev + 1
                          /\ monitors[t] <= rev + 1
    /\ \A g \in Goroutines : th[g].ver <= rev + 1
    /\ \A x \in todo : x[2] <= rev + 1
    /\ \A job \in notice : job.ver <= rev + 1
    /\ \A i \in 1 .. Len(queue) : queue[i].ver <= rev + 1

\* One change is announced at a time, and it is its tenant's latest.
NoticeInv ==
    /\ \A j, k \in notice : j = k
    /\ \A job \in notice : Starts(job) => tenant[job.t].on

\* A queued change of t that would start a monitor is followed by one that
\* stops it.
QueueInv(t) ==
    \A i \in 1 .. Len(queue) :
        queue[i].t = t /\ Starts(queue[i]) /\ queue[i].ver >= tenant[t].born =>
            Announced(t) \/ \E k \in i + 1 .. Len(queue) : Disables(queue[k], t)

\* A start of t under way is followed by a stop, or is a retry that was cancelled.
RevivingInv(t) ==
    \A g \in Goroutines : Reviving(g, t) => StopAhead(t) \/ (g = "retry" /\ ~same)

\* So is one that boot has still to make.
TodoInv(t) ==
    ~registered => \A x \in todo : x[1] = t /\ x[2] >= tenant[t].born => StopAhead(t)

\* A monitor of t that runs is about to be stopped.
RunningInv(t) ==
    monitors[t] >= tenant[t].born => StopAhead(t) \/ Stopping(t) \/ Undoes(t)

OffInv == \A t \in Tenants : Off(t) => QueueInv(t) /\ RevivingInv(t) /\ TodoInv(t) /\ RunningInv(t)

StopsInv == PhaseInv /\ VerInv /\ NoticeInv /\ OffInv
----------------------------------------------------------------------------
\* The initial states satisfy it: a disabled tenant is not started at boot.
LEMMA InitStops == Init => StopsInv
<1> SUFFICES ASSUME Init PROVE StopsInv
  OBVIOUS
<1>1. /\ th["main"].pc = "off" /\ th["handler"].pc = "idle" /\ th["retry"].pc = "idle"
      /\ \A g \in Goroutines : th[g].ver = 1 /\ th[g].pc \in {"off", "idle"}
  BY DEF Init, NoWork, Goroutines
<1>2. \A t \in Tenants : tenant[t].ver = 1 /\ tenant[t].born = 1 /\ monitors[t] = 0
  BY DEF Init, None
<1>3. rev = 0 /\ notice = {} /\ queue = <<>> /\ todo = {} /\ ~registered
  BY DEF Init
<1>4. PhaseInv
  BY <1>1, <1>3 DEF PhaseInv, Booting, Working
<1>5. VerInv
  BY <1>1, <1>2, <1>3 DEF VerInv
<1>6. NoticeInv
  BY <1>3 DEF NoticeInv
<1>7. OffInv
  BY <1>1, <1>2, <1>3 DEF OffInv, QueueInv, RevivingInv, TodoInv, RunningInv, Reviving
<1> QED
  BY <1>4, <1>5, <1>6, <1>7 DEF StopsInv

\* A goroutine that goes elsewhere keeps its other locals.
LEMMA GotoKeeps ==
    ASSUME TypeOK, NEW g \in Goroutines, NEW p \in PCs, Goto(g, p)
    PROVE  /\ th'[g].pc = p /\ th'[g].t = th[g].t /\ th'[g].ver = th[g].ver /\ th'[g].ok = th[g].ok
           /\ \A h \in Goroutines : h # g => th'[h] = th[h]
<1>1. th[g] \in Local
  BY DEF TypeOK
<1>2. /\ [th[g] EXCEPT !.pc = p].pc = p
      /\ [th[g] EXCEPT !.pc = p].t = th[g].t
      /\ [th[g] EXCEPT !.pc = p].ver = th[g].ver
      /\ [th[g] EXCEPT !.pc = p].ok = th[g].ok
      /\ [th[g] EXCEPT !.pc = p] \in Local
  BY <1>1 DEF Local
<1> QED
  BY <1>2, BecomeFacts DEF Goto
----------------------------------------------------------------------------
(* Steps that leave the tenant service alone *)

\* Nothing of t is started, and what is about to stop it stays so.
Calm(t) ==
    /\ \A h \in Goroutines : Reviving(h, t)' => Reviving(h, t) /\ (h = "retry" /\ same' => same)
    /\ registered \/ \A x \in todo' : x[1] = t => x \in todo
    /\ Running(t)' => /\ monitors'[t] = monitors[t]
                      /\ Stopping(t) => Stopping(t)'
                      /\ Undoes(t) => Undoes(t)'

\* What the service announces is what it announced before.
LEMMA SameService ==
    ASSUME UNCHANGED svcVars, NEW t \in Tenants
    PROVE  /\ Off(t)' <=> Off(t)
           /\ StopAhead(t)' <=> StopAhead(t)
           /\ QueueInv(t)' <=> QueueInv(t)
  BY DEF svcVars, Off, StopAhead, Announced, QueueInv

\* A step that is calm for every disabled tenant keeps the invariant of them.
LEMMA CalmInv ==
    ASSUME TypeOK, OffInv, UNCHANGED svcVars, \A t \in Tenants : Off(t) => Calm(t)
    PROVE  OffInv'
<1> SUFFICES ASSUME NEW t \in Tenants, Off(t)'
             PROVE  QueueInv(t)' /\ RevivingInv(t)' /\ TodoInv(t)' /\ RunningInv(t)'
  BY DEF OffInv
<1>1. Off(t) /\ Calm(t)
  BY SameService
<1>2. QueueInv(t) /\ RevivingInv(t) /\ TodoInv(t) /\ RunningInv(t)
  BY <1>1 DEF OffInv
<1>3. QueueInv(t)' /\ (StopAhead(t)' <=> StopAhead(t))
  BY <1>2, SameService
<1>4. RevivingInv(t)'
  BY <1>1, <1>2, <1>3 DEF RevivingInv, Calm
<1>5. tenant' = tenant /\ registered' = registered
  BY DEF svcVars
<1>6. TodoInv(t)'
  BY <1>1, <1>2, <1>3, <1>5 DEF TodoInv, Calm
<1>7. tenant[t].born \in Nat \ {0}
  BY RevsFacts DEF TypeOK, Revs
<1>8. monitors'[t] >= tenant[t].born => monitors'[t] # None
  BY <1>7 DEF None
<1>9. RunningInv(t)'
  BY <1>1, <1>2, <1>3, <1>5, <1>8 DEF RunningInv, Calm, Running
<1> QED
  BY <1>3, <1>4, <1>6, <1>9

\* The other parts of the invariant, when only g moves.
LEMMA MoveInv ==
    ASSUME StopsInv, UNCHANGED svcVars, NEW g \in Goroutines,
           \A h \in Goroutines : h # g => th'[h] = th[h],
           g = "main" => /\ th["main"].pc \in Working <=> th'["main"].pc \in Working
                         /\ th'["main"].pc \in Booting \union Working,
           g = "handler" => registered,
           th'[g].ver <= rev + 1,
           \A t \in Tenants : monitors'[t] <= rev + 1,
           \A x \in todo' : x[2] <= rev + 1
    PROVE  PhaseInv' /\ VerInv' /\ NoticeInv'
<1> USE DEF StopsInv
<1>1. "main" \in Goroutines /\ "handler" \in Goroutines
  BY DEF Goroutines
<1>2. PhaseInv'
  BY <1>1 DEF PhaseInv, svcVars
<1>3. VerInv'
  BY DEF VerInv, svcVars
<1>4. NoticeInv'
  BY DEF NoticeInv, svcVars
<1> QED
  BY <1>2, <1>3, <1>4

\* A step of g in which nothing but its place changes, and with it perhaps what
\* only the retry loop reads.
LEMMA HopInv ==
    ASSUME TypeOK, StopsInv, UNCHANGED svcVars, NEW g \in Goroutines, NEW p \in PCs, Goto(g, p),
           g = "main" => /\ th["main"].pc \in Working <=> p \in Working
                         /\ p \in Booting \union Working,
           g = "handler" => registered,
           monitors' = monitors, todo' = todo, same' => same,
           p \in {"restart", "check", "start", "creating"} =>
               th[g].pc \in {"restart", "check", "start", "creating"},
           g = "handler" => th[g].pc # "stop",
           \A t \in Tenants : g = "retry" /\ Off(t) /\ Undoes(t) => Undoes(t)'
    PROVE  StopsInv'
<1>1. /\ th'[g].pc = p /\ th'[g].t = th[g].t /\ th'[g].ver = th[g].ver
      /\ \A h \in Goroutines : h # g => th'[h] = th[h]
  BY GotoKeeps
<1>2. th[g].ver <= rev + 1 /\ (\A t \in Tenants : monitors[t] <= rev + 1) /\ \A x \in todo : x[2] <= rev + 1
  BY DEF StopsInv, VerInv
<1>3. PhaseInv' /\ VerInv' /\ NoticeInv'
  BY <1>1, <1>2, MoveInv
<1>4. ASSUME NEW t \in Tenants, Off(t) PROVE Calm(t)
  <2>1. \A h \in Goroutines : Reviving(h, t)' => Reviving(h, t)
    BY <1>1 DEF Reviving, svcVars
  <2>2. Stopping(t) => Stopping(t)'
    BY <1>1 DEF Stopping, Goroutines
  <2>3. Undoes(t) => Undoes(t)'
    <3>1. CASE g = "retry"
      BY <1>4, <3>1
    <3>2. CASE g # "retry"
      BY <1>1, <3>2 DEF Undoes, Goroutines
    <3> QED
      BY <3>1, <3>2
  <2> QED
    BY <2>1, <2>2, <2>3 DEF Calm
<1>5. OffInv'
  BY <1>4, CalmInv DEF StopsInv
<1> QED
  BY <1>3, <1>5 DEF StopsInv
----------------------------------------------------------------------------
(* The tenant service's own steps *)

\* Every revision that is kept is a number.
LEMMA RevsAreNumbers ==
    ASSUME TypeOK
    PROVE  /\ rev \in Nat
           /\ \A t \in Tenants : tenant[t].ver \in Nat /\ tenant[t].born \in Nat /\ monitors[t] \in Nat
           /\ \A g \in Goroutines : th[g].ver \in Nat
           /\ \A x \in todo : x[2] \in Nat
           /\ \A i \in 1 .. Len(queue) : queue[i] \in Job /\ queue[i].ver \in Nat
<1>1. Revs \subseteq Nat /\ None \in Nat
  BY RevsFacts DEF None
<1>2. rev \in Nat
  BY MaxRevAssumption DEF TypeOK
<1>3. ASSUME NEW t \in Tenants
      PROVE  tenant[t].ver \in Nat /\ tenant[t].born \in Nat /\ monitors[t] \in Nat
  <2>1. tenant[t] \in [exists : BOOLEAN, on : BOOLEAN, ver : Revs, born : Revs]
    BY DEF TypeOK
  <2>2. monitors[t] \in Revs \union {None}
    BY DEF TypeOK
  <2> QED
    BY <1>1, <2>1, <2>2
<1>4. \A g \in Goroutines : th[g].ver \in Nat
  BY <1>1 DEF TypeOK, Local
<1>5. \A x \in todo : x[2] \in Nat
  BY <1>1 DEF TypeOK
<1>6. \A i \in 1 .. Len(queue) : queue[i] \in Job
  BY DEF TypeOK
<1>7. \A i \in 1 .. Len(queue) : queue[i].ver \in Nat
  BY <1>1, <1>6 DEF Job
<1> QED
  BY <1>2, <1>3, <1>4, <1>5, <1>6, <1>7

\* One change at a time: when one is accepted, the notice of the one before is
\* queued.  What turns a tenant off is announced, and what creates a tenant is
\* newer than whatever is under way.
LEMMA AcceptStops ==
    ASSUME TypeOK, StopsInv, NEW t \in Tenants, NEW event \in Events,
           NEW r \in [exists : BOOLEAN, on : BOOLEAN, ver : Revs, born : Revs],
           Accept(event, t, r), r.ver <= rev + 2, r.born <= rev + 2,
           event = "enabled" => r.on,
           r.exists /\ ~r.on => \/ event = "disabled"
                                \/ r.born = rev + 2
                                \/ tenant[t].exists /\ ~tenant[t].on /\ r.born = tenant[t].born
    PROVE  StopsInv'
<1> DEFINE job == [event |-> event, t |-> t, on |-> r.on, ver |-> r.ver]
<1> USE DEF StopsInv
<1>1. /\ rev' = rev + 1 /\ notice = {} /\ tenant' = [tenant EXCEPT ![t] = r]
      /\ UNCHANGED <<queue, registered, missed, th, mu, todo, monitors, live, pending, same, loop>>
  BY DEF Accept, poolVars, retVars
<1>2. notice' = {[event |-> event, t |-> t, on |-> r.on, ver |-> r.ver]}
  BY DEF Accept
<1>3. tenant'[t] = r /\ \A u \in Tenants : u # t => tenant'[u] = tenant[u]
  BY <1>1 DEF TypeOK
<1>4. rev \in Nat
  BY MaxRevAssumption DEF TypeOK
<1>5. PhaseInv'
  BY <1>1 DEF PhaseInv
<1>6. VerInv'
  <2>1. \A n \in Nat : n <= rev + 1 => n <= rev' + 1
    BY <1>1, <1>4
  <2>2. r.ver <= rev' + 1 /\ r.born <= rev' + 1
    BY <1>1, <1>4
  <2>3. /\ \A u \in Tenants : tenant[u].ver \in Nat /\ tenant[u].born \in Nat /\ monitors[u] \in Nat
        /\ \A g \in Goroutines : th[g].ver \in Nat
        /\ \A x \in todo : x[2] \in Nat
        /\ \A i \in 1 .. Len(queue) : queue[i].ver \in Nat
    BY RevsAreNumbers
  <2>7. \A u \in Tenants : /\ tenant'[u].ver <= rev' + 1
                           /\ tenant'[u].born <= rev' + 1
                           /\ monitors'[u] <= rev' + 1
    BY <1>1, <1>3, <2>1, <2>2, <2>3 DEF VerInv
  <2>8. \A g \in Goroutines : th'[g].ver <= rev' + 1
    BY <1>1, <2>1, <2>3 DEF VerInv
  <2>9. \A x \in todo' : x[2] <= rev' + 1
    BY <1>1, <2>1, <2>3 DEF VerInv
  <2>10. \A j \in notice' : j.ver <= rev' + 1
    BY <1>2, <2>2
  <2>11. \A i \in 1 .. Len(queue') : queue'[i].ver <= rev' + 1
    BY <1>1, <2>1, <2>3 DEF VerInv
  <2> QED
    BY <2>7, <2>8, <2>9, <2>10, <2>11 DEF VerInv
<1>7. NoticeInv'
  <2>1. job.event = event /\ job.on = r.on /\ job.t = t
    OBVIOUS
  <2>2. Starts(job) => r.on \/ event = "enabled"
    BY <2>1 DEF Starts, Ignored
  <2> QED
    BY <1>2, <1>3, <2>1, <2>2 DEF NoticeInv
<1>8. ASSUME NEW u \in Tenants, Off(u)', Off(u), tenant'[u].born = tenant[u].born
      PROVE  QueueInv(u)' /\ RevivingInv(u)' /\ TodoInv(u)' /\ RunningInv(u)'
  <2>1. ~Announced(u)
    BY <1>1 DEF Announced
  <2>2. StopAhead(u) => StopAhead(u)'
    BY <1>1, <2>1 DEF StopAhead
  <2>3. QueueInv(u) /\ RevivingInv(u) /\ TodoInv(u) /\ RunningInv(u)
    BY <1>8 DEF OffInv
  <2>4. QueueInv(u)'
    BY <1>1, <1>8, <2>1, <2>3 DEF QueueInv
  <2>5. RevivingInv(u)'
    BY <1>1, <1>8, <2>2, <2>3 DEF RevivingInv, Reviving
  <2>6. TodoInv(u)'
    BY <1>1, <1>8, <2>2, <2>3 DEF TodoInv
  <2>7. RunningInv(u)'
    BY <1>1, <1>8, <2>2, <2>3 DEF RunningInv, Stopping, Undoes
  <2> QED
    BY <2>4, <2>5, <2>6, <2>7
<1>9. ASSUME Off(t)'
      PROVE  QueueInv(t)' /\ RevivingInv(t)' /\ TodoInv(t)' /\ RunningInv(t)'
  <2>1. CASE event = "disabled"
    <3>1. Announced(t)' /\ StopAhead(t)'
      BY <1>2, <2>1 DEF Announced, Disables, StopAhead
    <3> QED
      BY <3>1 DEF QueueInv, RevivingInv, TodoInv, RunningInv
  <2>2. CASE r.born = rev + 2
    <3>1. /\ \A g \in Goroutines : th[g].ver \in Nat /\ th[g].ver <= rev + 1
          /\ monitors[t] \in Nat /\ monitors[t] <= rev + 1
          /\ \A x \in todo : x[2] \in Nat /\ x[2] <= rev + 1
          /\ \A i \in 1 .. Len(queue) : queue[i].ver \in Nat /\ queue[i].ver <= rev + 1
      BY RevsAreNumbers DEF VerInv
    <3>3. \A n \in Nat : n <= rev + 1 => ~(n >= rev + 2)
      BY <1>4
    <3>4. QueueInv(t)'
      BY <1>1, <1>3, <2>2, <3>1, <3>3 DEF QueueInv
    <3>5. RevivingInv(t)'
      BY <1>1, <1>3, <2>2, <3>1, <3>3 DEF RevivingInv, Reviving
    <3>6. TodoInv(t)'
      BY <1>1, <1>3, <2>2, <3>1, <3>3 DEF TodoInv
    <3>7. RunningInv(t)'
      BY <1>1, <1>3, <2>2, <3>1, <3>3 DEF RunningInv
    <3> QED
      BY <3>4, <3>5, <3>6, <3>7
  <2>3. CASE tenant[t].exists /\ ~tenant[t].on /\ r.born = tenant[t].born
    <3>1. Off(t)
      BY <1>1, <1>9, <2>3 DEF Off
    <3> QED
      BY <1>3, <1>8, <1>9, <2>3, <3>1
  <2>4. r.exists /\ ~r.on
    BY <1>3, <1>9 DEF Off
  <2> QED
    BY <2>1, <2>2, <2>3, <2>4
<1>10. OffInv'
  <2> SUFFICES ASSUME NEW u \in Tenants, Off(u)'
               PROVE  QueueInv(u)' /\ RevivingInv(u)' /\ TodoInv(u)' /\ RunningInv(u)'
    BY DEF OffInv
  <2>1. CASE u = t
    BY <1>9, <2>1
  <2>2. CASE u # t
    <3>1. Off(u) /\ tenant'[u].born = tenant[u].born
      BY <1>1, <1>3, <2>2 DEF Off
    <3> QED
      BY <1>8, <3>1
  <2> QED
    BY <2>1, <2>2
<1> QED
  BY <1>5, <1>6, <1>7, <1>10

\* The administrator's changes.
LEMMA AdminStops == ASSUME TypeOK, StopsInv, Admin PROVE StopsInv'
<1>0. rev \in Nat /\ \A t \in Tenants : tenant[t].ver \in Nat /\ tenant[t].born \in Nat
  BY RevsAreNumbers
<1>1. ASSUME NEW t \in Tenants, NEW on \in BOOLEAN, CreateTenant(t, on) PROVE StopsInv'
  <2> DEFINE r == [exists |-> TRUE, on |-> on, ver |-> rev + 2, born |-> rev + 2]
  <2>1. Accept("added", t, r) /\ "added" \in Events
    BY <1>1 DEF CreateTenant, Events
  <2>2. rev + 2 \in Revs
    BY <2>1, RevsFacts DEF Accept, TypeOK
  <2>3. /\ r \in [exists : BOOLEAN, on : BOOLEAN, ver : Revs, born : Revs]
        /\ r.ver <= rev + 2 /\ r.born = rev + 2 /\ r.born <= rev + 2
    BY <1>0, <2>2
  <2> HIDE DEF r
  <2> QED
    BY <2>1, <2>3, AcceptStops
<1>2. ASSUME NEW t \in Tenants, NEW on \in BOOLEAN, UpdateTenant(t, on) PROVE StopsInv'
  <2> DEFINE r == [tenant[t] EXCEPT !.on = on, !.ver = rev + 2]
             event == IF ~tenant[t].on /\ on THEN "enabled"
                      ELSE IF tenant[t].on /\ ~on THEN "disabled" ELSE "updated"
  <2>1. Accept(event, t, r) /\ event \in Events /\ tenant[t].exists
    BY <1>2 DEF UpdateTenant, Events
  <2>2. rev + 2 \in Revs
    BY <2>1, RevsFacts DEF Accept, TypeOK
  <2>3. tenant[t] \in [exists : BOOLEAN, on : BOOLEAN, ver : Revs, born : Revs]
    BY DEF TypeOK
  <2>4. /\ r \in [exists : BOOLEAN, on : BOOLEAN, ver : Revs, born : Revs]
        /\ r.ver = rev + 2 /\ r.born = tenant[t].born /\ r.on = on
    BY <2>2, <2>3
  <2>5. tenant[t].born <= rev + 2 /\ rev + 2 <= rev + 2
    BY <1>0 DEF StopsInv, VerInv
  <2>6. event = "enabled" => on
    OBVIOUS
  <2>7. ~on => event = "disabled" \/ ~tenant[t].on
    OBVIOUS
  <2> HIDE DEF r, event
  <2> QED
    BY <2>1, <2>4, <2>5, <2>6, <2>7, AcceptStops
<1>3. ASSUME NEW t \in Tenants, DeleteTenant(t) PROVE StopsInv'
  <2> DEFINE r == [tenant[t] EXCEPT !.exists = FALSE]
  <2>1. Accept("removed", t, r) /\ "removed" \in Events
    BY <1>3 DEF DeleteTenant, Events
  <2>2. tenant[t] \in [exists : BOOLEAN, on : BOOLEAN, ver : Revs, born : Revs]
    BY DEF TypeOK
  <2>3. /\ r \in [exists : BOOLEAN, on : BOOLEAN, ver : Revs, born : Revs]
        /\ r.ver = tenant[t].ver /\ r.born = tenant[t].born /\ ~r.exists
    BY <2>2
  <2>4. tenant[t].ver <= rev + 2 /\ tenant[t].born <= rev + 2
    BY <1>0 DEF StopsInv, VerInv
  <2> HIDE DEF r
  <2> QED
    BY <2>1, <2>3, <2>4, AcceptStops
<1> QED
  BY <1>1, <1>2, <1>3 DEF Admin

\* A notice that is queued joins the end of the queue; one that is queued for
\* nobody leaves its tenant to the missed ones.
LEMMA NotifyStops == ASSUME TypeOK, StopsInv, NotifyCallbacks PROVE StopsInv'
<1> USE DEF StopsInv
<1>1. /\ notice' = {} /\ tenant' = tenant /\ rev' = rev /\ registered' = registered /\ th' = th
      /\ monitors' = monitors /\ todo' = todo /\ same' = same
  BY DEF NotifyCallbacks, poolVars, retVars
<1>2. queue \in Seq(Job)
  BY DEF TypeOK
<1>3. CASE registered
  <2>1. PICK job \in notice : queue' = Append(queue, job) /\ missed' = missed
    BY <1>3 DEF NotifyCallbacks
  <2>2. job \in Job
    BY DEF TypeOK
  <2>3. /\ Len(queue') = Len(queue) + 1 /\ Len(queue) \in Nat
        /\ queue'[Len(queue) + 1] = job
        /\ \A i \in 1 .. Len(queue) : queue'[i] = queue[i]
    BY <1>2, <2>1, <2>2
  <2>4. \A i \in 1 .. Len(queue') : i \in 1 .. Len(queue) \/ i = Len(queue) + 1
    BY <2>3
  <2>5. \A i \in 1 .. Len(queue) + 1 : i \in 1 .. Len(queue')
    BY <2>3
  <2>6. PhaseInv'
    BY <1>1, <1>3 DEF PhaseInv
  <2>7. VerInv'
    <3>1. \A i \in 1 .. Len(queue') : queue'[i].ver <= rev + 1
      BY <2>3, <2>4 DEF VerInv
    <3> QED
      BY <1>1, <3>1 DEF VerInv
  <2>8. NoticeInv'
    BY <1>1 DEF NoticeInv
  <2>9. OffInv'
    <3> SUFFICES ASSUME NEW t \in Tenants, Off(t)'
                 PROVE  QueueInv(t)' /\ RevivingInv(t)' /\ TodoInv(t)' /\ RunningInv(t)'
      BY DEF OffInv
    <3>1. Off(t)
      BY <1>1, <2>1 DEF Off
    <3>2. QueueInv(t) /\ RevivingInv(t) /\ TodoInv(t) /\ RunningInv(t)
      BY <3>1 DEF OffInv
    <3>3. Announced(t) => Disables(job, t)
      BY DEF Announced, NoticeInv
    <3>4. StopAhead(t) => StopAhead(t)'
      <4>1. CASE Announced(t)
        BY <2>3, <2>5, <3>3, <4>1 DEF StopAhead
      <4>2. CASE ~Announced(t)
        BY <2>3, <2>5, <4>2 DEF StopAhead
      <4> QED
        BY <4>1, <4>2
    <3>5. QueueInv(t)'
      <4> SUFFICES ASSUME NEW i \in 1 .. Len(queue'), queue'[i].t = t, Starts(queue'[i]),
                          queue'[i].ver >= tenant[t].born
                   PROVE  \E k \in i + 1 .. Len(queue') : Disables(queue'[k], t)
        BY <1>1 DEF QueueInv
      <4>1. CASE i \in 1 .. Len(queue)
        <5>1. queue'[i] = queue[i]
          BY <2>3, <4>1
        <5>2. Announced(t) \/ \E k \in i + 1 .. Len(queue) : Disables(queue[k], t)
          BY <3>2, <4>1, <5>1 DEF QueueInv
        <5>3. CASE Announced(t)
          <6>1. Disables(queue'[Len(queue) + 1], t) /\ Len(queue) + 1 \in i + 1 .. Len(queue')
            BY <2>3, <3>3, <4>1, <5>3
          <6> QED
            BY <6>1
        <5>4. ASSUME NEW k \in i + 1 .. Len(queue), Disables(queue[k], t)
              PROVE  k \in i + 1 .. Len(queue') /\ Disables(queue'[k], t)
          <6>1. k \in 1 .. Len(queue) /\ k \in i + 1 .. Len(queue')
            BY <2>3, <4>1
          <6> QED
            BY <2>3, <5>4, <6>1
        <5> QED
          BY <5>2, <5>3, <5>4
      <4>2. CASE i = Len(queue) + 1
        <5>1. job.t = t /\ Starts(job)
          BY <2>3, <4>2
        <5> QED
          BY <3>1, <5>1 DEF NoticeInv, Off
      <4> QED
        BY <2>4, <4>1, <4>2
    <3>6. RevivingInv(t)'
      BY <1>1, <3>2, <3>4 DEF RevivingInv, Reviving
    <3>7. TodoInv(t)'
      BY <1>1, <3>2, <3>4 DEF TodoInv
    <3>8. RunningInv(t)'
      BY <1>1, <3>2, <3>4 DEF RunningInv, Stopping, Undoes
    <3> QED
      BY <3>5, <3>6, <3>7, <3>8
  <2> QED
    BY <2>6, <2>7, <2>8, <2>9
<1>4. CASE ~registered
  <2>1. missed' = missed \union {job.t : job \in notice} /\ queue' = queue
    BY <1>4 DEF NotifyCallbacks
  <2>2. PhaseInv' /\ VerInv' /\ NoticeInv'
    BY <1>1, <2>1 DEF PhaseInv, VerInv, NoticeInv
  <2>3. ASSUME NEW t \in Tenants, Off(t)'
        PROVE  QueueInv(t)' /\ RevivingInv(t)' /\ TodoInv(t)' /\ RunningInv(t)'
    <3>1. Off(t) /\ ~Announced(t)
      BY <1>1, <2>1, <2>3 DEF Off, Announced, Disables
    <3>2. QueueInv(t) /\ RevivingInv(t) /\ TodoInv(t) /\ RunningInv(t)
      BY <3>1 DEF OffInv
    <3>3. StopAhead(t) => StopAhead(t)'
      BY <2>1, <3>1 DEF StopAhead
    <3>4. QueueInv(t)'
      BY <1>1, <2>1, <3>1, <3>2 DEF QueueInv
    <3>5. RevivingInv(t)'
      BY <1>1, <3>2, <3>3 DEF RevivingInv, Reviving
    <3>6. TodoInv(t)'
      BY <1>1, <3>2, <3>3 DEF TodoInv
    <3>7. RunningInv(t)'
      BY <1>1, <3>2, <3>3 DEF RunningInv, Stopping, Undoes
    <3> QED
      BY <3>4, <3>5, <3>6, <3>7
  <2>4. OffInv'
    BY <2>3 DEF OffInv
  <2> QED
    BY <2>2, <2>4
<1> QED
  BY <1>3, <1>4
----------------------------------------------------------------------------
(* One lemma per goroutine *)

\* startMonitorForTenant and startFailed.  When a monitor starts that should not
\* run, what was to stop the start will stop the monitor.
LEMMA StartStops ==
    ASSUME IInv, StopsInv, NEW g \in Goroutines, StartStep(g), g = "handler" => registered
    PROVE  StopsInv'
<1> USE DEF IInv, StopsInv
<1>0. th[g] \in Local
  BY DEF TypeOK
<1>a. /\ th[g].ver <= rev + 1 /\ (\A t \in Tenants : monitors[t] <= rev + 1)
      /\ \A x \in todo : x[2] <= rev + 1
  BY DEF VerInv
<1>b. "creating" \in Booting /\ "started" \in Booting /\ "alert" \in Booting
      /\ "schedule" \in Booting /\ "start" \in Booting /\ "pick" \in Booting
      /\ Booting \intersect Working = {}
  BY DEF Booting, Working
<1>1. CASE StartBegin(g)
  <2>1. UNCHANGED svcVars /\ UNCHANGED <<todo, monitors, same>> /\ th[g].pc = "start"
    BY <1>1 DEF StartBegin, retVars
  <2>2. CASE Goto(g, "creating")
    <3>1. "creating" \in PCs
      BY DEF PCs
    <3>3. \A t \in Tenants : g = "retry" /\ Undoes(t) => FALSE
      BY <2>1 DEF Undoes
    <3> QED
      BY <1>b, <2>1, <2>2, <3>1, <3>3, HopInv
  <2>3. CASE Become(g, [th[g] EXCEPT !.pc = "started", !.ok = FALSE])
    <3> DEFINE l == [th[g] EXCEPT !.pc = "started", !.ok = FALSE]
    <3>1. l \in Local /\ l.pc = "started" /\ ~l.ok /\ l.ver = th[g].ver
      BY <1>0 DEF Local, PCs
    <3>2. th'[g] = l /\ \A h \in Goroutines : h # g => th'[h] = th[h]
      BY <2>3, <3>1, BecomeFacts
    <3> HIDE DEF l
    <3>3. PhaseInv' /\ VerInv' /\ NoticeInv'
      BY <1>a, <1>b, <2>1, <3>1, <3>2, MoveInv
    <3>4. ASSUME NEW t \in Tenants, Off(t) PROVE Calm(t)
      <4>1. \A h \in Goroutines : Reviving(h, t)' => Reviving(h, t)
        BY <2>1, <3>1, <3>2 DEF Reviving, svcVars
      <4>2. Stopping(t) => Stopping(t)'
        BY <2>1, <3>1, <3>2 DEF Stopping, Goroutines
      <4>3. Undoes(t) => Undoes(t)'
        BY <2>1, <3>1, <3>2 DEF Undoes, Goroutines
      <4> QED
        BY <2>1, <4>1, <4>2, <4>3 DEF Calm
    <3>5. OffInv'
      BY <2>1, <3>4, CalmInv
    <3> QED
      BY <3>3, <3>5
  <2> QED
    BY <1>1, <2>2, <2>3 DEF StartBegin
<1>2. CASE StartEnd(g)
  <2>1. UNCHANGED svcVars /\ UNCHANGED <<todo, same>> /\ th[g].pc = "creating"
    BY <1>2 DEF StartEnd, retVars
  <2>2. PICK b \in BOOLEAN :
          /\ Become(g, [th[g] EXCEPT !.pc = "started", !.ok = b])
          /\ IF b THEN monitors' = [monitors EXCEPT ![th[g].t] = th[g].ver]
             ELSE monitors' = monitors
    BY <1>2 DEF StartEnd
  <2> DEFINE l == [th[g] EXCEPT !.pc = "started", !.ok = b]
  <2>3. l \in Local /\ l.pc = "started" /\ l.ok = b /\ l.ver = th[g].ver /\ l.t = th[g].t
    BY <1>0 DEF Local, PCs
  <2>4. th'[g] = l /\ \A h \in Goroutines : h # g => th'[h] = th[h]
    BY <2>2, <2>3, BecomeFacts
  <2> HIDE DEF l
  <2>5. th[g].t \in Tenants
    BY <1>0 DEF Local
  <2>6. \A t \in Tenants : monitors'[t] = IF b /\ t = th[g].t THEN th[g].ver ELSE monitors[t]
    BY <2>2, <2>5 DEF TypeOK
  <2>7. \A t \in Tenants : monitors'[t] <= rev + 1
    BY <1>a, <2>6
  <2>8. PhaseInv' /\ VerInv' /\ NoticeInv'
    BY <1>a, <1>b, <2>1, <2>3, <2>4, <2>7, MoveInv
  <2>9. ASSUME NEW t \in Tenants, Off(t)'
        PROVE  QueueInv(t)' /\ RevivingInv(t)' /\ TodoInv(t)' /\ RunningInv(t)'
    <3>1. /\ Off(t)
          /\ StopAhead(t)' <=> StopAhead(t)
          /\ QueueInv(t)' <=> QueueInv(t)
      BY <2>1, <2>9, SameService
    <3>2. QueueInv(t) /\ RevivingInv(t) /\ TodoInv(t) /\ RunningInv(t)
      BY <3>1 DEF OffInv
    <3>3. tenant' = tenant /\ registered' = registered
      BY <2>1 DEF svcVars
    <3>4. \A h \in Goroutines : Reviving(h, t)' => Reviving(h, t)
      BY <2>3, <2>4, <3>3 DEF Reviving
    <3>5. RevivingInv(t)'
      BY <2>1, <3>1, <3>2, <3>4 DEF RevivingInv
    <3>6. TodoInv(t)'
      BY <2>1, <3>1, <3>2, <3>3 DEF TodoInv
    <3>7. Stopping(t) => Stopping(t)'
      BY <2>1, <2>4 DEF Stopping, Goroutines
    <3>8. Undoes(t) => Undoes(t)'
      BY <2>1, <2>4 DEF Undoes, Goroutines
    <3>9. CASE b /\ t = th[g].t
      <4>1. th[g].ver >= tenant[t].born => Reviving(g, t)
        BY <2>1, <3>9 DEF Reviving
      <4>2. g = "retry" /\ ~same => Undoes(t)'
        BY <2>1, <2>3, <2>4, <3>9 DEF Undoes
      <4>3. monitors'[t] >= tenant'[t].born => StopAhead(t) \/ Undoes(t)'
        BY <2>6, <3>2, <3>3, <3>9, <4>1, <4>2 DEF RevivingInv
      <4> QED
        BY <3>1, <3>2, <3>5, <3>6, <4>3 DEF RunningInv
    <3>10. CASE ~(b /\ t = th[g].t)
      <4>1. monitors'[t] = monitors[t]
        BY <2>6, <3>10
      <4>2. RunningInv(t)'
        BY <3>1, <3>2, <3>3, <3>7, <3>8, <4>1 DEF RunningInv
      <4> QED
        BY <3>1, <3>2, <3>5, <3>6, <4>2
    <3> QED
      BY <3>9, <3>10
  <2>10. OffInv'
    BY <2>9 DEF OffInv
  <2> QED
    BY <2>8, <2>10
<1>3. CASE Settle(g)
  <2>1. PICK p \in {"pick", "idle", "alert"} :
          Goto(g, p) /\ (g = "main" => p \in {"pick", "alert"})
    BY <1>3 DEF Settle, Home
  <2>2. UNCHANGED svcVars /\ UNCHANGED <<todo, monitors, same>> /\ th[g].pc = "started" /\ g # "retry"
    BY <1>3 DEF Settle, poolVars, retVars
  <2>3. p \in PCs
    BY DEF PCs
  <2> QED
    BY <1>b, <2>1, <2>2, <2>3, HopInv
<1>4. CASE RaiseAlert(g)
  <2>1. Goto(g, "schedule") /\ UNCHANGED svcVars /\ UNCHANGED <<todo, monitors, same>> /\ th[g].pc = "alert"
    BY <1>4 DEF RaiseAlert, poolVars, retVars
  <2>2. "schedule" \in PCs
    BY DEF PCs
  <2>3. \A t \in Tenants : g = "retry" /\ Undoes(t) => FALSE
    BY <2>1 DEF Undoes
  <2> QED
    BY <1>b, <2>1, <2>2, <2>3, HopInv
<1>5. CASE ScheduleRetry(g)
  <2>1. PICK p \in {"pick", "idle"} : Goto(g, p) /\ (g = "main" => p = "pick")
    BY <1>5 DEF ScheduleRetry, Home
  <2>2. UNCHANGED svcVars /\ UNCHANGED <<todo, monitors, same>> /\ th[g].pc = "schedule"
    BY <1>5 DEF ScheduleRetry, poolVars
  <2>3. p \in PCs
    BY DEF PCs
  <2>4. \A t \in Tenants : g = "retry" /\ Undoes(t) => FALSE
    BY <2>2 DEF Undoes
  <2> QED
    BY <1>b, <2>1, <2>2, <2>3, <2>4, HopInv
<1> QED
  BY <1>1, <1>2, <1>3, <1>4, <1>5 DEF StartStep

\* The callback worker.  The change it takes that disables a tenant cancels the
\* tenant's retry and stops its monitor.
LEMMA HandlerStops == ASSUME IInv, StopsInv, Handler PROVE StopsInv'
<1> USE DEF IInv, StopsInv
<1> "handler" \in Goroutines
  BY DEF Goroutines
<1>0. th["handler"] \in Local
  BY DEF TypeOK
<1>a. /\ th["handler"].ver <= rev + 1 /\ (\A t \in Tenants : monitors[t] <= rev + 1)
      /\ \A x \in todo : x[2] <= rev + 1
  BY DEF VerInv
<1>1. CASE HandleTenantChange
  <2> DEFINE job == Head(queue)
             l == [pc |-> FirstStep(job), t |-> job.t, ver |-> job.ver, ok |-> FALSE]
  <2>1. /\ queue \in Seq(Job) /\ queue # <<>> /\ queue' = Tail(queue)
        /\ th["handler"].pc = "idle"
        /\ UNCHANGED <<tenant, rev, notice, registered, missed, todo, monitors>>
    BY <1>1 DEF HandleTenantChange, TypeOK, poolVars
  <2>2. /\ job \in Job /\ job = queue[1] /\ 1 \in 1 .. Len(queue)
        /\ Len(queue) \in Nat /\ Len(queue') = Len(queue) - 1
        /\ \A i \in 1 .. Len(queue') : queue'[i] = queue[i + 1] /\ i + 1 \in 1 .. Len(queue)
    BY <2>1
  <2>3. \A i \in 1 .. Len(queue) : i # 1 => i - 1 \in 1 .. Len(queue') /\ queue'[i - 1] = queue[i]
    BY <2>1, <2>2
  <2>4. registered
    BY <2>1 DEF PhaseInv
  <2>5. \/ Ignored(job) /\ UNCHANGED <<th, pending, same>>
        \/ ~Ignored(job) /\ CancelRetry(job.t) /\ Become("handler", l)
    BY <1>1 DEF HandleTenantChange
  <2>6. ~Ignored(job) => FirstStep(job) \in {"start", "restart", "stop"}
    BY <2>2 DEF FirstStep, Job, Events
  <2>7. ~Ignored(job) => l \in Local
    BY <2>2, <2>6 DEF Local, PCs, Job
  <2>8. ~Ignored(job) => /\ th'["handler"].pc = FirstStep(job) /\ th'["handler"].t = job.t
                         /\ th'["handler"].ver = job.ver
                         /\ \A h \in Goroutines : h # "handler" => th'[h] = th[h]
    <3>1. l.pc = FirstStep(job) /\ l.t = job.t /\ l.ver = job.ver
      OBVIOUS
    <3> HIDE DEF l
    <3> QED
      BY <2>5, <2>7, <3>1, BecomeFacts
  <2> HIDE DEF job, l
  <2>9. \A h \in Goroutines : h # "handler" => th'[h] = th[h]
    BY <2>5, <2>8
  <2>10. PhaseInv'
    BY <2>1, <2>4, <2>9 DEF PhaseInv, Goroutines
  <2>11. VerInv'
    <3>1. job.ver <= rev + 1
      BY <2>2 DEF VerInv
    <3>2. \A g \in Goroutines : th'[g].ver <= rev + 1
      BY <2>5, <2>8, <3>1 DEF VerInv
    <3>3. \A i \in 1 .. Len(queue') : queue'[i].ver <= rev + 1
      BY <2>2 DEF VerInv
    <3> QED
      BY <2>1, <3>2, <3>3 DEF VerInv
  <2>12. NoticeInv'
    BY <2>1 DEF NoticeInv
  <2>13. ASSUME NEW t \in Tenants, Off(t)'
         PROVE  QueueInv(t)' /\ RevivingInv(t)' /\ TodoInv(t)' /\ RunningInv(t)'
    <3>1. Off(t) /\ (Announced(t)' <=> Announced(t))
      BY <2>1, <2>13 DEF Off, Announced
    <3>2. QueueInv(t) /\ RevivingInv(t) /\ TodoInv(t) /\ RunningInv(t)
      BY <3>1 DEF OffInv
    <3>3. TodoInv(t)'
      BY <2>1, <2>4 DEF TodoInv
    <3>4. QueueInv(t)'
      <4> SUFFICES ASSUME NEW i \in 1 .. Len(queue'), queue'[i].t = t, Starts(queue'[i]),
                          queue'[i].ver >= tenant[t].born, ~Announced(t)
                   PROVE  \E k \in i + 1 .. Len(queue') : Disables(queue'[k], t)
        BY <2>1, <3>1 DEF QueueInv
      <4>1. PICK k \in (i + 1) + 1 .. Len(queue) : Disables(queue[k], t)
        BY <2>2, <3>2 DEF QueueInv
      <4>2. k - 1 \in i + 1 .. Len(queue') /\ k \in 1 .. Len(queue) /\ k # 1
        BY <2>2, <4>1
      <4>3. queue'[k - 1] = queue[k]
        BY <2>3, <4>2
      <4> QED
        BY <4>1, <4>2, <4>3
    <3>5. CASE Disables(job, t)
      <4>1. ~Ignored(job) /\ FirstStep(job) = "stop" /\ job.t = t
        BY <3>5 DEF Disables, Ignored, FirstStep
      <4>2. Stopping(t)'
        BY <2>8, <4>1 DEF Stopping
      <4>3. th[ "retry"].t = t => ~same'
        BY <2>5, <4>1 DEF CancelRetry
      <4>4. \A g \in Goroutines : Reviving(g, t)' => g = "retry" /\ th["retry"].t = t
        <5>1. ~Reviving("handler", t)'
          BY <2>8, <4>1 DEF Reviving
        <5>2. ~Reviving("main", t)
          BY <2>4 DEF Reviving, PhaseInv, Working
        <5>3. ~Reviving("main", t)'
          BY <2>1, <2>9, <5>2 DEF Reviving, Goroutines
        <5>4. Reviving("retry", t)' => th["retry"].t = t
          BY <2>9 DEF Reviving, Goroutines
        <5> QED
          BY <5>1, <5>3, <5>4 DEF Goroutines
      <4>5. RevivingInv(t)'
        BY <4>3, <4>4 DEF RevivingInv
      <4>6. RunningInv(t)'
        BY <4>2 DEF RunningInv
      <4> QED
        BY <3>3, <3>4, <4>5, <4>6
    <3>6. CASE ~Disables(job, t)
      <4>1. StopAhead(t) => StopAhead(t)'
        <5>1. CASE Announced(t)
          BY <3>1, <5>1 DEF StopAhead
        <5>2. ASSUME NEW k \in 1 .. Len(queue), Disables(queue[k], t) PROVE StopAhead(t)'
          <6>1. k # 1
            BY <2>2, <3>6, <5>2
          <6> QED
            BY <2>3, <5>2, <6>1 DEF StopAhead
        <5> QED
          BY <5>1, <5>2 DEF StopAhead
      <4>2. same' => same
        BY <2>5 DEF CancelRetry
      <4>3. ASSUME Reviving("handler", t)', ~Ignored(job) PROVE StopAhead(t)'
        <5>1. FirstStep(job) \in {"start", "restart"} /\ job.t = t /\ job.ver >= tenant[t].born
          BY <2>1, <2>6, <2>8, <4>3 DEF Reviving
        <5>2. job.event \in {"added", "updated", "enabled"}
          BY <2>2, <5>1 DEF FirstStep, Job, Events
        <5>3. Starts(queue[1]) /\ queue[1].t = t /\ queue[1].ver >= tenant[t].born
          BY <2>2, <4>3, <5>1, <5>2 DEF Starts
        <5>4. Announced(t) \/ \E k \in 1 + 1 .. Len(queue) : Disables(queue[k], t)
          BY <2>2, <3>2, <5>3 DEF QueueInv
        <5>5. StopAhead(t)
          BY <2>2, <5>4 DEF StopAhead
        <5> QED
          BY <4>1, <5>5
      <4>4. \A g \in Goroutines : Reviving(g, t)' => Reviving(g, t) \/ (g = "handler" /\ ~Ignored(job))
        BY <2>1, <2>5, <2>9 DEF Reviving
      <4>5. RevivingInv(t)'
        BY <3>2, <4>1, <4>2, <4>3, <4>4 DEF RevivingInv
      <4>6. ~Stopping(t)
        BY <2>1 DEF Stopping
      <4>7. Undoes(t) => Undoes(t)'
        BY <2>9, <4>2 DEF Undoes, Goroutines
      <4>8. RunningInv(t)'
        BY <2>1, <3>2, <4>1, <4>6, <4>7 DEF RunningInv
      <4> QED
        BY <3>3, <3>4, <4>5, <4>8
    <3> QED
      BY <3>5, <3>6
  <2>14. OffInv'
    BY <2>13 DEF OffInv
  <2> QED
    BY <2>10, <2>11, <2>12, <2>14
<1>2. CASE HandlerStop
  <2>1. PICK p \in {"start", "close"} :
          Goto("handler", p) /\ (p = "start" => th["handler"].pc = "restart")
    BY <1>2 DEF HandlerStop
  <2>2. p \in PCs
    BY DEF PCs
  <2>3. /\ th'["handler"].pc = p /\ th'["handler"].t = th["handler"].t
        /\ th'["handler"].ver = th["handler"].ver
        /\ \A h \in Goroutines : h # "handler" => th'[h] = th[h]
    BY <2>1, <2>2, GotoKeeps
  <2>4. /\ UNCHANGED svcVars /\ UNCHANGED <<todo, same>>
        /\ th["handler"].pc \in {"restart", "stop"}
        /\ monitors' = [monitors EXCEPT ![th["handler"].t] = None]
    BY <1>2 DEF HandlerStop, StopMonitorForTenant, retVars
  <2>5. th["handler"].t \in Tenants
    BY <1>0 DEF Local
  <2>6. \A t \in Tenants : monitors'[t] = IF t = th["handler"].t THEN None ELSE monitors[t]
    BY <2>4, <2>5 DEF TypeOK
  <2>7. rev \in Nat
    BY RevsAreNumbers
  <2>8. \A t \in Tenants : monitors'[t] <= rev + 1
    BY <1>a, <2>6, <2>7 DEF None
  <2>9. registered
    BY <2>4 DEF PhaseInv
  <2>10. PhaseInv' /\ VerInv' /\ NoticeInv'
    BY <1>a, <2>3, <2>4, <2>8, <2>9, MoveInv
  <2>11. ASSUME NEW t \in Tenants, Off(t) PROVE Calm(t)
    <3>1. \A h \in Goroutines : Reviving(h, t)' => Reviving(h, t)
      BY <2>1, <2>3, <2>4 DEF Reviving, svcVars
    <3>2. Running(t)' => t # th["handler"].t /\ monitors'[t] = monitors[t]
      BY <2>6 DEF Running
    <3>3. Undoes(t) => Undoes(t)'
      BY <2>3, <2>4 DEF Undoes, Goroutines
    <3> QED
      BY <2>4, <2>9, <3>1, <3>2, <3>3 DEF Calm, Stopping
  <2>12. OffInv'
    BY <2>4, <2>11, CalmInv
  <2> QED
    BY <2>10, <2>12
<1>3. CASE HandlerClose
  <2>1. /\ Goto("handler", "idle") /\ UNCHANGED svcVars /\ UNCHANGED <<todo, monitors, same>>
        /\ th["handler"].pc = "close"
    BY <1>3 DEF HandlerClose, poolVars, retVars
  <2>2. "idle" \in PCs /\ registered
    BY <2>1 DEF PCs, PhaseInv
  <2> QED
    BY <2>1, <2>2, HopInv
<1>4. CASE StartStep("handler")
  <2>1. registered
    BY <1>4 DEF PhaseInv, StartStep, StartBegin, StartEnd, Settle, RaiseAlert, ScheduleRetry
  <2> QED
    BY <1>4, <2>1, StartStops
<1> QED
  BY <1>1, <1>2, <1>3, <1>4 DEF Handler

\* Steps that move no goroutine and stop no monitor.
LEMMA StillStops ==
    ASSUME IInv, StopsInv, UNCHANGED svcVars, UNCHANGED <<th, monitors, todo, same>>
    PROVE  StopsInv'
<1> USE DEF IInv, StopsInv
<1>1. PhaseInv' /\ VerInv' /\ NoticeInv'
  BY DEF PhaseInv, VerInv, NoticeInv, svcVars
<1>2. \A t \in Tenants : Calm(t)
  BY DEF Calm, Reviving, Stopping, Undoes, svcVars
<1>3. OffInv'
  BY <1>2, CalmInv
<1> QED
  BY <1>1, <1>3

\* The retry loop.  A monitor it starts for a tenant that was disabled meanwhile
\* it stops again, because handling that change cancelled its entry.
LEMMA RetryStops == ASSUME IInv, StopsInv, RetryLoop PROVE StopsInv'
<1> USE DEF IInv, StopsInv
<1> "retry" \in Goroutines
  BY DEF Goroutines
<1>0. th["retry"] \in Local
  BY DEF TypeOK
<1>a. /\ th["retry"].ver <= rev + 1 /\ (\A t \in Tenants : monitors[t] <= rev + 1)
      /\ \A x \in todo : x[2] <= rev + 1
  BY DEF VerInv
<1>b. {"schedule", "drop", "check", "start", "idle", "recheck", "errcheck", "alert", "undo"} \subseteq PCs
  BY DEF PCs
<1>1. ASSUME NEW t \in Tenants, RetryBegin(t) PROVE StopsInv'
  <2> DEFINE l == [th["retry"] EXCEPT !.pc = "read", !.t = t]
  <2>1. l \in Local /\ l.pc = "read" /\ l.ver = th["retry"].ver
    BY <1>0 DEF Local, PCs
  <2>2. /\ Become("retry", l) /\ UNCHANGED svcVars /\ UNCHANGED <<todo, monitors>>
        /\ th["retry"].pc = "idle"
    BY <1>1 DEF RetryBegin, poolVars
  <2>3. th'["retry"] = l /\ \A h \in Goroutines : h # "retry" => th'[h] = th[h]
    BY <2>1, <2>2, BecomeFacts
  <2> HIDE DEF l
  <2>4. PhaseInv' /\ VerInv' /\ NoticeInv'
    BY <1>a, <2>1, <2>2, <2>3, MoveInv
  <2>5. ASSUME NEW u \in Tenants, Off(u) PROVE Calm(u)
    <3>1. ~Reviving("retry", u)' /\ ~Undoes(u)
      BY <2>1, <2>2, <2>3 DEF Reviving, Undoes
    <3>2. \A h \in Goroutines : Reviving(h, u)' => Reviving(h, u) /\ h # "retry"
      BY <2>2, <2>3, <3>1 DEF Reviving, svcVars
    <3>3. Stopping(u) => Stopping(u)'
      BY <2>3 DEF Stopping, Goroutines
    <3> QED
      BY <2>2, <3>1, <3>2, <3>3 DEF Calm
  <2>6. OffInv'
    BY <2>2, <2>5, CalmInv
  <2> QED
    BY <2>4, <2>6
<1>2. CASE RetryRead
  <2> DEFINE r == tenant[th["retry"].t]
             l == [th["retry"] EXCEPT !.pc = "check", !.ver = r.ver]
  <2>1. UNCHANGED svcVars /\ UNCHANGED <<todo, monitors, same>> /\ th["retry"].pc = "read"
    BY <1>2 DEF RetryRead, poolVars, retVars
  <2>2. \A t \in Tenants : ~Undoes(t)
    BY <2>1 DEF Undoes
  <2>3. CASE r.exists /\ r.on /\ Become("retry", l)
    <3>1. th["retry"].t \in Tenants
      BY <1>0 DEF Local
    <3>2. r.ver \in Revs /\ r.ver <= rev + 1
      BY <3>1 DEF TypeOK, VerInv
    <3>3. l \in Local /\ l.pc = "check" /\ l.ver = r.ver /\ l.t = th["retry"].t
      BY <1>0, <3>2 DEF Local, PCs
    <3>4. ~Off(th["retry"].t)
      BY <2>3 DEF Off
    <3> HIDE DEF l
    <3>5. th'["retry"] = l /\ \A h \in Goroutines : h # "retry" => th'[h] = th[h]
      BY <2>3, <3>3, BecomeFacts
    <3>6. PhaseInv' /\ VerInv' /\ NoticeInv'
      BY <1>a, <2>1, <3>2, <3>3, <3>5, MoveInv
    <3>7. ASSUME NEW t \in Tenants, Off(t) PROVE Calm(t)
      <4>1. ~Reviving("retry", t)'
        BY <3>3, <3>4, <3>5, <3>7 DEF Reviving
      <4>2. \A h \in Goroutines : Reviving(h, t)' => Reviving(h, t) /\ h # "retry"
        BY <2>1, <3>5, <4>1 DEF Reviving, svcVars
      <4>3. Stopping(t) => Stopping(t)'
        BY <3>5 DEF Stopping, Goroutines
      <4> QED
        BY <2>1, <2>2, <4>2, <4>3 DEF Calm
    <3>8. OffInv'
      BY <2>1, <3>7, CalmInv
    <3> QED
      BY <3>6, <3>8
  <2>4. ASSUME NEW p \in {"schedule", "drop"}, Goto("retry", p) PROVE StopsInv'
    BY <1>b, <2>1, <2>2, <2>4, HopInv
  <2> QED
    BY <1>2, <2>3, <2>4 DEF RetryRead
<1>3. CASE RetryCheck
  <2>1. PICK p \in {"drop", "start"} : Goto("retry", p)
    BY <1>3 DEF RetryCheck
  <2>2. UNCHANGED svcVars /\ UNCHANGED <<todo, monitors, same>> /\ th["retry"].pc = "check"
    BY <1>3 DEF RetryCheck, poolVars, retVars
  <2>3. \A t \in Tenants : ~Undoes(t)
    BY <2>2 DEF Undoes
  <2> QED
    BY <1>b, <2>1, <2>2, <2>3, HopInv
<1>4. CASE RetryDrop
  <2>1. /\ Goto("retry", "idle") /\ UNCHANGED svcVars /\ UNCHANGED <<todo, monitors>>
        /\ th["retry"].pc = "drop" /\ ~same'
    BY <1>4 DEF RetryDrop, CancelRetry, poolVars
  <2>2. \A t \in Tenants : ~Undoes(t)
    BY <2>1 DEF Undoes
  <2> QED
    BY <1>b, <2>1, <2>2, HopInv
<1>5. CASE RetrySettle
  <2> DEFINE me == th["retry"]
             l == [me EXCEPT !.pc = "errcheck", !.ok = same]
  <2>1. UNCHANGED svcVars /\ UNCHANGED <<todo, monitors, same>> /\ me.pc = "started"
    BY <1>5 DEF RetrySettle, poolVars
  <2>2. CASE me.ok /\ same /\ Goto("retry", "idle")
    <3>1. \A t \in Tenants : ~Undoes(t)
      BY <2>1, <2>2 DEF Undoes
    <3> QED
      BY <1>b, <2>1, <2>2, <3>1, HopInv
  <2>3. CASE me.ok /\ ~same /\ Goto("retry", "recheck")
    <3>1. "recheck" \in PCs
      BY <1>b
    <3>2. th'["retry"].pc = "recheck" /\ th'["retry"].t = me.t
      BY <2>3, <3>1, GotoKeeps
    <3>3. \A t \in Tenants : Undoes(t) => Undoes(t)'
      BY <3>2 DEF Undoes
    <3> QED
      BY <2>1, <2>3, <3>1, <3>3, HopInv
  <2>4. CASE ~me.ok /\ Become("retry", l)
    <3>1. \A t \in Tenants : ~Undoes(t)
      BY <2>1, <2>4 DEF Undoes
    <3>2. l \in Local /\ l.pc = "errcheck" /\ l.ver = me.ver
      BY <1>0 DEF Local, PCs, TypeOK
    <3> HIDE DEF l
    <3>3. th'["retry"] = l /\ \A h \in Goroutines : h # "retry" => th'[h] = th[h]
      BY <2>4, <3>2, BecomeFacts
    <3>4. PhaseInv' /\ VerInv' /\ NoticeInv'
      BY <1>a, <2>1, <3>2, <3>3, MoveInv
    <3>5. ASSUME NEW t \in Tenants, Off(t) PROVE Calm(t)
      <4>1. \A h \in Goroutines : Reviving(h, t)' => Reviving(h, t) /\ h # "retry"
        BY <2>1, <3>2, <3>3 DEF Reviving, svcVars
      <4>2. Stopping(t) => Stopping(t)'
        BY <3>3 DEF Stopping, Goroutines
      <4> QED
        BY <2>1, <3>1, <4>1, <4>2 DEF Calm
    <3>6. OffInv'
      BY <2>1, <3>5, CalmInv
    <3> QED
      BY <3>4, <3>6
  <2> QED
    BY <1>5, <2>2, <2>3, <2>4 DEF RetrySettle
<1>6. CASE RetryErrCheck
  <2>1. PICK p \in {"drop", "alert", "idle"} : Goto("retry", p)
    BY <1>6 DEF RetryErrCheck
  <2>2. UNCHANGED svcVars /\ UNCHANGED <<todo, monitors, same>> /\ th["retry"].pc = "errcheck"
    BY <1>6 DEF RetryErrCheck, poolVars, retVars
  <2>3. \A t \in Tenants : ~Undoes(t)
    BY <2>2 DEF Undoes
  <2> QED
    BY <1>b, <2>1, <2>2, <2>3, HopInv
<1>7. CASE RetryRecheck
  <2>1. PICK p \in {"undo", "idle"} :
          /\ Goto("retry", p)
          /\ p = "idle" => ~(tenant[th["retry"].t].exists /\ ~tenant[th["retry"].t].on)
    BY <1>7 DEF RetryRecheck
  <2>2. UNCHANGED svcVars /\ UNCHANGED <<todo, monitors, same>> /\ th["retry"].pc = "recheck"
    BY <1>7 DEF RetryRecheck, poolVars, retVars
  <2>3. p \in PCs
    BY <1>b
  <2>4. th'["retry"].pc = p /\ th'["retry"].t = th["retry"].t
    BY <2>1, <2>3, GotoKeeps
  <2>5. \A t \in Tenants : Off(t) /\ Undoes(t) => Undoes(t)'
    BY <2>1, <2>4 DEF Off, Undoes
  <2> QED
    BY <1>b, <2>1, <2>2, <2>3, <2>5, HopInv
<1>8. CASE RetryUndo
  <2>1. /\ UNCHANGED svcVars /\ UNCHANGED <<todo, same>> /\ th["retry"].pc = "undo"
        /\ Goto("retry", "idle") /\ monitors' = [monitors EXCEPT ![th["retry"].t] = None]
    BY <1>8 DEF RetryUndo, StopMonitorForTenant, retVars
  <2>2. "idle" \in PCs
    BY <1>b
  <2>3. /\ th'["retry"].pc = "idle" /\ th'["retry"].t = th["retry"].t
        /\ th'["retry"].ver = th["retry"].ver
        /\ \A h \in Goroutines : h # "retry" => th'[h] = th[h]
    BY <2>1, <2>2, GotoKeeps
  <2>4. \A t \in Tenants : monitors'[t] = IF t = th["retry"].t THEN None ELSE monitors[t]
    BY <1>0, <2>1 DEF TypeOK, Local
  <2>5. rev \in Nat
    BY RevsAreNumbers
  <2>6. \A t \in Tenants : monitors'[t] <= rev + 1
    BY <1>a, <2>4, <2>5 DEF None
  <2>7. PhaseInv' /\ VerInv' /\ NoticeInv'
    BY <1>a, <2>1, <2>3, <2>6, MoveInv
  <2>8. ASSUME NEW t \in Tenants, Off(t) PROVE Calm(t)
    <3>1. \A h \in Goroutines : Reviving(h, t)' => Reviving(h, t) /\ h # "retry"
      BY <2>1, <2>3 DEF Reviving, svcVars
    <3>2. Running(t)' => t # th["retry"].t /\ monitors'[t] = monitors[t]
      BY <2>4 DEF Running
    <3>3. Undoes(t) => t = th["retry"].t
      BY DEF Undoes
    <3>4. Stopping(t) => Stopping(t)'
      BY <2>3 DEF Stopping, Goroutines
    <3> QED
      BY <2>1, <3>1, <3>2, <3>3, <3>4 DEF Calm
  <2>9. OffInv'
    BY <2>1, <2>8, CalmInv
  <2> QED
    BY <2>7, <2>9
<1>9. CASE RetryExit
  BY <1>9, StillStops DEF RetryExit, poolVars
<1>10. CASE StartStep("retry")
  BY <1>10, StartStops
<1> QED
  BY <1>1, <1>2, <1>3, <1>4, <1>5, <1>6, <1>7, <1>8, <1>9, <1>10 DEF RetryLoop

\* Boot.  It starts the tenants it listed as enabled; a change of one of them
\* meanwhile is announced to nobody or after boot.
LEMMA BootStops == ASSUME IInv, StopsInv, Boot PROVE StopsInv'
<1> USE DEF IInv, StopsInv
<1> "main" \in Goroutines
  BY DEF Goroutines
<1>0. th["main"] \in Local
  BY DEF TypeOK
<1>a. /\ th["main"].ver <= rev + 1 /\ (\A t \in Tenants : monitors[t] <= rev + 1)
      /\ \A x \in todo : x[2] <= rev + 1
  BY DEF VerInv
<1>b. /\ {"off", "pick", "start"} \subseteq Booting /\ "up" \in Working
      /\ Booting \intersect Working = {}
      /\ {"pick", "up"} \subseteq PCs
  BY DEF Booting, Working, PCs
<1>1. CASE Start
  <2>1. /\ Goto("main", "pick") /\ UNCHANGED svcVars /\ UNCHANGED <<monitors, same>>
        /\ th["main"].pc = "off" /\ todo' = {<<t, tenant[t].ver>> : t \in EnabledTenants}
    BY <1>1 DEF Start
  <2>2. /\ th'["main"].pc = "pick" /\ th'["main"].t = th["main"].t
        /\ th'["main"].ver = th["main"].ver
        /\ \A h \in Goroutines : h # "main" => th'[h] = th[h]
    BY <1>b, <2>1, GotoKeeps
  <2>3. \A x \in todo' : x[1] \in Tenants /\ tenant[x[1]].on /\ x[2] <= rev + 1
    BY <2>1 DEF EnabledTenants, VerInv
  <2>4. PhaseInv' /\ VerInv' /\ NoticeInv'
    BY <1>a, <1>b, <2>1, <2>2, <2>3, MoveInv
  <2>5. ASSUME NEW t \in Tenants, Off(t) PROVE Calm(t)
    <3>1. \A h \in Goroutines : Reviving(h, t)' => Reviving(h, t)
      BY <2>1, <2>2 DEF Reviving, svcVars
    <3>2. \A x \in todo' : x[1] # t
      BY <2>3, <2>5 DEF Off
    <3>3. (Stopping(t) => Stopping(t)') /\ (Undoes(t) => Undoes(t)')
      BY <2>1, <2>2 DEF Stopping, Undoes, Goroutines
    <3> QED
      BY <2>1, <3>1, <3>2, <3>3 DEF Calm
  <2>6. OffInv'
    BY <2>1, <2>5, CalmInv
  <2> QED
    BY <2>4, <2>6
<1>2. CASE StartNext
  <2>1. PICK x \in todo :
          /\ todo' = todo \ {x}
          /\ Become("main", [th["main"] EXCEPT !.pc = "start", !.t = x[1], !.ver = x[2]])
    BY <1>2 DEF StartNext
  <2> DEFINE l == [th["main"] EXCEPT !.pc = "start", !.t = x[1], !.ver = x[2]]
  <2>2. x[1] \in Tenants /\ x[2] \in Revs /\ x[2] <= rev + 1
    BY DEF TypeOK, VerInv
  <2>3. l \in Local /\ l.pc = "start" /\ l.t = x[1] /\ l.ver = x[2]
    BY <1>0, <2>2 DEF Local, PCs
  <2>4. th'["main"] = l /\ \A h \in Goroutines : h # "main" => th'[h] = th[h]
    BY <2>1, <2>3, BecomeFacts
  <2> HIDE DEF l
  <2>5. UNCHANGED svcVars /\ UNCHANGED <<monitors, same>> /\ th["main"].pc = "pick"
    BY <1>2 DEF StartNext, retVars
  <2>6. ~registered
    BY <1>b, <2>5 DEF PhaseInv
  <2>7. PhaseInv' /\ VerInv' /\ NoticeInv'
    BY <1>a, <1>b, <2>1, <2>2, <2>3, <2>4, <2>5, MoveInv
  <2>8. ASSUME NEW t \in Tenants, Off(t)'
        PROVE  QueueInv(t)' /\ RevivingInv(t)' /\ TodoInv(t)' /\ RunningInv(t)'
    <3>1. /\ Off(t)
          /\ StopAhead(t)' <=> StopAhead(t)
          /\ QueueInv(t)' <=> QueueInv(t)
      BY <2>5, <2>8, SameService
    <3>2. QueueInv(t) /\ RevivingInv(t) /\ TodoInv(t) /\ RunningInv(t)
      BY <3>1 DEF OffInv
    <3>3. tenant' = tenant /\ registered' = registered
      BY <2>5 DEF svcVars
    <3>4. Reviving("main", t)' => StopAhead(t)
      BY <2>3, <2>4, <2>6, <3>2, <3>3 DEF Reviving, TodoInv
    <3>5. \A h \in Goroutines : h # "main" /\ Reviving(h, t)' => Reviving(h, t)
      BY <2>4, <3>3 DEF Reviving
    <3>6. RevivingInv(t)'
      BY <2>5, <3>1, <3>2, <3>4, <3>5 DEF RevivingInv
    <3>7. TodoInv(t)'
      BY <2>1, <3>1, <3>2, <3>3 DEF TodoInv
    <3>8. (Stopping(t)' <=> Stopping(t)) /\ (Undoes(t)' <=> Undoes(t))
      BY <2>4, <2>5 DEF Stopping, Undoes, Goroutines
    <3>9. RunningInv(t)'
      BY <2>5, <3>1, <3>2, <3>3, <3>8 DEF RunningInv
    <3> QED
      BY <3>1, <3>2, <3>6, <3>7, <3>9
  <2>9. OffInv'
    BY <2>8 DEF OffInv
  <2> QED
    BY <2>7, <2>9
<1>3. CASE StartRegister
  <2>1. /\ Goto("main", "up") /\ th["main"].pc = "pick" /\ todo = {} /\ registered'
        /\ UNCHANGED <<tenant, rev, notice, queue, missed, todo, monitors, same>>
    BY <1>3 DEF StartRegister, poolVars, retVars
  <2>2. /\ th'["main"].pc = "up" /\ th'["main"].ver = th["main"].ver
        /\ \A h \in Goroutines : h # "main" => th'[h] = th[h]
    BY <1>b, <2>1, GotoKeeps
  <2>3. PhaseInv'
    BY <1>b, <2>1, <2>2 DEF PhaseInv
  <2>4. VerInv' /\ NoticeInv'
    BY <2>1, <2>2 DEF VerInv, NoticeInv
  <2>5. ASSUME NEW t \in Tenants, Off(t)'
        PROVE  QueueInv(t)' /\ RevivingInv(t)' /\ TodoInv(t)' /\ RunningInv(t)'
    <3>1. Off(t)
      BY <2>1, <2>5 DEF Off
    <3>2. QueueInv(t) /\ RevivingInv(t) /\ RunningInv(t)
      BY <3>1 DEF OffInv
    <3>3. /\ StopAhead(t)' <=> StopAhead(t)
          /\ QueueInv(t)' <=> QueueInv(t)
      BY <2>1 DEF StopAhead, Announced, QueueInv
    <3>4. \A h \in Goroutines : Reviving(h, t)' => Reviving(h, t)
      BY <2>1, <2>2 DEF Reviving
    <3>5. RevivingInv(t)'
      BY <2>1, <3>2, <3>3, <3>4 DEF RevivingInv
    <3>6. TodoInv(t)'
      BY <2>1 DEF TodoInv
    <3>7. (Stopping(t)' <=> Stopping(t)) /\ (Undoes(t)' <=> Undoes(t))
      BY <2>1, <2>2 DEF Stopping, Undoes, Goroutines
    <3>8. RunningInv(t)'
      BY <2>1, <3>2, <3>3, <3>7 DEF RunningInv
    <3> QED
      BY <3>2, <3>3, <3>5, <3>6, <3>8
  <2>6. OffInv'
    BY <2>5 DEF OffInv
  <2> QED
    BY <2>3, <2>4, <2>6
<1>4. CASE StartStep("main")
  BY <1>4, StartStops
<1> QED
  BY <1>1, <1>2, <1>3, <1>4 DEF Boot

\* Shutdown only stops monitors and retries.
LEMMA ShutdownStops == ASSUME IInv, StopsInv, Stop PROVE StopsInv'
<1> USE DEF IInv, StopsInv
<1> "main" \in Goroutines
  BY DEF Goroutines
<1>a. /\ th["main"].ver <= rev + 1 /\ (\A t \in Tenants : monitors[t] <= rev + 1)
      /\ \A x \in todo : x[2] <= rev + 1
  BY DEF VerInv
<1>b. {"cancelling", "draining", "stopping", "stopped"} \subseteq PCs
  BY DEF PCs
<1>c. \A p \in {"up", "cancelling", "draining", "stopping", "stopped"} :
        p \in Working /\ p \notin {"restart", "check", "start", "creating"}
  BY DEF Working
<1>1. CASE StopBegin
  <2>1. /\ Goto("main", "cancelling") /\ UNCHANGED svcVars /\ UNCHANGED <<todo, monitors>>
        /\ th["main"].pc = "up" /\ ~same'
    BY <1>1 DEF StopBegin, poolVars
  <2> QED
    BY <1>b, <1>c, <2>1, HopInv
<1>2. CASE StopCancel
  <2>1. /\ Goto("main", "draining") /\ UNCHANGED svcVars /\ UNCHANGED <<todo, monitors, same>>
        /\ th["main"].pc = "cancelling"
    BY <1>2 DEF StopCancel, poolVars
  <2> QED
    BY <1>b, <1>c, <2>1, HopInv
<1>3. CASE StopRange
  <2>1. /\ Goto("main", "stopping") /\ UNCHANGED svcVars /\ UNCHANGED <<monitors, same>>
        /\ th["main"].pc = "draining"
        /\ todo' = {<<t, monitors[t]>> : t \in {u \in Tenants : Running(u)}}
    BY <1>3 DEF StopRange, retVars
  <2>2. /\ th'["main"].pc = "stopping" /\ th'["main"].ver = th["main"].ver
        /\ \A h \in Goroutines : h # "main" => th'[h] = th[h]
    BY <1>b, <2>1, GotoKeeps
  <2>3. \A x \in todo' : x[2] <= rev + 1
    BY <1>a, <2>1
  <2>4. PhaseInv' /\ VerInv' /\ NoticeInv'
    BY <1>a, <1>c, <2>1, <2>2, <2>3, MoveInv
  <2>5. registered
    BY <1>c, <2>1 DEF PhaseInv
  <2>6. ASSUME NEW t \in Tenants PROVE Calm(t)
    <3>1. \A h \in Goroutines : Reviving(h, t)' => Reviving(h, t)
      BY <2>1, <2>2 DEF Reviving, svcVars
    <3>2. (Stopping(t) => Stopping(t)') /\ (Undoes(t) => Undoes(t)')
      BY <2>1, <2>2 DEF Stopping, Undoes, Goroutines
    <3> QED
      BY <2>1, <2>5, <3>1, <3>2 DEF Calm
  <2>7. OffInv'
    BY <2>1, <2>6, CalmInv
  <2> QED
    BY <2>4, <2>7
<1>4. CASE StopOne
  <2>1. PICK x \in todo : todo' = todo \ {x} /\ monitors' = [monitors EXCEPT ![x[1]] = None]
    BY <1>4 DEF StopOne
  <2>2. UNCHANGED svcVars /\ UNCHANGED <<th, same>>
    BY <1>4 DEF StopOne, retVars
  <2>3. \A t \in Tenants : monitors'[t] = None \/ monitors'[t] = monitors[t]
    BY <2>1 DEF TypeOK
  <2>4. rev \in Nat
    BY RevsAreNumbers
  <2>5. \A t \in Tenants : monitors'[t] <= rev + 1
    BY <1>a, <2>3, <2>4 DEF None
  <2>6. PhaseInv' /\ VerInv' /\ NoticeInv'
    BY <2>1, <2>2, <2>5 DEF PhaseInv, VerInv, NoticeInv, svcVars
  <2>7. ASSUME NEW t \in Tenants PROVE Calm(t)
    <3>1. \A h \in Goroutines : Reviving(h, t)' <=> Reviving(h, t)
      BY <2>2 DEF Reviving, svcVars
    <3>2. (Stopping(t) => Stopping(t)') /\ (Undoes(t) => Undoes(t)')
      BY <2>2 DEF Stopping, Undoes
    <3>3. Running(t)' => monitors'[t] = monitors[t]
      BY <2>3 DEF Running
    <3> QED
      BY <2>1, <2>2, <3>1, <3>2, <3>3 DEF Calm
  <2>8. OffInv'
    BY <2>2, <2>7, CalmInv
  <2> QED
    BY <2>6, <2>8
<1>5. CASE StopDone
  <2>1. /\ Goto("main", "stopped") /\ UNCHANGED svcVars /\ UNCHANGED <<todo, monitors, same>>
        /\ th["main"].pc = "stopping"
    BY <1>5 DEF StopDone, poolVars, retVars
  <2> QED
    BY <1>b, <1>c, <2>1, HopInv
<1> QED
  BY <1>1, <1>2, <1>3, <1>4, <1>5 DEF Stop

\* Every step keeps the invariant.
LEMMA NextStops == IInv /\ StopsInv /\ [Next]_vars => StopsInv'
<1> SUFFICES ASSUME IInv, StopsInv, [Next]_vars PROVE StopsInv'
  OBVIOUS
<1>1. TypeOK
  BY DEF IInv
<1>2. CASE UNCHANGED vars
  BY <1>2, StillStops DEF vars, poolVars, retVars
<1>3. ASSUME NEW t \in Tenants, NEW up \in BOOLEAN, HealthCheck(t, up) PROVE StopsInv'
  BY <1>3, StillStops DEF HealthCheck, poolVars, retVars
<1>4. CASE Next
  BY <1>1, <1>3, <1>4, AdminStops, NotifyStops, HandlerStops, RetryStops, BootStops, ShutdownStops DEF Next
<1> QED
  BY <1>2, <1>4

\* With nothing in flight, none of what excuses a monitor of a disabled tenant is
\* left: it is one of an earlier tenant of that name.
LEMMA QuiescentStops == IInv /\ StopsInv => DisabledTenantStops
<1> SUFFICES ASSUME IInv, StopsInv PROVE DisabledTenantStops
  OBVIOUS
<1>1. TypeOK
  BY DEF IInv
<1>2. ASSUME Quiescent, NEW t \in Tenants \ missed, tenant[t].exists, ~tenant[t].on
      PROVE  monitors[t] < tenant[t].born
  <2>1. Off(t)
    BY <1>2 DEF Off
  <2>2. ~StopAhead(t) /\ ~Stopping(t) /\ ~Undoes(t)
    BY <1>2 DEF Quiescent, StopAhead, Announced, Stopping, Undoes
  <2>3. ~(monitors[t] >= tenant[t].born)
    BY <2>1, <2>2 DEF StopsInv, OffInv, RunningInv
  <2>4. monitors[t] \in Nat /\ tenant[t].born \in Nat
    BY <1>1, RevsAreNumbers
  <2> QED
    BY <2>3, <2>4
<1> QED
  BY <1>1, <1>2 DEF DisabledTenantStops

\* A tenant that was disabled while a retry, the callback worker or boot was
\* starting its monitor is not monitored once the changes are handled.
THEOREM DisabledStops == Spec => []DisabledTenantStops
<1>1. Init => StopsInv
  BY InitStops
<1>2. IInv /\ StopsInv /\ [Next]_vars => StopsInv'
  BY NextStops
<1>3. Spec => []StopsInv
  BY <1>1, <1>2, Invariance, PTL DEF Spec
<1>4. IInv /\ StopsInv => DisabledTenantStops
  BY QuiescentStops
<1> QED
  BY <1>3, <1>4, Invariance, PTL

=============================================================================
