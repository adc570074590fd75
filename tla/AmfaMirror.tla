----------------------------- MODULE AmfaMirror -----------------------------
(* The AMFA events mirror (internal/amfamirror): per tenant, a poller copies *)
(* the logins AMFA recorded into the platform's events table, page by page,  *)
(* behind a watermark it keeps in memory and persists best-effort.  The      *)
(* Keycloak monitor writes the other half of the same logins into the same   *)
(* table, and every mirror sweeps the whole table to fold an AMFA row into   *)
(* its Keycloak twin.  The process may stop at any step; the configuration   *)
(* read at boot decides which tenants have a mirror; a tenant that left the  *)
(* configuration may be purged and configured again.                         *)
EXTENDS Integers, FiniteSets

CONSTANTS
  Tenants,
  Mirrors,      \* tenants a configuration may give an AMFA mirror
  Ids,          \* ids of AMFA auth events; two tenants' AMFAs use the same ids
  PageSize,     \* defaultCyclePageSize
  Overlap,      \* watermarkOverlap
  Backfill,     \* keycloak.global.amfa_mirror.backfill_days
  MaxLag,       \* how far behind the clock a row of AMFA may become visible
  SameTime,     \* whether two rows of AMFA may carry one time
  MaxTime,      \* bound: the clock
  MaxRestarts,  \* bound: process restarts
  MaxFaults     \* bound: failed reads and writes

\* A row of AMFA becomes visible within the overlap the mirror re-reads.
ASSUME LagAssumption == MaxLag < Overlap

NoTime == -1
Nobody == "nobody"

ASSUME MirrorAssumption ==
  /\ Mirrors \subseteq Tenants /\ Nobody \notin Tenants
  /\ PageSize \in Nat \ {0} /\ Overlap \in Nat
  /\ MaxTime \in Nat /\ Backfill \in 0..MaxTime
  /\ MaxLag \in Nat /\ SameTime \in BOOLEAN
  /\ MaxRestarts \in Nat /\ MaxFaults \in Nat

VARIABLES
  clock,
  amfa,        \* [tenant -> id -> time the row carries, or NoTime]: AMFA's table
  rows,        \* [tenant -> ids stored as a row of source_system amfa]
  twins,       \* [tenant -> id -> the row of source_system keycloak]
  stored,      \* amfa_mirror_watermarks: [tenant -> time, or NoTime]
  watermarks,  \* the service's map, in memory: [tenant -> time, or NoTime]
  cycle,       \* [tenant -> the cycle under way]
  configured,  \* tenants of the configuration the process booted with
  origin,      \* history: where a tenant's latest backfill began
  restarts, faults

vars == <<clock, amfa, rows, twins, stored, watermarks, cycle, configured,
          origin, restarts, faults>>

-----------------------------------------------------------------------------
\* No Keycloak row; and one whose AMFA columns came from no AMFA row yet.
NoTwin == [saved |-> FALSE, from |-> Nobody]

Idle == [pc |-> "idle", since |-> 0, watermark |-> 0, start |-> 0, page |-> {},
         full |-> FALSE]

Latest(S) == CHOOSE x \in S : \A y \in S : y <= x

\* Rows of AMFA newer than a time, and the pages ListEventsSince may answer:
\* oldest first, capped, rows of one time in any order.
Newer(t, since) == {i \in Ids : amfa[t][i] # NoTime /\ amfa[t][i] > since}

ListEventsSince(t, since) ==
  LET new == Newer(t, since) IN
  {p \in SUBSET new :
     /\ Cardinality(p) = IF Cardinality(new) < PageSize THEN Cardinality(new)
                                                        ELSE PageSize
     /\ \A i \in p, j \in new \ p : amfa[t][i] <= amfa[t][j]}

\* A login's AMFA data is in the table: as its own row or on its twin.
Known(t) == {i \in Ids : i \in rows[t] \/ twins[t][i].from = t}

-----------------------------------------------------------------------------
Init ==
  /\ clock = Backfill /\ restarts = 0 /\ faults = 0
  /\ amfa = [t \in Tenants |-> [i \in Ids |-> NoTime]]
  /\ rows = [t \in Tenants |-> {}]
  /\ twins = [t \in Tenants |-> [i \in Ids |-> NoTwin]]
  /\ stored = [t \in Tenants |-> NoTime]
  /\ watermarks = [t \in Tenants |-> NoTime]
  /\ cycle = [t \in Tenants |-> Idle]
  /\ configured = Mirrors
  /\ origin = [t \in Tenants |-> 0]

Fault == faults < MaxFaults /\ faults' = faults + 1

-----------------------------------------------------------------------------
(* The environment: time, AMFA, the Keycloak monitor, the operator.          *)

Tick ==
  /\ clock < MaxTime
  /\ clock' = clock + 1
  /\ UNCHANGED <<amfa, rows, twins, stored, watermarks, cycle, configured,
                 origin, restarts, faults>>

\* AMFA commits a login: its time was taken up to MaxLag before it is visible.
AmfaCommits(t, i) ==
  /\ t \in Mirrors /\ amfa[t][i] = NoTime
  /\ \E time \in {x \in clock - MaxLag .. clock : x >= 0} :
       /\ SameTime \/ \A j \in Ids : amfa[t][j] # time
       /\ amfa' = [amfa EXCEPT ![t][i] = time]
  /\ UNCHANGED <<clock, rows, twins, stored, watermarks, cycle, configured,
                 origin, restarts, faults>>

\* Mutant of Save: the AMFA columns are among the ones an upsert writes.
SaveAll(row) == [saved |-> TRUE, from |-> Nobody]

\* The upsert of an event on (tenant_id, event_id).  The AMFA value columns are
\* not among the ones an existing row takes from the event, so a Keycloak row
\* keeps what a sweep wrote onto it.
Save(row) == [row EXCEPT !.saved = TRUE]

\* A tenant's Keycloak monitor stores, or stores again, its half of a login,
\* before or after AMFA's half is visible.
MergeKeycloakEvent(t, i) ==
  /\ twins' = [twins EXCEPT ![t][i] = Save(@)]
  /\ UNCHANGED <<clock, amfa, rows, stored, watermarks, cycle, configured,
                 origin, restarts, faults>>

\* A new process: memory is gone, the configuration may have changed.  A tenant
\* that left it is read-only no more.
Restart ==
  /\ restarts < MaxRestarts
  /\ restarts' = restarts + 1
  /\ watermarks' = [t \in Tenants |-> NoTime]
  /\ cycle' = [t \in Tenants |-> Idle]
  /\ configured' \in {configured} \cup {configured \ {t} : t \in Mirrors} \cup {Mirrors}
  /\ UNCHANGED <<clock, amfa, rows, twins, stored, origin, faults>>

\* Mutant of PurgeTenant: the read position outlives the tenant.
PurgeKeepsPosition(t) ==
  /\ t \notin configured
  /\ rows' = [rows EXCEPT ![t] = {}]
  /\ twins' = [twins EXCEPT ![t] = [i \in Ids |-> NoTwin]]
  /\ UNCHANGED <<clock, amfa, stored, watermarks, cycle, configured, origin, restarts, faults>>

\* The deletion of a tenant: one transaction removes its events and its read
\* position.  A config-defined tenant cannot be deleted.
PurgeTenant(t) ==
  /\ t \notin configured
  /\ rows' = [rows EXCEPT ![t] = {}]
  /\ twins' = [twins EXCEPT ![t] = [i \in Ids |-> NoTwin]]
  /\ stored' = [stored EXCEPT ![t] = NoTime]
  /\ UNCHANGED <<clock, amfa, watermarks, cycle, configured, origin, restarts, faults>>

-----------------------------------------------------------------------------
(* One mirror's cycle.  TryLock: a tick that finds a cycle under way is      *)
(* skipped, so a tenant has at most one.                                     *)

\* watermarkFor: the position in memory, else the persisted one, else the
\* start of the backfill.
watermarkFor(t) ==
  IF watermarks[t] # NoTime THEN watermarks[t]
  ELSE IF stored[t] # NoTime THEN stored[t] ELSE clock - Backfill

\* A cycle starts with the realm's position; a realm list that cannot be read
\* skips it, a position that cannot be read fails the realm.
runCycle(t) ==
  /\ t \in configured /\ cycle[t].pc = "idle"
  /\ \/ LET wm == watermarkFor(t) IN
          /\ watermarks' = [watermarks EXCEPT ![t] = wm]
          /\ cycle' = [cycle EXCEPT ![t] =
                         [pc |-> "list", since |-> wm - Overlap, watermark |-> wm,
                          start |-> wm, page |-> {}, full |-> FALSE]]
          /\ origin' = IF watermarks[t] = NoTime /\ stored[t] = NoTime
                       THEN [origin EXCEPT ![t] = wm] ELSE origin
          /\ UNCHANGED faults
     \/ /\ watermarks[t] = NoTime
        /\ Fault
        /\ cycle' = [cycle EXCEPT ![t].pc = "reconcile"]
        /\ UNCHANGED <<watermarks, origin>>
  /\ UNCHANGED <<clock, amfa, rows, twins, stored, configured, restarts>>

\* The next page; a failed read ends the realm, an empty page ends the reading.
ListPage(t) ==
  /\ cycle[t].pc = "list"
  /\ \/ /\ \E p \in ListEventsSince(t, cycle[t].since) :
             cycle' = [cycle EXCEPT ![t].page = p,
                                    ![t].full = Cardinality(p) = PageSize,
                                    ![t].pc = IF p = {} THEN "record" ELSE "save"]
        /\ UNCHANGED faults
     \/ /\ Fault
        /\ cycle' = [cycle EXCEPT ![t].pc = "reconcile"]
  /\ UNCHANGED <<clock, amfa, rows, twins, stored, watermarks, configured, origin, restarts>>

\* MergeAmfaEvent for the page's rows, oldest first; the position in memory
\* follows a whole page.  The first failed save ends the realm.  A short page
\* ends the reading, a full one asks for what is newer than the position,
\* without the overlap.
MergeAmfaEvent(t) ==
  /\ cycle[t].pc = "save"
  /\ \/ \E i \in {i \in cycle[t].page : \A j \in cycle[t].page : amfa[t][i] <= amfa[t][j]} :
          LET wm == Latest({cycle[t].watermark, amfa[t][i]})
              left == cycle[t].page \ {i} IN
          /\ rows' = [rows EXCEPT ![t] = @ \cup {i}]
          /\ watermarks' = IF left = {} THEN [watermarks EXCEPT ![t] = wm] ELSE watermarks
          /\ cycle' = [cycle EXCEPT
                         ![t].watermark = wm, ![t].page = left,
                         ![t].since = IF left = {} THEN wm ELSE @,
                         ![t].pc = IF left # {} THEN "save"
                                   ELSE IF cycle[t].full THEN "list" ELSE "record"]
          /\ UNCHANGED faults
     \/ /\ Fault
        /\ cycle' = [cycle EXCEPT ![t].pc = "reconcile", ![t].page = {}]
        /\ UNCHANGED <<rows, watermarks>>
  /\ UNCHANGED <<clock, amfa, twins, stored, configured, origin, restarts>>

\* Mutant of recordWatermark: a cycle that read nothing new does not sweep.
recordOrStop(t) ==
  /\ cycle[t].pc = "record"
  /\ cycle' = [cycle EXCEPT ![t].pc =
                 IF cycle[t].watermark > cycle[t].start THEN "reconcile" ELSE "idle"]
  /\ \/ /\ stored' = IF cycle[t].watermark > cycle[t].start
                     THEN [stored EXCEPT ![t] = Latest({@, cycle[t].watermark})]
                     ELSE stored
        /\ UNCHANGED faults
     \/ /\ cycle[t].watermark > cycle[t].start
        /\ Fault
        /\ UNCHANGED stored
  /\ UNCHANGED <<clock, amfa, rows, twins, watermarks, configured, origin, restarts>>

\* The position is persisted when the cycle advanced it, best-effort; an older
\* one never replaces a newer one.
recordWatermark(t) ==
  /\ cycle[t].pc = "record"
  /\ cycle' = [cycle EXCEPT ![t].pc = "reconcile"]
  /\ \/ /\ stored' = IF cycle[t].watermark > cycle[t].start
                     THEN [stored EXCEPT ![t] = Latest({@, cycle[t].watermark})]
                     ELSE stored
        /\ UNCHANGED faults
     \/ /\ cycle[t].watermark > cycle[t].start
        /\ Fault
        /\ UNCHANGED stored
  /\ UNCHANGED <<clock, amfa, rows, twins, watermarks, configured, origin, restarts>>

\* The pairs a sweep folds: an AMFA row and the Keycloak row of its tenant that
\* carries its id.
Pairs == {p \in Tenants \X Tenants \X Ids :
            p[1] = p[2] /\ p[3] \in rows[p[1]] /\ twins[p[2]][p[3]].saved}

\* The sweep, over every tenant's rows, in one statement: the AMFA columns go
\* onto the twin and exactly the rows that were folded are deleted.
Absorb(pairs) ==
  /\ twins' = [t \in Tenants |-> [i \in Ids |->
                 LET from == {p \in pairs : p[2] = t /\ p[3] = i} IN
                 IF from = {} THEN twins[t][i]
                 ELSE [twins[t][i] EXCEPT !.from = (CHOOSE p \in from : TRUE)[1]]]]
  /\ rows' = [t \in Tenants |-> rows[t] \ {p[3] : p \in {q \in pairs : q[1] = t}}]

\* Every cycle ends with the sweep.  One that fails, or finds another under
\* way, leaves the rows to a later one.
ReconcileAMFAMerges(t) ==
  /\ cycle[t].pc = "reconcile"
  /\ cycle' = [cycle EXCEPT ![t] = Idle]
  /\ \/ Absorb(Pairs) /\ UNCHANGED faults
     \/ Fault /\ UNCHANGED <<rows, twins>>
  /\ UNCHANGED <<clock, amfa, stored, watermarks, configured, origin, restarts>>

MirrorStep(t) ==
  \/ ListPage(t) \/ MergeAmfaEvent(t) \/ recordWatermark(t) \/ ReconcileAMFAMerges(t)

Next ==
  \/ Tick
  \/ Restart
  \/ \E t \in Tenants : \/ PurgeTenant(t)
                        \/ runCycle(t)
                        \/ MirrorStep(t)
                        \/ \E i \in Ids : AmfaCommits(t, i) \/ MergeKeycloakEvent(t, i)

Spec == Init /\ [][Next]_vars

\* The poller's ticker starts cycles for as long as the process runs, and a
\* cycle's calls return: each has a deadline.
Fairness == \A t \in Tenants : WF_vars(runCycle(t)) /\ WF_vars(MirrorStep(t))

FairSpec == Spec /\ Fairness

-----------------------------------------------------------------------------
TypeOK ==
  /\ clock \in Backfill..MaxTime /\ restarts \in 0..MaxRestarts /\ faults \in 0..MaxFaults
  /\ amfa \in [Tenants -> [Ids -> 0..MaxTime \cup {NoTime}]]
  /\ rows \in [Tenants -> SUBSET Ids]
  /\ twins \in [Tenants -> [Ids -> [saved : BOOLEAN, from : Tenants \cup {Nobody}]]]
  /\ stored \in [Tenants -> 0..MaxTime \cup {NoTime}]
  /\ watermarks \in [Tenants -> 0..MaxTime \cup {NoTime}]
  /\ configured \subseteq Tenants
  /\ \A t \in Tenants : cycle[t].pc \in {"idle", "list", "save", "record", "reconcile"}

\* A row of AMFA that the read position, in memory or persisted, has left
\* behind by more than the overlap, and that is not older than the backfill,
\* is in the events table: a restart, a failed save, a failed write of the
\* position, a late row or a deleted and re-created tenant never makes the
\* mirror skip a login (service.go: "events with identical/adjacent timestamps
\* at the boundary are never skipped").  The types hold; as a sweep runs over every
\* tenant's rows and two tenants' AMFAs use the same ids, so does this: a Keycloak
\* row never carries another tenant's AMFA data.
NoLoginSkipped ==
  /\ TypeOK
  /\ \A t \in Tenants, i \in Ids : twins[t][i].from \in {t, Nobody}
  /\ \A t \in Tenants, i \in Ids :
       /\ amfa[t][i] # NoTime
       /\ amfa[t][i] > origin[t] - Overlap
       /\ t \in configured
       /\ amfa[t][i] <= Latest({stored[t], watermarks[t]}) - Overlap
       => i \in Known(t)

\* Monitor, mirrors and sweeps together only ever add logins to what the table
\* knows, one that AMFA recorded for that tenant at a time; a sweep, a repeated
\* save or a restart loses none.  Only a purge does.
Logins == INSTANCE LoginStore WITH
  source <- [t \in Tenants |-> {i \in Ids : amfa[t][i] # NoTime}],
  known <- [t \in Tenants |-> Known(t)]

RefinesLoginStore == Logins!Spec

\* A login whose two halves are in the table becomes one row, unless its tenant
\* leaves the configuration.
HalvesMerge ==
  \A t \in Mirrors, i \in Ids :
    (i \in rows[t] /\ twins[t][i].saved) ~> (i \notin rows[t] \/ t \notin configured)
=============================================================================
