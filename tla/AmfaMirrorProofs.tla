-------------------------- MODULE AmfaMirrorProofs --------------------------
(* AmfaMirror implements LoginStore, and skips no login as long as what a    *)
(* cycle reads is less than a page, proved for any tenants, mirrors and      *)
(* logins, any page, overlap, backfill and lag, and any number of restarts   *)
(* and failures.                                                             *)
EXTENDS AmfaMirror, FiniteSetTheorems, TLAPS

USE MirrorAssumption

-----------------------------------------------------------------------------
(* The inductive invariant.                                                  *)

Cycles ==
  [pc : {"idle", "list", "save", "record", "reconcile"}, since : Int, watermark : 0..MaxTime,
   start : Int, page : SUBSET Ids, full : BOOLEAN]

CycleTypes == cycle \in [Tenants -> Cycles]

\* What is stored, or about to be, is visible in AMFA, for that tenant.
VisibleInv ==
  \A t \in Tenants, i \in Ids : i \in rows[t] \cup cycle[t].page => amfa[t][i] # NoTime

\* A Keycloak row carries nobody else's AMFA data.
OwnInv == \A t \in Tenants, i \in Ids : twins[t][i].from \in {t, Nobody}

IInv == TypeOK /\ CycleTypes /\ VisibleInv /\ OwnInv

-----------------------------------------------------------------------------
(* The operators.                                                            *)

LEMMA LatestOfTwo ==
  ASSUME NEW a \in Int, NEW b \in Int
  PROVE  Latest({a, b}) \in {a, b} /\ a <= Latest({a, b}) /\ b <= Latest({a, b})
<1>1. \E x \in {a, b} : \A y \in {a, b} : y <= x
  <2>1. CASE a <= b
    BY <2>1
  <2>2. CASE ~(a <= b)
    BY <2>2
  <2> QED BY <2>1, <2>2
<1> QED BY <1>1 DEF Latest

\* The sweep moves a login from its own row onto its twin: what the table knows
\* stays the same, and no twin gets another tenant's.
LEMMA AbsorbFacts ==
  ASSUME TypeOK, Absorb(Pairs)
  PROVE  /\ rows' \in [Tenants -> SUBSET Ids] /\ \A t \in Tenants : rows'[t] \subseteq rows[t]
         /\ twins' \in [Tenants -> [Ids -> [saved : BOOLEAN, from : Tenants \cup {Nobody}]]]
         /\ \A t \in Tenants, i \in Ids : twins'[t][i].from \in {t, twins[t][i].from}
         /\ \A t \in Tenants, i \in Ids :
              i \in rows'[t] \/ twins'[t][i].from = t <=> i \in rows[t] \/ twins[t][i].from = t
<1> DEFINE from(t, i) == {p \in Pairs : p[2] = t /\ p[3] = i}
           folded(t, i) == i \in rows[t] /\ twins[t][i].saved
           twin(t, i) == IF from(t, i) = {} THEN twins[t][i]
                         ELSE [twins[t][i] EXCEPT !.from = (CHOOSE p \in from(t, i) : TRUE)[1]]
<1>1. /\ twins' = [t \in Tenants |-> [i \in Ids |-> twin(t, i)]]
      /\ rows' = [t \in Tenants |-> rows[t] \ {p[3] : p \in {q \in Pairs : q[1] = t}}]
  BY DEF Absorb
<1>2. ASSUME NEW t \in Tenants, NEW i \in Ids
      PROVE  from(t, i) = IF folded(t, i) THEN {<<t, t, i>>} ELSE {}
  <2>1. ASSUME NEW p \in from(t, i)
        PROVE  p = <<t, t, i>> /\ folded(t, i)
    <3>1. p \in Tenants \X Tenants \X Ids /\ p[1] = p[2] /\ p[3] \in rows[p[1]] /\ twins[p[2]][p[3]].saved
          /\ p[2] = t /\ p[3] = i
      BY DEF Pairs
    <3> QED BY <3>1
  <2>2. folded(t, i) => <<t, t, i>> \in from(t, i)
    BY DEF Pairs
  <2> QED BY <2>1, <2>2
<1>3. ASSUME NEW t \in Tenants, NEW i \in Ids
      PROVE  i \in {p[3] : p \in {q \in Pairs : q[1] = t}} <=> folded(t, i)
  <2>1. folded(t, i) => <<t, t, i>> \in Pairs
    BY DEF Pairs
  <2>2. ASSUME NEW p \in Pairs, p[1] = t, p[3] = i
        PROVE  folded(t, i)
    BY <2>2 DEF Pairs
  <2> QED BY <2>1, <2>2
<1>4. ASSUME NEW t \in Tenants, NEW i \in Ids
      PROVE  twin(t, i) = IF folded(t, i) THEN [twins[t][i] EXCEPT !.from = t] ELSE twins[t][i]
  <2>1. CASE folded(t, i)
    <3>1. from(t, i) = {<<t, t, i>>}
      BY <1>2, <2>1
    <3>2. (CHOOSE p \in from(t, i) : TRUE) = <<t, t, i>>
      BY <3>1
    <3> QED BY <2>1, <3>1, <3>2
  <2>2. CASE ~folded(t, i)
    BY <1>2, <2>2
  <2> QED BY <2>1, <2>2
<1> HIDE DEF from, twin
<1>5. ASSUME NEW t \in Tenants, NEW i \in Ids
      PROVE  /\ twins'[t][i] \in [saved : BOOLEAN, from : Tenants \cup {Nobody}]
             /\ twins'[t][i].from = IF folded(t, i) THEN t ELSE twins[t][i].from
             /\ i \in rows'[t] <=> i \in rows[t] /\ ~folded(t, i)
  <2>1. twins[t][i] \in [saved : BOOLEAN, from : Tenants \cup {Nobody}]
    BY DEF TypeOK
  <2>2. twins'[t][i] = twin(t, i)
    BY <1>1
  <2>3. i \in rows'[t] <=> i \in rows[t] /\ ~folded(t, i)
    BY <1>1, <1>3
  <2>4. CASE folded(t, i)
    <3>1. twins'[t][i] = [saved |-> twins[t][i].saved, from |-> t]
      BY <1>4, <2>1, <2>2, <2>4
    <3> QED BY <2>1, <2>3, <2>4, <3>1
  <2>5. CASE ~folded(t, i)
    BY <1>4, <2>1, <2>2, <2>3, <2>5
  <2> QED BY <2>4, <2>5
<1>6. twins' \in [Tenants -> [Ids -> [saved : BOOLEAN, from : Tenants \cup {Nobody}]]]
  <2>1. \A t \in Tenants : twins'[t] = [i \in Ids |-> twin(t, i)]
    BY <1>1
  <2>2. \A t \in Tenants : twins'[t] \in [Ids -> [saved : BOOLEAN, from : Tenants \cup {Nobody}]]
    BY <1>5, <2>1
  <2>3. twins' = [t \in Tenants |-> twins'[t]]
    BY <1>1
  <2> QED BY <2>2, <2>3
<1>7. rows' \in [Tenants -> SUBSET Ids] /\ \A t \in Tenants : rows'[t] \subseteq rows[t]
  BY <1>1 DEF TypeOK
<1>8. \A t \in Tenants, i \in Ids : twins'[t][i].from \in {t, twins[t][i].from}
  BY <1>5
<1>9. ASSUME NEW t \in Tenants, NEW i \in Ids
      PROVE  i \in rows'[t] \/ twins'[t][i].from = t <=> i \in rows[t] \/ twins[t][i].from = t
  BY <1>5
<1> QED BY <1>6, <1>7, <1>8, <1>9
-----------------------------------------------------------------------------
(* The refinement mapping.                                                   *)

Source == [t \in Tenants |-> {i \in Ids : amfa[t][i] # NoTime}]
Knows == [t \in Tenants |-> Known(t)]

\* What a step of LoginStore is.
StoreStep == Logins!Next \/ UNCHANGED <<Source, Knows>>

LEMMA ArriveStep ==
  ASSUME NEW t \in Tenants, NEW i \in Ids, Source' = [Source EXCEPT ![t] = @ \cup {i}], Knows' = Knows
  PROVE  StoreStep
BY DEF StoreStep, Logins!Next, Logins!Arrive, Source, Knows

LEMMA LearnStep ==
  ASSUME NEW t \in Tenants, NEW i \in Source[t], Knows' = [Knows EXCEPT ![t] = @ \cup {i}], Source' = Source
  PROVE  StoreStep
BY DEF StoreStep, Logins!Next, Logins!Learn, Source, Knows

LEMMA ForgetStep ==
  ASSUME NEW t \in Tenants, Knows' = [Knows EXCEPT ![t] = {}], Source' = Source
  PROVE  StoreStep
BY DEF StoreStep, Logins!Next, Logins!Forget, Source, Knows

\* Nothing the mapping looks at changes.
LEMMA NothingLearned ==
  ASSUME UNCHANGED amfa,
         \A t \in Tenants, i \in Ids :
           i \in rows'[t] \/ twins'[t][i].from = t <=> i \in rows[t] \/ twins[t][i].from = t
  PROVE  StoreStep
<1>1. Source' = Source
  BY DEF Source
<1>2. \A t \in Tenants : Known(t)' = Known(t)
  BY DEF Known
<1>3. Knows' = Knows
  BY <1>2 DEF Knows
<1> QED BY <1>1, <1>3 DEF StoreStep

-----------------------------------------------------------------------------
(* Every step keeps the invariant and is one of LoginStore.                  *)

LEMMA CycleMoves ==
  ASSUME CycleTypes, NEW t \in Tenants, NEW r \in Cycles, cycle' = [cycle EXCEPT ![t] = r]
  PROVE  CycleTypes' /\ cycle'[t] = r /\ \A u \in Tenants : u # t => cycle'[u] = cycle[u]
BY DEF CycleTypes

\* A cycle's pc is one of its five.
LEMMA CyclePcs ==
  CycleTypes => \A t \in Tenants : cycle[t].pc \in {"idle", "list", "save", "record", "reconcile"}
BY DEF CycleTypes, Cycles

LEMMA CyclePcsNext ==
  CycleTypes' => \A t \in Tenants : cycle'[t].pc \in {"idle", "list", "save", "record", "reconcile"}
BY DEF CycleTypes, Cycles

\* A step of a mirror that leaves the tables alone.
LEMMA CycleOnly ==
  ASSUME IInv, NEW t \in Tenants, NEW r \in Cycles, cycle' = [cycle EXCEPT ![t] = r],
         \A i \in r.page : amfa[t][i] # NoTime,
         faults' \in 0..MaxFaults, stored' \in [Tenants -> 0..MaxTime \cup {NoTime}],
         watermarks' \in [Tenants -> 0..MaxTime \cup {NoTime}],
         UNCHANGED <<clock, amfa, rows, twins, configured, restarts>>
  PROVE  IInv' /\ StoreStep
<1> USE DEF IInv
<1>1. CycleTypes' /\ cycle'[t] = r /\ \A u \in Tenants : u # t => cycle'[u] = cycle[u]
  BY CycleMoves
<1>2. TypeOK'
  BY <1>1, CyclePcsNext DEF TypeOK
<1>3. VisibleInv' /\ OwnInv'
  BY <1>1 DEF VisibleInv, OwnInv
<1>4. StoreStep
  BY NothingLearned
<1> QED BY <1>1, <1>2, <1>3, <1>4

LEMMA FaultType == ASSUME TypeOK, Fault PROVE faults' \in 0..MaxFaults
BY DEF Fault, TypeOK

LEMMA TickStep == ASSUME IInv, Tick PROVE IInv' /\ StoreStep
<1> USE DEF IInv
<1>1. clock' \in Backfill..MaxTime
      /\ UNCHANGED <<amfa, rows, twins, stored, watermarks, cycle, configured, origin, restarts, faults>>
  BY DEF Tick, TypeOK
<1>2. TypeOK' /\ CycleTypes' /\ VisibleInv' /\ OwnInv'
  BY <1>1 DEF TypeOK, CycleTypes, VisibleInv, OwnInv
<1>3. StoreStep
  BY <1>1, NothingLearned
<1> QED BY <1>2, <1>3

LEMMA AmfaCommitsStep ==
  ASSUME IInv, NEW t \in Tenants, NEW i \in Ids, AmfaCommits(t, i)
  PROVE  IInv' /\ StoreStep
<1> USE DEF IInv
<1>1. PICK time \in {x \in clock - MaxLag .. clock : x >= 0} : amfa' = [amfa EXCEPT ![t][i] = time]
  BY DEF AmfaCommits
<1>2. UNCHANGED <<clock, rows, twins, stored, watermarks, cycle, configured, origin, restarts, faults>>
  BY DEF AmfaCommits
<1>3. time \in 0..MaxTime /\ time # NoTime
  BY DEF TypeOK, NoTime
<1>4. /\ amfa' \in [Tenants -> [Ids -> 0..MaxTime \cup {NoTime}]]
      /\ \A u \in Tenants, j \in Ids : amfa'[u][j] = IF u = t /\ j = i THEN time ELSE amfa[u][j]
  BY <1>1, <1>3 DEF TypeOK
<1>5. TypeOK' /\ CycleTypes'
  BY <1>2, <1>4 DEF TypeOK, CycleTypes
<1>6. VisibleInv' /\ OwnInv'
  BY <1>2, <1>3, <1>4 DEF VisibleInv, OwnInv
<1>7. Source' = [Source EXCEPT ![t] = @ \cup {i}]
  <2>1. \A u \in Tenants : {j \in Ids : amfa'[u][j] # NoTime}
          = IF u = t THEN {j \in Ids : amfa[u][j] # NoTime} \cup {i} ELSE {j \in Ids : amfa[u][j] # NoTime}
    BY <1>3, <1>4
  <2> QED BY <2>1 DEF Source
<1>8. Knows' = Knows
  BY <1>2 DEF Knows, Known
<1> QED BY <1>5, <1>6, <1>7, <1>8, ArriveStep

\* A saved twin keeps the AMFA data it carries.
LEMMA MergeKeycloakEventStep ==
  ASSUME IInv, NEW t \in Tenants, NEW i \in Ids, MergeKeycloakEvent(t, i)
  PROVE  IInv' /\ StoreStep
<1> USE DEF IInv
<1>1. /\ twins' = [twins EXCEPT ![t][i] = Save(@)]
      /\ UNCHANGED <<clock, amfa, rows, stored, watermarks, cycle, configured, origin, restarts, faults>>
  BY DEF MergeKeycloakEvent
<1>2. twins[t][i] \in [saved : BOOLEAN, from : Tenants \cup {Nobody}]
  BY DEF TypeOK
<1>3. /\ Save(twins[t][i]) \in [saved : BOOLEAN, from : Tenants \cup {Nobody}]
      /\ Save(twins[t][i]).from = twins[t][i].from
  BY <1>2 DEF Save
<1>4. /\ twins' \in [Tenants -> [Ids -> [saved : BOOLEAN, from : Tenants \cup {Nobody}]]]
      /\ \A u \in Tenants, j \in Ids :
           twins'[u][j] = IF u = t /\ j = i THEN Save(twins[t][i]) ELSE twins[u][j]
  BY <1>1, <1>3 DEF TypeOK
<1>5. \A u \in Tenants, j \in Ids : twins'[u][j].from = twins[u][j].from
  BY <1>3, <1>4
<1>6. TypeOK' /\ CycleTypes'
  BY <1>1, <1>4 DEF TypeOK, CycleTypes
<1>7. VisibleInv' /\ OwnInv'
  BY <1>1, <1>5 DEF VisibleInv, OwnInv
<1>8. StoreStep
  BY <1>1, <1>5, NothingLearned
<1> QED BY <1>6, <1>7, <1>8

LEMMA IdleIsCycle == Idle \in Cycles /\ Idle.page = {}
BY DEF Idle, Cycles

LEMMA RestartStep == ASSUME IInv, Restart PROVE IInv' /\ StoreStep
<1> USE DEF IInv
<1>1. /\ restarts' \in 0..MaxRestarts
      /\ watermarks' = [t \in Tenants |-> NoTime] /\ cycle' = [t \in Tenants |-> Idle]
      /\ configured' \subseteq Tenants
      /\ UNCHANGED <<clock, amfa, rows, twins, stored, origin, faults>>
  BY DEF Restart, TypeOK
<1>2. CycleTypes'
  BY <1>1, IdleIsCycle DEF CycleTypes
<1>3. TypeOK'
  BY <1>1, <1>2, CyclePcsNext DEF TypeOK
<1>4. VisibleInv' /\ OwnInv'
  BY <1>1, IdleIsCycle DEF VisibleInv, OwnInv
<1>5. StoreStep
  BY <1>1, NothingLearned
<1> QED BY <1>2, <1>3, <1>4, <1>5

LEMMA PurgeTenantStep == ASSUME IInv, NEW t \in Tenants, PurgeTenant(t) PROVE IInv' /\ StoreStep
<1> USE DEF IInv
<1>1. /\ rows' = [rows EXCEPT ![t] = {}]
      /\ twins' = [twins EXCEPT ![t] = [i \in Ids |-> NoTwin]]
      /\ stored' = [stored EXCEPT ![t] = NoTime]
      /\ UNCHANGED <<clock, amfa, watermarks, cycle, configured, origin, restarts, faults>>
  BY DEF PurgeTenant
<1>2. NoTwin \in [saved : BOOLEAN, from : Tenants \cup {Nobody}] /\ NoTwin.from = Nobody /\ Nobody # t
  BY DEF NoTwin
<1>3. /\ rows' \in [Tenants -> SUBSET Ids] /\ stored' \in [Tenants -> 0..MaxTime \cup {NoTime}]
      /\ twins' \in [Tenants -> [Ids -> [saved : BOOLEAN, from : Tenants \cup {Nobody}]]]
  BY <1>1, <1>2 DEF TypeOK
<1>4. /\ rows'[t] = {} /\ \A i \in Ids : twins'[t][i] = NoTwin
      /\ \A u \in Tenants : u # t => rows'[u] = rows[u] /\ twins'[u] = twins[u]
  BY <1>1 DEF TypeOK
<1>5. TypeOK' /\ CycleTypes'
  BY <1>1, <1>3 DEF TypeOK, CycleTypes
<1>6. VisibleInv' /\ OwnInv'
  BY <1>1, <1>2, <1>4 DEF VisibleInv, OwnInv
<1>7. Known(t)' = {} /\ \A u \in Tenants : u # t => Known(u)' = Known(u)
  BY <1>2, <1>4 DEF Known
<1>8. Knows' = [Knows EXCEPT ![t] = {}]
  BY <1>7 DEF Knows
<1>9. Source' = Source
  BY <1>1 DEF Source
<1> QED BY <1>5, <1>6, <1>8, <1>9, ForgetStep

LEMMA RunCycleStep == ASSUME IInv, NEW t \in Tenants, runCycle(t) PROVE IInv' /\ StoreStep
<1> USE DEF IInv
<1>1. UNCHANGED <<clock, amfa, rows, twins, stored, configured, restarts>>
  BY DEF runCycle
<1>2. stored' \in [Tenants -> 0..MaxTime \cup {NoTime}]
  BY <1>1 DEF TypeOK
<1> DEFINE wm == watermarkFor(t)
<1>3. CASE /\ watermarks' = [watermarks EXCEPT ![t] = wm] /\ UNCHANGED faults
           /\ cycle' = [cycle EXCEPT ![t] =
                [pc |-> "list", since |-> wm - Overlap, watermark |-> wm, start |-> wm, page |-> {}, full |-> FALSE]]
  <2> DEFINE r == [pc |-> "list", since |-> wm - Overlap, watermark |-> wm, start |-> wm, page |-> {}, full |-> FALSE]
  <2>1. wm \in 0..MaxTime
    BY DEF watermarkFor, TypeOK, NoTime
  <2> HIDE DEF wm
  <2>2. r \in Cycles /\ r.page = {}
    BY <2>1 DEF Cycles
  <2>3. watermarks' \in [Tenants -> 0..MaxTime \cup {NoTime}] /\ faults' \in 0..MaxFaults
    BY <1>3, <2>1 DEF TypeOK
  <2> HIDE DEF r
  <2>4. cycle' = [cycle EXCEPT ![t] = r]
    BY <1>3 DEF r
  <2> QED BY <1>1, <1>2, <2>2, <2>3, <2>4, CycleOnly
<1>4. CASE Fault /\ cycle' = [cycle EXCEPT ![t].pc = "reconcile"] /\ UNCHANGED watermarks
  <2> DEFINE r == [cycle[t] EXCEPT !.pc = "reconcile"]
  <2>1. cycle[t] \in Cycles /\ cycle' = [cycle EXCEPT ![t] = r]
    BY <1>4 DEF CycleTypes
  <2>2. r \in Cycles /\ r.page = cycle[t].page
    BY <2>1 DEF Cycles
  <2>3. \A i \in r.page : i \in Ids /\ amfa[t][i] # NoTime
    BY <2>1, <2>2 DEF VisibleInv, Cycles
  <2>4. faults' \in 0..MaxFaults /\ watermarks' \in [Tenants -> 0..MaxTime \cup {NoTime}]
    BY <1>4, FaultType DEF TypeOK
  <2> HIDE DEF r
  <2> QED BY <1>1, <1>2, <2>1, <2>2, <2>3, <2>4, CycleOnly
<1> HIDE DEF wm
<1> QED BY <1>3, <1>4 DEF runCycle, wm

LEMMA ListPageStep == ASSUME IInv, NEW t \in Tenants, ListPage(t) PROVE IInv' /\ StoreStep
<1> USE DEF IInv
<1>1. UNCHANGED <<clock, amfa, rows, twins, stored, watermarks, configured, restarts>>
  BY DEF ListPage
<1>2. /\ stored' \in [Tenants -> 0..MaxTime \cup {NoTime}] /\ watermarks' \in [Tenants -> 0..MaxTime \cup {NoTime}]
      /\ cycle[t] \in Cycles
  BY <1>1 DEF TypeOK, CycleTypes
<1>3. ASSUME NEW p \in ListEventsSince(t, cycle[t].since), UNCHANGED faults,
             cycle' = [cycle EXCEPT ![t].page = p,
                                    ![t].full = Cardinality(p) = PageSize,
                                    ![t].pc = IF p = {} THEN "record" ELSE "save"]
      PROVE  IInv' /\ StoreStep
  <2> DEFINE r == [cycle[t] EXCEPT !.page = p, !.full = Cardinality(p) = PageSize,
                                   !.pc = IF p = {} THEN "record" ELSE "save"]
  <2>1. cycle' = [cycle EXCEPT ![t] = r]
    BY <1>3 DEF CycleTypes
  <2>2. p \subseteq Ids /\ \A i \in p : amfa[t][i] # NoTime
    BY DEF ListEventsSince, Newer
  <2>3. r \in Cycles /\ r.page = p
    BY <1>2, <2>2 DEF Cycles
  <2>4. faults' \in 0..MaxFaults
    BY <1>3 DEF TypeOK
  <2> HIDE DEF r
  <2> QED BY <1>1, <1>2, <2>1, <2>2, <2>3, <2>4, CycleOnly
<1>4. CASE Fault /\ cycle' = [cycle EXCEPT ![t].pc = "reconcile"]
  <2> DEFINE r == [cycle[t] EXCEPT !.pc = "reconcile"]
  <2>1. cycle' = [cycle EXCEPT ![t] = r]
    BY <1>4 DEF CycleTypes
  <2>2. r \in Cycles /\ r.page = cycle[t].page
    BY <1>2 DEF Cycles
  <2>3. \A i \in r.page : i \in Ids /\ amfa[t][i] # NoTime
    BY <1>2, <2>2 DEF VisibleInv, Cycles
  <2>4. faults' \in 0..MaxFaults
    BY <1>4, FaultType
  <2> HIDE DEF r
  <2> QED BY <1>1, <1>2, <2>1, <2>2, <2>3, <2>4, CycleOnly
<1> QED BY <1>3, <1>4 DEF ListPage

\* A saved row is a login learned, unless it was known.
LEMMA MergeAmfaEventStep == ASSUME IInv, NEW t \in Tenants, MergeAmfaEvent(t) PROVE IInv' /\ StoreStep
<1> USE DEF IInv
<1>1. UNCHANGED <<clock, amfa, twins, stored, configured, restarts>> /\ cycle[t] \in Cycles
  BY DEF MergeAmfaEvent, CycleTypes
<1>2. stored' \in [Tenants -> 0..MaxTime \cup {NoTime}]
  BY <1>1 DEF TypeOK
<1>3. CASE /\ Fault /\ cycle' = [cycle EXCEPT ![t].pc = "reconcile", ![t].page = {}]
           /\ UNCHANGED <<rows, watermarks>>
  <2> DEFINE r == [cycle[t] EXCEPT !.pc = "reconcile", !.page = {}]
  <2>1. cycle' = [cycle EXCEPT ![t] = r]
    BY <1>3 DEF CycleTypes
  <2>2. r \in Cycles /\ r.page = {}
    BY <1>1 DEF Cycles
  <2>3. faults' \in 0..MaxFaults /\ watermarks' \in [Tenants -> 0..MaxTime \cup {NoTime}]
    BY <1>3, FaultType DEF TypeOK
  <2> HIDE DEF r
  <2> QED BY <1>1, <1>2, <1>3, <2>1, <2>2, <2>3, CycleOnly
<1>4. ASSUME NEW i \in cycle[t].page, NEW wm, wm = Latest({cycle[t].watermark, amfa[t][i]}),
             NEW left, left = cycle[t].page \ {i}, UNCHANGED faults,
             rows' = [rows EXCEPT ![t] = @ \cup {i}],
             watermarks' = IF left = {} THEN [watermarks EXCEPT ![t] = wm] ELSE watermarks,
             cycle' = [cycle EXCEPT
                         ![t].watermark = wm, ![t].page = left,
                         ![t].since = IF left = {} THEN wm ELSE @,
                         ![t].pc = IF left # {} THEN "save"
                                   ELSE IF cycle[t].full THEN "list" ELSE "record"]
      PROVE  IInv' /\ StoreStep
  <2>1. i \in Ids /\ amfa[t][i] # NoTime /\ amfa[t][i] \in 0..MaxTime /\ cycle[t].watermark \in 0..MaxTime
    BY <1>1 DEF Cycles, VisibleInv, TypeOK
  <2>2. wm \in 0..MaxTime
    <3>1. Latest({cycle[t].watermark, amfa[t][i]}) \in {cycle[t].watermark, amfa[t][i]}
      <4>1. cycle[t].watermark \in Int /\ amfa[t][i] \in Int
        BY <2>1
      <4> QED BY <4>1, LatestOfTwo
    <3> QED BY <1>4, <2>1, <3>1
  <2> DEFINE pc1 == IF left # {} THEN "save" ELSE IF cycle[t].full THEN "list" ELSE "record"
             since1 == IF left = {} THEN wm ELSE cycle[t].since
             r == [cycle[t] EXCEPT !.watermark = wm, !.page = left, !.since = since1, !.pc = pc1]
  <2>3. cycle' = [cycle EXCEPT ![t] = r]
    BY <1>1, <1>4 DEF CycleTypes
  <2>4. left \subseteq Ids /\ left \subseteq cycle[t].page
    BY <1>1, <1>4 DEF Cycles
  <2>5. pc1 \in {"idle", "list", "save", "record", "reconcile"} /\ since1 \in Int
    BY <1>1, <2>2 DEF Cycles
  <2>6. r \in Cycles /\ r.page = left
    BY <1>1, <2>2, <2>4, <2>5 DEF Cycles
  <2> HIDE DEF r
  <2>7. CycleTypes' /\ cycle'[t] = r /\ \A u \in Tenants : u # t => cycle'[u] = cycle[u]
    BY <2>3, <2>6, CycleMoves
  <2>8. /\ rows' \in [Tenants -> SUBSET Ids] /\ rows'[t] = rows[t] \cup {i}
        /\ \A u \in Tenants : u # t => rows'[u] = rows[u]
    BY <1>4, <2>1 DEF TypeOK
  <2>9. watermarks' \in [Tenants -> 0..MaxTime \cup {NoTime}]
    BY <1>4, <2>2 DEF TypeOK
  <2>10. TypeOK'
    BY <1>1, <1>2, <1>4, <2>7, <2>8, <2>9, CyclePcsNext DEF TypeOK
  <2>11. VisibleInv' /\ OwnInv'
    BY <1>1, <2>1, <2>4, <2>6, <2>7, <2>8 DEF VisibleInv, OwnInv
  <2>12. Source' = Source /\ i \in Source[t]
    BY <1>1, <2>1 DEF Source
  <2>13. Known(t)' = Known(t) \cup {i} /\ \A u \in Tenants : u # t => Known(u)' = Known(u)
    BY <1>1, <2>1, <2>8 DEF Known
  <2>14. Knows' = [Knows EXCEPT ![t] = @ \cup {i}]
    BY <2>13 DEF Knows
  <2>15. StoreStep
    BY <2>12, <2>14, LearnStep
  <2> QED BY <2>7, <2>10, <2>11, <2>15
<1> QED BY <1>3, <1>4 DEF MergeAmfaEvent

LEMMA RecordWatermarkStep == ASSUME IInv, NEW t \in Tenants, recordWatermark(t) PROVE IInv' /\ StoreStep
<1> USE DEF IInv
<1>1. /\ UNCHANGED <<clock, amfa, rows, twins, watermarks, configured, restarts>>
      /\ cycle' = [cycle EXCEPT ![t].pc = "reconcile"] /\ cycle[t] \in Cycles
  BY DEF recordWatermark, CycleTypes
<1> DEFINE r == [cycle[t] EXCEPT !.pc = "reconcile"]
<1>2. cycle' = [cycle EXCEPT ![t] = r]
  BY <1>1 DEF CycleTypes
<1>3. r \in Cycles /\ r.page = cycle[t].page
  BY <1>1 DEF Cycles
<1>4. \A i \in r.page : i \in Ids /\ amfa[t][i] # NoTime
  BY <1>1, <1>3 DEF VisibleInv, Cycles
<1>5. faults' \in 0..MaxFaults /\ watermarks' \in [Tenants -> 0..MaxTime \cup {NoTime}]
  BY <1>1, FaultType DEF recordWatermark, TypeOK
<1>6. stored' \in [Tenants -> 0..MaxTime \cup {NoTime}]
  <2>1. Latest({stored[t], cycle[t].watermark}) \in 0..MaxTime \cup {NoTime}
    <3>1. stored[t] \in 0..MaxTime \cup {NoTime} /\ cycle[t].watermark \in 0..MaxTime
      BY <1>1 DEF TypeOK, Cycles
    <3>2. stored[t] \in Int /\ cycle[t].watermark \in Int
      BY <3>1 DEF NoTime
    <3>3. Latest({stored[t], cycle[t].watermark}) \in {stored[t], cycle[t].watermark}
      BY <3>2, LatestOfTwo
    <3> QED BY <3>1, <3>3
  <2>2. stored' = stored \/ stored' = [stored EXCEPT ![t] = Latest({stored[t], cycle[t].watermark})]
    BY DEF recordWatermark, TypeOK
  <2> QED BY <2>1, <2>2 DEF TypeOK
<1> HIDE DEF r
<1> QED BY <1>1, <1>2, <1>3, <1>4, <1>5, <1>6, CycleOnly

LEMMA ReconcileStep == ASSUME IInv, NEW t \in Tenants, ReconcileAMFAMerges(t) PROVE IInv' /\ StoreStep
<1> USE DEF IInv
<1>1. /\ UNCHANGED <<clock, amfa, stored, watermarks, configured, restarts>>
      /\ cycle' = [cycle EXCEPT ![t] = Idle]
  BY DEF ReconcileAMFAMerges
<1>2. CASE Fault /\ UNCHANGED <<rows, twins>>
  <2>1. /\ faults' \in 0..MaxFaults /\ stored' \in [Tenants -> 0..MaxTime \cup {NoTime}]
        /\ watermarks' \in [Tenants -> 0..MaxTime \cup {NoTime}]
    BY <1>1, <1>2, FaultType DEF TypeOK
  <2> QED BY <1>1, <1>2, <2>1, IdleIsCycle, CycleOnly
<1>3. CASE Absorb(Pairs) /\ UNCHANGED faults
  <2>1. /\ rows' \in [Tenants -> SUBSET Ids] /\ \A u \in Tenants : rows'[u] \subseteq rows[u]
        /\ twins' \in [Tenants -> [Ids -> [saved : BOOLEAN, from : Tenants \cup {Nobody}]]]
        /\ \A u \in Tenants, i \in Ids : twins'[u][i].from \in {u, twins[u][i].from}
        /\ \A u \in Tenants, i \in Ids :
              i \in rows'[u] \/ twins'[u][i].from = u <=> i \in rows[u] \/ twins[u][i].from = u
    BY <1>3, AbsorbFacts
  <2>2. CycleTypes' /\ cycle'[t] = Idle /\ \A u \in Tenants : u # t => cycle'[u] = cycle[u]
    BY <1>1, IdleIsCycle, CycleMoves
  <2>3. TypeOK'
    BY <1>1, <1>3, <2>1, <2>2, CyclePcsNext DEF TypeOK
  <2>4. VisibleInv'
    BY <1>1, <2>1, <2>2, IdleIsCycle DEF VisibleInv
  <2>5. OwnInv'
    BY <2>1 DEF OwnInv
  <2>6. StoreStep
    BY <1>1, <2>1, NothingLearned
  <2> QED BY <2>2, <2>3, <2>4, <2>5, <2>6
<1> QED BY <1>2, <1>3 DEF ReconcileAMFAMerges

LEMMA StutterStep == ASSUME IInv, UNCHANGED vars PROVE IInv' /\ StoreStep
<1> USE DEF IInv, vars
<1>1. TypeOK' /\ CycleTypes' /\ VisibleInv' /\ OwnInv'
  BY DEF TypeOK, CycleTypes, VisibleInv, OwnInv
<1>2. StoreStep
  BY NothingLearned
<1> QED BY <1>1, <1>2

LEMMA NextStep == ASSUME IInv, [Next]_vars PROVE IInv' /\ StoreStep
<1>1. CASE Tick
  BY <1>1, TickStep
<1>2. CASE Restart
  BY <1>2, RestartStep
<1>3. CASE \E t \in Tenants : PurgeTenant(t)
  BY <1>3, PurgeTenantStep
<1>4. CASE \E t \in Tenants : runCycle(t)
  BY <1>4, RunCycleStep
<1>5. CASE \E t \in Tenants : MirrorStep(t)
  BY <1>5, ListPageStep, MergeAmfaEventStep, RecordWatermarkStep, ReconcileStep DEF MirrorStep
<1>6. CASE \E t \in Tenants, i \in Ids : AmfaCommits(t, i)
  BY <1>6, AmfaCommitsStep
<1>7. CASE \E t \in Tenants, i \in Ids : MergeKeycloakEvent(t, i)
  BY <1>7, MergeKeycloakEventStep
<1>8. CASE UNCHANGED vars
  BY <1>8, StutterStep
<1> QED BY <1>1, <1>2, <1>3, <1>4, <1>5, <1>6, <1>7, <1>8 DEF Next

LEMMA InitInv == Init => IInv
<1> SUFFICES ASSUME Init PROVE IInv
  OBVIOUS
<1>1. CycleTypes /\ \A t \in Tenants : cycle[t] = Idle
  BY IdleIsCycle DEF Init, CycleTypes
<1>2. NoTwin \in [saved : BOOLEAN, from : Tenants \cup {Nobody}] /\ NoTwin.from = Nobody
  BY DEF NoTwin
<1>3. TypeOK
  BY <1>1, <1>2, CyclePcs DEF Init, TypeOK, NoTime
<1>4. VisibleInv /\ OwnInv
  BY <1>1, <1>2, IdleIsCycle DEF Init, VisibleInv, OwnInv
<1> QED BY <1>1, <1>3, <1>4 DEF IInv

LEMMA InitMaps == Init => Logins!Init
<1> SUFFICES ASSUME Init PROVE Logins!Init
  OBVIOUS
<1>1. Source = [t \in Tenants |-> {}]
  BY DEF Init, Source
<1>2. \A t \in Tenants : Known(t) = {}
  BY DEF Init, Known, NoTwin
<1> QED BY <1>1, <1>2 DEF Logins!Init, Source

-----------------------------------------------------------------------------
(* The theorems.                                                             *)

\* The invariant holds in every state: what is stored is visible in AMFA for that
\* tenant, and a Keycloak row carries no other tenant's AMFA data.
THEOREM Invariance == Spec => []IInv
<1>1. Init => IInv
  BY InitInv
<1>2. IInv /\ [Next]_vars => IInv'
  BY NextStep
<1> QED BY <1>1, <1>2, PTL DEF Spec

\* Mirrors, monitors, sweeps, restarts and purges together do what LoginStore
\* promises: a login is known only after its tenant's AMFA recorded it, and from
\* then on until the tenant is purged.
THEOREM StoreRefined == Spec => RefinesLoginStore
<1>1. Init => Logins!Init
  BY InitMaps
<1>2. IInv /\ [Next]_vars => [Logins!Next]_<<Source, Knows>>
  BY NextStep DEF StoreStep
<1>3. Source = [t \in Tenants |-> {i \in Ids : amfa[t][i] # NoTime}] /\ Knows = [t \in Tenants |-> Known(t)]
  BY DEF Source, Knows
<1>4. Spec => [][Logins!Next]_<<Source, Knows>>
  BY <1>2, Invariance, PTL DEF Spec
<1>5. Spec => Logins!Init
  BY <1>1 DEF Spec
<1> QED BY <1>4, <1>5, PTL DEF RefinesLoginStore, Logins!Spec, Source, Knows

-----------------------------------------------------------------------------
(* No login is skipped as long as a cycle's rows fit a page.                 *)

\* What a cycle is about to read, all that is newer than its position less the
\* overlap, is less than a page.
OnePage ==
  \A t \in Tenants : cycle[t].pc = "list" => Cardinality(Newer(t, cycle[t].since)) < PageSize

\* The position w has left the row behind by more than the overlap.
Behind(t, i, w) ==
  amfa[t][i] # NoTime /\ amfa[t][i] > origin[t] - Overlap /\ amfa[t][i] <= w - Overlap

KnownBehind(t, w) == \A i \in Ids : Behind(t, i, w) => i \in Known(t)

\* No position and no row is ahead of the clock.
TimesOK(t) ==
  /\ t \in DOMAIN origin /\ origin[t] \in Int
  /\ watermarks[t] <= clock /\ stored[t] <= clock /\ cycle[t].watermark <= clock
  /\ \A i \in Ids : amfa[t][i] <= clock

\* A tenant without a mirror has no cycle and no position in memory.
OwnerOK(t) == t \notin configured => cycle[t].pc = "idle" /\ watermarks[t] = NoTime

PositionOK(t) ==
  /\ watermarks[t] # NoTime => KnownBehind(t, watermarks[t])
  /\ stored[t] # NoTime => KnownBehind(t, stored[t])

\* A cycle reads from its position less the overlap; while it saves a page, what
\* lies behind any row of the page is known or on the page.
PageOK(t) ==
  /\ cycle[t].pc = "list" => cycle[t].since = cycle[t].watermark - Overlap
  /\ cycle[t].pc \in {"list", "record"} => cycle[t].watermark = watermarks[t]
  /\ cycle[t].pc = "save" =>
       /\ ~cycle[t].full
       /\ \A w \in {cycle[t].watermark} \cup {amfa[t][j] : j \in cycle[t].page}, i \in Ids :
            Behind(t, i, w) => i \in Known(t) \cup cycle[t].page

ReadOK(t) == TimesOK(t) /\ OwnerOK(t) /\ PositionOK(t) /\ PageOK(t)

ReadInv == \A t \in Tenants : ReadOK(t)

LEMMA Numbers ==
  ASSUME IInv, NEW t \in Tenants
  PROVE  /\ clock \in Nat /\ watermarks[t] \in Int /\ stored[t] \in Int
         /\ cycle[t].watermark \in Nat /\ cycle[t].since \in Int /\ cycle[t].page \subseteq Ids
         /\ \A i \in Ids : amfa[t][i] \in Int /\ (amfa[t][i] # NoTime => amfa[t][i] \in Nat)
         /\ NoTime \in Int /\ NoTime < 0 /\ Overlap \in Nat /\ MaxLag \in Nat /\ MaxLag < Overlap
<1>1. cycle[t] \in Cycles
  BY DEF IInv, CycleTypes
<1> QED BY <1>1, LagAssumption DEF IInv, TypeOK, Cycles, NoTime

\* Nothing of the tenant t moves but the clock, and what is known stays known.
LEMMA Unmoved ==
  ASSUME IInv, NEW t \in Tenants, ReadOK(t), clock' \in Nat, clock <= clock',
         cycle'[t] = cycle[t], watermarks'[t] = watermarks[t], stored'[t] = stored[t],
         amfa'[t] = amfa[t], origin'[t] = origin[t], DOMAIN origin' = DOMAIN origin,
         t \in configured' <=> t \in configured,
         Known(t) \subseteq Known(t)'
  PROVE  ReadOK(t)'
<1>1. TimesOK(t)'
  BY Numbers DEF ReadOK, TimesOK
<1>2. OwnerOK(t)'
  BY DEF ReadOK, OwnerOK
<1>3. PositionOK(t)' /\ PageOK(t)'
  BY DEF ReadOK, PositionOK, PageOK, KnownBehind, Behind
<1> QED BY <1>1, <1>2, <1>3 DEF ReadOK

\* What is known is in the rows of either source.
LEMMA KnownSame ==
  ASSUME UNCHANGED <<rows, twins>>, NEW t \in Tenants
  PROVE  Known(t)' = Known(t)
BY DEF Known

LEMMA ReadInit == Init => ReadInv
<1> SUFFICES ASSUME Init, NEW t \in Tenants PROVE ReadOK(t)
  BY DEF ReadInv
<1>1. /\ cycle[t] = Idle /\ watermarks[t] = NoTime /\ stored[t] = NoTime /\ origin[t] = 0
      /\ t \in DOMAIN origin
      /\ clock = Backfill /\ Backfill \in Nat /\ \A i \in Ids : amfa[t][i] = NoTime
  BY DEF Init
<1> QED BY <1>1 DEF ReadOK, TimesOK, OwnerOK, PositionOK, PageOK, Idle, NoTime

\* Time passes, and Keycloak's half of a login is saved.
LEMMA ReadBeside ==
  ASSUME IInv, ReadInv, Tick \/ \E t \in Tenants, i \in Ids : MergeKeycloakEvent(t, i)
  PROVE  ReadInv'
<1>1. SUFFICES ASSUME NEW u \in Tenants PROVE ReadOK(u)'
  BY DEF ReadInv
<1>2. ReadOK(u)
  BY DEF ReadInv
<1>3. CASE Tick
  <2>1. Known(u)' = Known(u) /\ clock' \in Nat /\ clock <= clock'
    BY <1>3, Numbers, KnownSame DEF Tick
  <2> QED BY <1>2, <1>3, <2>1, Unmoved DEF Tick
<1>4. ASSUME NEW t \in Tenants, NEW i \in Ids, MergeKeycloakEvent(t, i)
      PROVE  ReadOK(u)'
  <2>1. /\ twins' = [twins EXCEPT ![t][i] = Save(@)]
        /\ UNCHANGED <<clock, amfa, rows, stored, watermarks, cycle, configured, origin>>
    BY <1>4 DEF MergeKeycloakEvent
  <2>2. Save(twins[t][i]).from = twins[t][i].from
    BY DEF Save, IInv, TypeOK
  <2>3. \A j \in Ids : twins'[u][j].from = twins[u][j].from
    BY <2>1, <2>2 DEF IInv, TypeOK
  <2>4. Known(u)' = Known(u)
    BY <2>1, <2>3 DEF Known
  <2>5. clock' \in Nat /\ clock <= clock'
    BY <2>1, Numbers
  <2> QED BY <1>2, <2>1, <2>4, <2>5, Unmoved
<1> QED BY <1>3, <1>4

\* A row that becomes visible is within the overlap of every position.
LEMMA ReadCommit ==
  ASSUME IInv, ReadInv, NEW t \in Tenants, NEW i \in Ids, AmfaCommits(t, i)
  PROVE  ReadInv'
<1>1. SUFFICES ASSUME NEW u \in Tenants PROVE ReadOK(u)'
  BY DEF ReadInv
<1>2. PICK time \in {x \in clock - MaxLag .. clock : x >= 0} : amfa' = [amfa EXCEPT ![t][i] = time]
  BY DEF AmfaCommits
<1>3. /\ UNCHANGED <<clock, rows, twins, stored, watermarks, cycle, configured, origin>>
      /\ amfa[t][i] = NoTime
  BY DEF AmfaCommits
<1>4. \A v \in Tenants, j \in Ids : amfa'[v][j] = IF v = t /\ j = i THEN time ELSE amfa[v][j]
  BY <1>2 DEF IInv, TypeOK
<1>5. ReadOK(u) /\ Known(u)' = Known(u)
  BY <1>3, KnownSame DEF ReadInv
<1>6. CASE u # t
  <2>1. amfa'[u] = amfa[u] /\ clock' \in Nat /\ clock <= clock'
    BY <1>2, <1>3, <1>6, Numbers DEF IInv, TypeOK
  <2> QED BY <1>3, <1>5, <2>1, Unmoved
<1>7. CASE u = t
  <2>1. time \in Nat /\ time <= clock /\ time > clock - Overlap
    BY Numbers
  <2>2. TimesOK(t)'
    BY <1>3, <1>4, <1>5, <1>7, <2>1 DEF ReadOK, TimesOK
  <2>3. \A w \in Int, j \in Ids : w <= clock /\ Behind(t, j, w)' => Behind(t, j, w)
    BY <1>3, <1>4, <2>1, Numbers DEF Behind
  <2>4. OwnerOK(t)'
    BY <1>3, <1>5, <1>7 DEF ReadOK, OwnerOK
  <2>5. PositionOK(t)'
    BY <1>3, <1>5, <1>7, <2>3, Numbers DEF ReadOK, TimesOK, PositionOK, KnownBehind, Behind
  <2>6. \A j \in cycle[t].page : amfa'[t][j] = amfa[t][j] /\ amfa[t][j] \in Int /\ amfa[t][j] <= clock
    <3>1. \A j \in cycle[t].page : j \in Ids /\ amfa[t][j] # NoTime
      BY Numbers DEF IInv, VisibleInv
    <3> QED BY <1>3, <1>4, <1>5, <1>7, <3>1, Numbers DEF ReadOK, TimesOK
  <2>7. PageOK(t)'
    <3>1. CASE cycle[t].pc = "save"
      <4>1. ASSUME NEW w \in {cycle[t].watermark} \cup {amfa'[t][j] : j \in cycle[t].page},
                   NEW j \in Ids, Behind(t, j, w)'
            PROVE  j \in Known(t) \cup cycle[t].page
        <5>1. /\ w \in {cycle[t].watermark} \cup {amfa[t][k] : k \in cycle[t].page}
              /\ w \in Int /\ w <= clock
          BY <1>5, <1>7, <2>6, Numbers DEF ReadOK, TimesOK
        <5>2. Behind(t, j, w)
          BY <2>3, <4>1, <5>1
        <5> QED BY <1>5, <1>7, <3>1, <5>1, <5>2 DEF ReadOK, PageOK
      <4> QED BY <1>3, <1>5, <1>7, <3>1, <4>1 DEF ReadOK, PageOK
    <3>2. CASE cycle[t].pc # "save"
      BY <1>3, <1>5, <1>7, <3>2 DEF ReadOK, PageOK
    <3> QED BY <3>1, <3>2
  <2> QED BY <1>7, <2>2, <2>4, <2>5, <2>7 DEF ReadOK
<1> QED BY <1>6, <1>7

\* A restart forgets the positions in memory; a purge takes the stored one with the
\* tenant's rows.
LEMMA ReadLose ==
  ASSUME IInv, ReadInv, Restart \/ \E t \in Tenants : PurgeTenant(t)
  PROVE  ReadInv'
<1>1. SUFFICES ASSUME NEW u \in Tenants PROVE ReadOK(u)'
  BY DEF ReadInv
<1>2. ReadOK(u)
  BY DEF ReadInv
<1>3. CASE Restart
  <2>1. /\ watermarks'[u] = NoTime /\ cycle'[u] = Idle
        /\ UNCHANGED <<clock, amfa, rows, twins, stored, origin>>
    BY <1>3 DEF Restart
  <2>2. Known(u)' = Known(u)
    BY <2>1, KnownSame
  <2>3. Idle.pc = "idle" /\ Idle.watermark = 0
    BY DEF Idle
  <2>4. TimesOK(u)' /\ OwnerOK(u)'
    BY <1>2, <2>1, <2>3, Numbers DEF ReadOK, TimesOK, OwnerOK
  <2>5. PositionOK(u)' /\ PageOK(u)'
    BY <1>2, <2>1, <2>2, <2>3 DEF ReadOK, PositionOK, PageOK, KnownBehind, Behind
  <2> QED BY <2>4, <2>5 DEF ReadOK
<1>4. ASSUME NEW t \in Tenants, PurgeTenant(t)
      PROVE  ReadOK(u)'
  <2>1. /\ rows' = [rows EXCEPT ![t] = {}] /\ stored' = [stored EXCEPT ![t] = NoTime]
        /\ twins' = [twins EXCEPT ![t] = [i \in Ids |-> NoTwin]]
        /\ t \notin configured
        /\ UNCHANGED <<clock, amfa, watermarks, cycle, configured, origin>>
    BY <1>4 DEF PurgeTenant
  <2>2. stored'[u] = IF u = t THEN NoTime ELSE stored[u]
    BY <2>1 DEF IInv, TypeOK
  <2>3. CASE u # t
    <3>1. rows'[u] = rows[u] /\ twins'[u] = twins[u]
      BY <2>1, <2>3 DEF IInv, TypeOK
    <3>2. Known(u)' = Known(u) /\ clock' \in Nat /\ clock <= clock'
      BY <2>1, <3>1, Numbers DEF Known
    <3> QED BY <1>2, <2>1, <2>2, <2>3, <3>2, Unmoved
  <2>4. CASE u = t
    <3>1. TimesOK(u)' /\ OwnerOK(u)'
      BY <1>2, <2>1, <2>2, <2>4, Numbers DEF ReadOK, TimesOK, OwnerOK
    <3>2. PositionOK(u)' /\ PageOK(u)'
      BY <1>2, <2>1, <2>2, <2>4 DEF ReadOK, OwnerOK, PositionOK, PageOK
    <3> QED BY <3>1, <3>2 DEF ReadOK
  <2> QED BY <2>3, <2>4
<1> QED BY <1>3, <1>4

\* A step of the mirror of t leaves the other tenants' positions alone.
LEMMA ReadMirror ==
  ASSUME IInv, ReadInv, NEW t \in Tenants, ReadOK(t)', UNCHANGED <<clock, amfa, configured>>,
         DOMAIN origin' = DOMAIN origin,
         \A u \in Tenants \ {t} :
           /\ cycle'[u] = cycle[u] /\ watermarks'[u] = watermarks[u]
           /\ stored'[u] = stored[u] /\ origin'[u] = origin[u],
         \A u \in Tenants : Known(u) \subseteq Known(u)'
  PROVE  ReadInv'
<1>1. ASSUME NEW u \in Tenants, u # t
      PROVE  ReadOK(u)'
  <2>1. ReadOK(u) /\ clock' \in Nat /\ clock <= clock'
    BY Numbers DEF ReadInv
  <2>2. /\ cycle'[u] = cycle[u] /\ watermarks'[u] = watermarks[u]
        /\ stored'[u] = stored[u] /\ origin'[u] = origin[u]
    BY <1>1
  <2> QED BY <2>1, <2>2, Unmoved
<1> QED BY <1>1 DEF ReadInv

\* A cycle that gives up keeps its positions.
LEMMA ReadGivesUp ==
  ASSUME IInv, ReadInv, NEW t \in Tenants, t \in configured, NEW r \in Cycles, r.pc = "reconcile",
         r.watermark = cycle[t].watermark, cycle' = [cycle EXCEPT ![t] = r],
         UNCHANGED <<clock, amfa, rows, twins, stored, watermarks, configured, origin>>
  PROVE  ReadInv'
<1>1. cycle'[t] = r /\ \A u \in Tenants : u # t => cycle'[u] = cycle[u]
  BY CycleMoves DEF IInv
<1>2. \A u \in Tenants : Known(u)' = Known(u)
  BY KnownSame
<1>3. ReadOK(t)
  BY DEF ReadInv
<1>4. TimesOK(t)' /\ OwnerOK(t)'
  BY <1>1, <1>3 DEF ReadOK, TimesOK, OwnerOK
<1>5. PositionOK(t)' /\ PageOK(t)'
  BY <1>1, <1>2, <1>3 DEF ReadOK, PositionOK, PageOK, KnownBehind, Behind
<1> QED BY <1>1, <1>2, <1>4, <1>5, ReadMirror DEF ReadOK

\* A cycle starts from the position in memory, the stored one, or a new backfill,
\* which has left nothing behind.
LEMMA ReadStart ==
  ASSUME IInv, ReadInv, NEW t \in Tenants, runCycle(t)
  PROVE  ReadInv'
<1> DEFINE row(w) == [pc |-> "list", since |-> w - Overlap, watermark |-> w, start |-> w, page |-> {}, full |-> FALSE]
           new == watermarks[t] = NoTime /\ stored[t] = NoTime
<1>1. /\ UNCHANGED <<clock, amfa, rows, twins, stored, configured>>
      /\ t \in configured /\ cycle[t] \in Cycles
  BY DEF runCycle, IInv, CycleTypes
<1>2. ReadOK(t) /\ \A u \in Tenants : Known(u)' = Known(u)
  BY <1>1, KnownSame DEF ReadInv
<1>3. ASSUME NEW wm, wm = watermarkFor(t), watermarks' = [watermarks EXCEPT ![t] = wm],
             cycle' = [cycle EXCEPT ![t] = row(wm)],
             origin' = IF new THEN [origin EXCEPT ![t] = wm] ELSE origin
      PROVE  ReadInv'
  <2> DEFINE r == row(wm)
  <2>1. wm \in 0..MaxTime /\ wm <= clock
    BY <1>2, <1>3, Numbers DEF watermarkFor, IInv, TypeOK, NoTime, ReadOK, TimesOK
  <2>2. new \/ KnownBehind(t, wm)
    BY <1>2, <1>3 DEF ReadOK, PositionOK, watermarkFor
  <2>3. r \in Cycles /\ r.pc = "list" /\ r.watermark = wm /\ r.since = wm - Overlap
    BY <2>1 DEF Cycles
  <2>a. cycle' = [cycle EXCEPT ![t] = r]
    BY <1>3
  <2> HIDE DEF r
  <2>4. cycle'[t] = r /\ \A u \in Tenants : u # t => cycle'[u] = cycle[u]
    BY <2>a, <2>3, CycleMoves DEF IInv
  <2>5. watermarks'[t] = wm /\ \A u \in Tenants \ {t} : watermarks'[u] = watermarks[u]
    BY <1>3 DEF IInv, TypeOK
  <2>6. DOMAIN origin' = DOMAIN origin /\ \A u \in Tenants \ {t} : origin'[u] = origin[u]
    BY <1>3
  <2>7. /\ t \in DOMAIN origin /\ origin'[t] \in Int
        /\ origin'[t] = IF new THEN wm ELSE origin[t]
    BY <1>2, <1>3, <2>1 DEF ReadOK, TimesOK
  <2>8. KnownBehind(t, wm)'
    <3>1. CASE new
      <4>1. \A i \in Ids : amfa'[t][i] \in Int
        BY <1>1, Numbers
      <4>2. origin'[t] = wm /\ wm \in Int /\ Overlap \in Int
        BY <2>1, <2>7, <3>1
      <4>3. \A i \in Ids : ~Behind(t, i, wm)'
        BY <4>1, <4>2 DEF Behind
      <4> QED BY <4>3 DEF KnownBehind
    <3>2. CASE ~new
      BY <1>1, <1>2, <2>2, <2>7, <3>2 DEF KnownBehind, Behind
    <3> QED BY <3>1, <3>2
  <2>9. TimesOK(t)'
    BY <1>1, <1>2, <2>1, <2>3, <2>4, <2>5, <2>6, <2>7 DEF ReadOK, TimesOK
  <2>10. OwnerOK(t)'
    BY <1>1 DEF OwnerOK
  <2>11. PositionOK(t)'
    <3>1. stored[t] # NoTime => KnownBehind(t, stored[t])'
      BY <1>1, <1>2, <2>7 DEF ReadOK, PositionOK, KnownBehind, Behind
    <3> QED BY <1>1, <2>5, <2>8, <3>1 DEF PositionOK, KnownBehind, Behind
  <2>12. PageOK(t)'
    BY <2>3, <2>4, <2>5 DEF PageOK
  <2> QED BY <1>1, <1>2, <2>4, <2>5, <2>6, <2>9, <2>10, <2>11, <2>12, ReadMirror DEF ReadOK
<1>4. CASE Fault /\ cycle' = [cycle EXCEPT ![t].pc = "reconcile"] /\ UNCHANGED <<watermarks, origin>>
  <2> DEFINE s == [cycle[t] EXCEPT !.pc = "reconcile"]
  <2>1. s \in Cycles /\ s.pc = "reconcile" /\ s.watermark = cycle[t].watermark
    BY <1>1 DEF Cycles
  <2>2. cycle' = [cycle EXCEPT ![t] = s]
    BY <1>4 DEF IInv, CycleTypes
  <2> HIDE DEF s
  <2> QED BY <1>1, <1>4, <2>1, <2>2, ReadGivesUp
<1> QED BY <1>3, <1>4 DEF runCycle

\* Whatever the ids, AMFA's table holds finitely many rows.
VisibleFinite == \A t \in Tenants : IsFiniteSet(Source[t])

LEMMA FiniteInit == Init => VisibleFinite
<1> SUFFICES ASSUME Init, NEW t \in Tenants PROVE IsFiniteSet(Source[t])
  BY DEF VisibleFinite
<1>1. Source[t] = {}
  BY DEF Init, Source
<1> QED BY <1>1, FS_EmptySet

LEMMA FiniteNext == ASSUME IInv, VisibleFinite, [Next]_vars PROVE VisibleFinite'
<1>1. CASE UNCHANGED amfa
  BY <1>1 DEF VisibleFinite, Source
<1>2. ASSUME NEW t \in Tenants, NEW i \in Ids, AmfaCommits(t, i)
      PROVE  VisibleFinite'
  <2>1. PICK time : amfa' = [amfa EXCEPT ![t][i] = time]
    BY <1>2 DEF AmfaCommits
  <2>2. ASSUME NEW u \in Tenants
        PROVE  IsFiniteSet(Source'[u])
    <3>1. IsFiniteSet(Source[u]) /\ IsFiniteSet(Source[u] \cup {i})
      BY FS_AddElement DEF VisibleFinite
    <3>2. \A j \in Ids : j # i => amfa'[u][j] = amfa[u][j]
      BY <2>1 DEF IInv, TypeOK
    <3>3. Source'[u] \subseteq Source[u] \cup {i}
      BY <3>2 DEF Source
    <3> QED BY <3>1, <3>3, FS_Subset
  <2> QED BY <2>2 DEF VisibleFinite
<1>3. UNCHANGED amfa \/ \E t \in Tenants, i \in Ids : AmfaCommits(t, i)
  BY DEF Next, vars, Tick, Restart, PurgeTenant, runCycle, MirrorStep, ListPage, MergeAmfaEvent,
         recordWatermark, ReconcileAMFAMerges, MergeKeycloakEvent
<1> QED BY <1>1, <1>2, <1>3

\* A page that is not full holds all that is newer.
LEMMA ShortPage ==
  ASSUME VisibleFinite, NEW t \in Tenants, NEW since, NEW p \in ListEventsSince(t, since),
         Cardinality(Newer(t, since)) < PageSize
  PROVE  p = Newer(t, since) /\ Cardinality(p) # PageSize
<1> DEFINE new == Newer(t, since)
<1>1. IsFiniteSet(new) /\ Cardinality(new) \in Nat
  <2>1. IsFiniteSet(Source[t]) /\ new \subseteq Source[t]
    BY DEF VisibleFinite, Source, Newer
  <2> HIDE DEF new
  <2> QED BY <2>1, FS_Subset, FS_CardinalityType
<1>2. p \subseteq new /\ Cardinality(p) = Cardinality(new)
  BY DEF ListEventsSince
<1> HIDE DEF new
<1>3. p = new
  BY <1>1, <1>2, FS_Subset
<1> QED BY <1>1, <1>2, <1>3 DEF new

\* A read leaves nothing out: a row behind the position was known, a newer one is on
\* the page.
LEMMA ReadPage ==
  ASSUME IInv, ReadInv, OnePage, VisibleFinite, NEW t \in Tenants, ListPage(t)
  PROVE  ReadInv'
<1>1. /\ UNCHANGED <<clock, amfa, rows, twins, stored, watermarks, configured, origin>>
      /\ cycle[t].pc = "list" /\ cycle[t] \in Cycles
  BY DEF ListPage, IInv, CycleTypes
<1>2. ReadOK(t) /\ \A u \in Tenants : Known(u)' = Known(u)
  BY <1>1, KnownSame DEF ReadInv
<1>3. t \in configured
  BY <1>1, <1>2 DEF ReadOK, OwnerOK
<1>4. CASE Fault /\ cycle' = [cycle EXCEPT ![t].pc = "reconcile"]
  <2> DEFINE s == [cycle[t] EXCEPT !.pc = "reconcile"]
  <2>1. s \in Cycles /\ s.pc = "reconcile" /\ s.watermark = cycle[t].watermark
    BY <1>1 DEF Cycles
  <2>2. cycle' = [cycle EXCEPT ![t] = s]
    BY <1>4 DEF IInv, CycleTypes
  <2> HIDE DEF s
  <2> QED BY <1>1, <1>3, <2>1, <2>2, ReadGivesUp
<1>5. ASSUME NEW p \in ListEventsSince(t, cycle[t].since),
             cycle' = [cycle EXCEPT ![t].page = p,
                                    ![t].full = Cardinality(p) = PageSize,
                                    ![t].pc = IF p = {} THEN "record" ELSE "save"]
      PROVE  ReadInv'
  <2> DEFINE full == Cardinality(p) = PageSize
             pc == IF p = {} THEN "record" ELSE "save"
             r == [cycle[t] EXCEPT !.page = p, !.full = full, !.pc = pc]
  <2>1. cycle' = [cycle EXCEPT ![t] = r]
    BY <1>5 DEF IInv, CycleTypes
  <2>2. p = Newer(t, cycle[t].since) /\ ~full
    BY <1>1, <1>5, ShortPage DEF OnePage
  <2>3. p \subseteq Ids
    BY <2>2 DEF Newer
  <2>4. /\ r \in Cycles /\ r.pc = pc /\ r.page = p /\ ~r.full
        /\ r.watermark = cycle[t].watermark
    BY <1>1, <2>2, <2>3 DEF Cycles
  <2> HIDE DEF r
  <2>5. cycle'[t] = r /\ \A u \in Tenants : u # t => cycle'[u] = cycle[u]
    BY <2>1, <2>4, CycleMoves DEF IInv
  <2>6. TimesOK(t)' /\ OwnerOK(t)'
    BY <1>1, <1>2, <1>3, <2>4, <2>5 DEF ReadOK, TimesOK, OwnerOK
  <2>7. PositionOK(t)'
    BY <1>1, <1>2 DEF ReadOK, PositionOK, KnownBehind, Behind
  <2>8. ASSUME NEW i \in Ids, amfa[t][i] # NoTime, amfa[t][i] > origin[t] - Overlap
        PROVE  i \in Known(t) \cup p
    <3>1. CASE amfa[t][i] > cycle[t].since
      BY <2>2, <2>8, <3>1 DEF Newer
    <3>2. CASE ~(amfa[t][i] > cycle[t].since)
      <4>1. watermarks[t] = cycle[t].watermark /\ cycle[t].since = watermarks[t] - Overlap
        BY <1>1, <1>2 DEF ReadOK, PageOK
      <4>2. watermarks[t] # NoTime
        BY <4>1, Numbers
      <4>3. amfa[t][i] <= watermarks[t] - Overlap
        BY <3>2, <4>1, Numbers
      <4> QED BY <1>2, <2>8, <4>2, <4>3 DEF ReadOK, PositionOK, KnownBehind, Behind
    <3> QED BY <3>1, <3>2
  <2>9. \A i \in Ids : amfa'[t][i] # NoTime /\ amfa'[t][i] > origin'[t] - Overlap => i \in Known(t)' \cup p
    BY <1>1, <1>2, <2>8
  <2>10. PageOK(t)'
    <3>1. cycle[t].watermark = watermarks[t]
      BY <1>1, <1>2 DEF ReadOK, PageOK
    <3>2. cycle'[t].page = p /\ ~cycle'[t].full /\ cycle'[t].watermark = watermarks'[t]
      BY <1>1, <2>4, <2>5, <3>1
    <3>3. CASE p = {}
      <4>1. cycle'[t].pc = "record"
        BY <2>4, <2>5, <3>3
      <4> QED BY <3>2, <4>1 DEF PageOK
    <3>4. CASE p # {}
      <4>1. cycle'[t].pc = "save"
        BY <2>4, <2>5, <3>4
      <4>2. ASSUME NEW w \in {cycle'[t].watermark} \cup {amfa'[t][j] : j \in cycle'[t].page},
                   NEW i \in Ids, Behind(t, i, w)'
            PROVE  i \in Known(t)' \cup cycle'[t].page
        BY <2>9, <3>2, <4>2 DEF Behind
      <4> QED BY <3>2, <4>1, <4>2 DEF PageOK
    <3> QED BY <3>3, <3>4
  <2> QED BY <1>1, <1>2, <2>5, <2>6, <2>7, <2>10, ReadMirror DEF ReadOK
<1> QED BY <1>4, <1>5 DEF ListPage

\* A saved row becomes known as it leaves the page, and the position follows the
\* last one.
LEMMA ReadSave ==
  ASSUME IInv, ReadInv, NEW t \in Tenants, MergeAmfaEvent(t)
  PROVE  ReadInv'
<1>1. /\ UNCHANGED <<clock, amfa, twins, stored, configured, origin>>
      /\ cycle[t].pc = "save" /\ cycle[t] \in Cycles
  BY DEF MergeAmfaEvent, IInv, CycleTypes
<1>2. ReadOK(t)
  BY DEF ReadInv
<1>3. t \in configured /\ ~cycle[t].full
  BY <1>1, <1>2 DEF ReadOK, OwnerOK, PageOK
<1>4. CASE /\ Fault /\ cycle' = [cycle EXCEPT ![t].pc = "reconcile", ![t].page = {}]
           /\ UNCHANGED <<rows, watermarks>>
  <2> DEFINE s == [cycle[t] EXCEPT !.pc = "reconcile", !.page = {}]
  <2>1. s \in Cycles /\ s.pc = "reconcile" /\ s.watermark = cycle[t].watermark
    BY <1>1 DEF Cycles
  <2>2. cycle' = [cycle EXCEPT ![t] = s]
    BY <1>4 DEF IInv, CycleTypes
  <2> HIDE DEF s
  <2> QED BY <1>1, <1>3, <1>4, <2>1, <2>2, ReadGivesUp
<1>5. ASSUME NEW i \in cycle[t].page, NEW wm, wm = Latest({cycle[t].watermark, amfa[t][i]}),
             NEW left, left = cycle[t].page \ {i},
             rows' = [rows EXCEPT ![t] = @ \cup {i}],
             watermarks' = IF left = {} THEN [watermarks EXCEPT ![t] = wm] ELSE watermarks,
             cycle' = [cycle EXCEPT
                         ![t].watermark = wm, ![t].page = left,
                         ![t].since = IF left = {} THEN wm ELSE @,
                         ![t].pc = IF left # {} THEN "save"
                                   ELSE IF cycle[t].full THEN "list" ELSE "record"]
      PROVE  ReadInv'
  <2> DEFINE pc1 == IF left # {} THEN "save" ELSE "record"
             since1 == IF left = {} THEN wm ELSE cycle[t].since
             r == [cycle[t] EXCEPT !.watermark = wm, !.page = left, !.since = since1, !.pc = pc1]
             ahead == {cycle[t].watermark} \cup {amfa[t][j] : j \in cycle[t].page}
  <2>1. i \in Ids /\ amfa[t][i] \in Nat /\ amfa[t][i] \in 0..MaxTime /\ amfa[t][i] <= clock
    <3>1. i \in Ids /\ amfa[t][i] # NoTime
      BY <1>1 DEF Cycles, IInv, VisibleInv
    <3> QED BY <1>2, <3>1 DEF IInv, TypeOK, ReadOK, TimesOK
  <2>2. wm \in ahead /\ wm \in 0..MaxTime /\ wm <= clock
    <3>1. wm \in {cycle[t].watermark, amfa[t][i]}
      <4>1. cycle[t].watermark \in Int /\ amfa[t][i] \in Int
        BY <2>1, Numbers
      <4> QED BY <1>5, <4>1, LatestOfTwo
    <3>2. cycle[t].watermark \in 0..MaxTime /\ cycle[t].watermark <= clock
      BY <1>1, <1>2 DEF Cycles, ReadOK, TimesOK
    <3> QED BY <2>1, <3>1, <3>2
  <2>3. cycle' = [cycle EXCEPT ![t] = r]
    BY <1>3, <1>5 DEF IInv, CycleTypes
  <2>4. left \subseteq Ids /\ since1 \in Int
    <3>1. wm \in Int /\ cycle[t].since \in Int /\ cycle[t].page \subseteq Ids
      BY <2>2, Numbers
    <3> QED BY <1>5, <3>1
  <2>5. /\ r \in Cycles /\ r.pc = pc1 /\ r.page = left /\ ~r.full /\ r.watermark = wm
    BY <1>1, <1>3, <2>2, <2>4 DEF Cycles
  <2> HIDE DEF r
  <2>6. cycle'[t] = r /\ \A u \in Tenants : u # t => cycle'[u] = cycle[u]
    BY <2>3, <2>5, CycleMoves DEF IInv
  <2>7. rows'[t] = rows[t] \cup {i} /\ \A u \in Tenants : u # t => rows'[u] = rows[u]
    BY <1>5 DEF IInv, TypeOK
  <2>8. /\ watermarks'[t] = IF left = {} THEN wm ELSE watermarks[t]
        /\ \A u \in Tenants \ {t} : watermarks'[u] = watermarks[u]
    BY <1>5 DEF IInv, TypeOK
  <2>9. Known(t)' = Known(t) \cup {i} /\ \A u \in Tenants : Known(u) \subseteq Known(u)'
    <3>1. Known(t)' = Known(t) \cup {i}
      BY <1>1, <2>1, <2>7 DEF Known
    <3>2. \A u \in Tenants : u # t => Known(u)' = Known(u)
      BY <1>1, <2>7 DEF Known
    <3> QED BY <3>1, <3>2
  <2>10. \A w \in ahead, k \in Ids : Behind(t, k, w) => k \in Known(t)' \cup left
    BY <1>1, <1>2, <1>5, <2>9 DEF ReadOK, PageOK
  <2>11. ahead \subseteq Int
    <3>1. \A j \in cycle[t].page : amfa[t][j] \in Int
      BY Numbers
    <3> QED BY <3>1, Numbers
  <2> HIDE DEF ahead
  <2>12. TimesOK(t)'
    BY <1>1, <1>2, <2>2, <2>5, <2>6, <2>8 DEF ReadOK, TimesOK
  <2>13. OwnerOK(t)'
    BY <1>1, <1>3 DEF OwnerOK
  <2>14. stored[t] # NoTime => KnownBehind(t, stored[t])'
    BY <1>1, <1>2, <2>9 DEF ReadOK, PositionOK, KnownBehind, Behind
  <2>15. CASE left = {}
    <3>1. \A k \in Ids : Behind(t, k, wm) => k \in Known(t)'
      BY <2>2, <2>10, <2>15
    <3>2. KnownBehind(t, wm)'
      BY <1>1, <3>1 DEF KnownBehind, Behind
    <3>3. PositionOK(t)'
      BY <1>1, <2>8, <2>14, <2>15, <3>2 DEF PositionOK, KnownBehind, Behind
    <3>4. PageOK(t)'
      BY <2>5, <2>6, <2>8, <2>15 DEF PageOK
    <3> QED BY <1>1, <2>6, <2>8, <2>9, <2>12, <2>13, <3>3, <3>4, ReadMirror DEF ReadOK
  <2>16. CASE left # {}
    <3>1. watermarks'[t] # NoTime => KnownBehind(t, watermarks[t])'
      BY <1>1, <1>2, <2>8, <2>9, <2>16 DEF ReadOK, PositionOK, KnownBehind, Behind
    <3>2. PositionOK(t)'
      BY <1>1, <2>8, <2>14, <2>16, <3>1 DEF PositionOK, KnownBehind, Behind
    <3>3. cycle'[t].pc = "save" /\ ~cycle'[t].full /\ cycle'[t].page = left /\ cycle'[t].watermark = wm
      BY <2>5, <2>6, <2>16
    <3>4. ASSUME NEW w \in {cycle'[t].watermark} \cup {amfa'[t][j] : j \in cycle'[t].page},
                 NEW k \in Ids, Behind(t, k, w)'
          PROVE  k \in Known(t)' \cup cycle'[t].page
      <4>1. w \in ahead
        BY <1>1, <1>5, <2>2, <3>3 DEF ahead
      <4>2. Behind(t, k, w)
        BY <1>1, <3>4 DEF Behind
      <4> QED BY <2>10, <3>3, <4>1, <4>2
    <3>5. PageOK(t)'
      BY <3>3, <3>4 DEF PageOK
    <3> QED BY <1>1, <2>6, <2>8, <2>9, <2>12, <2>13, <3>2, <3>5, ReadMirror DEF ReadOK
  <2> QED BY <2>15, <2>16
<1> QED BY <1>4, <1>5 DEF MergeAmfaEvent

\* What is stored is the position in memory or what was stored before.
LEMMA ReadRecord ==
  ASSUME IInv, ReadInv, NEW t \in Tenants, recordWatermark(t)
  PROVE  ReadInv'
<1>1. /\ UNCHANGED <<clock, amfa, rows, twins, watermarks, configured, origin>>
      /\ cycle' = [cycle EXCEPT ![t].pc = "reconcile"]
      /\ cycle[t].pc = "record" /\ cycle[t] \in Cycles
  BY DEF recordWatermark, IInv, CycleTypes
<1>2. ReadOK(t) /\ \A u \in Tenants : Known(u)' = Known(u)
  BY <1>1, KnownSame DEF ReadInv
<1>3. t \in configured /\ cycle[t].watermark = watermarks[t] /\ watermarks[t] # NoTime
  <2>1. t \in configured /\ cycle[t].watermark = watermarks[t]
    BY <1>1, <1>2 DEF ReadOK, OwnerOK, PageOK
  <2> QED BY <2>1, Numbers
<1> DEFINE s == [cycle[t] EXCEPT !.pc = "reconcile"]
<1>4. cycle' = [cycle EXCEPT ![t] = s]
  BY <1>1 DEF IInv, CycleTypes
<1>5. s \in Cycles /\ s.pc = "reconcile" /\ s.watermark = cycle[t].watermark
  BY <1>1 DEF Cycles
<1> HIDE DEF s
<1>6. cycle'[t] = s /\ \A u \in Tenants : u # t => cycle'[u] = cycle[u]
  BY <1>4, <1>5, CycleMoves DEF IInv
<1>7. stored' = stored \/ stored' = [stored EXCEPT ![t] = Latest({stored[t], cycle[t].watermark})]
  BY DEF recordWatermark, IInv, TypeOK
<1>8. Latest({stored[t], cycle[t].watermark}) \in {stored[t], watermarks[t]}
  <2>1. stored[t] \in Int /\ cycle[t].watermark \in Int
    BY Numbers
  <2> QED BY <1>3, <2>1, LatestOfTwo
<1>9. stored'[t] \in {stored[t], watermarks[t]} /\ \A u \in Tenants \ {t} : stored'[u] = stored[u]
  BY <1>7, <1>8 DEF IInv, TypeOK
<1>10. TimesOK(t)' /\ OwnerOK(t)'
  BY <1>1, <1>2, <1>3, <1>5, <1>6, <1>9 DEF ReadOK, TimesOK, OwnerOK
<1>11. watermarks[t] # NoTime => KnownBehind(t, watermarks[t])'
  BY <1>1, <1>2 DEF ReadOK, PositionOK, KnownBehind, Behind
<1>12. stored'[t] # NoTime => KnownBehind(t, stored[t])'
  BY <1>1, <1>2, <1>3, <1>9 DEF ReadOK, PositionOK, KnownBehind, Behind
<1>13. PositionOK(t)'
  BY <1>1, <1>11, <1>12 DEF PositionOK
<1>14. PageOK(t)'
  BY <1>5, <1>6 DEF PageOK
<1> QED BY <1>1, <1>2, <1>6, <1>9, <1>10, <1>13, <1>14, ReadMirror DEF ReadOK

\* A sweep moves what is known and loses none of it.
LEMMA ReadSweep ==
  ASSUME IInv, ReadInv, NEW t \in Tenants, ReconcileAMFAMerges(t)
  PROVE  ReadInv'
<1>1. /\ UNCHANGED <<clock, amfa, stored, watermarks, configured, origin>>
      /\ cycle' = [cycle EXCEPT ![t] = Idle] /\ cycle[t].pc = "reconcile"
  BY DEF ReconcileAMFAMerges
<1>2. \A u \in Tenants, i \in Ids :
        i \in rows'[u] \/ twins'[u][i].from = u <=> i \in rows[u] \/ twins[u][i].from = u
  <2>1. CASE Absorb(Pairs)
    BY <2>1, AbsorbFacts DEF IInv
  <2>2. CASE UNCHANGED <<rows, twins>>
    BY <2>2
  <2> QED BY <2>1, <2>2 DEF ReconcileAMFAMerges
<1>3. \A u \in Tenants : Known(u)' = Known(u)
  BY <1>2 DEF Known
<1>4. cycle'[t] = Idle /\ \A u \in Tenants : u # t => cycle'[u] = cycle[u]
  BY <1>1, IdleIsCycle, CycleMoves DEF IInv
<1>5. ReadOK(t) /\ Idle.pc = "idle" /\ Idle.watermark = 0
  BY DEF ReadInv, Idle
<1>6. TimesOK(t)' /\ OwnerOK(t)'
  BY <1>1, <1>4, <1>5, Numbers DEF ReadOK, TimesOK, OwnerOK
<1>7. PositionOK(t)' /\ PageOK(t)'
  BY <1>1, <1>3, <1>4, <1>5 DEF ReadOK, PositionOK, PageOK, KnownBehind, Behind
<1> QED BY <1>1, <1>3, <1>4, <1>6, <1>7, ReadMirror DEF ReadOK

LEMMA ReadStutter == ASSUME IInv, ReadInv, UNCHANGED vars PROVE ReadInv'
<1>1. SUFFICES ASSUME NEW u \in Tenants PROVE ReadOK(u)'
  BY DEF ReadInv
<1>2. /\ ReadOK(u) /\ Known(u)' = Known(u) /\ clock' \in Nat /\ clock <= clock'
      /\ UNCHANGED <<cycle, watermarks, stored, amfa, origin, configured>>
  BY KnownSame, Numbers DEF ReadInv, vars
<1> QED BY <1>2, Unmoved

LEMMA ReadNext == ASSUME IInv, ReadInv, OnePage, VisibleFinite, [Next]_vars PROVE ReadInv'
<1>1. CASE Tick
  BY <1>1, ReadBeside
<1>2. CASE Restart
  BY <1>2, ReadLose
<1>3. CASE \E t \in Tenants : PurgeTenant(t)
  BY <1>3, ReadLose
<1>4. CASE \E t \in Tenants : runCycle(t)
  BY <1>4, ReadStart
<1>5. CASE \E t \in Tenants : MirrorStep(t)
  BY <1>5, ReadPage, ReadSave, ReadRecord, ReadSweep DEF MirrorStep
<1>6. CASE \E t \in Tenants, i \in Ids : AmfaCommits(t, i)
  BY <1>6, ReadCommit
<1>7. CASE \E t \in Tenants, i \in Ids : MergeKeycloakEvent(t, i)
  BY <1>7, ReadBeside
<1>8. CASE UNCHANGED vars
  BY <1>8, ReadStutter
<1> QED BY <1>1, <1>2, <1>3, <1>4, <1>5, <1>6, <1>7, <1>8 DEF Next

LEMMA ReadImplies == ASSUME IInv, ReadInv PROVE NoLoginSkipped
<1>1. ASSUME NEW t \in Tenants, NEW i \in Ids, amfa[t][i] # NoTime, amfa[t][i] > origin[t] - Overlap,
             amfa[t][i] <= Latest({stored[t], watermarks[t]}) - Overlap
      PROVE  i \in Known(t)
  <2> DEFINE w == Latest({stored[t], watermarks[t]})
  <2>1. w \in {stored[t], watermarks[t]} /\ w \in Int
    <3>1. stored[t] \in Int /\ watermarks[t] \in Int
      BY Numbers
    <3> QED BY <3>1, LatestOfTwo
  <2> HIDE DEF w
  <2>2. amfa[t][i] <= w - Overlap
    BY <1>1 DEF w
  <2>3. w # NoTime
    BY <1>1, <2>1, <2>2, Numbers
  <2>4. Behind(t, i, w)
    BY <1>1, <2>2 DEF Behind
  <2> QED BY <2>1, <2>3, <2>4 DEF ReadInv, ReadOK, PositionOK, KnownBehind
<1> QED BY <1>1 DEF NoLoginSkipped, IInv, OwnInv

\* As long as what lies past a position less the overlap is less than a page, the
\* mirror skips no login, whatever fails, restarts, comes late or is purged.
THEOREM NoneSkipped == Spec /\ []OnePage => []NoLoginSkipped
<1>1. Init => ReadInv /\ VisibleFinite
  BY ReadInit, FiniteInit
<1>2. IInv /\ ReadInv /\ VisibleFinite /\ OnePage /\ [Next]_vars => ReadInv' /\ VisibleFinite'
  BY ReadNext, FiniteNext
<1>3. IInv /\ ReadInv => NoLoginSkipped
  BY ReadImplies
<1> QED BY <1>1, <1>2, <1>3, Invariance, PTL DEF Spec
=============================================================================
