------------------------- MODULE TenantCacheProofs -------------------------
(***************************************************************************)
(* Proofs about TenantCache, for any tenants, any callers and any number   *)
(* of changes: the types, that the cache follows the database in           *)
(* configuration and in health, that no edit undoes the one before it,     *)
(* that one tenant at most is the default, and that a config-defined       *)
(* tenant is read-only once the server is up.                              *)
(***************************************************************************)
EXTENDS TenantCache, TLAPS

\* Where a call holds updateMu: everywhere past Lock, in GetTenant too unless it
\* is a plain read.
Locked(me) ==
    \/ me.pc \in {"write", "store", "purge", "hook"}
    \/ me.pc \in {"get", "fill"} /\ me.op # "get"

\* A plain read never asks for it.
Asks(me) == me.pc \in {"default", "lock"} => me.op # "get"

LockInv == \A c \in Callers : (updateMu = c <=> Locked(call[c])) /\ Asks(call[c])

\* Another tenant u, while the entry e is about to be stored.
Beside(e, u) ==
    /\ e.def => ~db[u].def
    /\ u \notin overtaken /\ Present(db[u]) /\ Present(cache[u]) =>
         /\ db[u].ver = cache[u].ver
         /\ db[u].conf = cache[u].conf
         /\ ~e.def => db[u].def = cache[u].def

\* A call that has written the row is about to cache it, and has taken the
\* default flag from every other row if it sets it.
StoreInv ==
    \A c \in Callers : call[c].pc = "store" =>
        /\ SameConfig(call[c].e, db[call[c].t])
        /\ \A u \in Tenants \ {call[c].t} : Beside(call[c].e, u)

Storing == \E c \in Callers : call[c].pc = "store"

StoringTenant(t) == \E c \in Callers : call[c].pc = "store" /\ call[c].t = t

\* A row read on a miss is still current if the tenant is still not cached.
FillInv ==
    \A c \in Callers : call[c].pc = "fill" =>
        LET t == call[c].t IN
        /\ Present(call[c].e)
        /\ t \notin overtaken /\ Present(db[t]) /\ ~Present(cache[t]) =>
             SameConfig(call[c].e, db[t]) \/ StoringTenant(t)

\* An edit has cached the tenant it edits.
EditInv ==
    \A c \in Callers : call[c].pc = "write" /\ ~call[c].new => Present(cache[call[c].t])

\* A deletion forgets the tenant only once its row is gone.
HookInv == \A c \in Callers : call[c].pc = "hook" => ~Present(db[call[c].t])

\* What LoadTenants listed is current.
ListInv ==
    load = "listed" =>
        \A t \in Tenants \ overtaken : Present(listed[t]) => SameConfig(listed[t], db[t])

\* The cache follows the database, or the call that will make it so is storing.
AgreeInv ==
    \A t \in Tenants \ overtaken :
        Present(db[t]) /\ Present(cache[t]) => SameConfig(db[t], cache[t]) \/ Storing

\* One row at most has the default flag, and no copy of a row that is not there.
DefaultInv ==
    /\ \A t, u \in Tenants : db[t].def /\ db[u].def => t = u
    /\ \A t \in Tenants : /\ db[t].def => Present(db[t])
                          /\ cache[t].def => Present(cache[t])
                          /\ listed[t].def => Present(listed[t])
    /\ \A c \in Callers : call[c].e.def => Present(call[c].e)

DataInv ==
    /\ StoreInv /\ FillInv /\ EditInv /\ EditsBuildOnLatest
    /\ HookInv /\ ListInv /\ AgreeInv /\ DefaultInv

IInv == TypeOK /\ LockInv /\ DataInv
----------------------------------------------------------------------------
(* Moves of one caller *)

\* Only c moves.
Moved(c) ==
    /\ call' \in [Callers -> Call]
    /\ \A d \in Callers : d # c => call'[d] = call[d]

\* What a caller does with updateMu: keep it as it is, return it, or take it.
MutexStep(c) ==
    /\ Asks(call'[c])
    /\ \/ updateMu' = updateMu /\ (Locked(call'[c]) <=> Locked(call[c]))
       \/ updateMu' = (IF updateMu = c THEN Free ELSE updateMu) /\ ~Locked(call'[c])
       \/ updateMu = Free /\ updateMu' = c /\ Locked(call'[c])

\* Constants and the records of an idle service have their types.
LEMMA Values ==
    /\ NoTenant \in Tenants
    /\ Absent \in Entry /\ ~Present(Absent) /\ ~Absent.def /\ ~Absent.conf
    /\ NoCall \in Call /\ NoCall.pc = "idle" /\ NoCall.e = Absent
    /\ NoCheck \in [busy : BOOLEAN, t : Tenants, health : Healths]
    /\ ~NoCheck.busy
    /\ Free \notin Callers
<1>1. NoTenant \in Tenants
  BY TenantsAssumption DEF NoTenant
<1>2. Absent \in Entry /\ ~Present(Absent) /\ ~Absent.def /\ ~Absent.conf
  BY DEF Absent, Entry, Healths, Present
<1>3. NoCall \in Call /\ NoCall.pc = "idle" /\ NoCall.e = Absent
  BY <1>1, <1>2 DEF NoCall, Call, PCs, Ops, ApiOps, BootOps, DefaultAsked
<1>4. NoCheck \in [busy : BOOLEAN, t : Tenants, health : Healths] /\ ~NoCheck.busy
  BY <1>1 DEF NoCheck, Healths
<1> QED
  BY <1>1, <1>2, <1>3, <1>4, CallersAssumption DEF Free

\* The fields of a call have their types.
LEMMA CallTypes ==
    ASSUME TypeOK, NEW c \in Callers
    PROVE  /\ call[c] \in Call /\ call[c].pc \in PCs /\ call[c].op \in Ops
           /\ call[c].t \in Tenants /\ call[c].def \in DefaultAsked
           /\ call[c].new \in BOOLEAN /\ call[c].e \in Entry
  BY DEF TypeOK, Call

\* A caller gets a new record.
LEMMA BecomeMoves ==
    ASSUME TypeOK, NEW c \in Callers, NEW m \in Call, call' = [call EXCEPT ![c] = m]
    PROVE  Moved(c) /\ call'[c] = m
  BY DEF TypeOK, Moved

\* A caller goes elsewhere and keeps what it has.
LEMMA GotoMoves ==
    ASSUME TypeOK, NEW c \in Callers, NEW p \in PCs, Goto(c, p)
    PROVE  /\ Moved(c)
           /\ call'[c].pc = p /\ call'[c].op = call[c].op /\ call'[c].t = call[c].t
           /\ call'[c].e = call[c].e /\ call'[c].new = call[c].new
<1> DEFINE m == [call[c] EXCEPT !.pc = p]
<1>1. /\ m \in Call /\ m.pc = p /\ m.op = call[c].op /\ m.t = call[c].t
      /\ m.e = call[c].e /\ m.new = call[c].new
  BY CallTypes DEF Call
<1>2. call' = [call EXCEPT ![c] = m]
  BY DEF Goto
<1> HIDE DEF m
<1> QED
  BY <1>1, <1>2, BecomeMoves

\* A call that returns leaves nothing behind.
LEMMA ReturnMoves ==
    ASSUME TypeOK, NEW c \in Callers, Return(c)
    PROVE  Moved(c) /\ call'[c] = NoCall /\ call'[c].pc = "idle" /\ MutexStep(c)
  BY Values, BecomeMoves DEF Return, MutexStep, Locked, Asks

\* A caller's step keeps the types and the mutex in order.
LEMMA CallerStep ==
    ASSUME IInv, NEW c \in Callers, Moved(c), MutexStep(c),
           UNCHANGED <<phase, load, listed, check>>,
           db' \in [Tenants -> Entry], cache' \in [Tenants -> Entry],
           ver' \in 1 .. MaxVer, overtaken' \in SUBSET Tenants
    PROVE  TypeOK' /\ LockInv'
<1>1. \A d \in Callers : updateMu = d <=> Locked(call[d])
  BY DEF IInv, LockInv
<1>2. Free \notin Callers /\ updateMu \in Callers \union {Free}
  BY Values DEF IInv, TypeOK
<1>3. \A d \in Callers : d # c => (Locked(call'[d]) <=> Locked(call[d]))
  BY DEF Moved
<1>4. updateMu' \in Callers \union {Free}
  BY <1>2 DEF MutexStep
<1>5. \A d \in Callers : updateMu' = d <=> Locked(call'[d])
  BY <1>1, <1>2, <1>3 DEF MutexStep
<1>6. updateMu' \in {Free} \union {d \in Callers : call'[d].pc # "idle"}
  BY <1>4, <1>5 DEF Locked
<1>7. \A d \in Callers : Asks(call'[d])
  BY DEF IInv, LockInv, Moved, MutexStep
<1> QED
  BY <1>5, <1>6, <1>7 DEF IInv, TypeOK, LockInv, Moved

\* Two calls are never past Lock together.
LEMMA OneLocked ==
    ASSUME IInv, NEW c \in Callers, NEW d \in Callers, Locked(call[c]), Locked(call[d])
    PROVE  c = d
  BY DEF IInv, LockInv
----------------------------------------------------------------------------
\* The initial states satisfy the invariant: nothing is in progress, and the cache
\* is empty or a copy of the table.
LEMMA InitInv == Init => IInv
<1> SUFFICES ASSUME Init PROVE IInv
  OBVIOUS
<1>1. \A c \in Callers : call[c] = NoCall
  BY DEF Init
<1>2. /\ Rows \subseteq Entry
      /\ \A r \in Rows : r.def => Present(r)
  <2> DEFINE Old == [ver : {1}, def : BOOLEAN, conf : BOOLEAN, health : {"unknown"}]
  <2>1. ASSUME NEW r \in Old PROVE r \in Entry /\ Present(r)
    BY <2>1 DEF Entry, Healths, Present
  <2>2. Rows = {Absent} \union Old
    BY DEF Rows
  <2> HIDE DEF Old
  <2> QED
    BY <2>1, <2>2, Values
<1>3. /\ db \in [Tenants -> Rows]
      /\ \A t, u \in Tenants : db[t].def /\ db[u].def => t = u
  BY DEF Init
<1>4. cache = db \/ \A t \in Tenants : cache[t] = Absent
  BY DEF Init
<1>5. cache \in [Tenants -> Entry] /\ listed \in [Tenants -> Entry] /\ db \in [Tenants -> Entry]
  BY <1>2, <1>3, Values DEF Init
<1>6. TypeOK
  BY <1>5, Values, MaxVerAssumption DEF Init, TypeOK
<1>7. LockInv
  BY <1>1, Values DEF Init, LockInv, Locked, Asks
<1>8. \A c \in Callers : call[c].pc = "idle" /\ call[c].e = Absent
  BY <1>1, Values
<1>9. StoreInv /\ FillInv /\ EditInv /\ EditsBuildOnLatest /\ HookInv
  BY <1>8 DEF StoreInv, FillInv, EditInv, EditsBuildOnLatest, HookInv
<1>10. ListInv /\ AgreeInv
  BY <1>4, Values DEF Init, ListInv, AgreeInv, SameConfig
<1>11. DefaultInv
  <2>1. \A t \in Tenants : db[t].def => Present(db[t])
    BY <1>2, <1>3
  <2>2. \A t \in Tenants : listed[t] = Absent
    BY DEF Init
  <2> QED
    BY <1>3, <1>4, <1>8, <2>1, <2>2, Values DEF DefaultInv
<1> QED
  BY <1>6, <1>7, <1>9, <1>10, <1>11 DEF IInv, DataInv
----------------------------------------------------------------------------
(* Two kinds of steps that keep the data in order *)

\* A caller that was not storing moves and touches no data: the data stay in order
\* if what it is about to write, or to cache, is current.
LEMMA CalmStep ==
    ASSUME IInv, NEW c \in Callers, Moved(c),
           UNCHANGED <<db, cache, load, listed, overtaken>>,
           call[c].pc # "store", call'[c].pc \notin {"store", "hook"},
           call'[c].e.def => Present(call'[c].e),
           call'[c].pc = "write" /\ ~call'[c].new =>
               /\ Present(cache[call'[c].t])
               /\ call'[c].t \notin overtaken /\ Present(db[call'[c].t])
                    => SameConfig(call'[c].e, db[call'[c].t]),
           call'[c].pc = "fill" =>
               Present(call'[c].e) /\ SameConfig(call'[c].e, db[call'[c].t])
    PROVE  DataInv'
<1> USE DEF IInv, DataInv, Moved
<1>1. \A d \in Callers : call'[d].pc = "store" <=> call[d].pc = "store"
  OBVIOUS
<1>2. Storing' <=> Storing
  BY <1>1 DEF Storing
<1>3. \A t \in Tenants : StoringTenant(t)' <=> StoringTenant(t)
  BY <1>1 DEF StoringTenant
<1>4. StoreInv'
  BY <1>1 DEF StoreInv, Beside
<1>5. FillInv'
  BY <1>3, CallTypes DEF FillInv
<1>6. EditInv' /\ EditsBuildOnLatest' /\ HookInv'
  BY DEF EditInv, EditsBuildOnLatest, HookInv
<1>7. ListInv' /\ AgreeInv' /\ DefaultInv'
  BY <1>2 DEF ListInv, AgreeInv, DefaultInv
<1> QED
  BY <1>4, <1>5, <1>6, <1>7

\* No caller moves and no configuration changes: the data stay in order.
LEMMA ConfigStep ==
    ASSUME IInv, UNCHANGED <<call, load, listed>>, overtaken \subseteq overtaken',
           \A t \in Tenants : SameConfig(db'[t], db[t]) /\ SameConfig(cache'[t], cache[t])
    PROVE  DataInv'
<1> USE DEF IInv, DataInv, SameConfig, Present
<1>1. (Storing' <=> Storing) /\ \A t \in Tenants : StoringTenant(t)' <=> StoringTenant(t)
  BY DEF Storing, StoringTenant
<1>2. StoreInv'
  BY CallTypes DEF StoreInv, Beside
<1>3. FillInv'
  BY <1>1, CallTypes DEF FillInv
<1>4. EditInv' /\ EditsBuildOnLatest' /\ HookInv'
  BY CallTypes DEF EditInv, EditsBuildOnLatest, HookInv
<1>5. ListInv' /\ AgreeInv' /\ DefaultInv'
  BY <1>1 DEF ListInv, AgreeInv, DefaultInv
<1> QED
  BY <1>2, <1>3, <1>4, <1>5
----------------------------------------------------------------------------
(* One lemma per action of a caller *)

\* A request begins with nothing read.
LEMMA RequestInv ==
    ASSUME IInv, NEW c \in Callers, NEW op \in Ops, NEW t \in Tenants, NEW def \in DefaultAsked,
           Request(c, op, t, def)
    PROVE  IInv'
<1> DEFINE p == CASE op = "get" -> "get"
                  [] op \in {"create", "update"} /\ def = "set" -> "default"
                  [] OTHER -> "lock"
           m == [pc |-> p, op |-> op, t |-> t, def |-> def, new |-> FALSE, e |-> Absent]
<1>1. p \in {"get", "default", "lock"} /\ (p = "get" <=> op = "get")
  OBVIOUS
<1> HIDE DEF p
<1>2. m \in Call /\ m.pc = p /\ m.op = op /\ m.e = Absent
  BY <1>1, Values DEF Call, PCs
<1>3. /\ call' = [call EXCEPT ![c] = m] /\ call[c].pc = "idle"
      /\ UNCHANGED <<phase, db, cache, updateMu, ver, load, listed, check, overtaken>>
  BY DEF Request, p
<1> HIDE DEF m
<1>4. Moved(c) /\ call'[c] = m
  BY <1>2, <1>3, BecomeMoves DEF IInv
<1>5. MutexStep(c)
  BY <1>1, <1>2, <1>3, <1>4 DEF MutexStep, Locked, Asks
<1>6. TypeOK' /\ LockInv'
  BY <1>3, <1>4, <1>5, CallerStep DEF IInv, TypeOK
<1>7. DataInv'
  BY <1>1, <1>2, <1>3, <1>4, Values, CalmStep
<1> QED
  BY <1>6, <1>7 DEF IInv

\* The request is refused, or goes on without the mutex.
LEMMA CheckDefaultInv ==
    ASSUME IInv, NEW c \in Callers, CheckDefault(c) PROVE IInv'
<1>1. /\ call[c].pc = "default"
      /\ Return(c) \/ (Goto(c, "lock") /\ UNCHANGED updateMu)
      /\ UNCHANGED <<phase, db, cache, ver, load, listed, check, overtaken>>
  BY DEF CheckDefault
<1>2. /\ Moved(c) /\ MutexStep(c) /\ call'[c].pc \in {"idle", "lock"}
      /\ call'[c].e = Absent \/ call'[c].e = call[c].e
  BY <1>1, ReturnMoves, GotoMoves, Values DEF IInv, LockInv, PCs, MutexStep, Locked, Asks
<1>3. TypeOK' /\ LockInv'
  BY <1>1, <1>2, CallerStep DEF IInv, TypeOK
<1>4. call'[c].e.def => Present(call'[c].e)
  BY <1>2, Values DEF IInv, DataInv, DefaultInv
<1>5. DataInv'
  BY <1>1, <1>2, <1>4, CalmStep
<1> QED
  BY <1>3, <1>5 DEF IInv

\* A call takes the mutex; one that creates goes straight to its write.
LEMMA LockStepInv ==
    ASSUME IInv, NEW c \in Callers, Lock(c) PROVE IInv'
<1> DEFINE m == [call[c] EXCEPT !.pc = "write", !.new = TRUE]
<1>1. /\ call[c].pc = "lock" /\ updateMu = Free
      /\ \/ Return(c)
         \/ updateMu' = c /\ call' = [call EXCEPT ![c] = m]
         \/ updateMu' = c /\ Goto(c, "get")
      /\ UNCHANGED <<phase, db, cache, ver, load, listed, check, overtaken>>
  BY DEF Lock
<1>2. m \in Call /\ m.pc = "write" /\ m.new /\ m.e = call[c].e
  BY CallTypes DEF IInv, Call, PCs
<1> HIDE DEF m
<1>3. /\ Moved(c) /\ MutexStep(c) /\ call'[c].pc \in {"idle", "write", "get"}
      /\ call'[c].pc = "write" => call'[c].new
      /\ call'[c].e = Absent \/ call'[c].e = call[c].e
  <2>1. CASE Return(c)
    BY <2>1, ReturnMoves, Values DEF IInv
  <2>2. CASE updateMu' = c /\ call' = [call EXCEPT ![c] = m]
    BY <1>1, <1>2, <2>2, BecomeMoves DEF IInv, MutexStep, Locked, Asks
  <2>3. CASE updateMu' = c /\ Goto(c, "get")
    BY <1>1, <2>3, GotoMoves DEF IInv, LockInv, PCs, MutexStep, Locked, Asks
  <2> QED
    BY <1>1, <2>1, <2>2, <2>3
<1>4. TypeOK' /\ LockInv'
  BY <1>1, <1>3, CallerStep DEF IInv, TypeOK
<1>5. call'[c].e.def => Present(call'[c].e)
  BY <1>3, Values DEF IInv, DataInv, DefaultInv
<1>6. DataInv'
  BY <1>1, <1>3, <1>5, CalmStep
<1> QED
  BY <1>4, <1>6 DEF IInv

\* What a caller makes of the tenant e it got.
LEMMA GotFacts ==
    ASSUME IInv, NEW c \in Callers, call[c].pc \in {"get", "fill"}, NEW e \in Entry, Got(c, e)
    PROVE  /\ Moved(c) /\ MutexStep(c)
           /\ \/ call'[c] = NoCall /\ call'[c].pc = "idle"
              \/ /\ call[c].op # "get" /\ call'[c].pc \in {"purge", "write"}
                 /\ call'[c].t = call[c].t /\ call'[c].e = e
<1> DEFINE p == IF call[c].op = "delete" THEN "purge" ELSE "write"
           m == [call[c] EXCEPT !.pc = p, !.e = e]
<1>1. \/ Return(c)
      \/ call[c].op # "get" /\ call' = [call EXCEPT ![c] = m] /\ UNCHANGED updateMu
  BY DEF Got
<1>2. p \in {"purge", "write"}
  OBVIOUS
<1> HIDE DEF p
<1>3. m \in Call /\ m.pc = p /\ m.t = call[c].t /\ m.e = e /\ m.op = call[c].op
  BY <1>2, CallTypes DEF IInv, Call, PCs
<1> HIDE DEF m
<1>4. CASE Return(c)
  BY <1>4, ReturnMoves DEF IInv
<1>5. CASE call[c].op # "get" /\ call' = [call EXCEPT ![c] = m] /\ UNCHANGED updateMu
  BY <1>2, <1>3, <1>5, BecomeMoves DEF IInv, MutexStep, Locked, Asks
<1> QED
  BY <1>1, <1>4, <1>5

\* A change that has the mutex and reads the cache gets the stored configuration:
\* nobody is storing.
LEMMA CachedIsCurrent ==
    ASSUME IInv, NEW c \in Callers, call[c].pc \in {"get", "fill"}, call[c].op # "get",
           NEW t \in Tenants \ overtaken, Present(db[t]), Present(cache[t])
    PROVE  SameConfig(cache[t], db[t])
<1>1. Locked(call[c])
  BY DEF Locked
<1>2. ~Storing
  BY <1>1, OneLocked DEF Storing, Locked
<1> QED
  BY <1>2 DEF IInv, DataInv, AgreeInv, SameConfig

\* The tenant is taken from the cache, on the first look or on the second.
LEMMA UseCached ==
    ASSUME IInv, NEW c \in Callers, call[c].pc \in {"get", "fill"},
           Present(cache[call[c].t]), Got(c, cache[call[c].t]),
           UNCHANGED <<phase, db, cache, ver, load, listed, check, overtaken>>
    PROVE  IInv'
<1>1. call[c].t \in Tenants /\ cache[call[c].t] \in Entry
  BY CallTypes DEF IInv, TypeOK
<1>2. /\ Moved(c) /\ MutexStep(c)
      /\ \/ call'[c] = NoCall /\ call'[c].pc = "idle"
         \/ /\ call[c].op # "get" /\ call'[c].pc \in {"purge", "write"}
            /\ call'[c].t = call[c].t /\ call'[c].e = cache[call[c].t]
  BY <1>1, GotFacts
<1>3. TypeOK' /\ LockInv'
  BY <1>2, CallerStep DEF IInv, TypeOK
<1>4. call'[c].e.def => Present(call'[c].e)
  BY <1>1, <1>2, Values DEF IInv, DataInv, DefaultInv
<1>5. call'[c].pc = "write" /\ ~call'[c].new =>
        /\ Present(cache[call'[c].t])
        /\ call'[c].t \notin overtaken /\ Present(db[call'[c].t])
             => SameConfig(call'[c].e, db[call'[c].t])
  BY <1>1, <1>2, CachedIsCurrent
<1>6. DataInv'
  BY <1>2, <1>4, <1>5, CalmStep
<1> QED
  BY <1>3, <1>6 DEF IInv

\* A tenant found in the cache.
LEMMA GetCachedInv == ASSUME IInv, NEW c \in Callers, GetCached(c) PROVE IInv'
  BY UseCached DEF GetCached

\* A miss reads the row; a call that finds none returns, or creates it.
LEMMA GetRowInv == ASSUME IInv, NEW c \in Callers, GetRow(c) PROVE IInv'
<1> DEFINE m == [call[c] EXCEPT !.pc = "fill", !.e = db[call[c].t]]
           n == [call[c] EXCEPT !.pc = "write", !.new = TRUE]
<1>0. call[c].t \in Tenants /\ db[call[c].t] \in Entry
  BY CallTypes DEF IInv, TypeOK
<1>1. /\ call[c].pc = "get"
      /\ UNCHANGED <<phase, db, cache, ver, load, listed, check, overtaken>>
      /\ \/ Present(db[call[c].t]) /\ call' = [call EXCEPT ![c] = m] /\ UNCHANGED updateMu
         \/ call[c].op = "sync" /\ call' = [call EXCEPT ![c] = n] /\ UNCHANGED updateMu
         \/ Return(c)
  BY DEF GetRow
<1>2. m \in Call /\ m.pc = "fill" /\ m.op = call[c].op /\ m.t = call[c].t /\ m.e = db[call[c].t]
  BY <1>0, CallTypes DEF IInv, Call, PCs
<1>3. n \in Call /\ n.pc = "write" /\ n.op = call[c].op /\ n.new /\ n.e = call[c].e
  BY CallTypes DEF IInv, Call, PCs
<1> HIDE DEF m, n
<1>4. /\ Moved(c) /\ MutexStep(c)
      /\ \/ /\ call'[c].pc = "fill" /\ call'[c].t = call[c].t
            /\ call'[c].e = db[call[c].t] /\ Present(db[call[c].t])
         \/ call'[c].pc = "write" /\ call'[c].new /\ call'[c].e = call[c].e
         \/ call'[c].pc = "idle" /\ call'[c].e = Absent
  <2>1. CASE Present(db[call[c].t]) /\ call' = [call EXCEPT ![c] = m] /\ UNCHANGED updateMu
    BY <1>1, <1>2, <2>1, BecomeMoves DEF IInv, MutexStep, Locked, Asks
  <2>2. CASE call[c].op = "sync" /\ call' = [call EXCEPT ![c] = n] /\ UNCHANGED updateMu
    BY <1>1, <1>3, <2>2, BecomeMoves DEF IInv, MutexStep, Locked, Asks
  <2>3. CASE Return(c)
    BY <2>3, ReturnMoves, Values DEF IInv
  <2> QED
    BY <1>1, <2>1, <2>2, <2>3
<1>5. TypeOK' /\ LockInv'
  BY <1>1, <1>4, CallerStep DEF IInv, TypeOK
<1>6. call'[c].e.def => Present(call'[c].e)
  BY <1>0, <1>4, Values DEF IInv, DataInv, DefaultInv
<1>7. DataInv'
  BY <1>1, <1>4, <1>6, CalmStep DEF SameConfig
<1> QED
  BY <1>5, <1>7 DEF IInv

\* The row that was read goes into the cache, unless the tenant is there already.
LEMMA FillStepInv == ASSUME IInv, NEW c \in Callers, Fill(c) PROVE IInv'
<1> DEFINE t == call[c].t
           e == call[c].e
<1>0. t \in Tenants /\ e \in Entry /\ call[c].pc = "fill" /\ Present(e)
  BY CallTypes DEF IInv, DataInv, FillInv, Fill
<1>1. CASE Present(cache[t])
  BY <1>0, <1>1, UseCached DEF Fill
<1>2. CASE ~Present(cache[t])
  <2>1. /\ cache' = [cache EXCEPT ![t] = e] /\ Got(c, e)
        /\ UNCHANGED <<phase, db, ver, load, listed, check, overtaken>>
    BY <1>2 DEF Fill
  <2>2. /\ Moved(c) /\ MutexStep(c)
        /\ \/ call'[c] = NoCall /\ call'[c].pc = "idle"
           \/ /\ call[c].op # "get" /\ call'[c].pc \in {"purge", "write"}
              /\ call'[c].t = t /\ call'[c].e = e
    BY <1>0, <2>1, GotFacts
  <2>3. cache' \in [Tenants -> Entry]
    BY <1>0, <2>1 DEF IInv, TypeOK
  <2>4. TypeOK' /\ LockInv'
    BY <2>1, <2>2, <2>3, CallerStep DEF IInv, TypeOK
  <2>5. \A u \in Tenants : cache'[u] = IF u = t THEN e ELSE cache[u]
    BY <1>0, <2>1 DEF IInv, TypeOK
  <2>6. \A d \in Callers : call[d].pc = "store" <=> call'[d].pc = "store"
    BY <1>0, <2>2 DEF Moved
  <2>7. \A d \in Callers : call[d].pc = "store" => d # c /\ call'[d] = call[d]
    BY <1>0, <2>2 DEF Moved
  <2>8. (Storing' <=> Storing) /\ \A u \in Tenants : StoringTenant(u)' <=> StoringTenant(u)
    BY <2>6, <2>7 DEF Storing, StoringTenant
  <2>9. t \notin overtaken /\ Present(db[t]) => SameConfig(e, db[t]) \/ StoringTenant(t)
    BY <1>0, <1>2 DEF IInv, DataInv, FillInv
  <2> HIDE DEF t, e
  <2>10. StoreInv'
    <3> SUFFICES ASSUME NEW d \in Callers, call'[d].pc = "store"
                 PROVE  /\ SameConfig(call[d].e, db[call[d].t])
                        /\ \A u \in Tenants \ {call[d].t} : Beside(call[d].e, u)'
      BY <2>1, <2>6, <2>7 DEF StoreInv, Beside
    <3>1. call[d].pc = "store" /\ call'[d] = call[d] /\ d # c
      BY <2>6, <2>7
    <3>2. SameConfig(call[d].e, db[call[d].t])
      BY <3>1 DEF IInv, DataInv, StoreInv
    <3>3. ASSUME NEW u \in Tenants \ {call[d].t} PROVE Beside(call[d].e, u)'
      <4>1. Beside(call[d].e, u)
        BY <3>1 DEF IInv, DataInv, StoreInv
      <4>2. CASE u # t
        BY <2>1, <2>5, <3>1, <4>1, <4>2 DEF Beside
      <4>3. CASE u = t
        <5>1. ~StoringTenant(u)
          BY <3>1, OneLocked DEF StoringTenant, Locked
        <5> QED
          BY <2>1, <2>5, <2>9, <3>1, <4>1, <4>3, <5>1 DEF Beside, SameConfig
      <4> QED
        BY <4>2, <4>3
    <3> QED
      BY <3>2, <3>3
  <2>11. FillInv'
    <3>1. ASSUME NEW d \in Callers, call'[d].pc = "fill"
          PROVE  d # c /\ call'[d] = call[d]
      BY <2>2, <3>1 DEF Moved
    <3> QED
      BY <1>0, <1>2, <2>1, <2>5, <2>8, <3>1, CallTypes DEF IInv, DataInv, FillInv
  <2>12. EditInv'
    <3>1. ASSUME NEW d \in Callers, call'[d].pc = "write", ~call'[d].new
          PROVE  Present(cache'[call'[d].t])
      <4>1. CASE d = c
        BY <1>0, <2>2, <2>5, <3>1, <4>1
      <4>2. CASE d # c
        BY <1>0, <2>2, <2>5, <3>1, <4>2, CallTypes DEF Moved, IInv, DataInv, EditInv
      <4> QED
        BY <4>1, <4>2
    <3> QED
      BY <3>1 DEF EditInv
  <2>13. EditsBuildOnLatest'
    <3>1. call'[c].pc = "write" => Locked(call[c])
      BY <1>0, <2>2 DEF Locked
    <3>2. Locked(call[c]) => ~StoringTenant(t)
      BY <1>0, OneLocked DEF StoringTenant, Locked
    <3> QED
      BY <2>1, <2>2, <2>9, <3>1, <3>2 DEF Moved, IInv, DataInv, EditsBuildOnLatest
  <2>14. HookInv' /\ ListInv'
    BY <2>1, <2>2 DEF Moved, IInv, DataInv, HookInv, ListInv
  <2>15. AgreeInv'
    <3>1. StoringTenant(t) => Storing
      BY DEF StoringTenant, Storing
    <3> QED
      BY <2>1, <2>5, <2>8, <2>9, <3>1 DEF IInv, DataInv, AgreeInv, SameConfig
  <2>16. DefaultInv'
    <3>1. call'[c].e.def => Present(call'[c].e)
      BY <1>0, <2>2, Values
    <3> QED
      BY <1>0, <2>1, <2>2, <2>5, <3>1 DEF Moved, IInv, DataInv, DefaultInv
  <2> QED
    BY <2>4, <2>10, <2>11, <2>12, <2>13, <2>14, <2>15, <2>16 DEF IInv, DataInv
<1> QED
  BY <1>1, <1>2

\* Nobody else is past Lock while c is.
LEMMA Alone ==
    ASSUME IInv, NEW c \in Callers, Locked(call[c]), Moved(c), NEW d \in Callers, d # c
    PROVE  /\ call'[d] = call[d] /\ ~Locked(call[d])
           /\ call[d].pc \notin {"store", "write", "purge", "hook"}
           /\ call'[d].pc \notin {"store", "write", "purge", "hook"}
  BY OneLocked DEF Moved, Locked

\* repo.Create or repo.Update: the row changes, the cache is still to follow.
LEMMA WriteInv == ASSUME IInv, NEW c \in Callers, Write(c) PROVE IInv'
<1> DEFINE me == call[c]
           t == me.t
           new == Written(me, ver + 1)
           row == [new EXCEPT !.health = IF Present(db[t]) THEN db[t].health ELSE "unknown"]
           cleared == {u \in Tenants \ {t} : new.def /\ db[u].def}
           m == [me EXCEPT !.pc = "store", !.e = new]
<1>0. me \in Call /\ t \in Tenants /\ me.e \in Entry /\ me.pc = "write" /\ Locked(me)
  BY CallTypes DEF IInv, Write, Locked
<1>1. CASE Return(c) /\ UNCHANGED <<phase, cache, load, listed, check, db, ver, overtaken>>
  <2>1. Moved(c) /\ MutexStep(c) /\ call'[c].pc = "idle" /\ call'[c].e = Absent
    BY <1>1, ReturnMoves, Values DEF IInv
  <2>2. TypeOK' /\ LockInv'
    BY <1>1, <2>1, CallerStep DEF IInv, TypeOK
  <2>3. DataInv'
    BY <1>0, <1>1, <2>1, Values, CalmStep
  <2> QED
    BY <2>2, <2>3 DEF IInv
<1>2. CASE /\ ver < MaxVer /\ ver' = ver + 1
           /\ db' = [u \in Tenants |->
                        IF u = t THEN row
                        ELSE IF u \in cleared THEN [db[u] EXCEPT !.def = FALSE] ELSE db[u]]
           /\ call' = [call EXCEPT ![c] = m]
           /\ overtaken' = overtaken \union Outdated(cleared \union {t})
                                     \union {u \in cleared : Reading(u)}
           /\ UNCHANGED <<updateMu, phase, cache, load, listed, check>>
  <2>1. /\ ver + 1 \in Nat /\ ver + 1 # 0 /\ ver' \in 1 .. MaxVer
    BY <1>2, MaxVerAssumption DEF IInv, TypeOK
  <2>2. new \in Entry /\ Present(new)
    BY <1>0, <2>1 DEF Written, Entry, Healths, Present
  <2>3. row \in Entry /\ SameConfig(new, row)
    <3>1. \A h \in Healths : [new EXCEPT !.health = h] \in Entry
                             /\ SameConfig(new, [new EXCEPT !.health = h])
      BY <2>2 DEF Entry, SameConfig
    <3>2. (IF Present(db[t]) THEN db[t].health ELSE "unknown") \in Healths
      BY <1>0 DEF IInv, TypeOK, Entry, Healths
    <3> QED
      BY <3>1, <3>2
  <2>4. m \in Call /\ m.pc = "store" /\ m.t = t /\ m.e = new
    BY <1>0, <2>2 DEF Call, PCs
  <2> HIDE DEF new, row, m
  <2>5. Moved(c) /\ call'[c].pc = "store" /\ call'[c].t = t /\ call'[c].e = new
    BY <1>2, <2>4, BecomeMoves DEF IInv
  <2>6. MutexStep(c)
    BY <1>0, <1>2, <2>5 DEF MutexStep, Locked, Asks
  <2>7. \A u \in Tenants : /\ [db[u] EXCEPT !.def = FALSE] \in Entry
                           /\ [db[u] EXCEPT !.def = FALSE].ver = db[u].ver
                           /\ [db[u] EXCEPT !.def = FALSE].conf = db[u].conf
                           /\ [db[u] EXCEPT !.def = FALSE].def = FALSE
    BY DEF IInv, TypeOK, Entry
  <2>8. db' \in [Tenants -> Entry]
    BY <1>2, <2>3, <2>7 DEF IInv, TypeOK
  <2>9. overtaken \subseteq overtaken' /\ overtaken' \in SUBSET Tenants
    BY <1>0, <1>2 DEF IInv, TypeOK, Outdated
  <2>10. TypeOK' /\ LockInv'
    BY <1>2, <2>1, <2>5, <2>6, <2>8, <2>9, CallerStep DEF IInv, TypeOK
  <2>11. /\ db'[t] = row
         /\ \A u \in Tenants \ {t} : /\ db'[u].ver = db[u].ver /\ db'[u].conf = db[u].conf
                                     /\ u \notin cleared => db'[u] = db[u]
                                     /\ u \in cleared => ~db'[u].def
                                     /\ new.def => ~db'[u].def
                                     /\ db'[u].def => db[u].def
    BY <1>0, <1>2, <2>7
  <2>12. load = "listed" => t \in overtaken' /\ cleared \subseteq overtaken'
    BY <1>2 DEF Outdated
  <2>13. ~Storing /\ Storing' /\ \A u \in Tenants : ~StoringTenant(u)
    BY <1>0, <2>5, Alone DEF Storing, StoringTenant, Moved
  <2>14. \A d \in Callers : d # c =>
            call'[d] = call[d] /\ call'[d].pc \notin {"store", "write", "purge", "hook"}
    BY <1>0, <2>5, Alone
  <2>15. StoreInv'
    <3>1. ASSUME NEW u \in Tenants \ {t} PROVE Beside(call[c].e, u)'
      <4>1. call'[c].e.def => ~db'[u].def
        BY <2>5, <2>11
      <4>2. ASSUME u \notin overtaken', Present(db'[u]), Present(cache[u])
            PROVE  SameConfig(db[u], cache[u])
        BY <2>9, <2>11, <2>13, <4>2 DEF IInv, DataInv, AgreeInv, Present
      <4>3. ~call'[c].e.def => db'[u] = db[u]
        BY <2>5, <2>11
      <4> QED
        BY <1>2, <2>11, <4>1, <4>2, <4>3 DEF Beside, SameConfig
    <3> QED
      BY <1>2, <2>3, <2>5, <2>11, <2>14, <3>1 DEF StoreInv
  <2>16. FillInv'
    <3> SUFFICES ASSUME NEW d \in Callers, call'[d].pc = "fill"
                 PROVE  /\ Present(call'[d].e)
                        /\ call'[d].t \notin overtaken' /\ Present(db'[call'[d].t])
                             /\ ~Present(cache'[call'[d].t]) =>
                             \/ SameConfig(call'[d].e, db'[call'[d].t])
                             \/ StoringTenant(call[d].t)'
      BY DEF FillInv
    <3>1. d # c /\ call'[d] = call[d] /\ call[d].pc = "fill" /\ call[d].t \in Tenants
      BY <2>5, <2>14, CallTypes DEF IInv
    <3>2. /\ Present(call[d].e)
          /\ call[d].t \notin overtaken /\ Present(db[call[d].t]) /\ ~Present(cache[call[d].t])
               => SameConfig(call[d].e, db[call[d].t])
      BY <2>13, <3>1 DEF IInv, DataInv, FillInv
    <3>3. CASE call[d].t = t
      BY <2>5, <3>1, <3>2, <3>3 DEF StoringTenant
    <3>4. CASE call[d].t # t
      <4>1. call[d].t \in cleared => call[d].t \in overtaken'
        BY <1>2, <3>1 DEF Reading
      <4> QED
        BY <1>2, <2>9, <2>11, <3>1, <3>2, <3>4, <4>1
    <3> QED
      BY <3>3, <3>4
  <2>17. EditInv' /\ EditsBuildOnLatest' /\ HookInv'
    BY <2>5, <2>14 DEF EditInv, EditsBuildOnLatest, HookInv
  <2>18. ListInv'
    BY <1>0, <1>2, <2>9, <2>11, <2>12 DEF IInv, DataInv, ListInv
  <2>19. AgreeInv'
    BY <2>13 DEF AgreeInv
  <2>20. DefaultInv'
    <3>1. \A u \in Tenants : db'[u].def => Present(db'[u])
      BY <2>2, <2>3, <2>11 DEF IInv, DataInv, DefaultInv, Present, SameConfig
    <3>2. \A u, v \in Tenants : db'[u].def /\ db'[v].def => u = v
      BY <1>0, <2>3, <2>11 DEF IInv, DataInv, DefaultInv, SameConfig
    <3> QED
      BY <1>2, <2>2, <2>5, <3>1, <3>2 DEF Moved, IInv, DataInv, DefaultInv
  <2> QED
    BY <2>10, <2>15, <2>16, <2>17, <2>18, <2>19, <2>20 DEF IInv, DataInv
<1>3. \/ /\ ver < MaxVer /\ ver' = ver + 1
         /\ db' = [u \in Tenants |->
                      IF u = t THEN row
                      ELSE IF u \in cleared THEN [db[u] EXCEPT !.def = FALSE] ELSE db[u]]
         /\ call' = [call EXCEPT ![c] = m]
         /\ overtaken' = overtaken \union Outdated(cleared \union {t})
                                   \union {u \in cleared : Reading(u)}
         /\ UNCHANGED updateMu
      \/ Return(c) /\ UNCHANGED <<db, ver, overtaken>>
  BY Zenon DEF Write
<1>4. UNCHANGED <<phase, cache, load, listed, check>>
  BY DEF Write
<1> QED
  BY <1>1, <1>2, <1>3, <1>4

\* storeTenant: the cache takes what the call wrote.
LEMMA StoreStepInv == ASSUME IInv, NEW c \in Callers, Store(c) PROVE IInv'
<1> DEFINE me == call[c]
           t == me.t
           e == [me.e EXCEPT !.health = IF Present(cache[t]) THEN cache[t].health ELSE @]
<1>0. t \in Tenants /\ me.e \in Entry /\ me.pc = "store" /\ Locked(me)
  BY CallTypes DEF IInv, Store, Locked
<1>1. /\ cache' = [u \in Tenants |->
                     IF u = t THEN e
                     ELSE IF e.def THEN [cache[u] EXCEPT !.def = FALSE] ELSE cache[u]]
      /\ Return(c)
      /\ UNCHANGED <<phase, db, ver, load, listed, check, overtaken>>
  BY DEF Store
<1>2. e \in Entry /\ SameConfig(me.e, e)
  <2>1. \A h \in Healths : [me.e EXCEPT !.health = h] \in Entry
                           /\ SameConfig(me.e, [me.e EXCEPT !.health = h])
    BY <1>0 DEF Entry, SameConfig
  <2>2. (IF Present(cache[t]) THEN cache[t].health ELSE me.e.health) \in Healths
    BY <1>0 DEF IInv, TypeOK, Entry
  <2> QED
    BY <2>1, <2>2
<1> HIDE DEF e
<1>3. \A u \in Tenants : /\ [cache[u] EXCEPT !.def = FALSE] \in Entry
                         /\ [cache[u] EXCEPT !.def = FALSE].ver = cache[u].ver
                         /\ [cache[u] EXCEPT !.def = FALSE].conf = cache[u].conf
                         /\ [cache[u] EXCEPT !.def = FALSE].def = FALSE
  BY DEF IInv, TypeOK, Entry
<1>4. /\ cache'[t] = e
      /\ \A u \in Tenants \ {t} : /\ cache'[u].ver = cache[u].ver /\ cache'[u].conf = cache[u].conf
                                  /\ e.def => ~cache'[u].def
                                  /\ ~e.def => cache'[u] = cache[u]
  BY <1>0, <1>1, <1>3
<1>5. cache' \in [Tenants -> Entry]
  BY <1>1, <1>2, <1>3 DEF IInv, TypeOK
<1>6. Moved(c) /\ MutexStep(c) /\ call'[c].pc = "idle" /\ call'[c].e = Absent
  BY <1>1, ReturnMoves, Values DEF IInv
<1>7. TypeOK' /\ LockInv'
  BY <1>1, <1>5, <1>6, CallerStep DEF IInv, TypeOK
<1>8. \A d \in Callers : /\ d # c => call'[d] = call[d] /\ call[d].pc # "store"
                         /\ call'[d].pc \notin {"store", "write", "purge", "hook"}
  BY <1>0, <1>6, Alone
<1>9. StoreInv' /\ EditInv' /\ EditsBuildOnLatest' /\ HookInv'
  BY <1>8 DEF StoreInv, EditInv, EditsBuildOnLatest, HookInv
<1>10. /\ SameConfig(me.e, db[t])
       /\ \A u \in Tenants \ {t} : Beside(me.e, u)
  BY <1>0 DEF IInv, DataInv, StoreInv
<1>11. FillInv'
  <2> SUFFICES ASSUME NEW d \in Callers, call'[d].pc = "fill"
               PROVE  /\ Present(call[d].e)
                      /\ call[d].t \notin overtaken /\ Present(db[call[d].t])
                           /\ ~Present(cache'[call[d].t]) => SameConfig(call[d].e, db[call[d].t])
    BY <1>1, <1>6, <1>8 DEF FillInv
  <2>1. d # c /\ call[d].pc = "fill" /\ call[d].t \in Tenants
    BY <1>6, <1>8, CallTypes DEF IInv
  <2>2. /\ Present(call[d].e)
        /\ call[d].t \notin overtaken /\ Present(db[call[d].t]) /\ ~Present(cache[call[d].t])
             => SameConfig(call[d].e, db[call[d].t]) \/ StoringTenant(call[d].t)
    BY <2>1 DEF IInv, DataInv, FillInv
  <2>3. CASE call[d].t = t
    BY <1>2, <1>4, <1>10, <2>2, <2>3 DEF Present, SameConfig
  <2>4. CASE call[d].t # t
    <3>1. ~StoringTenant(call[d].t)
      BY <1>8, <2>4 DEF StoringTenant
    <3> QED
      BY <1>4, <2>1, <2>2, <2>4, <3>1 DEF Present
  <2> QED
    BY <2>3, <2>4
<1>12. ListInv'
  BY <1>1 DEF IInv, DataInv, ListInv
<1>13. AgreeInv'
  <2>1. ASSUME NEW u \in Tenants \ overtaken, Present(db[u]), Present(cache'[u])
        PROVE  SameConfig(db[u], cache'[u])
    <3>1. CASE u = t
      BY <1>2, <1>4, <1>10, <3>1 DEF SameConfig
    <3>2. CASE u # t
      <4>1. Beside(me.e, u) /\ Present(cache[u]) /\ (e.def <=> me.e.def)
        BY <1>2, <1>4, <1>10, <2>1, <3>2 DEF Present, SameConfig
      <4>2. /\ db[u].ver = cache[u].ver /\ db[u].conf = cache[u].conf
            /\ ~me.e.def => db[u].def = cache[u].def
            /\ me.e.def => ~db[u].def
        BY <2>1, <4>1 DEF Beside
      <4>3. db[u] \in Entry /\ cache'[u] \in Entry
        BY <1>5 DEF IInv, TypeOK
      <4>4. db[u].def = cache'[u].def
        BY <1>4, <3>2, <4>1, <4>2, <4>3 DEF Entry
      <4> QED
        BY <1>4, <3>2, <4>2, <4>4 DEF SameConfig
    <3> QED
      BY <3>1, <3>2
  <2> QED
    BY <1>1, <2>1 DEF AgreeInv
<1>14. DefaultInv'
  <2>1. e.def => Present(e)
    BY <1>0, <1>2 DEF IInv, DataInv, DefaultInv, SameConfig, Present
  <2>2. \A u \in Tenants : cache'[u].def => Present(cache'[u])
    BY <1>4, <2>1 DEF IInv, DataInv, DefaultInv, Present
  <2> QED
    BY <1>1, <1>6, <1>8, <2>2, Values DEF IInv, DataInv, DefaultInv
<1> QED
  BY <1>7, <1>9, <1>11, <1>12, <1>13, <1>14 DEF IInv, DataInv

\* The row is gone; a copy on its way to the cache is overtaken.
LEMMA PurgeInv == ASSUME IInv, NEW c \in Callers, Purge(c) PROVE IInv'
<1> DEFINE t == call[c].t
<1>0. t \in Tenants /\ call[c].pc = "purge" /\ Locked(call[c])
  BY CallTypes DEF IInv, Purge, Locked
<1>1. CASE Return(c) /\ UNCHANGED <<phase, cache, ver, load, listed, check, db, overtaken>>
  <2>1. Moved(c) /\ MutexStep(c) /\ call'[c].pc = "idle" /\ call'[c].e = Absent
    BY <1>1, ReturnMoves, Values DEF IInv
  <2>2. TypeOK' /\ LockInv'
    BY <1>1, <2>1, CallerStep DEF IInv, TypeOK
  <2>3. DataInv'
    BY <1>0, <1>1, <2>1, Values, CalmStep
  <2> QED
    BY <2>2, <2>3 DEF IInv
<1>2. CASE /\ db' = [db EXCEPT ![t] = Absent]
           /\ overtaken' = IF (check.busy /\ check.t = t) \/ Reading(t)
                           THEN overtaken \union {t} ELSE overtaken \union Outdated({t})
           /\ Goto(c, "hook")
           /\ UNCHANGED <<updateMu, phase, cache, ver, load, listed, check>>
  <2>1. /\ Moved(c) /\ call'[c].pc = "hook" /\ call'[c].t = t /\ call'[c].op = call[c].op
        /\ call'[c].e = call[c].e
    BY <1>2, GotoMoves DEF IInv, PCs
  <2>2. MutexStep(c)
    BY <1>0, <1>2, <2>1 DEF MutexStep, Locked, Asks
  <2>3. db' \in [Tenants -> Entry] /\ \A u \in Tenants : db'[u] = IF u = t THEN Absent ELSE db[u]
    BY <1>0, <1>2, Values DEF IInv, TypeOK
  <2>4. overtaken \subseteq overtaken' /\ overtaken' \in SUBSET Tenants
    BY <1>0, <1>2 DEF IInv, TypeOK, Outdated
  <2>5. TypeOK' /\ LockInv'
    BY <1>2, <2>1, <2>2, <2>3, <2>4, CallerStep DEF IInv, TypeOK
  <2>6. load = "listed" => t \in overtaken'
    BY <1>2 DEF Outdated
  <2>7. \A d \in Callers : /\ d # c => call'[d] = call[d] /\ call'[d].pc # "hook"
                           /\ call[d].pc # "store"
                           /\ call'[d].pc \notin {"store", "write", "purge"}
    BY <1>0, <2>1, Alone
  <2>8. StoreInv' /\ EditInv' /\ EditsBuildOnLatest'
    BY <2>7 DEF StoreInv, EditInv, EditsBuildOnLatest
  <2>9. ~Storing /\ \A u \in Tenants : ~StoringTenant(u)
    BY <2>7 DEF Storing, StoringTenant
  <2>10. FillInv'
    <3> SUFFICES ASSUME NEW d \in Callers, call'[d].pc = "fill"
                 PROVE  /\ Present(call[d].e)
                        /\ call[d].t \notin overtaken' /\ Present(db'[call[d].t])
                             /\ ~Present(cache[call[d].t]) => SameConfig(call[d].e, db'[call[d].t])
      BY <1>2, <2>1, <2>7 DEF FillInv
    <3>1. d # c /\ call[d].pc = "fill" /\ call[d].t \in Tenants
      BY <2>1, <2>7, CallTypes DEF IInv
    <3> QED
      BY <2>3, <2>4, <2>9, <3>1, Values DEF IInv, DataInv, FillInv
  <2>11. HookInv'
    BY <1>0, <2>1, <2>3, <2>7, Values DEF HookInv
  <2>12. ListInv'
    BY <1>2, <2>3, <2>4, <2>6 DEF IInv, DataInv, ListInv
  <2>13. AgreeInv'
    BY <1>2, <2>3, <2>4, <2>9, Values DEF IInv, DataInv, AgreeInv
  <2>14. DefaultInv'
    BY <1>2, <2>1, <2>3, <2>7, Values DEF IInv, DataInv, DefaultInv
  <2> QED
    BY <2>5, <2>8, <2>10, <2>11, <2>12, <2>13, <2>14 DEF IInv, DataInv
<1> QED
  BY <1>1, <1>2 DEF Purge

\* The cache forgets a tenant whose row is gone.
LEMMA ForgetInv == ASSUME IInv, NEW c \in Callers, Forget(c) PROVE IInv'
<1> DEFINE t == call[c].t
<1>0. t \in Tenants /\ call[c].pc = "hook" /\ Locked(call[c]) /\ ~Present(db[t])
  BY CallTypes DEF IInv, DataInv, HookInv, Forget, Locked
<1>1. /\ cache' = [cache EXCEPT ![t] = Absent] /\ Return(c)
      /\ UNCHANGED <<phase, db, ver, load, listed, check, overtaken>>
  BY DEF Forget
<1>2. Moved(c) /\ MutexStep(c) /\ call'[c].pc = "idle" /\ call'[c].e = Absent
  BY <1>1, ReturnMoves, Values DEF IInv
<1>3. cache' \in [Tenants -> Entry] /\ \A u \in Tenants : cache'[u] = IF u = t THEN Absent ELSE cache[u]
  BY <1>0, <1>1, Values DEF IInv, TypeOK
<1>4. TypeOK' /\ LockInv'
  BY <1>1, <1>2, <1>3, CallerStep DEF IInv, TypeOK
<1>5. \A d \in Callers : /\ d # c => call'[d] = call[d]
                         /\ call[d].pc # "store"
                         /\ call'[d].pc \notin {"store", "write", "purge", "hook"}
  BY <1>0, <1>2, Alone
<1>6. StoreInv' /\ EditInv' /\ EditsBuildOnLatest' /\ HookInv'
  BY <1>5 DEF StoreInv, EditInv, EditsBuildOnLatest, HookInv
<1>7. ~Storing /\ \A u \in Tenants : ~StoringTenant(u)
  BY <1>5 DEF Storing, StoringTenant
<1>8. FillInv'
  <2> SUFFICES ASSUME NEW d \in Callers, call'[d].pc = "fill"
               PROVE  /\ Present(call[d].e)
                      /\ call[d].t \notin overtaken /\ Present(db[call[d].t])
                           /\ ~Present(cache'[call[d].t]) => SameConfig(call[d].e, db[call[d].t])
    BY <1>1, <1>2, <1>5 DEF FillInv
  <2>1. d # c /\ call[d].pc = "fill" /\ call[d].t \in Tenants
    BY <1>2, <1>5, CallTypes DEF IInv
  <2> QED
    BY <1>0, <1>3, <1>7, <2>1 DEF IInv, DataInv, FillInv
<1>9. ListInv' /\ AgreeInv'
  BY <1>1, <1>3, <1>7, Values DEF IInv, DataInv, ListInv, AgreeInv
<1>10. DefaultInv'
  BY <1>1, <1>2, <1>3, <1>5, Values DEF IInv, DataInv, DefaultInv
<1> QED
  BY <1>4, <1>6, <1>8, <1>9, <1>10 DEF IInv, DataInv

\* Every step of a caller keeps the invariant.
LEMMA CallStepInv == ASSUME IInv, NEW c \in Callers, CallStep(c) PROVE IInv'
  BY RequestInv, CheckDefaultInv, LockStepInv, GetCachedInv, GetRowInv, FillStepInv,
     WriteInv, StoreStepInv, PurgeInv, ForgetInv DEF CallStep
----------------------------------------------------------------------------
(* Steps that no caller takes *)

\* They leave the callers and the mutex alone.
LEMMA OtherStep ==
    ASSUME IInv, UNCHANGED <<call, updateMu, ver>>, phase' \in {"boot", "serving"},
           db' \in [Tenants -> Entry], cache' \in [Tenants -> Entry],
           load' \in {"off", "listed", "done"}, listed' \in [Tenants -> Entry],
           check' \in [busy : BOOLEAN, t : Tenants, health : Healths],
           overtaken' \in SUBSET Tenants
    PROVE  TypeOK' /\ LockInv'
  BY DEF IInv, TypeOK, LockInv

\* The server starts: only the phase changes.
LEMMA ServeInv == ASSUME IInv, Serve PROVE IInv'
<1>1. TypeOK' /\ LockInv'
  BY OtherStep DEF Serve, IInv, TypeOK
<1>2. DataInv'
  BY ConfigStep DEF Serve, SameConfig
<1> QED
  BY <1>1, <1>2 DEF IInv

\* What is listed is current, and the cache takes nothing else from it.
LEMMA LoadInv == ASSUME IInv, LoadList \/ LoadStore PROVE IInv'
<1>1. CASE LoadList
  <2>1. TypeOK' /\ LockInv'
    BY <1>1, OtherStep DEF LoadList, IInv, TypeOK
  <2>2. listed' = db /\ UNCHANGED <<db, cache, call, overtaken>>
    BY <1>1 DEF LoadList
  <2>3. StoreInv' /\ FillInv' /\ EditInv' /\ EditsBuildOnLatest' /\ HookInv' /\ AgreeInv'
    BY <2>2 DEF IInv, DataInv, StoreInv, FillInv, EditInv, EditsBuildOnLatest, HookInv,
                AgreeInv, Beside, Storing, StoringTenant
  <2>4. ListInv' /\ DefaultInv'
    BY <2>2 DEF IInv, DataInv, ListInv, DefaultInv, SameConfig
  <2> QED
    BY <2>1, <2>3, <2>4 DEF IInv, DataInv
<1>2. CASE LoadStore
  <2>1. /\ load = "listed" /\ load' = "done"
        /\ cache' = [t \in Tenants |-> IF Present(listed[t]) THEN listed[t] ELSE cache[t]]
        /\ listed' = [t \in Tenants |-> Absent]
        /\ UNCHANGED <<phase, db, updateMu, call, ver, check, overtaken>>
    BY <1>2 DEF LoadStore
  <2>2. cache' \in [Tenants -> Entry] /\ listed' \in [Tenants -> Entry]
    BY <2>1, Values DEF IInv, TypeOK
  <2>3. TypeOK' /\ LockInv'
    BY <2>1, <2>2, OtherStep DEF IInv, TypeOK
  <2>4. \A t \in Tenants :
          /\ cache'[t] = IF Present(listed[t]) THEN listed[t] ELSE cache[t]
          /\ t \notin overtaken /\ Present(listed[t]) => SameConfig(listed[t], db[t])
    BY <2>1 DEF IInv, DataInv, ListInv
  <2>5. (Storing' <=> Storing) /\ \A t \in Tenants : StoringTenant(t)' <=> StoringTenant(t)
    BY <2>1 DEF Storing, StoringTenant
  <2>6. StoreInv'
    <3>1. ASSUME NEW e \in Entry, NEW u \in Tenants, Beside(e, u)
          PROVE  /\ e.def => ~db[u].def
                 /\ u \notin overtaken /\ Present(db[u]) /\ Present(cache'[u]) =>
                      /\ db[u].ver = cache'[u].ver
                      /\ db[u].conf = cache'[u].conf
                      /\ ~e.def => db[u].def = cache'[u].def
      BY <2>4, <3>1 DEF Beside, SameConfig
    <3> QED
      BY <2>1, <3>1, CallTypes DEF IInv, DataInv, StoreInv, Beside
  <2>7. FillInv' /\ EditInv'
    BY <2>1, <2>4, <2>5, CallTypes DEF IInv, DataInv, FillInv, EditInv
  <2>8. EditsBuildOnLatest' /\ HookInv' /\ ListInv'
    BY <2>1 DEF IInv, DataInv, EditsBuildOnLatest, HookInv, ListInv
  <2>9. AgreeInv'
    BY <2>1, <2>4, <2>5 DEF IInv, DataInv, AgreeInv, SameConfig
  <2>10. DefaultInv'
    BY <2>1, <2>4, Values DEF IInv, DataInv, DefaultInv
  <2> QED
    BY <2>3, <2>6, <2>7, <2>8, <2>9, <2>10 DEF IInv, DataInv
<1> QED
  BY <1>1, <1>2

\* An entry with another health has the same configuration.
LEMMA HealthOnly ==
    ASSUME NEW e \in Entry, NEW h \in Healths
    PROVE  [e EXCEPT !.health = h] \in Entry /\ SameConfig([e EXCEPT !.health = h], e)
  BY DEF Entry, SameConfig

\* Health checks change no configuration.
LEMMA HealthInv ==
    ASSUME IInv,
           HealthEntry \/ \E t \in Tenants, h \in {"healthy", "unhealthy"} : HealthRow(t, h)
    PROVE  IInv'
<1>1. ASSUME NEW t \in Tenants, NEW h \in {"healthy", "unhealthy"}, HealthRow(t, h) PROVE IInv'
  <2>1. h \in Healths /\ db[t] \in Entry
    BY DEF Healths, IInv, TypeOK
  <2>2. [db[t] EXCEPT !.health = h] \in Entry /\ SameConfig([db[t] EXCEPT !.health = h], db[t])
    BY <2>1, HealthOnly
  <2>3. /\ db' = IF Present(db[t]) THEN [db EXCEPT ![t] = [db[t] EXCEPT !.health = h]] ELSE db
        /\ UNCHANGED <<phase, cache, updateMu, call, ver, load, listed>>
        /\ check' = [busy |-> TRUE, t |-> t, health |-> h]
        /\ overtaken' = overtaken \union (IF Present(db[t]) THEN Outdated({t}) ELSE {t})
    BY <1>1 DEF HealthRow
  <2>4. db' \in [Tenants -> Entry] /\ \A u \in Tenants : SameConfig(db'[u], db[u])
    BY <2>2, <2>3 DEF IInv, TypeOK, SameConfig
  <2>5. overtaken \subseteq overtaken' /\ overtaken' \in SUBSET Tenants
    BY <2>3 DEF IInv, TypeOK, Outdated
  <2>6. TypeOK' /\ LockInv'
    BY <2>1, <2>3, <2>4, <2>5, OtherStep DEF IInv, TypeOK
  <2>7. DataInv'
    BY <2>3, <2>4, <2>5, ConfigStep DEF SameConfig
  <2> QED
    BY <2>6, <2>7 DEF IInv
<1>2. CASE HealthEntry
  <2> DEFINE t == check.t
             h == check.health
  <2>1. t \in Tenants /\ h \in Healths /\ cache[t] \in Entry
    BY DEF IInv, TypeOK
  <2>2. [cache[t] EXCEPT !.health = h] \in Entry /\ SameConfig([cache[t] EXCEPT !.health = h], cache[t])
    BY <2>1, HealthOnly
  <2>3. /\ cache' = IF Present(cache[t]) THEN [cache EXCEPT ![t] = [cache[t] EXCEPT !.health = h]]
                    ELSE cache
        /\ UNCHANGED <<phase, db, updateMu, call, ver, load, listed, overtaken>>
        /\ check' = NoCheck
    BY <1>2 DEF HealthEntry
  <2>4. cache' \in [Tenants -> Entry] /\ \A u \in Tenants : SameConfig(cache'[u], cache[u])
    BY <2>1, <2>2, <2>3 DEF IInv, TypeOK, SameConfig
  <2>5. TypeOK' /\ LockInv'
    BY <2>3, <2>4, Values, OtherStep DEF IInv, TypeOK
  <2>6. DataInv'
    BY <2>3, <2>4, ConfigStep DEF SameConfig
  <2> QED
    BY <2>5, <2>6 DEF IInv
<1> QED
  BY <1>1, <1>2

\* Every step keeps the invariant.
LEMMA NextInv == IInv /\ [Next]_vars => IInv'
<1> SUFFICES ASSUME IInv, [Next]_vars PROVE IInv'
  OBVIOUS
<1>1. CASE UNCHANGED vars
  <2>1. TypeOK' /\ LockInv'
    BY <1>1, OtherStep DEF vars, IInv, TypeOK
  <2>2. DataInv'
    BY <1>1, ConfigStep DEF vars, SameConfig
  <2> QED
    BY <2>1, <2>2 DEF IInv
<1>2. CASE Next
  BY <1>2, CallStepInv, ServeInv, LoadInv, HealthInv DEF Next
<1> QED
  BY <1>1, <1>2

\* The invariant holds in every reachable state.
LEMMA Invariance == Spec => []IInv
  BY InitInv, NextInv, PTL DEF Spec
----------------------------------------------------------------------------
\* Type correctness; the mutex in particular is held by nobody or by a call that
\* has not returned.
THEOREM TypeCorrect == Spec => []TypeOK
<1>1. IInv => TypeOK
  BY DEF IInv
<1> QED
  BY <1>1, Invariance, PTL

\* Between changes, cache and table hold the same configuration of every tenant
\* that no older copy overtook, whatever reads, health checks and LoadTenants do.
THEOREM CacheFollows == Spec => []CacheFollowsDatabase
<1>1. ASSUME IInv PROVE CacheFollowsDatabase
  <2>1. updateMu = Free => ~Storing
    BY <1>1, Values DEF IInv, LockInv, Locked, Storing
  <2> QED
    BY <1>1, <2>1 DEF IInv, DataInv, AgreeInv, CacheFollowsDatabase
<1> QED
  BY <1>1, Invariance, PTL

\* No edit undoes the one before it: it starts from the row as it is stored.
THEOREM NoLostEdit == Spec => []EditsBuildOnLatest
<1>1. IInv => EditsBuildOnLatest
  BY DEF IInv, DataInv
<1> QED
  BY <1>1, Invariance, PTL

\* Between changes no two cached tenants have the default flag.
THEOREM SingleDefault == Spec => []OneDefault
<1>1. ASSUME IInv PROVE OneDefault
  <2>1. updateMu = Free => ~Storing
    BY <1>1, Values DEF IInv, LockInv, Locked, Storing
  <2> QED
    BY <1>1, <2>1 DEF IInv, DataInv, AgreeInv, DefaultInv, SameConfig, OneDefault
<1> QED
  BY <1>1, Invariance, PTL
----------------------------------------------------------------------------
(* Config-defined tenants *)

\* Boot makes its calls one by one and nothing else runs, so nothing is overtaken.
BootInv ==
    phase = "boot" =>
        /\ overtaken = {} /\ load = "off" /\ \A t \in Tenants : listed[t] = Absent
        /\ \A c, d \in Callers : call[c].pc # "idle" /\ call[d].pc # "idle" => c = d

\* Once the server is up every call is a request of the API; boot deletes nothing.
OpOK(me) ==
    /\ phase = "serving" => me.op \in ApiOps
    /\ phase = "boot" => me.op \in BootOps
    /\ me.pc = "purge" => me.op = "delete"

OpInv == \A c \in Callers : call[c].pc # "idle" => OpOK(call[c])

\* A call that cannot change the tenant t.
Harmless(me, t) ==
    me.t = t =>
        /\ me.pc = "fill" => me.e.conf
        /\ me.pc = "write" => me.new
        /\ me.pc \notin {"store", "purge", "hook"}

\* Once the server is up, every copy of a config-defined row says so, and no call
\* is about to change it.
MarkedInv ==
    /\ \A t \in Tenants : db[t].conf => Present(db[t])
    /\ phase = "serving" =>
         \A t \in Tenants : db[t].conf =>
            /\ Present(cache[t]) => cache[t].conf
            /\ Present(listed[t]) => listed[t].conf
            /\ \A c \in Callers : Harmless(call[c], t)

ConfInv == BootInv /\ OpInv /\ MarkedInv

\* A caller's step keeps all this if it marks no row, and if the entries it stores
\* and what it goes on with are harmless.
LEMMA ConfStep ==
    ASSUME ConfInv, NEW c \in Callers, Moved(c), UNCHANGED <<phase, load, listed>>,
           phase = "boot" => overtaken' = {},
           call'[c].pc # "idle" =>
               /\ OpOK(call'[c])
               /\ phase = "boot" => \A d \in Callers : d # c => call[d].pc = "idle",
           \A t \in Tenants : db'[t].conf => Present(db'[t]),
           phase = "serving" =>
               \A t \in Tenants : db'[t].conf =>
                   /\ db[t].conf
                   /\ Present(cache'[t]) => cache'[t].conf
                   /\ Harmless(call'[c], t)
    PROVE  ConfInv'
<1>1. BootInv' /\ OpInv'
  BY DEF ConfInv, BootInv, OpInv, OpOK, Moved
<1>2. MarkedInv'
  BY DEF ConfInv, MarkedInv, Moved
<1> QED
  BY <1>1, <1>2 DEF ConfInv

\* In particular if it touches neither table nor cache.
LEMMA ConfCalm ==
    ASSUME ConfInv, NEW c \in Callers, Moved(c),
           UNCHANGED <<phase, db, cache, load, listed, overtaken>>,
           call'[c].pc # "idle" =>
               /\ OpOK(call'[c])
               /\ phase = "boot" => \A d \in Callers : d # c => call[d].pc = "idle",
           phase = "serving" => \A t \in Tenants : db[t].conf => Harmless(call'[c], t)
    PROVE  ConfInv'
  BY ConfStep DEF ConfInv, BootInv, MarkedInv

\* The same for a call that goes on as the request it is.
LEMMA ConfGoesOn ==
    ASSUME ConfInv, NEW c \in Callers, call[c].pc # "idle", call'[c].op = call[c].op,
           call'[c].pc = "purge" => call[c].op = "delete"
    PROVE  /\ OpOK(call'[c])
           /\ phase = "boot" => \A d \in Callers : d # c => call[d].pc = "idle"
  BY DEF ConfInv, BootInv, OpInv, OpOK

\* A call of the API gives up on a config-defined tenant.
LEMMA ConfGot ==
    ASSUME IInv, ConfInv, NEW c \in Callers, call[c].pc \in {"get", "fill"}, NEW e \in Entry, Got(c, e)
    PROVE  /\ call'[c].pc # "idle" =>
                /\ call'[c].op = call[c].op
                /\ call'[c].t = call[c].t
                /\ call'[c].pc \in {"purge", "write"}
                /\ call'[c].pc = "purge" => call[c].op = "delete"
                /\ phase = "serving" => ~e.conf
<1> DEFINE p == IF call[c].op = "delete" THEN "purge" ELSE "write"
           m == [call[c] EXCEPT !.pc = p, !.e = e]
<1>1. \/ Return(c)
      \/ /\ call[c].op \notin BootOps => ~e.conf
         /\ call' = [call EXCEPT ![c] = m]
  BY DEF Got
<1>2. p \in {"purge", "write"} /\ (p = "purge" => call[c].op = "delete")
  OBVIOUS
<1> HIDE DEF p
<1>3. m \in Call /\ m.pc = p /\ m.t = call[c].t /\ m.op = call[c].op
  BY <1>2, CallTypes DEF IInv, Call, PCs
<1> HIDE DEF m
<1>4. phase = "serving" => call[c].op \notin BootOps
  BY DEF ConfInv, OpInv, OpOK, ApiOps, BootOps
<1> QED
  BY <1>1, <1>2, <1>3, <1>4, ReturnMoves, BecomeMoves DEF IInv

\* What a write does to the table.
LEMMA WriteFacts ==
    ASSUME IInv, NEW c \in Callers, Write(c)
    PROVE  /\ UNCHANGED <<phase, cache, load, listed, check>>
           /\ \/ Return(c) /\ UNCHANGED <<db, ver, overtaken>>
              \/ /\ ~(call[c].new /\ Present(db[call[c].t]))
                 /\ Moved(c) /\ call'[c].pc = "store"
                 /\ call'[c].t = call[c].t /\ call'[c].op = call[c].op
                 /\ overtaken' \subseteq
                        overtaken \union Outdated(Tenants) \union {u \in Tenants : Reading(u)}
                 /\ Present(db'[call[c].t])
                 /\ db'[call[c].t].conf => call[c].op = "sync"
                 /\ \A u \in Tenants \ {call[c].t} :
                      db'[u].ver = db[u].ver /\ db'[u].conf = db[u].conf
<1> DEFINE me == call[c]
           t == me.t
           new == Written(me, ver + 1)
           h == IF Present(db[t]) THEN db[t].health ELSE "unknown"
           row == [new EXCEPT !.health = h]
           cleared == {u \in Tenants \ {t} : new.def /\ db[u].def}
           m == [me EXCEPT !.pc = "store", !.e = new]
<1>1. UNCHANGED <<phase, cache, load, listed, check>>
  BY DEF Write
<1>2. \/ /\ ~(me.new /\ Present(db[t]))
         /\ db' = [u \in Tenants |->
                      IF u = t THEN row
                      ELSE IF u \in cleared THEN [db[u] EXCEPT !.def = FALSE] ELSE db[u]]
         /\ call' = [call EXCEPT ![c] = m]
         /\ overtaken' = overtaken \union Outdated(cleared \union {t})
                                   \union {u \in cleared : Reading(u)}
      \/ Return(c) /\ UNCHANGED <<db, ver, overtaken>>
  BY Zenon DEF Write
<1>3. me \in Call /\ t \in Tenants /\ me.e \in Entry /\ ver + 1 \in Nat /\ ver + 1 # 0
  BY CallTypes DEF IInv, TypeOK
<1>4. new \in Entry /\ Present(new) /\ (new.conf <=> me.op = "sync")
  BY <1>3 DEF Written, Entry, Healths, Present
<1> HIDE DEF new, h
<1>5. row.ver = new.ver /\ row.conf = new.conf
  BY <1>4 DEF Entry
<1>6. m \in Call /\ m.pc = "store" /\ m.t = t /\ m.op = me.op
  BY <1>3, <1>4 DEF Call, PCs
<1>7. \A u \in Tenants : /\ [db[u] EXCEPT !.def = FALSE].ver = db[u].ver
                         /\ [db[u] EXCEPT !.def = FALSE].conf = db[u].conf
  BY DEF IInv, TypeOK, Entry
<1> HIDE DEF row, m
<1>8. ASSUME db' = [u \in Tenants |->
                      IF u = t THEN row
                      ELSE IF u \in cleared THEN [db[u] EXCEPT !.def = FALSE] ELSE db[u]]
      PROVE  /\ Present(db'[t]) /\ (db'[t].conf => me.op = "sync")
             /\ \A u \in Tenants \ {t} : db'[u].ver = db[u].ver /\ db'[u].conf = db[u].conf
  BY <1>3, <1>4, <1>5, <1>7, <1>8 DEF Present
<1>9. ASSUME call' = [call EXCEPT ![c] = m]
      PROVE  Moved(c) /\ call'[c].pc = "store" /\ call'[c].t = t /\ call'[c].op = me.op
  BY <1>6, <1>9, BecomeMoves DEF IInv
<1>10. ASSUME overtaken' = overtaken \union Outdated(cleared \union {t})
                                     \union {u \in cleared : Reading(u)}
       PROVE  overtaken' \subseteq
                overtaken \union Outdated(Tenants) \union {u \in Tenants : Reading(u)}
  BY <1>3, <1>10 DEF Outdated
<1> QED
  BY <1>1, <1>2, <1>8, <1>9, <1>10

\* The steps of a caller.
LEMMA ConfCall == ASSUME IInv, ConfInv, NEW c \in Callers, CallStep(c) PROVE ConfInv'
<1>0. /\ TypeOK /\ call[c] \in Call /\ call[c].t \in Tenants /\ call[c].e \in Entry
      /\ db[call[c].t] \in Entry /\ cache[call[c].t] \in Entry
  BY CallTypes DEF IInv, TypeOK
<1>r. ASSUME Return(c), UNCHANGED <<phase, db, cache, load, listed, overtaken>> PROVE ConfInv'
  BY <1>r, ReturnMoves, ConfCalm DEF IInv, Harmless
<1>1. ASSUME NEW op \in Ops, NEW t \in Tenants, NEW def \in DefaultAsked, Request(c, op, t, def)
      PROVE  ConfInv'
  <2> DEFINE p == CASE op = "get" -> "get"
                    [] op \in {"create", "update"} /\ def = "set" -> "default"
                    [] OTHER -> "lock"
             m == [pc |-> p, op |-> op, t |-> t, def |-> def, new |-> FALSE, e |-> Absent]
  <2>1. p \in {"get", "default", "lock"}
    OBVIOUS
  <2> HIDE DEF p
  <2>2. m \in Call /\ m.pc = p /\ m.op = op
    BY <2>1, Values DEF Call, PCs
  <2>3. /\ call' = [call EXCEPT ![c] = m]
        /\ UNCHANGED <<phase, db, cache, load, listed, overtaken>>
        /\ phase = "serving" => op \in ApiOps
        /\ phase = "boot" => op \in BootOps
        /\ phase = "boot" => \A d \in Callers : call[d].pc = "idle"
    BY <1>1 DEF Request, p
  <2> HIDE DEF m
  <2> QED
    BY <1>0, <2>1, <2>2, <2>3, BecomeMoves, ConfCalm DEF Harmless, OpOK
<1>2. CASE CheckDefault(c)
  <2>1. CASE Return(c)
    BY <1>2, <1>r, <2>1 DEF CheckDefault
  <2>2. CASE Goto(c, "lock")
    BY <1>0, <1>2, <2>2, GotoMoves, ConfGoesOn, ConfCalm DEF CheckDefault, PCs, Harmless
  <2> QED
    BY <1>2, <2>1, <2>2 DEF CheckDefault
<1>3. CASE Lock(c)
  <2> DEFINE m == [call[c] EXCEPT !.pc = "write", !.new = TRUE]
  <2>1. m \in Call /\ m.pc = "write" /\ m.new /\ m.op = call[c].op
    BY <1>0 DEF Call, PCs
  <2>2. Return(c) \/ Goto(c, "get") \/ call' = [call EXCEPT ![c] = m]
    BY <1>3 DEF Lock
  <2>3. CASE Return(c)
    BY <1>3, <1>r, <2>3 DEF Lock
  <2>4. CASE Goto(c, "get")
    BY <1>0, <1>3, <2>4, GotoMoves, ConfGoesOn, ConfCalm DEF Lock, PCs, Harmless
  <2>5. CASE call' = [call EXCEPT ![c] = m]
    <3> HIDE DEF m
    <3> QED
      BY <1>0, <1>3, <2>1, <2>5, BecomeMoves, ConfGoesOn, ConfCalm DEF Lock, Harmless
  <2> QED
    BY <2>2, <2>3, <2>4, <2>5
<1>4. ASSUME call[c].pc \in {"get", "fill"}, Present(cache[call[c].t]), Got(c, cache[call[c].t]),
             UNCHANGED <<phase, db, cache, load, listed, overtaken>>
      PROVE  ConfInv'
  <2>1. Moved(c)
    BY <1>0, <1>4, GotFacts
  <2>2. phase = "serving" => \A t \in Tenants : db[t].conf => Harmless(call'[c], t)
    BY <1>0, <1>4, ConfGot DEF ConfInv, MarkedInv, Harmless
  <2> QED
    BY <1>0, <1>4, <2>1, <2>2, ConfGot, ConfGoesOn, ConfCalm
<1>5. CASE GetCached(c)
  BY <1>4, <1>5 DEF GetCached
<1>6. CASE GetRow(c)
  <2> DEFINE m == [call[c] EXCEPT !.pc = "fill", !.e = db[call[c].t]]
             n == [call[c] EXCEPT !.pc = "write", !.new = TRUE]
  <2>1. m \in Call /\ m.pc = "fill" /\ m.op = call[c].op /\ m.t = call[c].t /\ m.e = db[call[c].t]
    BY <1>0 DEF Call, PCs
  <2>2. n \in Call /\ n.pc = "write" /\ n.op = call[c].op /\ n.new
    BY <1>0 DEF Call, PCs
  <2>3. Return(c) \/ call' = [call EXCEPT ![c] = m] \/ call' = [call EXCEPT ![c] = n]
    BY <1>6 DEF GetRow
  <2>4. CASE Return(c)
    BY <1>6, <1>r, <2>4 DEF GetRow
  <2>5. CASE call' = [call EXCEPT ![c] = m]
    <3> HIDE DEF m
    <3>1. Moved(c) /\ call'[c] = m
      BY <1>0, <2>1, <2>5, BecomeMoves
    <3>2. \A t \in Tenants : db[t].conf => Harmless(call'[c], t)
      BY <2>1, <3>1 DEF Harmless
    <3> QED
      BY <1>6, <2>1, <3>1, <3>2, ConfGoesOn, ConfCalm DEF GetRow
  <2>6. CASE call' = [call EXCEPT ![c] = n]
    <3> HIDE DEF n
    <3> QED
      BY <1>0, <1>6, <2>2, <2>6, BecomeMoves, ConfGoesOn, ConfCalm DEF GetRow, Harmless
  <2> QED
    BY <2>3, <2>4, <2>5, <2>6
<1>7. CASE Fill(c)
  <2>0. call[c].pc = "fill" /\ UNCHANGED <<phase, db, load, listed, overtaken>>
    BY <1>7 DEF Fill
  <2>1. CASE Present(cache[call[c].t])
    BY <1>4, <1>7, <2>0, <2>1 DEF Fill
  <2>2. CASE ~Present(cache[call[c].t])
    <3>1. cache' = [cache EXCEPT ![call[c].t] = call[c].e] /\ Got(c, call[c].e)
      BY <1>7, <2>2 DEF Fill
    <3>2. Moved(c)
      BY <1>0, <2>0, <3>1, GotFacts
    <3>3. phase = "serving" =>
            \A t \in Tenants : db[t].conf =>
                (Present(cache'[t]) => cache'[t].conf) /\ Harmless(call'[c], t)
      BY <1>0, <2>0, <3>1, ConfGot DEF ConfInv, MarkedInv, Harmless, TypeOK
    <3> QED
      BY <1>0, <2>0, <3>2, <3>1, <3>3, ConfGot, ConfGoesOn, ConfStep DEF ConfInv, BootInv, MarkedInv
  <2> QED
    BY <2>1, <2>2
<1>8. CASE Write(c)
  <2>0. UNCHANGED <<phase, cache, load, listed, check>> /\ call[c].pc = "write"
    BY <1>8, WriteFacts DEF Write
  <2>1. CASE Return(c) /\ UNCHANGED <<db, ver, overtaken>>
    BY <1>r, <2>0, <2>1
  <2>2. CASE /\ Moved(c) /\ call'[c].pc = "store"
             /\ call'[c].t = call[c].t /\ call'[c].op = call[c].op
             /\ overtaken' \subseteq
                    overtaken \union Outdated(Tenants) \union {u \in Tenants : Reading(u)}
             /\ Present(db'[call[c].t])
             /\ db'[call[c].t].conf => call[c].op = "sync"
             /\ \A u \in Tenants \ {call[c].t} :
                  db'[u].ver = db[u].ver /\ db'[u].conf = db[u].conf
    <3>1. phase = "boot" => overtaken' = {}
      BY <2>0, <2>2 DEF ConfInv, BootInv, Outdated, Reading
    <3>2. \A t \in Tenants : db'[t].conf => Present(db'[t])
      BY <2>2 DEF ConfInv, MarkedInv, Present
    <3>3. phase = "serving" => ~db'[call[c].t].conf
      BY <2>0, <2>2 DEF ConfInv, OpInv, OpOK, ApiOps
    <3>4. phase = "serving" =>
            \A t \in Tenants : db'[t].conf =>
                /\ db[t].conf
                /\ Present(cache'[t]) => cache'[t].conf
                /\ Harmless(call'[c], t)
      BY <2>0, <2>2, <3>3 DEF ConfInv, MarkedInv, Harmless
    <3> QED
      BY <2>0, <2>2, <3>1, <3>2, <3>4, ConfGoesOn, ConfStep
  <2> QED
    BY <1>8, <2>1, <2>2, WriteFacts
<1>9. CASE Store(c)
  <2>1. call[c].pc = "store" /\ Return(c) /\ UNCHANGED <<phase, db, load, listed, overtaken>>
    BY <1>9 DEF Store
  <2>2. \A u \in Tenants \ {call[c].t} :
          (Present(cache'[u]) <=> Present(cache[u])) /\ cache'[u].conf = cache[u].conf
    <3>1. \A u \in Tenants : /\ [cache[u] EXCEPT !.def = FALSE].ver = cache[u].ver
                             /\ [cache[u] EXCEPT !.def = FALSE].conf = cache[u].conf
      BY DEF IInv, TypeOK, Entry
    <3>2. \A u \in Tenants \ {call[c].t} :
            cache'[u] = cache[u] \/ cache'[u] = [cache[u] EXCEPT !.def = FALSE]
      BY <1>9 DEF Store
    <3> QED
      BY <3>1, <3>2 DEF Present
  <2>3. Moved(c) /\ call'[c].pc = "idle"
    BY <1>0, <2>1, ReturnMoves
  <2>4. phase = "serving" =>
          \A t \in Tenants : db[t].conf =>
              (Present(cache'[t]) => cache'[t].conf) /\ Harmless(call'[c], t)
    BY <2>1, <2>2, <2>3 DEF ConfInv, MarkedInv, Harmless
  <2> QED
    BY <2>1, <2>3, <2>4, ConfStep DEF ConfInv, BootInv, MarkedInv
<1>10. CASE Purge(c)
  <2>0. call[c].pc = "purge" /\ UNCHANGED <<phase, cache, load, listed>>
    BY <1>10 DEF Purge
  <2>1. CASE Return(c) /\ UNCHANGED <<db, overtaken>>
    BY <1>r, <2>0, <2>1
  <2>2. CASE /\ db' = [db EXCEPT ![call[c].t] = Absent] /\ Goto(c, "hook")
             /\ overtaken' = IF (check.busy /\ check.t = call[c].t) \/ Reading(call[c].t)
                             THEN overtaken \union {call[c].t}
                             ELSE overtaken \union Outdated({call[c].t})
    <3>1. /\ Moved(c) /\ call'[c].pc = "hook"
          /\ call'[c].t = call[c].t /\ call'[c].op = call[c].op
      BY <1>0, <2>2, GotoMoves DEF PCs
    <3>2. \A u \in Tenants : db'[u] = IF u = call[c].t THEN Absent ELSE db[u]
      BY <1>0, <2>2 DEF TypeOK
    <3>3. phase # "boot"
      BY <2>0 DEF ConfInv, OpInv, OpOK, BootOps
    <3>4. \A t \in Tenants : db'[t].conf => Present(db'[t])
      BY <3>2, Values DEF ConfInv, MarkedInv
    <3>5. phase = "serving" =>
            \A t \in Tenants : db'[t].conf =>
                /\ db[t].conf
                /\ Present(cache'[t]) => cache'[t].conf
                /\ Harmless(call'[c], t)
      BY <2>0, <3>1, <3>2, Values DEF ConfInv, MarkedInv, Harmless
    <3> QED
      BY <2>0, <3>1, <3>3, <3>4, <3>5, ConfGoesOn, ConfStep
  <2> QED
    BY <1>10, <2>1, <2>2 DEF Purge
<1>11. CASE Forget(c)
  <2>1. /\ call[c].pc = "hook" /\ Return(c) /\ UNCHANGED <<phase, db, load, listed, overtaken>>
        /\ cache' = [cache EXCEPT ![call[c].t] = Absent]
    BY <1>11 DEF Forget
  <2>2. Moved(c) /\ call'[c].pc = "idle"
    BY <1>0, <2>1, ReturnMoves
  <2>3. \A u \in Tenants : cache'[u] = IF u = call[c].t THEN Absent ELSE cache[u]
    BY <1>0, <2>1 DEF TypeOK
  <2>4. phase = "serving" =>
          \A t \in Tenants : db[t].conf =>
              (Present(cache'[t]) => cache'[t].conf) /\ Harmless(call'[c], t)
    BY <2>2, <2>3, Values DEF ConfInv, MarkedInv, Harmless
  <2> QED
    BY <2>1, <2>2, <2>4, ConfStep DEF ConfInv, BootInv, MarkedInv
<1> QED
  BY <1>1, <1>2, <1>3, <1>5, <1>6, <1>7, <1>8, <1>9, <1>10, <1>11 DEF CallStep

\* The rows of the last run are marked as they are stored.
LEMMA ConfInit == Init => ConfInv
<1> SUFFICES ASSUME Init PROVE ConfInv
  OBVIOUS
<1>1. \A c \in Callers : call[c].pc = "idle"
  BY Values DEF Init
<1>2. \A r \in Rows : r.conf => Present(r)
  BY Values DEF Rows, Present
<1>3. /\ phase = "boot" /\ load = "off" /\ overtaken = {} /\ db \in [Tenants -> Rows]
      /\ \A t \in Tenants : listed[t] = Absent
  BY DEF Init
<1> QED
  BY <1>1, <1>2, <1>3 DEF ConfInv, BootInv, OpInv, MarkedInv

\* When the server starts, boot is done with its calls and the cache follows the table.
LEMMA ConfServe == ASSUME IInv, ConfInv, Serve PROVE ConfInv'
<1>1. /\ phase = "boot" /\ phase' = "serving" /\ \A c \in Callers : call[c].pc = "idle"
      /\ UNCHANGED <<db, cache, updateMu, call, ver, load, listed, check, overtaken>>
  BY DEF Serve
<1>2. ~Storing
  BY <1>1 DEF Storing
<1>3. \A t \in Tenants : Present(db[t]) /\ Present(cache[t]) => db[t].conf = cache[t].conf
  BY <1>1, <1>2 DEF IInv, DataInv, AgreeInv, SameConfig, ConfInv, BootInv
<1>4. \A t \in Tenants : ~Present(listed[t])
  BY <1>1, Values DEF ConfInv, BootInv
<1>5. MarkedInv'
  BY <1>1, <1>3, <1>4 DEF ConfInv, MarkedInv, Harmless
<1> QED
  BY <1>1, <1>5 DEF ConfInv, BootInv, OpInv

\* A step of no caller keeps all this if it only takes marked entries for marked rows.
LEMMA ConfBeside ==
    ASSUME ConfInv, UNCHANGED <<phase, call>>,
           phase = "boot" => UNCHANGED <<load, listed, overtaken>>,
           \A t \in Tenants : db'[t].ver = db[t].ver /\ db'[t].conf = db[t].conf,
           phase = "serving" =>
               \A t \in Tenants : db[t].conf =>
                   /\ Present(cache'[t]) => cache'[t].conf
                   /\ Present(listed'[t]) => listed'[t].conf
    PROVE  ConfInv'
<1>1. BootInv' /\ OpInv'
  BY DEF ConfInv, BootInv, OpInv, OpOK
<1>2. MarkedInv'
  BY DEF ConfInv, MarkedInv, Present
<1> QED
  BY <1>1, <1>2 DEF ConfInv

\* LoadTenants copies rows with their mark.
LEMMA ConfLoad == ASSUME IInv, ConfInv, LoadList \/ LoadStore PROVE ConfInv'
<1>1. CASE LoadList
  <2>1. phase = "serving" /\ listed' = db /\ UNCHANGED <<phase, db, cache, call>>
    BY <1>1 DEF LoadList
  <2> QED
    BY <2>1, ConfBeside DEF ConfInv, MarkedInv
<1>2. CASE LoadStore
  <2>1. /\ load = "listed" /\ UNCHANGED <<phase, db, call, overtaken>>
        /\ \A t \in Tenants : /\ cache'[t] = IF Present(listed[t]) THEN listed[t] ELSE cache[t]
                              /\ listed'[t] = Absent
    BY <1>2 DEF LoadStore
  <2>2. phase # "boot"
    BY <2>1 DEF ConfInv, BootInv
  <2>3. phase = "serving" =>
          \A t \in Tenants : db[t].conf =>
              (Present(cache'[t]) => cache'[t].conf) /\ (Present(listed'[t]) => listed'[t].conf)
    BY <2>1, Values DEF ConfInv, MarkedInv
  <2> QED
    BY <2>1, <2>2, <2>3, ConfBeside
<1> QED
  BY <1>1, <1>2

\* Health checks leave the configuration of every row, and the mark of every entry, alone.
LEMMA ConfHealth ==
    ASSUME IInv, ConfInv,
           HealthEntry \/ \E t \in Tenants, h \in {"healthy", "unhealthy"} : HealthRow(t, h)
    PROVE  ConfInv' /\ \A u \in Tenants : SameConfig(db[u], db'[u])
<1>1. ASSUME NEW t \in Tenants, NEW h \in {"healthy", "unhealthy"}, HealthRow(t, h)
      PROVE  ConfInv' /\ \A u \in Tenants : SameConfig(db[u], db'[u])
  <2>1. h \in Healths /\ db[t] \in Entry /\ db \in [Tenants -> Entry]
    BY DEF Healths, IInv, TypeOK
  <2>2. SameConfig([db[t] EXCEPT !.health = h], db[t])
    BY <2>1, HealthOnly
  <2>3. /\ db' = IF Present(db[t]) THEN [db EXCEPT ![t] = [db[t] EXCEPT !.health = h]] ELSE db
        /\ phase = "serving" /\ UNCHANGED <<phase, cache, call, load, listed>>
    BY <1>1 DEF HealthRow
  <2>4. \A u \in Tenants : SameConfig(db'[u], db[u])
    BY <2>1, <2>2, <2>3 DEF SameConfig
  <2>5. ConfInv'
    BY <2>3, <2>4, ConfBeside DEF ConfInv, MarkedInv, SameConfig
  <2> QED
    BY <2>4, <2>5 DEF SameConfig
<1>2. CASE HealthEntry
  <2> DEFINE t == check.t
             h == check.health
  <2>1. t \in Tenants /\ h \in Healths /\ cache[t] \in Entry /\ cache \in [Tenants -> Entry]
    BY DEF IInv, TypeOK
  <2>2. SameConfig([cache[t] EXCEPT !.health = h], cache[t])
    BY <2>1, HealthOnly
  <2>3. /\ cache' = IF Present(cache[t]) THEN [cache EXCEPT ![t] = [cache[t] EXCEPT !.health = h]]
                    ELSE cache
        /\ UNCHANGED <<phase, db, call, load, listed, overtaken>>
    BY <1>2 DEF HealthEntry
  <2>4. \A u \in Tenants : SameConfig(cache'[u], cache[u])
    BY <2>1, <2>2, <2>3 DEF SameConfig
  <2>5. phase = "serving" =>
          \A u \in Tenants : db[u].conf =>
              (Present(cache'[u]) => cache'[u].conf) /\ (Present(listed'[u]) => listed'[u].conf)
    BY <2>3, <2>4 DEF ConfInv, MarkedInv, SameConfig, Present
  <2> QED
    BY <2>3, <2>5, ConfBeside DEF SameConfig
<1> QED
  BY <1>1, <1>2

\* Every step keeps both invariants.
LEMMA ConfNext == IInv /\ ConfInv /\ [Next]_vars => ConfInv'
<1> SUFFICES ASSUME IInv, ConfInv, [Next]_vars PROVE ConfInv'
  OBVIOUS
<1>1. CASE UNCHANGED vars
  BY <1>1, ConfBeside DEF vars, ConfInv, MarkedInv
<1>2. CASE Next
  BY <1>2, ConfCall, ConfServe, ConfLoad, ConfHealth DEF Next
<1> QED
  BY <1>1, <1>2

\* A write leaves the other rows alone, but for the default flag if it takes it.
LEMMA WriteLeavesOthers ==
    ASSUME IInv, NEW c \in Callers, Write(c), NEW u \in Tenants \ {call[c].t}
    PROVE  \/ Untouched(u)
           \/ SameConfig([db[u] EXCEPT !.def = FALSE], db'[u]) /\ db'[call[c].t].def
<1> DEFINE me == call[c]
           t == me.t
           new == Written(me, ver + 1)
           h == IF Present(db[t]) THEN db[t].health ELSE "unknown"
           row == [new EXCEPT !.health = h]
           cleared == {v \in Tenants \ {t} : new.def /\ db[v].def}
<1>1. \/ db' = [v \in Tenants |->
                   IF v = t THEN row
                   ELSE IF v \in cleared THEN [db[v] EXCEPT !.def = FALSE] ELSE db[v]]
      \/ UNCHANGED db
  BY Zenon DEF Write
<1>2. me \in Call /\ t \in Tenants /\ me.e \in Entry /\ ver + 1 \in Nat
  BY CallTypes DEF IInv, TypeOK
<1>3. new \in Entry
  BY <1>2 DEF Written, Entry, Healths
<1> HIDE DEF new, h
<1>4. row.def = new.def
  BY <1>3 DEF Entry
<1> HIDE DEF row
<1>5. CASE UNCHANGED db
  BY <1>5 DEF Untouched, SameConfig
<1>6. CASE db' = [v \in Tenants |->
                   IF v = t THEN row
                   ELSE IF v \in cleared THEN [db[v] EXCEPT !.def = FALSE] ELSE db[v]]
  <2>1. db'[t].def = new.def
    BY <1>2, <1>4, <1>6
  <2>2. db'[u] = IF u \in cleared THEN [db[u] EXCEPT !.def = FALSE] ELSE db[u]
    BY <1>6
  <2>3. u \in cleared => new.def
    OBVIOUS
  <2> QED
    BY <2>1, <2>2, <2>3 DEF Untouched, SameConfig
<1> QED
  BY <1>1, <1>5, <1>6

\* A call of the API leaves a config-defined row alone: it neither edits nor deletes
\* it, a creation finds the row and fails, and only the default flag may be taken.
LEMMA CallLeavesMarked ==
    ASSUME IInv, ConfInv, phase = "serving", NEW c \in Callers, CallStep(c),
           NEW t \in Tenants, db[t].conf
    PROVE  Untouched(t) \/ LosesDefault(t)
<1>0. Present(db[t]) /\ Harmless(call[c], t)
  BY DEF ConfInv, MarkedInv
<1>1. CASE Write(c)
  <2>1. CASE db' = db
    BY <2>1 DEF Untouched, SameConfig
  <2>2. CASE /\ ~(call[c].new /\ Present(db[call[c].t]))
             /\ db'[call[c].t].conf => call[c].op = "sync"
    <3>1. call[c].pc = "write" /\ call[c].t \in Tenants
      BY <1>1, CallTypes DEF Write, IInv, TypeOK
    <3>2. call[c].t # t
      BY <1>0, <2>2, <3>1 DEF Harmless
    <3>3. ~db'[call[c].t].conf
      BY <2>2, <3>1 DEF ConfInv, OpInv, OpOK, ApiOps
    <3> QED
      BY <1>1, <3>1, <3>2, <3>3, WriteLeavesOthers DEF LosesDefault
  <2> QED
    BY <1>1, <2>1, <2>2, WriteFacts
<1>2. CASE Purge(c)
  <2>1. call[c].t # t
    BY <1>0, <1>2 DEF Purge, Harmless
  <2>2. db' = [db EXCEPT ![call[c].t] = Absent] \/ db' = db
    BY <1>2 DEF Purge
  <2>3. db \in [Tenants -> Entry]
    BY DEF IInv, TypeOK
  <2> QED
    BY <2>1, <2>2, <2>3 DEF Untouched, SameConfig
<1>3. CASE db' = db
  BY <1>3 DEF Untouched, SameConfig
<1>4. Write(c) \/ Purge(c) \/ db' = db
  BY DEF CallStep, Request, CheckDefault, Lock, GetCached, GetRow, Fill, Store, Forget
<1> QED
  BY <1>1, <1>2, <1>3, <1>4

\* Once the server is up, no request, no health check and no load changes or deletes a
\* config-defined tenant, but that a tenant of the API made the default takes its flag.
THEOREM ReadOnlyHolds == Spec => ConfigDefinedReadOnly
<1> DEFINE Kept == phase = "serving" =>
                     \A t \in Tenants : db[t].conf => Untouched(t) \/ LosesDefault(t)
<1>1. IInv /\ ConfInv /\ [Next]_vars => [Kept]_vars
  <2> SUFFICES ASSUME IInv, ConfInv, Next PROVE Kept
    OBVIOUS
  <2>1. ASSUME NEW c \in Callers, CallStep(c) PROVE Kept
    BY <2>1, CallLeavesMarked
  <2>2. CASE Serve \/ LoadList \/ LoadStore
    BY <2>2 DEF Serve, LoadList, LoadStore, Untouched, SameConfig
  <2>3. CASE HealthEntry \/ \E t \in Tenants, h \in {"healthy", "unhealthy"} : HealthRow(t, h)
    BY <2>3, ConfHealth DEF Untouched
  <2> QED
    BY <2>1, <2>2, <2>3 DEF Next
<1>2. Spec => []ConfInv
  BY ConfInit, ConfNext, Invariance, PTL DEF Spec
<1>3. Spec => [][Kept]_vars
  BY <1>1, <1>2, Invariance, PTL DEF Spec
<1> QED
  BY <1>3 DEF ConfigDefinedReadOnly
----------------------------------------------------------------------------
(* The cached health is the stored one *)

\* The health of the tenant t has been stored and is about to be cached.
Checking(t) == check.busy /\ check.t = t

\* What is about to be cached is what is stored.
CheckInv ==
    check.busy /\ check.t \notin overtaken =>
        Present(db[check.t]) /\ Present(cache[check.t]) /\ db[check.t].health = check.health

\* Row and entry have one health, in the middle of a change too.
SameHealthInv ==
    \A t \in Tenants \ overtaken :
        Present(db[t]) /\ Present(cache[t]) /\ ~Checking(t) => db[t].health = cache[t].health

\* An entry whose row is gone is about to be forgotten.
GoneInv ==
    \A t \in Tenants \ overtaken :
        Present(cache[t]) /\ ~Present(db[t]) => \E c \in Callers : call[c].pc = "hook" /\ call[c].t = t

\* A row read on a miss has the stored health if the tenant is still not cached.
MissInv ==
    \A c \in Callers :
        call[c].pc = "fill" /\ call[c].t \notin overtaken =>
            /\ Present(db[call[c].t])
            /\ ~Present(cache[call[c].t]) => call[c].e.health = db[call[c].t].health

\* So does an entry about to be stored that replaces none.
NewInv ==
    \A c \in Callers :
        call[c].pc = "store" /\ call[c].t \notin overtaken /\ ~Present(cache[call[c].t]) =>
            call[c].e.health = db[call[c].t].health

\* And what LoadTenants listed.
LoadedInv ==
    load = "listed" =>
        \A t \in Tenants \ overtaken :
            Present(listed[t]) => Present(db[t]) /\ listed[t].health = db[t].health

HealthsInv == CheckInv /\ SameHealthInv /\ GoneInv /\ MissInv /\ NewInv /\ LoadedInv

\* Nothing has been checked yet, and an entry is a copy of its row.
LEMMA HealthsInit == Init => HealthsInv
<1> SUFFICES ASSUME Init PROVE HealthsInv
  OBVIOUS
<1>1. \A c \in Callers : call[c].pc = "idle"
  BY Values DEF Init
<1>2. ~check.busy /\ load = "off" /\ (cache = db \/ \A t \in Tenants : ~Present(cache[t]))
  BY Values DEF Init
<1> QED
  BY <1>1, <1>2 DEF HealthsInv, CheckInv, SameHealthInv, GoneInv, MissInv, NewInv, LoadedInv

\* A caller moves and touches no data: a row it has just read is the stored one.
LEMMA HealthsCalm ==
    ASSUME TypeOK, HealthsInv, NEW c \in Callers, Moved(c),
           UNCHANGED <<db, cache, load, listed, check, overtaken>>,
           call[c].pc # "hook", call'[c].pc # "store",
           call'[c].pc = "fill" =>
               Present(db[call'[c].t]) /\ call'[c].e = db[call'[c].t]
    PROVE  HealthsInv'
<1> USE DEF HealthsInv, Moved
<1>1. CheckInv' /\ SameHealthInv' /\ LoadedInv'
  BY DEF CheckInv, SameHealthInv, LoadedInv, Checking
<1>2. GoneInv'
  BY DEF GoneInv
<1>3. MissInv' /\ NewInv'
  BY DEF MissInv, NewInv
<1> QED
  BY <1>1, <1>2, <1>3

\* One caller at most is past its first read.
LEMMA OnlyLocked ==
    ASSUME IInv, NEW c \in Callers, call[c].pc \in {"write", "store", "purge", "hook"}
    PROVE  \A d \in Callers : d # c => call[d].pc \notin {"write", "store", "purge", "hook"}
  BY OneLocked DEF Locked

\* A row read on a miss is cached: it has the health that is stored.
LEMMA HealthsFill ==
    ASSUME IInv, HealthsInv, NEW c \in Callers, Fill(c), ~Present(cache[call[c].t])
    PROVE  HealthsInv'
<1> DEFINE t == call[c].t
           e == call[c].e
<1>0. t \in Tenants /\ e \in Entry /\ call[c].pc = "fill" /\ Present(e)
  BY CallTypes DEF IInv, DataInv, FillInv, Fill
<1>1. /\ cache' = [cache EXCEPT ![t] = e] /\ Got(c, e)
      /\ UNCHANGED <<phase, db, ver, load, listed, check, overtaken>>
  BY DEF Fill
<1>2. Moved(c) /\ call'[c].pc \in {"idle", "purge", "write"}
  BY <1>0, <1>1, GotFacts
<1>3. \A u \in Tenants : cache'[u] = IF u = t THEN e ELSE cache[u]
  BY <1>0, <1>1 DEF IInv, TypeOK
<1>4. check.t \in Tenants /\ \A d \in Callers : call[d].t \in Tenants
  BY CallTypes DEF IInv, TypeOK
<1>5. t \notin overtaken => Present(db[t]) /\ e.health = db[t].health
  BY <1>0 DEF HealthsInv, MissInv
<1> HIDE DEF t, e
<1>6. CheckInv' /\ SameHealthInv' /\ LoadedInv'
  BY <1>0, <1>1, <1>3, <1>4, <1>5
     DEF HealthsInv, CheckInv, SameHealthInv, LoadedInv, Checking
<1>7. GoneInv'
  <2>1. \A d \in Callers : call[d].pc = "hook" => call'[d] = call[d]
    BY <1>0, <1>2 DEF Moved
  <2> QED
    BY <1>0, <1>1, <1>3, <1>5, <2>1 DEF HealthsInv, GoneInv
<1>8. MissInv' /\ NewInv'
  BY <1>0, <1>1, <1>2, <1>3, <1>4 DEF HealthsInv, MissInv, NewInv, Moved
<1> QED
  BY <1>6, <1>7, <1>8 DEF HealthsInv

\* A change writes the row with the health that is stored; a new row has none yet,
\* and neither has the entry the caller takes to the cache.
LEMMA HealthsWrite ==
    ASSUME IInv, HealthsInv, NEW c \in Callers, Write(c)
    PROVE  HealthsInv'
<1> DEFINE me == call[c]
           t == me.t
           new == Written(me, ver + 1)
           h == IF Present(db[t]) THEN db[t].health ELSE "unknown"
           row == [new EXCEPT !.health = h]
           cleared == {u \in Tenants \ {t} : new.def /\ db[u].def}
           m == [me EXCEPT !.pc = "store", !.e = new]
<1>1. UNCHANGED <<phase, cache, load, listed, check>> /\ me.pc = "write"
  BY DEF Write
<1>2. \/ /\ ~(me.new /\ Present(db[t]))
         /\ db' = [u \in Tenants |->
                      IF u = t THEN row
                      ELSE IF u \in cleared THEN [db[u] EXCEPT !.def = FALSE] ELSE db[u]]
         /\ call' = [call EXCEPT ![c] = m]
         /\ overtaken' = overtaken \union Outdated(cleared \union {t})
                                   \union {u \in cleared : Reading(u)}
      \/ Return(c) /\ UNCHANGED <<db, ver, overtaken>>
  BY Zenon DEF Write
<1>3. me \in Call /\ t \in Tenants /\ me.e \in Entry /\ ver + 1 \in Nat /\ ver + 1 # 0
  BY CallTypes DEF IInv, TypeOK
<1>4. /\ new \in Entry /\ Present(new)
      /\ new.health = IF me.new THEN "unknown" ELSE me.e.health
  BY <1>3 DEF Written, Entry, Healths, Present
<1>5. check.t \in Tenants /\ \A d \in Callers : call[d].t \in Tenants
  BY CallTypes DEF IInv, TypeOK
<1>6. ~me.new => Present(cache[t])
  BY <1>1 DEF IInv, DataInv, EditInv
<1> HIDE DEF new
<1>7. row.ver = new.ver /\ row.health = h
  BY <1>4 DEF Entry
<1>8. m \in Call /\ m.pc = "store" /\ m.t = t /\ m.e = new
  BY <1>3, <1>4 DEF Call, PCs
<1>9. \A u \in Tenants : /\ [db[u] EXCEPT !.def = FALSE].ver = db[u].ver
                         /\ [db[u] EXCEPT !.def = FALSE].health = db[u].health
  BY DEF IInv, TypeOK, Entry
<1> HIDE DEF row, m
<1>10. CASE Return(c) /\ UNCHANGED <<db, ver, overtaken>>
  BY <1>1, <1>10, ReturnMoves, HealthsCalm DEF IInv
<1>11. ASSUME ~(me.new /\ Present(db[t])),
              db' = [u \in Tenants |->
                       IF u = t THEN row
                       ELSE IF u \in cleared THEN [db[u] EXCEPT !.def = FALSE] ELSE db[u]],
              call' = [call EXCEPT ![c] = m],
              overtaken' = overtaken \union Outdated(cleared \union {t})
                                     \union {u \in cleared : Reading(u)}
       PROVE  HealthsInv'
  <2>1. Moved(c) /\ call'[c].pc = "store" /\ call'[c].t = t /\ call'[c].e = new
    BY <1>8, <1>11, BecomeMoves DEF IInv
  <2>2. /\ Present(db'[t]) /\ db'[t].health = h
        /\ \A u \in Tenants \ {t} :
             (Present(db'[u]) <=> Present(db[u])) /\ db'[u].health = db[u].health
    BY <1>3, <1>4, <1>7, <1>9, <1>11 DEF Present
  <2>3. /\ overtaken \subseteq overtaken'
        /\ load = "listed" => t \in overtaken'
    BY <1>11 DEF Outdated
  <2> DEFINE alone == \A d \in Callers : d # c => call[d].pc \notin {"write", "store", "purge", "hook"}
  <2>4. alone
    BY <1>1, OnlyLocked
  <2>5. t \notin overtaken /\ Present(cache[t]) => Present(db[t])
    BY <1>1, <1>3, <2>4 DEF HealthsInv, GoneInv
  <2>6. h = IF Present(db[t]) THEN db[t].health ELSE "unknown"
    OBVIOUS
  <2> HIDE DEF t, h, me, cleared
  <2>7. CheckInv'
    BY <1>1, <1>5, <2>2, <2>3, <2>6 DEF HealthsInv, CheckInv
  <2>8. SameHealthInv'
    BY <1>1, <1>3, <2>2, <2>3, <2>5, <2>6 DEF HealthsInv, SameHealthInv, Checking
  <2>9. GoneInv'
    <3>1. \A d \in Callers : call[d].pc = "hook" => call'[d] = call[d]
      BY <1>1, <2>1 DEF Moved, me
    <3> QED
      BY <1>1, <2>2, <2>3, <3>1 DEF HealthsInv, GoneInv
  <2>10. MissInv'
    BY <1>1, <1>5, <2>1, <2>2, <2>3, <2>6 DEF HealthsInv, MissInv, Moved
  <2>11. NewInv'
    <3>1. \A d \in Callers : call'[d].pc = "store" => d = c
      BY <2>1, <2>4 DEF Moved
    <3>2. ~Present(cache[t]) => new.health = h
      BY <1>4, <1>6, <1>11, <2>6
    <3> QED
      BY <1>1, <2>1, <2>2, <3>1, <3>2 DEF NewInv
  <2>12. LoadedInv'
    BY <1>1, <2>2, <2>3 DEF HealthsInv, LoadedInv
  <2> QED
    BY <2>7, <2>8, <2>9, <2>10, <2>11, <2>12 DEF HealthsInv
<1> QED
  BY <1>2, <1>10, <1>11

\* The entry keeps its health, or takes that of the row if it is new.
LEMMA HealthsStore ==
    ASSUME IInv, HealthsInv, NEW c \in Callers, Store(c)
    PROVE  HealthsInv'
<1> DEFINE me == call[c]
           t == me.t
           h == IF Present(cache[t]) THEN cache[t].health ELSE me.e.health
           e == [me.e EXCEPT !.health = h]
<1>1. /\ me.pc = "store" /\ Return(c)
      /\ UNCHANGED <<phase, db, ver, load, listed, check, overtaken>>
      /\ cache' = [u \in Tenants |->
                      IF u = t THEN e
                      ELSE IF e.def THEN [cache[u] EXCEPT !.def = FALSE] ELSE cache[u]]
  <2>1. [me.e EXCEPT !.health = IF Present(cache[t]) THEN cache[t].health ELSE @] = e
    BY CallTypes DEF IInv, Entry
  <2> QED
    BY <2>1 DEF Store
<1>2. t \in Tenants /\ me.e \in Entry
  BY CallTypes DEF IInv
<1>3. check.t \in Tenants /\ \A d \in Callers : call[d].t \in Tenants
  BY CallTypes DEF IInv, TypeOK
<1>4. Present(me.e) <=> Present(db[t])
  BY <1>1 DEF IInv, DataInv, StoreInv, SameConfig, Present
<1>5. e.ver = me.e.ver /\ e.health = h
  BY <1>2 DEF Entry
<1>6. \A u \in Tenants : /\ [cache[u] EXCEPT !.def = FALSE].ver = cache[u].ver
                         /\ [cache[u] EXCEPT !.def = FALSE].health = cache[u].health
  BY DEF IInv, TypeOK, Entry
<1>7. Moved(c) /\ call'[c].pc = "idle"
  BY <1>1, ReturnMoves DEF IInv
<1> HIDE DEF e
<1>8. /\ (Present(cache'[t]) <=> Present(db[t])) /\ cache'[t].health = h
      /\ \A u \in Tenants \ {t} :
           (Present(cache'[u]) <=> Present(cache[u])) /\ cache'[u].health = cache[u].health
  BY <1>1, <1>2, <1>4, <1>5, <1>6 DEF Present
<1>9. h = IF Present(cache[t]) THEN cache[t].health ELSE me.e.health
  OBVIOUS
<1>10. t \notin overtaken /\ ~Present(cache[t]) => me.e.health = db[t].health
  BY <1>1 DEF HealthsInv, NewInv
<1>11. \A d \in Callers : call'[d].pc # "store" /\ (call[d].pc = "hook" => call'[d] = call[d])
  BY <1>1, <1>7, OnlyLocked DEF Moved
<1> HIDE DEF t, h, me
<1>12. CheckInv'
  BY <1>1, <1>3, <1>8 DEF HealthsInv, CheckInv
<1>13. SameHealthInv'
  BY <1>1, <1>2, <1>8, <1>9, <1>10 DEF HealthsInv, SameHealthInv, Checking
<1>14. GoneInv'
  BY <1>1, <1>8, <1>11 DEF HealthsInv, GoneInv
<1>15. MissInv' /\ NewInv'
  BY <1>1, <1>3, <1>7, <1>8, <1>11 DEF HealthsInv, MissInv, NewInv, Moved
<1>16. LoadedInv'
  BY <1>1 DEF HealthsInv, LoadedInv
<1> QED
  BY <1>12, <1>13, <1>14, <1>15, <1>16 DEF HealthsInv

\* The row goes, its entry stays for the hook; a copy on its way is overtaken.
LEMMA HealthsPurge ==
    ASSUME IInv, HealthsInv, NEW c \in Callers, Purge(c)
    PROVE  HealthsInv'
<1> DEFINE t == call[c].t
<1>1. call[c].pc = "purge" /\ UNCHANGED <<phase, cache, ver, load, listed, check>>
  BY DEF Purge
<1>2. t \in Tenants /\ check.t \in Tenants /\ \A d \in Callers : call[d].t \in Tenants
  BY CallTypes DEF IInv, TypeOK
<1>3. CASE Return(c) /\ UNCHANGED <<db, overtaken>>
  BY <1>1, <1>3, ReturnMoves, HealthsCalm DEF IInv
<1>4. CASE /\ db' = [db EXCEPT ![t] = Absent] /\ Goto(c, "hook")
           /\ overtaken' = IF (check.busy /\ check.t = t) \/ Reading(t)
                           THEN overtaken \union {t} ELSE overtaken \union Outdated({t})
  <2>1. Moved(c) /\ call'[c].pc = "hook" /\ call'[c].t = t
    BY <1>4, GotoMoves DEF IInv, PCs
  <2>2. ~Present(db'[t]) /\ \A u \in Tenants \ {t} : db'[u] = db[u]
    BY <1>2, <1>4, Values DEF IInv, TypeOK
  <2>3. /\ overtaken \subseteq overtaken'
        /\ load = "listed" \/ Checking(t) \/ Reading(t) => t \in overtaken'
    BY <1>4 DEF Outdated, Checking
  <2>4. \A d \in Callers : call'[d].pc # "store" /\ (call[d].pc = "hook" => call'[d] = call[d])
    BY <1>1, <2>1, OnlyLocked DEF Moved
  <2> HIDE DEF t
  <2>5. CheckInv'
    BY <1>1, <1>2, <2>2, <2>3 DEF HealthsInv, CheckInv, Checking
  <2>6. SameHealthInv' /\ LoadedInv'
    BY <1>1, <2>2, <2>3 DEF HealthsInv, SameHealthInv, LoadedInv, Checking
  <2>7. GoneInv'
    BY <1>1, <2>1, <2>2, <2>3, <2>4 DEF HealthsInv, GoneInv
  <2>8. MissInv' /\ NewInv'
    BY <1>1, <1>2, <2>1, <2>2, <2>3, <2>4 DEF HealthsInv, MissInv, NewInv, Moved, Reading
  <2> QED
    BY <2>5, <2>6, <2>7, <2>8 DEF HealthsInv
<1> QED
  BY <1>3, <1>4 DEF Purge

\* The entry goes after its row.
LEMMA HealthsForget ==
    ASSUME IInv, HealthsInv, NEW c \in Callers, Forget(c)
    PROVE  HealthsInv'
<1> DEFINE t == call[c].t
<1>1. /\ call[c].pc = "hook" /\ Return(c) /\ cache' = [cache EXCEPT ![t] = Absent]
      /\ UNCHANGED <<phase, db, ver, load, listed, check, overtaken>>
  BY DEF Forget
<1>2. t \in Tenants /\ check.t \in Tenants /\ \A d \in Callers : call[d].t \in Tenants
  BY CallTypes DEF IInv, TypeOK
<1>3. ~Present(db[t])
  BY <1>1 DEF IInv, DataInv, HookInv
<1>4. ~Present(cache'[t]) /\ \A u \in Tenants \ {t} : cache'[u] = cache[u]
  BY <1>1, <1>2, Values DEF IInv, TypeOK
<1>5. Moved(c) /\ call'[c].pc = "idle"
  BY <1>1, ReturnMoves DEF IInv
<1>6. \A d \in Callers : /\ call'[d].pc # "store"
                         /\ call[d].pc = "hook" /\ call[d].t # t => call'[d] = call[d]
  BY <1>1, <1>5, OnlyLocked DEF Moved
<1> HIDE DEF t
<1>7. CheckInv' /\ SameHealthInv' /\ LoadedInv'
  BY <1>1, <1>2, <1>3, <1>4 DEF HealthsInv, CheckInv, SameHealthInv, LoadedInv, Checking
<1>8. GoneInv'
  BY <1>1, <1>4, <1>6 DEF HealthsInv, GoneInv
<1>9. MissInv' /\ NewInv'
  BY <1>1, <1>2, <1>3, <1>4, <1>5, <1>6 DEF HealthsInv, MissInv, NewInv, Moved
<1> QED
  BY <1>7, <1>8, <1>9 DEF HealthsInv

\* Every step of a caller.
LEMMA HealthsCall ==
    ASSUME IInv, HealthsInv, NEW c \in Callers, CallStep(c)
    PROVE  HealthsInv'
<1>0. /\ TypeOK /\ call[c] \in Call /\ call[c].t \in Tenants
      /\ db \in [Tenants -> Entry] /\ cache \in [Tenants -> Entry]
  BY CallTypes DEF IInv, TypeOK
<1>1. ASSUME NEW op \in Ops, NEW t \in Tenants, NEW def \in DefaultAsked, Request(c, op, t, def)
      PROVE  HealthsInv'
  <2> DEFINE p == CASE op = "get" -> "get"
                    [] op \in {"create", "update"} /\ def = "set" -> "default"
                    [] OTHER -> "lock"
             m == [pc |-> p, op |-> op, t |-> t, def |-> def, new |-> FALSE, e |-> Absent]
  <2>1. p \in {"get", "default", "lock"}
    OBVIOUS
  <2> HIDE DEF p
  <2>2. m \in Call /\ m.pc = p
    BY <2>1, Values DEF Call, PCs
  <2>3. /\ call' = [call EXCEPT ![c] = m] /\ call[c].pc = "idle"
        /\ UNCHANGED <<phase, db, cache, updateMu, ver, load, listed, check, overtaken>>
    BY <1>1 DEF Request, p
  <2> HIDE DEF m
  <2> QED
    BY <1>0, <2>1, <2>2, <2>3, BecomeMoves, HealthsCalm
<1>r. ASSUME Return(c), call[c].pc # "hook",
             UNCHANGED <<db, cache, load, listed, check, overtaken>>
      PROVE  HealthsInv'
  BY <1>0, <1>r, ReturnMoves, HealthsCalm
<1>2. CASE CheckDefault(c)
  <2>1. CASE Return(c)
    BY <1>2, <1>r, <2>1 DEF CheckDefault
  <2>2. CASE Goto(c, "lock")
    BY <1>0, <1>2, <2>2, GotoMoves, HealthsCalm DEF CheckDefault, PCs
  <2> QED
    BY <1>2, <2>1, <2>2 DEF CheckDefault
<1>3. CASE Lock(c)
  <2> DEFINE m == [call[c] EXCEPT !.pc = "write", !.new = TRUE]
  <2>1. m \in Call /\ m.pc = "write"
    BY <1>0 DEF Call, PCs
  <2>2. Return(c) \/ Goto(c, "get") \/ call' = [call EXCEPT ![c] = m]
    BY <1>3 DEF Lock
  <2> HIDE DEF m
  <2>3. CASE Return(c)
    BY <1>3, <1>r, <2>3 DEF Lock
  <2>4. CASE Goto(c, "get")
    BY <1>0, <1>3, <2>4, GotoMoves, HealthsCalm DEF Lock, PCs
  <2>5. CASE call' = [call EXCEPT ![c] = m]
    BY <1>0, <1>3, <2>1, <2>5, BecomeMoves, HealthsCalm DEF Lock
  <2> QED
    BY <2>2, <2>3, <2>4, <2>5
<1>4. ASSUME call[c].pc \in {"get", "fill"}, Present(cache[call[c].t]), Got(c, cache[call[c].t]),
             UNCHANGED <<db, cache, load, listed, check, overtaken>>
      PROVE  HealthsInv'
  <2>1. Moved(c) /\ call'[c].pc \in {"idle", "purge", "write"}
    BY <1>0, <1>4, GotFacts
  <2> QED
    BY <1>0, <1>4, <2>1, HealthsCalm
<1>5. CASE GetCached(c)
  BY <1>4, <1>5 DEF GetCached
<1>6. CASE GetRow(c)
  <2> DEFINE m == [call[c] EXCEPT !.pc = "fill", !.e = db[call[c].t]]
             n == [call[c] EXCEPT !.pc = "write", !.new = TRUE]
  <2>1. m \in Call /\ m.pc = "fill" /\ m.t = call[c].t /\ m.e = db[call[c].t]
    BY <1>0 DEF Call, PCs
  <2>2. n \in Call /\ n.pc = "write"
    BY <1>0 DEF Call, PCs
  <2>3. \/ Return(c)
        \/ Present(db[call[c].t]) /\ call' = [call EXCEPT ![c] = m]
        \/ call' = [call EXCEPT ![c] = n]
    BY <1>6 DEF GetRow
  <2> HIDE DEF m, n
  <2>4. CASE Return(c)
    BY <1>6, <1>r, <2>4 DEF GetRow
  <2>5. CASE Present(db[call[c].t]) /\ call' = [call EXCEPT ![c] = m]
    <3>1. Moved(c) /\ call'[c] = m
      BY <1>0, <2>1, <2>5, BecomeMoves
    <3> QED
      BY <1>0, <1>6, <2>1, <2>5, <3>1, HealthsCalm DEF GetRow
  <2>6. CASE call' = [call EXCEPT ![c] = n]
    BY <1>0, <1>6, <2>2, <2>6, BecomeMoves, HealthsCalm DEF GetRow
  <2> QED
    BY <2>3, <2>4, <2>5, <2>6
<1>7. CASE Fill(c)
  <2>1. CASE Present(cache[call[c].t])
    BY <1>4, <1>7, <2>1 DEF Fill
  <2> QED
    BY <1>7, <2>1, HealthsFill
<1> QED
  BY <1>1, <1>2, <1>3, <1>5, <1>6, <1>7, HealthsWrite, HealthsStore, HealthsPurge, HealthsForget
     DEF CallStep

\* LoadTenants takes the stored health with every row.
LEMMA HealthsLoad ==
    ASSUME IInv, HealthsInv, LoadList \/ LoadStore
    PROVE  HealthsInv'
<1>1. check.t \in Tenants /\ \A c \in Callers : call[c].t \in Tenants
  BY CallTypes DEF IInv, TypeOK
<1>2. CASE LoadList
  <2>1. listed' = db /\ UNCHANGED <<db, cache, call, check, overtaken>>
    BY <1>2 DEF LoadList
  <2> QED
    BY <2>1 DEF HealthsInv, CheckInv, SameHealthInv, GoneInv, MissInv, NewInv, LoadedInv, Checking
<1>3. CASE LoadStore
  <2>1. /\ load = "listed" /\ load' = "done" /\ UNCHANGED <<db, call, check, overtaken>>
        /\ \A t \in Tenants : cache'[t] = IF Present(listed[t]) THEN listed[t] ELSE cache[t]
    BY <1>3 DEF LoadStore
  <2>2. \A t \in Tenants \ overtaken :
          Present(listed[t]) => Present(db[t]) /\ listed[t].health = db[t].health
    BY <2>1 DEF HealthsInv, LoadedInv
  <2>3. CheckInv' /\ SameHealthInv' /\ LoadedInv'
    BY <1>1, <2>1, <2>2 DEF HealthsInv, CheckInv, SameHealthInv, LoadedInv, Checking
  <2>4. GoneInv' /\ MissInv' /\ NewInv'
    BY <1>1, <2>1, <2>2 DEF HealthsInv, GoneInv, MissInv, NewInv
  <2> QED
    BY <2>3, <2>4 DEF HealthsInv
<1> QED
  BY <1>2, <1>3

\* A check stores the health, then caches it.
LEMMA HealthsCheck ==
    ASSUME IInv, HealthsInv,
           HealthEntry \/ \E t \in Tenants, h \in {"healthy", "unhealthy"} : HealthRow(t, h)
    PROVE  HealthsInv'
<1>0. /\ check.t \in Tenants /\ check.health \in Healths
      /\ db \in [Tenants -> Entry] /\ cache \in [Tenants -> Entry]
      /\ \A c \in Callers : call[c].t \in Tenants
  BY CallTypes DEF IInv, TypeOK
<1>1. ASSUME NEW t \in Tenants, NEW h \in {"healthy", "unhealthy"}, HealthRow(t, h)
      PROVE  HealthsInv'
  <2>1. h \in Healths /\ db[t] \in Entry
    BY <1>0 DEF Healths
  <2>2. /\ [db[t] EXCEPT !.health = h].ver = db[t].ver
        /\ [db[t] EXCEPT !.health = h].health = h
    BY <2>1 DEF Entry
  <2>3. /\ db' = IF Present(db[t]) THEN [db EXCEPT ![t] = [db[t] EXCEPT !.health = h]] ELSE db
        /\ ~check.busy /\ Present(cache[t])
        /\ UNCHANGED <<phase, cache, call, load, listed>>
        /\ check' = [busy |-> TRUE, t |-> t, health |-> h]
        /\ overtaken' = overtaken \union (IF Present(db[t]) THEN Outdated({t}) ELSE {t})
    BY <1>1 DEF HealthRow
  <2>4. /\ \A u \in Tenants \ {t} : db'[u] = db[u]
        /\ Present(db'[t]) <=> Present(db[t])
        /\ Present(db[t]) => db'[t].health = h
    BY <1>0, <2>2, <2>3 DEF Present
  <2>5. check'.busy /\ check'.t = t /\ check'.health = h
    BY <2>3
  <2>6. /\ overtaken \subseteq overtaken'
        /\ load = "listed" \/ ~Present(db[t]) => t \in overtaken'
    BY <2>3 DEF Outdated
  <2>7. CheckInv' /\ SameHealthInv' /\ LoadedInv'
    BY <2>3, <2>4, <2>5, <2>6 DEF HealthsInv, CheckInv, SameHealthInv, LoadedInv, Checking
  <2>8. GoneInv' /\ MissInv' /\ NewInv'
    BY <1>0, <2>3, <2>4, <2>6 DEF HealthsInv, GoneInv, MissInv, NewInv
  <2> QED
    BY <2>7, <2>8 DEF HealthsInv
<1>2. CASE HealthEntry
  <2> DEFINE t == check.t
             h == check.health
  <2>1. /\ [cache[t] EXCEPT !.health = h].ver = cache[t].ver
        /\ [cache[t] EXCEPT !.health = h].health = h
    BY <1>0 DEF Entry
  <2>2. /\ cache' = IF Present(cache[t]) THEN [cache EXCEPT ![t] = [cache[t] EXCEPT !.health = h]]
                    ELSE cache
        /\ check.busy /\ ~check'.busy
        /\ UNCHANGED <<phase, db, call, load, listed, overtaken>>
    BY <1>2, Values DEF HealthEntry
  <2>3. /\ \A u \in Tenants \ {t} : cache'[u] = cache[u]
        /\ Present(cache'[t]) <=> Present(cache[t])
        /\ Present(cache[t]) => cache'[t].health = h
    BY <1>0, <2>1, <2>2 DEF Present
  <2>4. t \notin overtaken => db[t].health = h
    BY <2>2 DEF HealthsInv, CheckInv
  <2> HIDE DEF h
  <2>5. CheckInv' /\ SameHealthInv' /\ LoadedInv'
    BY <1>0, <2>2, <2>3, <2>4 DEF HealthsInv, CheckInv, SameHealthInv, LoadedInv, Checking
  <2>6. GoneInv' /\ MissInv' /\ NewInv'
    BY <1>0, <2>2, <2>3 DEF HealthsInv, GoneInv, MissInv, NewInv
  <2> QED
    BY <2>5, <2>6 DEF HealthsInv
<1> QED
  BY <1>1, <1>2

\* Every step keeps it.
LEMMA HealthsNext == IInv /\ HealthsInv /\ [Next]_vars => HealthsInv'
<1> SUFFICES ASSUME IInv, HealthsInv, [Next]_vars PROVE HealthsInv'
  OBVIOUS
<1>1. CASE UNCHANGED vars \/ Serve
  BY <1>1 DEF vars, Serve, HealthsInv, CheckInv, SameHealthInv, GoneInv, MissInv, NewInv,
              LoadedInv, Checking
<1>2. CASE Next
  BY <1>1, <1>2, HealthsCall, HealthsLoad, HealthsCheck DEF Next
<1> QED
  BY <1>1, <1>2

\* Health checks, which take no lock, and changes that run meanwhile never leave a
\* cached health that is not the stored one.
THEOREM HealthsAgree == Spec => []HealthAgrees
<1>1. IInv /\ HealthsInv => HealthAgrees
  BY DEF IInv, HealthsInv, SameHealthInv, HealthAgrees, Checking
<1>2. Spec => []HealthsInv
  BY HealthsInit, HealthsNext, Invariance, PTL DEF Spec
<1> QED
  BY <1>1, <1>2, Invariance, PTL
=============================================================================
