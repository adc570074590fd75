---------------------------- MODULE AlertProofs -----------------------------
(* The safety properties of two kinds of alert.  Those of AmfaEventCheck,    *)
(* one alert per event, are proved for any set of events, any times, windows *)
(* and page cap, and any number of faults, crashes and silences; those of    *)
(* OutageAlerts, one alert per tenant, for any occurrences, faults and       *)
(* operators, except where a theorem names what must not fail.               *)
EXTENDS AmfaEventCheck, OutageAlerts, WellFoundedInduction, TLAPS

USE EventAssumption

-----------------------------------------------------------------------------
(* AmfaEventCheck: the inductive invariant.                                  *)

Running == run.pc \in {"alerts", "save", "notify"}

\* The types of run and of what TypeOK leaves open; the clock's ticks are whole.
StateInv ==
  /\ run \in [pc : {"down", "idle", "alerts", "save", "notify"}, todo : SUBSET Events,
              event : Events \cup {None}, stored : SUBSET Events]
  /\ cursor \in Int /\ (cursor = Unset \/ cursor > -(Lookback + 2))
  /\ latest = Unset \/ latest \in Nat
  /\ announced \in [Events -> Nat] /\ silenced \in BOOLEAN
  /\ \E k \in 0..MaxTime : now = 2 * k
  /\ \A e \in committed : EventTime[e] <= now

\* A run works through the events it read: none of them handled before, each
\* waiting, stored or the one in hand.
RunInv ==
  /\ Running => cursor # Unset
  /\ ~Running => pending = {}
  /\ run.todo \subseteq pending /\ run.stored \subseteq pending /\ run.todo \cap run.stored = {}
  /\ pending \cap handled = {}
  /\ \A p \in pending : EventTime[p] > cursor - LateEventWindow
  /\ run.pc \in {"save", "notify"} => run.event \in pending \ run.todo
  /\ run.pc = "save" => run.event \notin run.stored

\* The cursor and what is read do not move past an event that is due.
DueInv ==
  /\ due \cap handled = {} /\ (due # {} => LateEventWindow > 0)
  /\ \A e \in due : EventTime[e] > cursor - LateEventWindow
  /\ \A e \in due \ pending, p \in pending : EventTime[e] > EventTime[p] - LateEventWindow

\* An announced alert has its row; the alert in hand is new.
RowInv ==
  /\ \A e \in Events : announced[e] <= 1 /\ (announced[e] > 0 => rows[e] # "none")
  /\ run.pc = "save" => rows[run.event] = "none"
  /\ run.pc = "notify" => rows[run.event] # "none" /\ announced[run.event] = 0

\* A silenced event is not read again as new.
QuietInv ==
  /\ cursor = Unset => quieted = {}
  /\ \A e \in quieted : e \in handled \cup run.stored \/ EventTime[e] <= cursor - LateEventWindow

IInv == TypeOK /\ StateInv /\ RunInv /\ DueInv /\ RowInv /\ QuietInv

-----------------------------------------------------------------------------
(* Least and greatest times.                                                 *)

LEMMA LeastElement ==
  ASSUME NEW T \in SUBSET Nat, T # {}
  PROVE  \E m \in T : \A n \in T : m <= n
<1>1. \E m \in T : \A n \in T : ~(<<n, m>> \in OpToRel(<, Nat))
  BY NatLessThanWellFounded, WFMin, Zenon
<1>2. PICK m \in T : \A n \in T : ~(<<n, m>> \in OpToRel(<, Nat))
  BY <1>1
<1>3. ASSUME NEW n \in T
      PROVE  m <= n
  <2>1. <<n, m>> \in Nat \X Nat
    OBVIOUS
  <2>2. ~(n < m)
    BY <1>2, <2>1, <1>3 DEF OpToRel
  <2> QED BY <2>2
<1> QED BY <1>3

LEMMA GreatestElement ==
  ASSUME NEW S \in SUBSET Nat, S # {}, NEW b \in Nat, \A s \in S : s <= b
  PROVE  \E m \in S : \A s \in S : s <= m
<1> DEFINE Bounds == {n \in Nat : \A s \in S : s <= n}
<1>1. PICK m \in Bounds : \A n \in Bounds : m <= n
  <2>1. b \in Bounds
    OBVIOUS
  <2> HIDE DEF Bounds
  <2>2. Bounds \in SUBSET Nat
    BY DEF Bounds
  <2> QED BY <2>1, <2>2, LeastElement
<1>2. m \in S
  <2> SUFFICES ASSUME m \notin S PROVE FALSE
    OBVIOUS
  <2>1. \A s \in S : s <= m - 1
    OBVIOUS
  <2>2. m - 1 \in Nat
    <3>1. PICK s \in S : TRUE
      OBVIOUS
    <3> QED BY <2>1, <3>1
  <2> QED BY <1>1, <2>1, <2>2
<1> QED BY <1>2

LEMMA TimeNat == \A e \in Events : EventTime[e] \in Nat
BY DEF EventAssumption

LEMMA SmallestIs ==
  ASSUME NEW S \in SUBSET Nat, S # {}
  PROVE  Smallest(S) \in S /\ \A y \in S : Smallest(S) <= y
<1>1. \E x \in S : \A y \in S : x <= y
  BY LeastElement
<1> QED BY <1>1 DEF Smallest

\* The later of the cursor and the latest of some times.
LEMMA LargestIs ==
  ASSUME NEW c \in Int, NEW S \in SUBSET Nat, NEW b \in Nat, \A s \in S : s <= b
  PROVE  Largest({c} \cup S) \in {c} \cup S /\ \A y \in {c} \cup S : y <= Largest({c} \cup S)
<1>1. \E x \in {c} \cup S : \A y \in {c} \cup S : y <= x
  <2>1. CASE S = {}
    BY <2>1
  <2>2. CASE S # {}
    <3>1. PICK m \in S : \A s \in S : s <= m
      BY <2>2, GreatestElement
    <3>2. CASE c <= m
      BY <3>1, <3>2
    <3>3. CASE ~(c <= m)
      <4>1. \A s \in S : s <= c
        BY <3>1, <3>3
      <4> QED BY <4>1
    <3> QED BY <3>2, <3>3
  <2> QED BY <2>1, <2>2
<1> QED BY <1>1 DEF Largest

\* Commit's cursor: before every event read and not stored, and not past what is
\* within lateEventWindow of the cursor and of every event read.
LEMMA NextCursorFacts ==
  ASSUME cursor \in Int, pending \in SUBSET Events, run.stored \in SUBSET Events,
         NEW b \in Nat, cursor <= b, \A p \in pending : EventTime[p] <= b
  PROVE  /\ NextCursor \in Int /\ NextCursor <= b
         /\ cursor > -(Lookback + 2) => NextCursor > -(Lookback + 2)
         /\ \A p \in pending \ run.stored : EventTime[p] > NextCursor
         /\ \A t \in Nat : t > cursor - LateEventWindow
                         /\ (\A p \in pending : t > EventTime[p] - LateEventWindow)
              => t > NextCursor - LateEventWindow
<1> DEFINE T == Times(pending \cap run.stored)
           next == Largest({cursor} \cup T)
           unstored == Times(pending \ run.stored)
<1>1. T \in SUBSET Nat /\ unstored \in SUBSET Nat /\ \A s \in T : s <= b
  BY TimeNat DEF Times
<1>2. next \in {cursor} \cup T /\ \A y \in {cursor} \cup T : y <= next
  <2> HIDE DEF T
  <2> QED BY <1>1, LargestIs
<1>3. unstored # {} => Smallest(unstored) \in unstored /\ \A y \in unstored : Smallest(unstored) <= y
  <2> HIDE DEF unstored
  <2> QED BY <1>1, SmallestIs
<1>4. NextCursor = IF unstored # {} /\ Smallest(unstored) <= next THEN Smallest(unstored) - 1 ELSE next
  BY DEF NextCursor
<1>5. \A p \in pending \ run.stored : EventTime[p] \in unstored /\ EventTime[p] \in Nat
  BY TimeNat DEF Times
<1>6. \A t \in Nat : t > cursor - LateEventWindow
                    /\ (\A p \in pending : t > EventTime[p] - LateEventWindow)
              => t > next - LateEventWindow
  BY <1>2 DEF Times
<1> HIDE DEF T, next, unstored
<1>7. next \in Int /\ next <= b /\ next >= cursor
  BY <1>1, <1>2
<1>8. NextCursor \in Int /\ NextCursor <= next /\ (NextCursor = next \/ NextCursor >= -1)
  <2>1. unstored # {} => Smallest(unstored) \in Nat
    BY <1>1, <1>3
  <2> QED BY <2>1, <1>4, <1>7
<1>9. ASSUME NEW p \in pending \ run.stored
      PROVE  EventTime[p] > NextCursor
  <2>1. EventTime[p] \in unstored /\ EventTime[p] \in Nat
    BY <1>5
  <2>2. unstored # {} /\ Smallest(unstored) \in Nat /\ Smallest(unstored) <= EventTime[p]
    BY <2>1, <1>1, <1>3
  <2> QED BY <2>1, <2>2, <1>4, <1>7
<1>10. NextCursor <= b
  BY <1>7, <1>8
<1>11. cursor > -(Lookback + 2) => NextCursor > -(Lookback + 2)
  BY <1>7, <1>8
<1>12. \A t \in Nat : t > cursor - LateEventWindow
                    /\ (\A p \in pending : t > EventTime[p] - LateEventWindow)
              => t > NextCursor - LateEventWindow
  BY <1>6, <1>7, <1>8
<1> QED BY <1>8, <1>9, <1>10, <1>11, <1>12

-----------------------------------------------------------------------------
(* The invariant holds at first and is preserved.                            *)

LEMMA InitInv == Init => IInv
<1> SUFFICES ASSUME Init PROVE IInv
  OBVIOUS
<1>1. run.pc = "idle" /\ run.todo = {} /\ run.stored = {}
  BY DEF Init, NoRun
<1>2. TypeOK
  BY <1>1 DEF Init, TypeOK
<1>3. StateInv
  <2>1. 0 \in 0..MaxTime /\ now = 2 * 0
    BY DEF Init
  <2>2. cursor \in Int /\ (cursor = Unset \/ cursor > -(Lookback + 2))
    BY DEF Init, Unset
  <2>3. /\ run \in [pc : {"down", "idle", "alerts", "save", "notify"}, todo : SUBSET Events,
                   event : Events \cup {None}, stored : SUBSET Events]
        /\ announced \in [Events -> Nat]
    BY DEF Init, NoRun
  <2> QED BY <2>1, <2>2, <2>3 DEF Init, StateInv
<1>4. RunInv /\ DueInv
  BY <1>1 DEF Init, RunInv, DueInv, Running
<1>5. RowInv /\ QuietInv
  BY <1>1 DEF Init, RowInv, QuietInv
<1> QED BY <1>2, <1>3, <1>4, <1>5 DEF IInv

LEMMA TickInv == ASSUME IInv, Tick PROVE IInv'
<1> USE DEF IInv
<1>1. now < 2 * MaxTime /\ now' = now + 2 /\ UNCHANGED <<committed, memory, run, store, silenced, due, quieted, used>>
  BY DEF Tick
<1>2. PICK k \in 0..MaxTime : now = 2 * k
  BY DEF StateInv
<1>3. k + 1 \in 0..MaxTime /\ now' = 2 * (k + 1)
  BY <1>1, <1>2
<1>4. TypeOK'
  <2>1. now' \in 0..2 * MaxTime /\ (cursor = Unset \/ cursor <= now')
    BY <1>1, <1>2, <1>3 DEF TypeOK, StateInv
  <2> QED BY <1>1, <2>1 DEF TypeOK, memory, store
<1>5. StateInv'
  <2>1. \A e \in committed : EventTime[e] <= now'
    BY <1>1, <1>2, TimeNat DEF StateInv, TypeOK
  <2>2. \E j \in 0..MaxTime : now' = 2 * j
    BY <1>3
  <2> QED BY <1>1, <2>1, <2>2 DEF StateInv, memory, store
<1>6. RunInv' /\ DueInv'
  BY <1>1 DEF RunInv, DueInv, Running, memory
<1>7. RowInv' /\ QuietInv'
  BY <1>1 DEF RowInv, QuietInv, memory, store
<1> QED BY <1>4, <1>5, <1>6, <1>7

LEMMA AmfaCommitsInv == ASSUME IInv, NEW e \in Events, AmfaCommits(e) PROVE IInv'
<1> USE DEF IInv
<1>1. /\ e \notin committed /\ EventTime[e] <= now /\ committed' = committed \cup {e}
      /\ due' \in {due, due \cup {e}}
      /\ due' # due => now - EventTime[e] < LateEventWindow
                      /\ (cursor # Unset => EventTime[e] > cursor - LateEventWindow)
      /\ UNCHANGED <<now, memory, run, store, silenced, quieted, used>>
  BY DEF AmfaCommits
<1>2. TypeOK'
  BY <1>1 DEF TypeOK, memory, store
<1>3. StateInv'
  BY <1>1 DEF StateInv, memory, store
<1>4. RunInv' /\ RowInv' /\ QuietInv'
  BY <1>1 DEF RunInv, Running, RowInv, QuietInv, memory, store
<1>5. DueInv'
  <2>1. CASE due' = due
    BY <1>1, <2>1 DEF DueInv, memory
  <2>2. CASE due' # due
    <3>1. due' = due \cup {e} /\ e \notin handled /\ e \notin pending
      BY <1>1, <2>2 DEF TypeOK
    <3>2. EventTime[e] \in Nat /\ now \in Nat /\ EventTime[e] > now - LateEventWindow
      BY <1>1, <2>2, TimeNat DEF TypeOK
    <3>3. EventTime[e] > cursor - LateEventWindow
      BY <1>1, <2>2, <3>2 DEF Unset
    <3>4. \A p \in pending : EventTime[e] > EventTime[p] - LateEventWindow
      <4>1. \A p \in pending : EventTime[p] \in Nat /\ EventTime[p] <= now
        BY TimeNat DEF TypeOK, StateInv
      <4> QED BY <3>2, <4>1
    <3>5. LateEventWindow > 0
      BY <1>1, <3>2
    <3> QED BY <1>1, <3>1, <3>3, <3>4, <3>5 DEF DueInv, memory
  <2> QED BY <2>1, <2>2
<1> QED BY <1>2, <1>3, <1>4, <1>5

LEMMA SilenceChangesInv == ASSUME IInv, SilenceChanges PROVE IInv'
<1> USE DEF IInv
<1>1. silenced' \in BOOLEAN
  BY DEF SilenceChanges
<1>2. UNCHANGED <<now, committed, memory, run, store, due, quieted>>
  BY DEF SilenceChanges
<1>3. TypeOK' /\ StateInv'
  BY <1>1, <1>2 DEF TypeOK, StateInv, memory, store
<1>4. RunInv' /\ DueInv' /\ RowInv' /\ QuietInv'
  BY <1>2 DEF RunInv, Running, DueInv, RowInv, QuietInv, memory, store
<1> QED BY <1>3, <1>4

LEMMA DeleteAlertInv == ASSUME IInv, NEW e \in Events, deleteAlert(e) PROVE IInv'
<1> USE DEF IInv
<1>1. /\ rows[e] = "live" /\ rows' = [rows EXCEPT ![e] = "deleted"]
      /\ UNCHANGED <<now, committed, memory, run, latest, announced, silenced, due, quieted, used>>
  BY DEF deleteAlert
<1>2. rows' \in [Events -> {"none", "live", "deleted"}]
      /\ \A f \in Events : rows'[f] = "none" <=> rows[f] = "none"
  BY <1>1 DEF TypeOK
<1>3. TypeOK' /\ StateInv'
  BY <1>1, <1>2 DEF TypeOK, StateInv, memory
<1>4. RunInv' /\ DueInv' /\ QuietInv'
  BY <1>1 DEF RunInv, Running, DueInv, QuietInv, memory
<1>5. RowInv'
  <2>1. run.pc \in {"save", "notify"} => run.event \in Events
    BY DEF RunInv, TypeOK
  <2> QED BY <1>1, <1>2, <2>1 DEF RowInv
<1> QED BY <1>3, <1>4, <1>5

LEMMA CrashInv == ASSUME IInv, Crash PROVE IInv'
<1> USE DEF IInv
<1>1. /\ cursor' = Unset /\ handled' = {} /\ pending' = {} /\ quieted' = {}
      /\ run' = [pc |-> "down", todo |-> {}, event |-> None, stored |-> {}]
      /\ UNCHANGED <<now, committed, store, silenced, due>>
  BY DEF Crash, NoRun
<1>2. TypeOK'
  BY <1>1 DEF TypeOK, store
<1>3. StateInv'
  BY <1>1 DEF StateInv, store, Unset
<1>4. RunInv' /\ RowInv' /\ QuietInv'
  BY <1>1 DEF RunInv, Running, RowInv, QuietInv, store
<1>5. DueInv'
  <2>1. \A e \in due : EventTime[e] \in Nat
    BY TimeNat DEF TypeOK
  <2>2. \A e \in due : EventTime[e] > Unset - LateEventWindow
    BY <2>1 DEF Unset
  <2> QED BY <1>1, <2>2 DEF DueInv
<1> QED BY <1>2, <1>3, <1>4, <1>5

LEMMA BootInv == ASSUME IInv, Boot PROVE IInv'
<1> USE DEF IInv
<1>1. /\ run.pc = "down" /\ run' = [pc |-> "idle", todo |-> {}, event |-> None, stored |-> {}]
      /\ UNCHANGED <<now, committed, memory, store, silenced, due, quieted, used>>
  BY DEF Boot, NoRun
<1>2. run.stored = {}
  BY <1>1 DEF RunInv, Running
<1>3. TypeOK' /\ StateInv'
  BY <1>1 DEF TypeOK, StateInv, memory, store
<1>4. RunInv' /\ DueInv'
  BY <1>1 DEF RunInv, Running, DueInv, memory
<1>5. RowInv' /\ QuietInv'
  BY <1>1, <1>2 DEF RowInv, QuietInv, memory, store
<1> QED BY <1>3, <1>4, <1>5

\* What a read starts from.
LEMMA ResumeFacts ==
  ASSUME TypeOK, StateInv, NEW found \in BOOLEAN, found => latest # Unset
  PROVE  Resume(found) \in Int /\ Resume(found) <= now /\ Resume(found) > -(Lookback + 2)
<1>1. now \in Nat /\ (found => latest \in Nat)
  BY DEF TypeOK, StateInv
<1> QED BY <1>1 DEF Resume

\* A read that sets the cursor, or reads from it again.
LEMMA ReadCursor ==
  ASSUME IInv, run.pc = "idle", NEW from \in Int, from <= now, from > -(Lookback + 2),
         cursor # Unset => from = cursor, cursor' = from,
         due' = {e \in due : EventTime[e] > from - LateEventWindow \/ cursor # Unset},
         UNCHANGED <<now, committed, handled, store, silenced, quieted>>
  PROVE  /\ cursor' # Unset /\ cursor' <= now /\ due' \in SUBSET due
         /\ \A e \in due' : EventTime[e] > from - LateEventWindow
         /\ \A e \in quieted : e \in handled \/ EventTime[e] <= from - LateEventWindow
<1> USE DEF IInv
<1>1. from # Unset
  BY DEF Unset
<1>2. \A e \in due' : EventTime[e] > from - LateEventWindow
  BY DEF DueInv
<1>3. run.stored = {}
  BY DEF RunInv, Running
<1>4. \A e \in quieted : e \in handled \/ EventTime[e] <= from - LateEventWindow
  BY <1>3 DEF QuietInv
<1> QED BY <1>1, <1>2, <1>4

LEMMA ReadInv == ASSUME IInv, read PROVE IInv'
<1> USE DEF IInv
<1>1. run.pc = "idle" /\ UNCHANGED <<now, committed, handled, store, silenced, quieted>>
  BY DEF read
<1>2. PICK found \in BOOLEAN :
        /\ found => latest # Unset
        /\ LET from == IF cursor = Unset THEN Resume(found) ELSE cursor IN
           /\ cursor' = from
           /\ due' = {e \in due : EventTime[e] > from - LateEventWindow \/ cursor # Unset}
           /\ \/ \E S \in ListSince(from - LateEventWindow) :
                   /\ pending' = S \ handled
                   /\ run' = [NoRun EXCEPT !.pc = "alerts", !.todo = S \ handled]
              \/ pending' = {} /\ UNCHANGED run
  BY DEF read
<1> DEFINE from == IF cursor = Unset THEN Resume(found) ELSE cursor
<1>3. /\ cursor' = from
      /\ due' = {e \in due : EventTime[e] > from - LateEventWindow \/ cursor # Unset}
      /\ \/ \E S \in ListSince(from - LateEventWindow) :
              /\ pending' = S \ handled
              /\ run' = [NoRun EXCEPT !.pc = "alerts", !.todo = S \ handled]
         \/ pending' = {} /\ UNCHANGED run
  BY <1>2
<1>4. from \in Int /\ from <= now /\ from > -(Lookback + 2) /\ (cursor # Unset => from = cursor)
  BY <1>2, ResumeFacts DEF TypeOK, StateInv
<1> HIDE DEF from
<1>5. /\ cursor' # Unset /\ cursor' <= now /\ due' \in SUBSET due
      /\ \A e \in due' : EventTime[e] > from - LateEventWindow
      /\ \A e \in quieted : e \in handled \/ EventTime[e] <= from - LateEventWindow
  BY <1>1, <1>3, <1>4, ReadCursor
<1>6. CASE pending' = {} /\ UNCHANGED run
  <2>1. run.todo = {} /\ run.stored = {}
    BY <1>1 DEF RunInv, Running
  <2>2. TypeOK'
    BY <1>1, <1>5, <1>6 DEF TypeOK, store
  <2>3. StateInv'
    BY <1>1, <1>3, <1>4, <1>6 DEF StateInv, store
  <2>4. RunInv'
    BY <1>1, <1>6, <2>1 DEF RunInv, Running
  <2>5. DueInv'
    BY <1>1, <1>3, <1>5, <1>6 DEF DueInv
  <2>6. RowInv' /\ QuietInv'
    BY <1>1, <1>3, <1>5, <1>6 DEF RowInv, QuietInv, store
  <2> QED BY <2>2, <2>3, <2>4, <2>5, <2>6
<1>7. ASSUME NEW S \in ListSince(from - LateEventWindow), pending' = S \ handled,
             run' = [NoRun EXCEPT !.pc = "alerts", !.todo = S \ handled]
      PROVE  IInv'
  <2>1. /\ S \subseteq committed
        /\ \A e \in S : EventTime[e] > from - LateEventWindow
        /\ \A e \in S, f \in committed \ S : EventTime[f] > from - LateEventWindow => EventTime[e] <= EventTime[f]
    BY DEF ListSince
  <2>2. run' = [pc |-> "alerts", todo |-> S \ handled, event |-> None, stored |-> {}]
    BY <1>7 DEF NoRun
  <2>3. TypeOK'
    <3>1. run'.pc = "alerts" /\ run'.todo = S \ handled /\ run'.stored = {}
      BY <2>2
    <3>2. handled' \cup pending' \cup due' \cup quieted' \subseteq committed'
      BY <1>1, <1>5, <1>7, <2>1 DEF TypeOK
    <3>3. run'.todo \cup run'.stored \subseteq committed'
      BY <1>1, <2>1, <3>1
    <3>4. now' \in 0..2 * MaxTime /\ committed' \subseteq Events
          /\ rows' \in [Events -> {"none", "live", "deleted"}]
      BY <1>1 DEF TypeOK, store
    <3>5. cursor' = Unset \/ cursor' <= now'
      BY <1>1, <1>5
    <3> QED BY <3>1, <3>2, <3>3, <3>4, <3>5 DEF TypeOK
  <2>4. StateInv'
    <3>1. run' \in [pc : {"down", "idle", "alerts", "save", "notify"}, todo : SUBSET Events,
                    event : Events \cup {None}, stored : SUBSET Events]
      BY <2>1, <2>2 DEF TypeOK
    <3> QED BY <1>1, <1>3, <1>4, <3>1 DEF StateInv, store
  <2>5. RunInv'
    <3>1. run'.pc = "alerts" /\ run'.todo = pending' /\ run'.stored = {}
      <4>1. pending' = S \ handled
        BY <1>7
      <4> QED BY ONLY <2>2, <4>1
    <3>2. pending' \cap handled' = {} /\ \A p \in pending' : EventTime[p] > cursor' - LateEventWindow
      BY <1>1, <1>3, <1>7, <2>1
    <3> QED BY <1>5, <3>1, <3>2 DEF RunInv, Running
  <2>6. DueInv'
    <3>1. due' \cap handled' = {}
      BY <1>1, <1>5 DEF DueInv
    <3>2. ASSUME NEW e \in due' \ pending', NEW p \in pending'
          PROVE  EventTime[e] > EventTime[p] - LateEventWindow
      <4>1. e \in committed \ S /\ p \in S /\ p \in committed
        BY <1>5, <1>7, <2>1, <3>1, <1>1, <3>2 DEF TypeOK
      <4>2. EventTime[p] <= EventTime[e]
        BY <1>5, <2>1, <3>2, <4>1
      <4>3. EventTime[e] \in Nat /\ EventTime[p] \in Nat
        BY <4>1, TimeNat DEF TypeOK
      <4>4. LateEventWindow > 0
        BY <3>2, <1>5 DEF DueInv
      <4> QED BY <4>2, <4>3, <4>4
    <3> QED BY <1>3, <1>5, <3>1, <3>2 DEF DueInv
  <2>7. RowInv' /\ QuietInv'
    BY <1>1, <1>3, <1>5, <2>2 DEF RowInv, QuietInv, store
  <2> QED BY <2>3, <2>4, <2>5, <2>6, <2>7
<1> QED BY <1>3, <1>6, <1>7

\* A step of a run that touches nothing but the run, and the events it silenced.
LEMMA RunStepTypes ==
  ASSUME IInv,
         run' \in [pc : {"alerts", "save", "notify"}, todo : SUBSET run.todo,
                  event : Events \cup {None}, stored : SUBSET pending],
         UNCHANGED <<now, committed, memory, due, silenced>>,
         rows' \in [Events -> {"none", "live", "deleted"}],
         latest' = latest \/ latest' \in Nat, announced' \in [Events -> Nat],
         quieted' \subseteq committed
  PROVE  TypeOK' /\ StateInv'
<1> USE DEF IInv
<1>1. /\ run'.pc \in {"alerts", "save", "notify"} /\ run'.todo \subseteq run.todo
      /\ run'.stored \subseteq pending
  OBVIOUS
<1>2. pending \subseteq committed /\ pending \subseteq Events /\ run.todo \subseteq committed /\ run.todo \subseteq Events
  BY DEF TypeOK
<1>3. TypeOK'
  <2>1. handled' \cup pending' \cup due' \cup quieted' \subseteq committed'
    BY DEF TypeOK, memory
  <2>2. run'.todo \cup run'.stored \subseteq committed'
    BY <1>1, <1>2
  <2>3. now' \in 0..2 * MaxTime /\ committed' \subseteq Events /\ (cursor' = Unset \/ cursor' <= now')
    BY DEF TypeOK, memory
  <2> QED BY <1>1, <2>1, <2>2, <2>3 DEF TypeOK
<1>4. run' \in [pc : {"down", "idle", "alerts", "save", "notify"}, todo : SUBSET Events,
               event : Events \cup {None}, stored : SUBSET Events]
  BY <1>2
<1>5. StateInv'
  BY <1>4 DEF StateInv, memory
<1> QED BY <1>3, <1>5

LEMMA SilenceInv == ASSUME IInv, NEW e \in run.todo, Silence(e) PROVE IInv'
<1> USE DEF IInv
<1>1. /\ run.pc = "alerts" /\ e \in run.todo
      /\ run' = [run EXCEPT !.todo = @ \ {e}, !.stored = @ \cup {e}]
      /\ quieted' = quieted \cup {e}
      /\ UNCHANGED <<now, committed, memory, store, silenced, due, used>>
  BY DEF Silence, Next1
<1>2. run' = [pc |-> "alerts", todo |-> run.todo \ {e}, event |-> run.event, stored |-> run.stored \cup {e}]
  BY <1>1 DEF StateInv
<1>3. run.todo \subseteq pending /\ run.stored \subseteq pending /\ cursor # Unset
  BY <1>1 DEF RunInv, Running
<1>4. run'.pc = "alerts" /\ run'.todo = run.todo \ {e} /\ run'.stored = run.stored \cup {e}
  BY <1>2
<1>5. TypeOK' /\ StateInv'
  <2>1. run' \in [pc : {"alerts", "save", "notify"}, todo : SUBSET run.todo,
                 event : Events \cup {None}, stored : SUBSET pending]
    BY <1>1, <1>2, <1>3 DEF StateInv
  <2>2. /\ rows' \in [Events -> {"none", "live", "deleted"}] /\ latest' = latest
        /\ announced' \in [Events -> Nat] /\ quieted' \subseteq committed
    BY <1>1 DEF store, TypeOK, StateInv
  <2> QED BY <1>1, <2>1, <2>2, RunStepTypes
<1>6. RunInv' /\ DueInv'
  BY <1>1, <1>3, <1>4 DEF RunInv, Running, DueInv, memory
<1>7. RowInv' /\ QuietInv'
  BY <1>1, <1>3, <1>4 DEF RowInv, QuietInv, memory, store
<1> QED BY <1>5, <1>6, <1>7

LEMMA AlertExistsInv == ASSUME IInv, NEW e \in run.todo, AlertExists(e) PROVE IInv'
<1> USE DEF IInv
<1>1. /\ run.pc = "alerts" /\ e \in run.todo
      /\ \/ Exists(e) /\ run' = [run EXCEPT !.todo = @ \ {e}, !.stored = @ \cup {e}]
         \/ ~Exists(e) /\ run' = [run EXCEPT !.todo = @ \ {e}, !.pc = "save", !.event = e]
         \/ run' = [run EXCEPT !.todo = @ \ {e}]
      /\ UNCHANGED <<now, committed, memory, store, silenced, due, quieted>>
  BY DEF AlertExists, Next1
<1>2. /\ run.todo \subseteq pending /\ run.stored \subseteq pending /\ cursor # Unset
      /\ e \in Events /\ e \notin run.stored
  BY <1>1 DEF RunInv, Running, TypeOK
<1>3. \/ run' = [pc |-> "alerts", todo |-> run.todo \ {e}, event |-> run.event, stored |-> run.stored \cup {e}]
      \/ /\ rows[e] = "none"
         /\ run' = [pc |-> "save", todo |-> run.todo \ {e}, event |-> e, stored |-> run.stored]
      \/ run' = [pc |-> "alerts", todo |-> run.todo \ {e}, event |-> run.event, stored |-> run.stored]
  BY <1>1 DEF StateInv, Exists
<1>4. /\ run'.todo = run.todo \ {e} /\ run.stored \subseteq run'.stored /\ run'.stored \subseteq run.stored \cup {e}
      /\ \/ run'.pc = "alerts"
         \/ run'.pc = "save" /\ run'.event = e /\ rows[e] = "none" /\ run'.stored = run.stored
  BY <1>3
<1>5. TypeOK' /\ StateInv'
  <2>1. run' \in [pc : {"alerts", "save", "notify"}, todo : SUBSET run.todo,
                 event : Events \cup {None}, stored : SUBSET pending]
    <3>1. run.event \in Events \cup {None}
      BY DEF StateInv
    <3> QED BY <1>1, <1>2, <1>3, <3>1
  <2>2. /\ rows' \in [Events -> {"none", "live", "deleted"}] /\ latest' = latest
        /\ announced' \in [Events -> Nat] /\ quieted' \subseteq committed
    BY <1>1 DEF store, TypeOK, StateInv
  <2> QED BY <1>1, <2>1, <2>2, RunStepTypes
<1>6. RunInv'
  <2>1. run.todo \cap run.stored = {}
    BY DEF RunInv
  <2>2. /\ run'.todo \subseteq pending /\ run'.stored \subseteq pending /\ run'.todo \cap run'.stored = {}
        /\ run'.pc \in {"save", "notify"} => run'.event \in pending \ run'.todo
        /\ run'.pc = "save" => run'.event \notin run'.stored
    BY <1>1, <1>2, <1>4, <2>1
  <2>3. pending' = pending /\ cursor' = cursor /\ handled' = handled
    BY <1>1 DEF memory
  <2>4. run'.pc \in {"alerts", "save", "notify"}
    BY <1>4
  <2> QED BY <1>2, <2>2, <2>3, <2>4 DEF RunInv, Running
<1>7. DueInv'
  BY <1>1 DEF DueInv, memory
<1>8. RowInv' /\ QuietInv'
  BY <1>1, <1>4 DEF RowInv, QuietInv, memory, store
<1> QED BY <1>5, <1>6, <1>7, <1>8

LEMMA SaveAlertInv == ASSUME IInv, SaveAlert PROVE IInv'
<1> USE DEF IInv
<1>1. /\ run.pc = "save"
      /\ \/ /\ rows' = [rows EXCEPT ![run.event] = "live"] /\ latest' = now
            /\ run' = [run EXCEPT !.pc = "notify", !.stored = @ \cup {run.event}]
         \/ run' = [run EXCEPT !.pc = "alerts", !.event = None] /\ UNCHANGED <<rows, latest>>
      /\ UNCHANGED <<now, committed, memory, announced, silenced, due, quieted>>
  BY DEF SaveAlert
<1>2. /\ run.event \in pending \ run.todo /\ run.todo \subseteq pending /\ run.stored \subseteq pending
      /\ cursor # Unset /\ run.todo \cap run.stored = {} /\ rows[run.event] = "none"
  BY <1>1 DEF RunInv, Running, RowInv
<1>3. run.event \in Events /\ now \in Nat
  BY <1>2 DEF TypeOK
<1>4. \/ /\ rows' = [rows EXCEPT ![run.event] = "live"] /\ latest' = now
         /\ run' = [pc |-> "notify", todo |-> run.todo, event |-> run.event, stored |-> run.stored \cup {run.event}]
      \/ /\ run' = [pc |-> "alerts", todo |-> run.todo, event |-> None, stored |-> run.stored]
         /\ UNCHANGED <<rows, latest>>
  BY <1>1 DEF StateInv
<1>5. /\ run'.todo = run.todo /\ run.stored \subseteq run'.stored /\ run'.stored \subseteq run.stored \cup {run.event}
      /\ \/ run'.pc = "alerts" /\ UNCHANGED rows
         \/ run'.pc = "notify" /\ run'.event = run.event /\ rows' = [rows EXCEPT ![run.event] = "live"]
  BY <1>4
<1>6. TypeOK' /\ StateInv'
  <2>1. run' \in [pc : {"alerts", "save", "notify"}, todo : SUBSET run.todo,
                 event : Events \cup {None}, stored : SUBSET pending]
    BY <1>2, <1>3, <1>4
  <2>2. /\ rows' \in [Events -> {"none", "live", "deleted"}] /\ (latest' = latest \/ latest' \in Nat)
        /\ announced' \in [Events -> Nat] /\ quieted' \subseteq committed
    BY <1>1, <1>3 DEF TypeOK, StateInv
  <2> QED BY <1>1, <2>1, <2>2, RunStepTypes
<1>7. RunInv'
  <2>1. /\ run'.todo \subseteq pending /\ run'.stored \subseteq pending /\ run'.todo \cap run'.stored = {}
        /\ run'.pc \in {"save", "notify"} => run'.event \in pending \ run'.todo
        /\ run'.pc # "save" /\ run'.pc \in {"alerts", "save", "notify"}
    BY <1>2, <1>5
  <2>2. pending' = pending /\ cursor' = cursor /\ handled' = handled
    BY <1>1 DEF memory
  <2> QED BY <1>2, <2>1, <2>2 DEF RunInv, Running
<1>8. DueInv' /\ QuietInv'
  BY <1>1, <1>2, <1>5 DEF DueInv, QuietInv, memory
<1>9. RowInv'
  <2>1. rows \in [Events -> {"none", "live", "deleted"}]
    BY DEF TypeOK
  <2>2. \A f \in Events : rows[f] # "none" => rows'[f] # "none"
    BY <1>3, <1>5, <2>1
  <2>3. announced[run.event] = 0
    BY <1>2, <1>3 DEF RowInv, StateInv
  <2>4. run'.pc = "notify" => rows'[run'.event] # "none" /\ announced[run'.event] = 0
    BY <1>3, <1>5, <2>1, <2>3
  <2>5. run'.pc # "save" /\ announced' = announced
    BY <1>1, <1>5
  <2> QED BY <2>2, <2>4, <2>5 DEF RowInv
<1> QED BY <1>6, <1>7, <1>8, <1>9

LEMMA NotifyAlertInv == ASSUME IInv, NotifyAlert PROVE IInv'
<1> USE DEF IInv
<1>1. /\ run.pc = "notify"
      /\ announced' = [announced EXCEPT ![run.event] = @ + 1] \/ UNCHANGED announced
      /\ run' = [run EXCEPT !.pc = "alerts", !.event = None]
      /\ UNCHANGED <<now, committed, memory, rows, latest, silenced, due, quieted>>
  BY DEF NotifyAlert
<1>2. /\ run.event \in pending /\ run.todo \subseteq pending /\ run.stored \subseteq pending /\ cursor # Unset
      /\ run.event \in Events
  BY <1>1 DEF RunInv, Running, TypeOK
<1>3. run' = [pc |-> "alerts", todo |-> run.todo, event |-> None, stored |-> run.stored]
  BY <1>1 DEF StateInv
<1>4. run'.pc = "alerts" /\ run'.todo = run.todo /\ run'.stored = run.stored
  BY <1>3
<1>5. announced' \in [Events -> Nat]
  BY <1>1, <1>2 DEF StateInv
<1>6. TypeOK' /\ StateInv'
  <2>1. run' \in [pc : {"alerts", "save", "notify"}, todo : SUBSET run.todo,
                 event : Events \cup {None}, stored : SUBSET pending]
    BY <1>2, <1>3
  <2>2. rows' \in [Events -> {"none", "live", "deleted"}] /\ latest' = latest /\ quieted' \subseteq committed
    BY <1>1 DEF TypeOK
  <2> QED BY <1>1, <1>5, <2>1, <2>2, RunStepTypes
<1>7. RunInv' /\ DueInv' /\ QuietInv'
  BY <1>1, <1>4 DEF RunInv, Running, DueInv, QuietInv, memory
<1>8. RowInv'
  <2>1. rows[run.event] # "none" /\ announced[run.event] = 0
    BY <1>1 DEF RowInv
  <2>2. \A f \in Events : announced'[f] <= 1 /\ (announced'[f] > 0 => rows[f] # "none")
    BY <1>1, <1>2, <2>1 DEF RowInv, StateInv
  <2> QED BY <1>1, <1>4, <2>2 DEF RowInv
<1> QED BY <1>6, <1>7, <1>8

LEMMA CommitInv == ASSUME IInv, Commit PROVE IInv'
<1> USE DEF IInv
<1>1. /\ run.pc = "alerts" /\ cursor' = NextCursor
      /\ handled' = {e \in handled \cup (pending \cap run.stored) : EventTime[e] > NextCursor - LateEventWindow}
      /\ due' = due \ run.stored
      /\ quieted' = IF NextCursor < cursor THEN quieted \cap handled' ELSE quieted
      /\ pending' = {}
      /\ run' = [pc |-> "idle", todo |-> {}, event |-> None, stored |-> {}]
      /\ UNCHANGED <<now, committed, store, silenced, used>>
  BY DEF Commit, HandledNow, NoRun
<1>2. /\ run.stored \subseteq pending /\ pending \subseteq committed /\ pending \subseteq Events /\ pending \cap handled = {}
      /\ cursor # Unset /\ cursor \in Int /\ cursor <= now /\ cursor > -(Lookback + 2) /\ now \in Nat
  BY <1>1 DEF RunInv, Running, TypeOK, StateInv
<1>3. \A p \in pending : EventTime[p] <= now
  BY <1>2 DEF StateInv
<1>4. /\ NextCursor \in Int /\ NextCursor <= now /\ NextCursor > -(Lookback + 2)
      /\ \A p \in pending \ run.stored : EventTime[p] > NextCursor
      /\ \A t \in Nat : t > cursor - LateEventWindow
                         /\ (\A p \in pending : t > EventTime[p] - LateEventWindow)
              => t > NextCursor - LateEventWindow
  BY <1>2, <1>3, NextCursorFacts
<1>5. run'.pc = "idle" /\ run'.todo = {} /\ run'.stored = {} /\ run'.event = None
  BY <1>1
<1>6. TypeOK'
  <2>1. handled' \cup pending' \cup due' \cup quieted' \subseteq committed'
    BY <1>1, <1>2 DEF TypeOK
  <2>2. rows' \in [Events -> {"none", "live", "deleted"}] /\ now' \in 0..2 * MaxTime /\ committed' \subseteq Events
    BY <1>1 DEF TypeOK, store
  <2> QED BY <1>1, <1>4, <1>5, <2>1, <2>2 DEF TypeOK
<1>7. StateInv'
  <2>1. run' \in [pc : {"down", "idle", "alerts", "save", "notify"}, todo : SUBSET Events,
                 event : Events \cup {None}, stored : SUBSET Events]
    BY <1>1
  <2> QED BY <1>1, <1>4, <2>1 DEF StateInv, store
<1>8. RunInv'
  BY <1>1, <1>5 DEF RunInv, Running
<1>9. DueInv'
  <2>1. due' \cap handled' = {} /\ (due' # {} => LateEventWindow > 0)
    BY <1>1 DEF DueInv
  <2>2. ASSUME NEW e \in due'
        PROVE  EventTime[e] > NextCursor - LateEventWindow
    <3>1. e \in due /\ e \notin run.stored /\ EventTime[e] \in Nat
      BY <1>1, TimeNat DEF TypeOK
    <3>2. CASE e \in pending
      BY <1>4, <3>1, <3>2
    <3>3. CASE e \notin pending
      <4>1. EventTime[e] > cursor - LateEventWindow /\ \A p \in pending : EventTime[e] > EventTime[p] - LateEventWindow
        BY <3>1, <3>3 DEF DueInv
      <4> QED BY <1>4, <3>1, <4>1
    <3> QED BY <3>2, <3>3
  <2> QED BY <1>1, <2>1, <2>2 DEF DueInv
<1>10. RowInv'
  BY <1>1, <1>5 DEF RowInv, store
<1>11. QuietInv'
  <2>1. ASSUME NEW e \in quieted', e \notin handled'
        PROVE  EventTime[e] <= NextCursor - LateEventWindow
    <3>1. e \in quieted /\ NextCursor >= cursor /\ EventTime[e] \in Nat
      BY <1>1, <1>2, <1>4, <2>1, TimeNat DEF TypeOK
    <3>2. CASE e \in handled \cup run.stored
      BY <1>1, <1>2, <1>4, <2>1, <3>1, <3>2
    <3>3. CASE e \notin handled \cup run.stored
      <4>1. EventTime[e] <= cursor - LateEventWindow
        BY <3>1, <3>3 DEF QuietInv
      <4> QED BY <1>2, <1>4, <3>1, <4>1
    <3> QED BY <3>2, <3>3
  <2>2. cursor' # Unset
    BY <1>1, <1>4 DEF Unset
  <2> QED BY <1>1, <2>1, <2>2 DEF QuietInv
<1> QED BY <1>6, <1>7, <1>8, <1>9, <1>10, <1>11

LEMMA StutterInv == ASSUME IInv, UNCHANGED vars PROVE IInv'
<1> USE DEF IInv
<1>1. UNCHANGED <<now, committed, memory, run, store, silenced, due, quieted, used>>
  BY DEF vars, memory, store
<1>2. TypeOK' /\ StateInv'
  BY <1>1 DEF TypeOK, StateInv, memory, store
<1>3. RunInv' /\ DueInv' /\ RowInv' /\ QuietInv'
  BY <1>1 DEF RunInv, Running, DueInv, RowInv, QuietInv, memory, store
<1> QED BY <1>2, <1>3

LEMMA NextInv == ASSUME IInv, [Next]_vars PROVE IInv'
<1>1. CASE Tick
  BY <1>1, TickInv
<1>2. CASE SilenceChanges
  BY <1>2, SilenceChangesInv
<1>3. CASE Crash
  BY <1>3, CrashInv
<1>4. CASE Boot
  BY <1>4, BootInv
<1>5. CASE read
  BY <1>5, ReadInv
<1>6. CASE SaveAlert
  BY <1>6, SaveAlertInv
<1>7. CASE NotifyAlert
  BY <1>7, NotifyAlertInv
<1>8. CASE Commit
  BY <1>8, CommitInv
<1>9. CASE \E e \in run.todo : Silence(e) \/ AlertExists(e)
  BY <1>9, SilenceInv, AlertExistsInv
<1>10. CASE \E e \in Events : AmfaCommits(e) \/ deleteAlert(e)
  BY <1>10, AmfaCommitsInv, DeleteAlertInv
<1>11. CASE UNCHANGED vars
  BY <1>11, StutterInv
<1> QED BY <1>1, <1>2, <1>3, <1>4, <1>5, <1>6, <1>7, <1>8, <1>9, <1>10, <1>11 DEF Next, RunStep

-----------------------------------------------------------------------------
(* The theorems.                                                             *)

\* The invariant holds in every state a check reaches.
THEOREM Invariance == Spec => []IInv
<1>1. Init => IInv
  BY InitInv
<1>2. IInv /\ [Next]_vars => IInv'
  BY NextInv
<1> QED BY <1>1, <1>2, PTL DEF Spec

\* Commit never moves the cursor past an event whose alert is not stored: what
\* AMFA stored in time is read again until it is dealt with.
THEOREM EventsKept == Spec => []NoEventLost
<1>1. IInv => NoEventLost
  BY DEF IInv, DueInv, NoEventLost
<1> QED BY <1>1, Invariance, PTL

\* An event in hand for its alert is not one that was silenced before.
LEMMA SavedIsNotQuieted ==
  ASSUME IInv, run.pc = "save"
  PROVE  run.event \notin quieted
<1>1. run.event \in pending /\ run.event \notin run.stored /\ pending \cap handled = {}
      /\ EventTime[run.event] > cursor - LateEventWindow
  BY DEF IInv, RunInv
<1>2. EventTime[run.event] \in Nat /\ cursor \in Int
  BY <1>1, TimeNat DEF IInv, TypeOK, StateInv
<1>3. ~(EventTime[run.event] <= cursor - LateEventWindow)
  BY <1>1, <1>2
<1> QED BY <1>1, <1>3 DEF IInv, QuietInv

\* Only SaveAlert and an operator's deletion change the alerts' rows.
LEMMA RowsChange ==
  ASSUME IInv, [Next]_vars
  PROVE  \/ UNCHANGED rows
         \/ run.pc = "save" /\ rows' = [rows EXCEPT ![run.event] = "live"]
         \/ \E e \in Events : rows[e] = "live" /\ rows' = [rows EXCEPT ![e] = "deleted"]
<1>1. CASE SaveAlert
  BY <1>1 DEF SaveAlert
<1>2. CASE \E e \in Events : deleteAlert(e)
  BY <1>2 DEF deleteAlert
<1>3. CASE Tick \/ SilenceChanges \/ Crash \/ Boot
  BY <1>3 DEF Tick, SilenceChanges, Crash, Boot, store
<1>4. CASE read
  BY <1>4 DEF read, store
<1>5. CASE NotifyAlert
  BY <1>5 DEF NotifyAlert
<1>6. CASE Commit
  BY <1>6 DEF Commit, store
<1>7. CASE \E e \in run.todo : Silence(e) \/ AlertExists(e)
  BY <1>7 DEF Silence, AlertExists, store
<1>8. CASE \E e \in Events : AmfaCommits(e)
  BY <1>8 DEF AmfaCommits, store
<1>9. CASE UNCHANGED vars
  BY <1>9 DEF vars
<1> QED BY <1>1, <1>2, <1>3, <1>4, <1>5, <1>6, <1>7, <1>8, <1>9 DEF Next, RunStep

\* An event's alert is announced once at most, and a silenced event gets none.
THEOREM EventsAlertedOnce == Spec => AlertedOnce
<1>1. ASSUME IInv, IInv', [Next]_vars, NEW e \in Events
      PROVE  announced'[e] <= 1 /\ (e \in quieted /\ rows[e] = "none" => rows'[e] = "none")
  <2>1. announced'[e] <= 1
    BY <1>1 DEF IInv, RowInv
  <2>2. ASSUME e \in quieted, rows[e] = "none"
        PROVE  rows'[e] = "none"
    <3>1. run.pc = "save" => run.event # e
      BY <1>1, <2>2, SavedIsNotQuieted
    <3>2. rows \in [Events -> {"none", "live", "deleted"}]
      BY <1>1 DEF IInv, TypeOK
    <3> QED BY <1>1, <2>2, <3>1, <3>2, RowsChange
  <2> QED BY <2>1, <2>2
<1>2. IInv /\ IInv' /\ [Next]_vars
        => [\A e \in Events : /\ announced'[e] <= 1
                              /\ e \in quieted /\ rows[e] = "none" => rows'[e] = "none"]_vars
  BY <1>1
<1> QED BY <1>2, Invariance, PTL DEF Spec, AlertedOnce

-----------------------------------------------------------------------------
(* OutageAlerts: the inductive invariant.                                    *)

USE BoundsAssumption, KindsAssumption

\* An occurrence that was raised, or is over, has begun; one step before the bound.
OccurrenceInv ==
  /\ occ <= MaxOcc + 1 /\ (pc["monitor"] = "save" => occ <= MaxOcc)
  /\ raised \subseteq 0..occ /\ healed <= occ

\* What is logged as sent is an issue, and the monitor resolves what is not down.
StepInv ==
  /\ \A a \in Actors : pc[a] = "log" => loc[a].issue # 0
  /\ pc["monitor"] \in {"lookup", "resolve", "rescheck", "close"} => prev # "DOWN"

\* While the manager tracks an outage that was not silenced, its announcement is in the
\* log or on its way.
AnnounceInv ==
  prev = "DOWN" /\ ~hushed /\ occ \in raised /\ row # "absent" =>
    \/ sent[occ] # 0 \/ occ \in failed
    \/ pc["monitor"] \in {"save", "check", "send", "log", "logfailed"}

\* The occurrence of the last recovery is over until another begins.
HealInv == healed = occ => row \in {"absent", "resolved"}

OutageInv ==
  /\ OutageTypes /\ OccurrenceInv /\ StepInv
  /\ Faults \cap {"save", "log"} = {} => AnnounceInv
  /\ "late" \notin Ops => HealInv

-----------------------------------------------------------------------------
(* OutageAlerts: its steps.                                                  *)

LEMMA GotoFacts ==
  ASSUME OutageTypes, NEW a \in Actors, NEW where \in PCs, Goto(a, where)
  PROVE  /\ pc' \in [Actors -> PCs] /\ pc'[a] = where
         /\ \A b \in Actors : b # a => pc'[b] = pc[b]
BY DEF OutageTypes, Goto

LEMMA ReturnFacts ==
  ASSUME OutageTypes, NEW a \in Actors, Return(a)
  PROVE  /\ pc' \in [Actors -> PCs] /\ pc'[a] = "idle"
         /\ \A b \in Actors : b # a => pc'[b] = pc[b] /\ loc'[b] = loc[b]
         /\ loc' \in [Actors -> [occ : Occs, issue : 0 .. MaxIssues]]
<1>1. pc' \in [Actors -> PCs] /\ pc'[a] = "idle" /\ \A b \in Actors : b # a => pc'[b] = pc[b]
  <2>1. Goto(a, "idle") /\ "idle" \in PCs
    BY DEF Return, PCs
  <2> QED BY <2>1, GotoFacts
<1>2. NoLocals \in [occ : Occs, issue : 0 .. MaxIssues]
  BY DEF NoLocals, Occs
<1> QED BY <1>1, <1>2 DEF OutageTypes, Return

LEMMA ActorsAre == {"monitor", "retrier", "operator", "notice"} \subseteq Actors
BY DEF Actors

LEMMA OutageInitInv == OutageInit => OutageInv
<1> SUFFICES ASSUME OutageInit PROVE OutageInv
  OBVIOUS
<1> USE DEF OutageInit
<1>1. NoLocals \in [occ : Occs, issue : 0 .. MaxIssues] /\ 0 \in Occs
  BY DEF NoLocals, Occs
<1>2. OutageTypes
  <2>1. pc \in [Actors -> PCs] /\ loc \in [Actors -> [occ : Occs, issue : 0 .. MaxIssues]]
    BY <1>1 DEF PCs
  <2>2. sent \in [Occs -> 0 .. MaxIssues] /\ issues \in 0 .. MaxIssues
    OBVIOUS
  <2> QED BY <1>1, <2>1, <2>2 DEF OutageTypes
<1>3. OccurrenceInv /\ StepInv /\ AnnounceInv /\ HealInv
  BY DEF OccurrenceInv, StepInv, AnnounceInv, HealInv, Actors
<1> QED BY <1>2, <1>3 DEF OutageInv

\* The monitor takes up a status.
LEMMA HealthCheckInv ==
  ASSUME OutageInv, NEW status \in {"UP", "DOWN"}, HealthCheck(status)
  PROVE  OutageInv'
<1> DEFINE where == IF prev = status THEN "idle" ELSE IF status = "DOWN" THEN "save" ELSE "lookup"
<1>1. /\ pc["monitor"] = "idle" /\ (status = "DOWN" => occ < MaxOcc) /\ prev' = status
      /\ Goto("monitor", where) /\ where \in PCs /\ hushed' = (hushed /\ prev = status)
      /\ UNCHANGED <<row, ack, occ, sent, failed, issues, open, loc, raised, healed>>
  BY DEF HealthCheck, rowVars, logVars, gitlab, hist, PCs
<1>2. /\ pc' \in [Actors -> PCs] /\ pc'["monitor"] = where
      /\ \A b \in Actors : b # "monitor" => pc'[b] = pc[b]
  BY <1>1, GotoFacts, ActorsAre DEF OutageInv
<1>3. OutageTypes'
  BY <1>1, <1>2 DEF OutageInv, OutageTypes
<1>4. OccurrenceInv' /\ StepInv'
  BY <1>1, <1>2 DEF OutageInv, OutageTypes, OccurrenceInv, StepInv, Occs
<1>5. (AnnounceInv => AnnounceInv') /\ (HealInv => HealInv')
  BY <1>1, <1>2 DEF AnnounceInv, HealInv
<1> QED BY <1>3, <1>4, <1>5 DEF OutageInv

LEMMA RaiseAlertInv == ASSUME OutageInv, RaiseAlert PROVE OutageInv'
<1>1. /\ pc["monitor"] = "save"
      /\ UNCHANGED <<prev, sent, failed, issues, open, loc, healed>>
      /\ occ \in Nat /\ occ <= MaxOcc /\ healed \in Nat /\ healed <= occ
  BY DEF RaiseAlert, logVars, gitlab, OutageInv, OccurrenceInv, OutageTypes, Occs
<1>2. CASE SaveActive /\ raised' = (IF occ' = occ THEN raised ELSE raised \union {occ'})
           /\ Goto("monitor", "check") /\ UNCHANGED hushed
  <2>1. /\ pc' \in [Actors -> PCs] /\ pc'["monitor"] = "check"
        /\ \A b \in Actors : b # "monitor" => pc'[b] = pc[b]
    BY <1>2, GotoFacts, ActorsAre DEF OutageInv, PCs
  <2>2. row' = "active" /\ ack' = FALSE /\ occ' = IF row \in {"absent", "resolved"} THEN occ + 1 ELSE occ
    BY <1>2 DEF SaveActive
  <2>3. raised \subseteq 0..occ
    BY DEF OutageInv, OccurrenceInv
  <2>4. OutageTypes'
    <3>1. occ' \in {occ, occ + 1} /\ raised' \subseteq raised \union {occ'}
      BY <1>2, <2>2
    <3>2. MaxOcc \in Nat /\ occ \in Nat /\ occ <= MaxOcc
      BY <1>1, BoundsAssumption
    <3>3. occ' \in Occs
      BY <3>1, <3>2 DEF Occs
    <3>4. raised \subseteq Occs
      BY <2>3, <3>2 DEF Occs
    <3>5. raised' \subseteq Occs
      BY <3>1, <3>3, <3>4, Zenon
    <3> QED BY <1>1, <1>2, <2>1, <2>2, <3>3, <3>5 DEF OutageInv, OutageTypes
  <2>5. OccurrenceInv'
    BY <1>1, <1>2, <2>1, <2>2, <2>3 DEF OccurrenceInv
  <2>6. StepInv' /\ AnnounceInv'
    BY <1>1, <2>1 DEF OutageInv, StepInv, AnnounceInv
  <2>7. HealInv => HealInv'
    BY <1>1, <2>2 DEF HealInv
  <2> QED BY <2>4, <2>5, <2>6, <2>7 DEF OutageInv
<1>3. CASE /\ Goto("monitor", "idle") /\ UNCHANGED <<row, ack, occ, raised>>
           /\ \/ "save" \in Faults /\ UNCHANGED hushed
              \/ hushed' = TRUE
  <2>1. /\ pc' \in [Actors -> PCs] /\ pc'["monitor"] = "idle"
        /\ \A b \in Actors : b # "monitor" => pc'[b] = pc[b]
    BY <1>3, GotoFacts, ActorsAre DEF OutageInv, PCs
  <2>2. OutageTypes'
    BY <1>1, <1>3, <2>1 DEF OutageInv, OutageTypes
  <2>3. OccurrenceInv' /\ StepInv'
    BY <1>1, <1>3, <2>1 DEF OutageInv, OccurrenceInv, StepInv
  <2>4. HealInv => HealInv'
    BY <1>1, <1>3 DEF HealInv
  <2>5. "save" \in Faults \/ AnnounceInv'
    BY <1>3 DEF AnnounceInv
  <2> QED BY <1>3, <2>2, <2>3, <2>4, <2>5 DEF OutageInv
<1> QED BY <1>2, <1>3 DEF RaiseAlert, rowVars

LEMMA TenantUnmonitoredInv == ASSUME OutageInv, TenantUnmonitored PROVE OutageInv'
<1>1. /\ prev' = "none" /\ Goto("monitor", "lookup") /\ pc["monitor"] = "idle" /\ hushed' = FALSE
      /\ UNCHANGED <<row, ack, occ, sent, failed, issues, open, loc, raised, healed>>
  BY DEF TenantUnmonitored, rowVars, logVars, gitlab, hist
<1>2. /\ pc' \in [Actors -> PCs] /\ pc'["monitor"] = "lookup"
      /\ \A b \in Actors : b # "monitor" => pc'[b] = pc[b]
  BY <1>1, GotoFacts, ActorsAre DEF OutageInv, PCs
<1>3. OutageTypes'
  BY <1>1, <1>2 DEF OutageInv, OutageTypes
<1>4. OccurrenceInv' /\ StepInv' /\ AnnounceInv' /\ (HealInv => HealInv')
  BY <1>1, <1>2 DEF OutageInv, OccurrenceInv, StepInv, AnnounceInv, HealInv
<1> QED BY <1>3, <1>4 DEF OutageInv

LEMMA LookupAlertInv == ASSUME OutageInv, LookupAlert PROVE OutageInv'
<1> DEFINE where == IF HealthAlertOpen THEN "resolve" ELSE "idle"
<1>1. /\ pc["monitor"] = "lookup" /\ Goto("monitor", where) /\ where \in PCs
      /\ healed' = IF row = "ignored" \/ HealthAlertOpen THEN healed ELSE occ
      /\ UNCHANGED <<prev, row, ack, occ, sent, failed, issues, open, loc, raised, hushed>>
  BY DEF LookupAlert, rowVars, logVars, gitlab, PCs
<1>2. /\ pc' \in [Actors -> PCs] /\ pc'["monitor"] = where
      /\ \A b \in Actors : b # "monitor" => pc'[b] = pc[b]
  BY <1>1, GotoFacts, ActorsAre DEF OutageInv
<1>3. OutageTypes' /\ prev # "DOWN"
  BY <1>1, <1>2 DEF OutageInv, OutageTypes, StepInv
<1>4. OccurrenceInv' /\ StepInv' /\ AnnounceInv'
  BY <1>1, <1>2, <1>3 DEF OutageInv, OutageTypes, Occs, OccurrenceInv, StepInv, AnnounceInv
<1>5. HealInv => HealInv'
  BY <1>1 DEF OutageInv, OutageTypes, HealInv, HealthAlertOpen
<1> QED BY <1>3, <1>4, <1>5 DEF OutageInv

LEMMA ResolveAlertInv == ASSUME OutageInv, ResolveAlert PROVE OutageInv'
<1>1. /\ pc["monitor"] = "resolve" /\ prev # "DOWN"
      /\ UNCHANGED <<prev, sent, failed, issues, open, loc, raised, hushed>>
  BY DEF ResolveAlert, logVars, gitlab, OutageInv, StepInv
<1>2. ASSUME NEW where \in {"rescheck", "idle"}, Goto("monitor", where), UNCHANGED <<ack, occ>>,
             \/ row' = (IF row = "absent" THEN "absent" ELSE "resolved") /\ healed' = occ
             \/ UNCHANGED <<row, healed>>
      PROVE  OutageInv'
  <2>1. where \in PCs
    BY DEF PCs
  <2>2. /\ pc' \in [Actors -> PCs] /\ pc'["monitor"] = where
        /\ \A b \in Actors : b # "monitor" => pc'[b] = pc[b]
    BY <1>2, <2>1, GotoFacts, ActorsAre DEF OutageInv
  <2>3. OutageTypes'
    BY <1>1, <1>2, <2>2 DEF OutageInv, OutageTypes
  <2>4. OccurrenceInv' /\ StepInv' /\ AnnounceInv'
    BY <1>1, <1>2, <2>2 DEF OutageInv, OutageTypes, Occs, OccurrenceInv, StepInv, AnnounceInv
  <2>5. HealInv => HealInv'
    BY <1>2 DEF HealInv
  <2> QED BY <2>3, <2>4, <2>5 DEF OutageInv
<1> QED BY <1>2 DEF ResolveAlert, Resolve, rowVars

Announcing == {"save", "check", "send", "log", "logfailed"}

\* A step that leaves the status and the alert alone, forgets nothing in the log, and
\* leaves off announcing where the log says so, or where nobody is to be told.
LEMMA OutageCalm ==
  ASSUME OutageInv, OutageTypes', UNCHANGED <<prev, row, occ, raised, healed, hushed>>,
         failed \subseteq failed', \A o \in Occs : sent[o] # 0 => sent'[o] # 0,
         \A a \in Actors : pc'[a] = "log" => loc'[a].issue # 0,
         pc'["monitor"] \in Announcing \ {"save"} => pc["monitor"] \in Announcing,
         pc'["monitor"] = "save" => pc["monitor"] = "save",
         pc'["monitor"] \in {"lookup", "resolve", "rescheck", "close"} =>
           pc["monitor"] \in {"lookup", "resolve", "rescheck", "close"},
         \/ pc["monitor"] \in Announcing => pc'["monitor"] \in Announcing
         \/ sent'[occ] # 0 \/ occ \in failed' \/ row = "absent" \/ "log" \in Faults
  PROVE  OutageInv'
<1>1. OccurrenceInv' /\ StepInv'
  BY DEF OutageInv, OccurrenceInv, StepInv
<1>2. "log" \notin Faults /\ AnnounceInv => AnnounceInv'
  BY DEF OutageInv, OutageTypes, AnnounceInv, Announcing
<1>3. HealInv => HealInv'
  BY DEF HealInv
<1> QED BY <1>1, <1>2, <1>3 DEF OutageInv

LEMMA SentIs ==
  ASSUME OutageTypes
  PROVE  /\ occ \in Occs /\ sent[occ] \in 0..MaxIssues
         /\ row # "absent" /\ AlreadySent => sent[occ] # 0
         /\ AlreadySent => \E o \in Occs : sent[o] # 0
BY DEF OutageTypes, AlreadySent

LEMMA CheckAlreadySentInv ==
  ASSUME OutageInv, NEW a \in {"monitor", "retrier"}, CheckAlreadySent(a)
  PROVE  OutageInv'
<1>1. /\ pc[a] = "check" /\ a \in Actors
      /\ UNCHANGED <<prev, row, ack, occ, sent, failed, issues, open, raised, healed, hushed>>
  BY DEF CheckAlreadySent, rowVars, logVars, gitlab, hist, Actors
<1>2. OutageTypes /\ \A b \in Actors : pc[b] = "log" => loc[b].issue # 0
  BY DEF OutageInv, StepInv
<1>3. CASE AlreadySent /\ Return(a)
  <2>1. /\ pc' \in [Actors -> PCs] /\ pc'[a] = "idle"
        /\ \A b \in Actors : b # a => pc'[b] = pc[b] /\ loc'[b] = loc[b]
        /\ loc' \in [Actors -> [occ : Occs, issue : 0 .. MaxIssues]]
    BY <1>1, <1>2, <1>3, ReturnFacts
  <2>2. OutageTypes'
    BY <1>1, <1>2, <2>1 DEF OutageTypes
  <2>3. row # "absent" => sent[occ] # 0
    BY <1>2, <1>3, SentIs
  <2>4. \A b \in Actors : pc'[b] = "log" => loc'[b].issue # 0
    BY <1>2, <2>1
  <2> QED BY <1>1, <2>1, <2>2, <2>3, <2>4, ActorsAre, OutageCalm DEF Announcing
<1>4. CASE loc' = [loc EXCEPT ![a].occ = occ] /\ Goto(a, "send")
  <2>1. /\ pc' \in [Actors -> PCs] /\ pc'[a] = "send"
        /\ \A b \in Actors : b # a => pc'[b] = pc[b]
    BY <1>1, <1>2, <1>4, GotoFacts DEF PCs
  <2>2. /\ loc' \in [Actors -> [occ : Occs, issue : 0 .. MaxIssues]]
        /\ \A b \in Actors : loc'[b].issue = loc[b].issue
    BY <1>1, <1>2, <1>4 DEF OutageTypes
  <2>3. OutageTypes'
    BY <1>1, <1>2, <2>1, <2>2 DEF OutageTypes
  <2>4. \A b \in Actors : pc'[b] = "log" => loc'[b].issue # 0
    BY <1>1, <1>2, <2>1, <2>2
  <2> QED BY <1>1, <2>1, <2>3, <2>4, ActorsAre, OutageCalm DEF Announcing
<1> QED BY <1>3, <1>4 DEF CheckAlreadySent

LEMMA SendInv ==
  ASSUME OutageInv, NEW a \in {"monitor", "retrier"}, Send(a)
  PROVE  OutageInv'
<1>1. /\ pc[a] = "send" /\ a \in Actors /\ issues < MaxIssues /\ issues' = issues + 1
      /\ open' = open \union {issues + 1} /\ loc' = [loc EXCEPT ![a].issue = issues + 1]
      /\ UNCHANGED <<prev, row, ack, occ, sent, failed, raised, healed, hushed>> /\ Goto(a, "log")
  BY DEF Send, rowVars, logVars, hist, Actors
<1>2. OutageTypes /\ \A b \in Actors : pc[b] = "log" => loc[b].issue # 0
  BY DEF OutageInv, StepInv
<1>3. /\ pc' \in [Actors -> PCs] /\ pc'[a] = "log"
      /\ \A b \in Actors : b # a => pc'[b] = pc[b]
  BY <1>1, <1>2, GotoFacts DEF PCs
<1>4. issues \in 0..MaxIssues /\ issues + 1 \in 0..MaxIssues /\ issues + 1 # 0 /\ open' \subseteq 1..(issues + 1)
  BY <1>1, <1>2 DEF OutageTypes
<1>5. /\ loc' \in [Actors -> [occ : Occs, issue : 0 .. MaxIssues]] /\ loc'[a].issue = issues + 1
      /\ \A b \in Actors : b # a => loc'[b] = loc[b]
  BY <1>1, <1>2, <1>4 DEF OutageTypes
<1>6. OutageTypes'
  BY <1>1, <1>2, <1>3, <1>4, <1>5 DEF OutageTypes
<1>7. \A b \in Actors : pc'[b] = "log" => loc'[b].issue # 0
  BY <1>2, <1>3, <1>4, <1>5
<1> QED BY <1>1, <1>3, <1>6, <1>7, ActorsAre, OutageCalm DEF Announcing

LEMMA SendFailsInv ==
  ASSUME OutageInv, NEW a \in {"monitor", "retrier"}, SendFails(a)
  PROVE  OutageInv'
<1>1. /\ pc[a] = "send" /\ a \in Actors
      /\ UNCHANGED <<prev, row, ack, occ, sent, failed, issues, open, loc, raised, healed, hushed>>
      /\ Goto(a, "logfailed")
  BY DEF SendFails, rowVars, logVars, gitlab, hist, Actors
<1>2. OutageTypes /\ \A b \in Actors : pc[b] = "log" => loc[b].issue # 0
  BY DEF OutageInv, StepInv
<1>3. /\ pc' \in [Actors -> PCs] /\ pc'[a] = "logfailed"
      /\ \A b \in Actors : b # a => pc'[b] = pc[b]
  BY <1>1, <1>2, GotoFacts DEF PCs
<1>4. OutageTypes'
  BY <1>1, <1>2, <1>3 DEF OutageTypes
<1>5. \A b \in Actors : pc'[b] = "log" => loc'[b].issue # 0
  BY <1>1, <1>2, <1>3
<1> QED BY <1>1, <1>3, <1>4, <1>5, ActorsAre, OutageCalm DEF Announcing

\* A send and a failed send leave their entry, unless the log refuses it.
LEMMA LogInv ==
  ASSUME OutageInv, NEW a \in {"monitor", "retrier"}, LogSent(a) \/ LogFailed(a)
  PROVE  OutageInv'
<1>1. /\ pc[a] \in {"log", "logfailed"} /\ a \in Actors /\ Return(a)
      /\ UNCHANGED <<prev, row, ack, occ, issues, open, raised, healed, hushed>>
  BY DEF LogSent, LogFailed, rowVars, gitlab, hist, Actors
<1>2. OutageTypes /\ \A b \in Actors : pc[b] = "log" => loc[b].issue # 0
  BY DEF OutageInv, StepInv
<1>3. /\ pc' \in [Actors -> PCs] /\ pc'[a] = "idle"
      /\ \A b \in Actors : b # a => pc'[b] = pc[b] /\ loc'[b] = loc[b]
      /\ loc' \in [Actors -> [occ : Occs, issue : 0 .. MaxIssues]]
  BY <1>1, <1>2, ReturnFacts
<1>4. /\ sent' \in [Occs -> 0..MaxIssues] /\ failed' \subseteq Occs /\ failed \subseteq failed'
      /\ \A o \in Occs : sent[o] # 0 => sent'[o] # 0
      /\ sent'[occ] # 0 \/ occ \in failed' \/ "log" \in Faults
  <2>1. occ \in Occs /\ loc[a].issue \in 0..MaxIssues /\ sent \in [Occs -> 0..MaxIssues] /\ failed \subseteq Occs
    BY <1>1, <1>2 DEF OutageTypes
  <2>2. CASE LogSent(a)
    <3>1. loc[a].issue # 0 /\ failed' = failed
      BY <1>1, <1>2, <2>2 DEF LogSent
    <3>2. sent' = [sent EXCEPT ![occ] = loc[a].issue] \/ ("log" \in Faults /\ sent' = sent)
      BY <2>2 DEF LogSent
    <3> QED BY <2>1, <3>1, <3>2
  <2>3. CASE LogFailed(a)
    BY <2>1, <2>3 DEF LogFailed
  <2> QED BY <2>2, <2>3
<1>5. OutageTypes'
  BY <1>1, <1>2, <1>3, <1>4 DEF OutageTypes
<1>6. \A b \in Actors : pc'[b] = "log" => loc'[b].issue # 0
  BY <1>2, <1>3
<1> QED BY <1>1, <1>3, <1>4, <1>5, <1>6, ActorsAre, OutageCalm DEF Announcing

\* The log names an issue once something was sent.
LEMMA LatestIssueIs == ASSUME OutageTypes, AlreadySent PROVE LatestIssue \in 0..MaxIssues
<1> DEFINE S == {o \in Occs : sent[o] # 0}
<1>1. S \in SUBSET Nat /\ S # {} /\ MaxOcc + 2 \in Nat /\ \A s \in S : s <= MaxOcc + 2
  BY SentIs DEF Occs
<1> HIDE DEF S
<1>2. \E m \in S : \A s \in S : s <= m
  BY <1>1, GreatestElement
<1>3. \E o \in Occs : sent[o] # 0 /\ \A p \in Occs : sent[p] # 0 => p <= o
  BY <1>2 DEF S
<1> QED BY <1>3 DEF LatestIssue, OutageTypes

LEMMA ResolutionCheckInv ==
  ASSUME OutageInv, NEW a \in {"monitor", "notice"}, ResolutionCheck(a)
  PROVE  OutageInv'
<1>1. /\ pc[a] = "rescheck" /\ a \in Actors
      /\ UNCHANGED <<prev, row, ack, occ, sent, failed, issues, open, raised, healed, hushed>>
  BY DEF ResolutionCheck, rowVars, logVars, gitlab, hist, Actors
<1>2. OutageTypes /\ \A b \in Actors : pc[b] = "log" => loc[b].issue # 0
  BY DEF OutageInv, StepInv
<1>3. \E where \in {"close", "idle"} : Goto(a, where)
  BY DEF ResolutionCheck
<1>4. PICK where \in {"close", "idle"} :
        /\ pc' \in [Actors -> PCs] /\ pc'[a] = where
        /\ \A b \in Actors : b # a => pc'[b] = pc[b]
  BY <1>1, <1>2, <1>3, GotoFacts DEF PCs
<1>5. /\ loc' \in [Actors -> [occ : Occs, issue : 0 .. MaxIssues]]
      /\ \A b \in Actors : b # a => loc'[b] = loc[b]
  <2>1. AlreadySent => LatestIssue \in 0..MaxIssues
    BY <1>2, LatestIssueIs
  <2>2. loc' = loc \/ (AlreadySent /\ loc' = [loc EXCEPT ![a].issue = LatestIssue])
    BY DEF ResolutionCheck
  <2> QED BY <1>1, <1>2, <2>1, <2>2 DEF OutageTypes
<1>6. OutageTypes'
  BY <1>1, <1>2, <1>4, <1>5 DEF OutageTypes
<1>7. \A b \in Actors : pc'[b] = "log" => loc'[b].issue # 0
  BY <1>2, <1>4, <1>5
<1> QED BY <1>1, <1>4, <1>6, <1>7, ActorsAre, OutageCalm DEF Announcing

LEMMA CloseIssueInv ==
  ASSUME OutageInv, NEW a \in {"monitor", "notice"}, CloseIssue(a)
  PROVE  OutageInv'
<1>1. /\ pc[a] = "close" /\ a \in Actors /\ Return(a) /\ open' \subseteq open
      /\ UNCHANGED <<prev, row, ack, occ, sent, failed, issues, raised, healed, hushed>>
  BY DEF CloseIssue, rowVars, logVars, hist, Actors
<1>2. OutageTypes /\ \A b \in Actors : pc[b] = "log" => loc[b].issue # 0
  BY DEF OutageInv, StepInv
<1>3. /\ pc' \in [Actors -> PCs] /\ pc'[a] = "idle"
      /\ \A b \in Actors : b # a => pc'[b] = pc[b] /\ loc'[b] = loc[b]
      /\ loc' \in [Actors -> [occ : Occs, issue : 0 .. MaxIssues]]
  BY <1>1, <1>2, ReturnFacts
<1>4. OutageTypes'
  BY <1>1, <1>2, <1>3 DEF OutageTypes
<1>5. \A b \in Actors : pc'[b] = "log" => loc'[b].issue # 0
  BY <1>2, <1>3
<1> QED BY <1>1, <1>3, <1>4, <1>5, ActorsAre, OutageCalm DEF Announcing

\* The retrier, and an operator's request that reads the alert, go on.
LEMMA GoesOnInv ==
  ASSUME OutageInv, ListUndelivered \/ ReloadAlert \/ UndeliveredChannels \/ OperatorReads
  PROVE  OutageInv'
<1>1. UNCHANGED <<prev, row, ack, occ, sent, failed, issues, open, loc, raised, healed, hushed>>
  BY DEF ListUndelivered, ReloadAlert, UndeliveredChannels, OperatorReads, rowVars, logVars, gitlab, hist
<1>2. OutageTypes /\ \A b \in Actors : pc[b] = "log" => loc[b].issue # 0
  BY DEF OutageInv, StepInv
<1>3. \E a \in {"retrier", "operator"}, where \in {"reload", "channels", "check", "idle", "again", "resolve"} :
        Goto(a, where)
  BY DEF ListUndelivered, ReloadAlert, UndeliveredChannels, OperatorReads
<1>4. PICK a \in {"retrier", "operator"}, where \in {"reload", "channels", "check", "idle", "again", "resolve"} :
        /\ pc' \in [Actors -> PCs] /\ pc'[a] = where
        /\ \A b \in Actors : b # a => pc'[b] = pc[b]
  BY <1>2, <1>3, GotoFacts, ActorsAre DEF PCs
<1>5. OutageTypes'
  BY <1>1, <1>2, <1>4 DEF OutageTypes
<1>6. \A b \in Actors : pc'[b] = "log" => loc'[b].issue # 0
  BY <1>1, <1>2, <1>4, ActorsAre
<1>7. pc'["monitor"] = pc["monitor"]
  BY <1>4, ActorsAre
<1> QED BY <1>1, <1>5, <1>6, <1>7, OutageCalm DEF Announcing

\* An operator reopens a resolved alert as a new occurrence; a page that is late may
\* make it open again without one.
LEMMA UpdateStatusInv ==
  ASSUME OutageInv, NEW op, UpdateStatus(op)
  PROVE  OutageInv'
<1>1. /\ UNCHANGED <<prev, sent, failed, issues, open, pc, loc, raised, healed, hushed>>
      /\ row # "absent" /\ (row = "resolved" => op = "reopen" \/ "late" \in Ops)
  BY DEF UpdateStatus, logVars, gitlab, hist
<1>2. /\ OutageTypes /\ occ \in Nat /\ healed \in Nat /\ healed <= occ /\ raised \subseteq 0..occ
      /\ occ <= MaxOcc + 1 /\ (pc["monitor"] = "save" => occ <= MaxOcc)
  BY DEF OutageInv, OccurrenceInv, OutageTypes, Occs
<1>3. /\ row' \in {"active", "acknowledged", "ignored"} /\ ack' \in BOOLEAN
      /\ \/ occ' = occ /\ (op = "reopen" => row # "resolved")
         \/ occ' = occ + 1 /\ occ < MaxOcc
  BY <1>2 DEF UpdateStatus, OutageTypes
<1>4. occ' \in Nat /\ occ <= occ' /\ occ' <= MaxOcc + 1 /\ (pc["monitor"] = "save" => occ' <= MaxOcc)
  BY <1>2, <1>3
<1>5. OutageTypes'
  BY <1>1, <1>2, <1>3, <1>4 DEF OutageTypes, Occs
<1>6. OccurrenceInv' /\ StepInv'
  BY <1>1, <1>2, <1>4 DEF OutageInv, OccurrenceInv, StepInv
<1>7. AnnounceInv => AnnounceInv'
  BY <1>1, <1>2, <1>3 DEF AnnounceInv
<1>8. "late" \notin Ops /\ HealInv => HealInv'
  BY <1>1, <1>2, <1>3 DEF HealInv
<1> QED BY <1>5, <1>6, <1>7, <1>8 DEF OutageInv

LEMMA OperatorResolvesInv == ASSUME OutageInv, OperatorResolves PROVE OutageInv'
<1>1. /\ row' = IF row = "absent" THEN "absent" ELSE "resolved"
      /\ UNCHANGED <<ack, occ, prev, sent, failed, issues, open, loc, raised, healed, hushed>>
  BY DEF OperatorResolves, Resolve, logVars, gitlab, hist
<1>2. PICK where \in {"rescheck", "idle"} : pc' = [pc EXCEPT !["operator"] = "idle", !["notice"] = where]
  BY DEF OperatorResolves
<1>3. /\ pc' \in [Actors -> PCs] /\ pc'["monitor"] = pc["monitor"]
      /\ \A a \in Actors : pc'[a] = "log" => pc[a] = "log"
  BY <1>2, ActorsAre DEF OutageInv, OutageTypes, PCs
<1>4. OutageTypes'
  BY <1>1, <1>3 DEF OutageInv, OutageTypes
<1>5. OccurrenceInv' /\ StepInv' /\ (AnnounceInv => AnnounceInv') /\ (HealInv => HealInv')
  BY <1>1, <1>3 DEF OutageInv, OccurrenceInv, StepInv, AnnounceInv, HealInv
<1> QED BY <1>4, <1>5 DEF OutageInv

LEMMA OutageDeleteInv == ASSUME OutageInv, DeleteAlert PROVE OutageInv'
<1>1. /\ row' = "absent" /\ ack' = FALSE
      /\ UNCHANGED <<prev, occ, sent, failed, issues, open, pc, loc, raised, healed, hushed>>
  BY DEF DeleteAlert, logVars, gitlab, hist
<1>2. OutageTypes'
  BY <1>1 DEF OutageInv, OutageTypes
<1>3. OccurrenceInv' /\ StepInv' /\ AnnounceInv' /\ HealInv'
  BY <1>1 DEF OutageInv, OccurrenceInv, StepInv, AnnounceInv, HealInv
<1> QED BY <1>2, <1>3 DEF OutageInv

LEMMA OutageRestartInv == ASSUME OutageInv, Restart PROVE OutageInv'
<1>1. /\ prev' = "none" /\ pc' = [a \in Actors |-> "idle"] /\ loc' = [a \in Actors |-> NoLocals]
      /\ hushed' = FALSE /\ UNCHANGED <<row, ack, occ, sent, failed, issues, open, raised, healed>>
  BY DEF Restart, rowVars, logVars, gitlab, hist
<1>2. NoLocals \in [occ : Occs, issue : 0 .. MaxIssues] /\ "idle" \in PCs
  BY DEF NoLocals, Occs, PCs
<1>3. pc' \in [Actors -> PCs] /\ loc' \in [Actors -> [occ : Occs, issue : 0 .. MaxIssues]]
      /\ \A a \in Actors : pc'[a] = "idle"
  BY <1>1, <1>2
<1>4. OutageTypes'
  BY <1>1, <1>3 DEF OutageInv, OutageTypes
<1>5. OccurrenceInv' /\ StepInv' /\ AnnounceInv' /\ (HealInv => HealInv')
  BY <1>1, <1>3, ActorsAre DEF OutageInv, OccurrenceInv, StepInv, AnnounceInv, HealInv
<1> QED BY <1>4, <1>5 DEF OutageInv

LEMMA OutageStutterInv == ASSUME OutageInv, UNCHANGED outageVars PROVE OutageInv'
BY DEF OutageInv, OutageTypes, OccurrenceInv, StepInv, AnnounceInv, HealInv, outageVars, rowVars,
       logVars, gitlab, hist

LEMMA OutageNextInv == ASSUME OutageInv, [OutageNext]_outageVars PROVE OutageInv'
<1>1. CASE \E status \in {"UP", "DOWN"} : HealthCheck(status)
  BY <1>1, HealthCheckInv
<1>2. CASE TenantUnmonitored
  BY <1>2, TenantUnmonitoredInv
<1>3. ASSUME NEW a \in {"monitor", "retrier"}, Notify(a)
      PROVE  OutageInv'
  BY <1>3, CheckAlreadySentInv, SendInv, SendFailsInv, LogInv DEF Notify
<1>4. ASSUME NEW a \in {"monitor", "notice"}, NotifyResolution(a)
      PROVE  OutageInv'
  BY <1>4, ResolutionCheckInv, CloseIssueInv DEF NotifyResolution
<1>5. CASE Monitor
  BY <1>3, <1>4, <1>5, RaiseAlertInv, LookupAlertInv, ResolveAlertInv DEF Monitor
<1>6. CASE Retrier
  BY <1>3, <1>6, GoesOnInv DEF Retrier
<1>7. CASE Operator
  BY <1>7, UpdateStatusInv, GoesOnInv, OperatorResolvesInv, OutageDeleteInv DEF Operator
<1>8. CASE Restart
  BY <1>8, OutageRestartInv
<1>9. CASE UNCHANGED outageVars
  BY <1>9, OutageStutterInv
<1> QED BY <1>1, <1>2, <1>4, <1>5, <1>6, <1>7, <1>8, <1>9 DEF OutageNext

-----------------------------------------------------------------------------
(* OutageAlerts: the theorems.                                               *)

\* The types hold, an occurrence is raised or healed after it began, and a send that
\* is logged has its issue.
THEOREM OutageInvariance == OutageSpec => []OutageInv
<1>1. OutageInit => OutageInv
  BY OutageInitInv
<1>2. OutageInv /\ [OutageNext]_outageVars => OutageInv'
  BY OutageNextInv
<1> QED BY <1>1, <1>2, PTL DEF OutageSpec

\* An outage the manager tracks, and which no silence covered when it was seen, is
\* announced or left to the retrier, whatever fails but the save of the alert and
\* the log, whatever operators do, and however often the server restarts.
THEOREM OutagesAnnounced ==
  ASSUME Faults \cap {"save", "log"} = {}
  PROVE  OutageSpec => []AnnouncedOrRetried
<1>1. OutageInv => AnnouncedOrRetried
  <2> SUFFICES ASSUME OutageInv PROVE AnnouncedOrRetried
    OBVIOUS
  <2>1. OutageTypes /\ AnnounceInv
    BY DEF OutageInv
  <2>2. AllIdle /\ prev = "DOWN" /\ ~hushed /\ Unattended /\ occ \in raised => sent[occ] # 0 \/ occ \in failed
    BY <2>1, ActorsAre DEF AnnounceInv, AllIdle, Unattended
  <2> QED BY <2>1, <2>2 DEF AnnouncedOrRetried
<1> QED BY <1>1, OutageInvariance, PTL

\* An outage after a recovery is a new occurrence, whatever fails and whatever
\* operators do, unless one acts on a page that is out of date.
THEOREM OutagesAreNew ==
  ASSUME "late" \notin Ops
  PROVE  OutageSpec => []NewOutageNewOccurrence
<1>1. OutageInv => NewOutageNewOccurrence
  BY DEF OutageInv, OccurrenceInv, OutageTypes, Occs, HealInv, NewOutageNewOccurrence
<1> QED BY <1>1, OutageInvariance, PTL
=============================================================================
