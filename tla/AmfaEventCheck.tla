---------------------------- MODULE AmfaEventCheck --------------------------
(* The AMFA checks that raise one alert per event (internal/amfacheck: the   *)
(* risk-rejected and the VPN check, their event cursor and the service): a   *)
(* poll reads the events after the cursor, less lateEventWindow, alerts the  *)
(* ones it has not handled, and Commit moves the cursor past the events      *)
(* whose alert is stored.  Cursor and handled events are in memory; a        *)
(* restarted check resumes from the newest alert.  One check on one realm.   *)
(* Times are in half ticks, the odd ones a nanosecond before an event.       *)
EXTENDS Integers, FiniteSets

CONSTANTS
  Events,          \* AMFA events the check is about: rejected, or risky over a VPN
  EventTime,       \* [Events -> time]
  LateEventWindow, Lookback,
  PageCap,         \* events a read returns at most: maxPagesPerCall * defaultPageSize
  MaxTime,         \* bound: the clock
  MaxFaults,       \* bound: failed reads, lookups, saves and sends
  MaxCrashes,      \* bound: restarts
  MaxSilences      \* bound: a silence's window opens or ends

ASSUME EventAssumption ==
  /\ EventTime \in [Events -> {2 * t : t \in 0..MaxTime}]
  /\ LateEventWindow \in Nat /\ Lookback \in Nat /\ PageCap \in Nat \ {0}
  /\ MaxTime \in Nat /\ MaxFaults \in Nat /\ MaxCrashes \in Nat /\ MaxSilences \in Nat

VARIABLES
  now,         \* the clock
  committed,   \* AMFA's table: the events stored so far, in any order
  cursor,      \* eventCursor.cursor
  handled,     \* eventCursor.handled
  pending,     \* eventCursor.pending: the events of the last read
  run,         \* the run under way: [pc, todo, event, stored]
  rows,        \* configuration_alerts: [event -> "none", "live" or "deleted"]
  latest,      \* the newest first_detected of the check's alerts
  announced,   \* [event -> times its alert was announced]
  silenced,    \* whether a silence covers the realm
  due,         \* history: events stored in AMFA in time and not dealt with yet
  quieted,     \* history: events silenced since the process started
  used         \* how often each bounded event has happened

vars == <<now, committed, cursor, handled, pending, run, rows, latest, announced,
          silenced, due, quieted, used>>
memory == <<cursor, handled, pending>>
store == <<rows, latest, announced>>

\* Before every cursor.
Unset == -(Lookback + 2)
None == "none"
NoRun == [pc |-> "idle", todo |-> {}, event |-> None, stored |-> {}]

Largest(S) == CHOOSE x \in S : \A y \in S : y <= x
Smallest(S) == CHOOSE x \in S : \A y \in S : x <= y
Times(S) == {EventTime[e] : e \in S}

Init ==
  /\ now = 0 /\ committed = {} /\ cursor = Unset /\ handled = {} /\ pending = {}
  /\ run = NoRun
  /\ rows = [e \in Events |-> "none"] /\ latest = Unset
  /\ announced = [e \in Events |-> 0]
  /\ silenced = FALSE /\ due = {} /\ quieted = {}
  /\ used = [faults |-> 0, crashes |-> 0, silences |-> 0]

Use(what, max) == used[what] < max /\ used' = [used EXCEPT ![what] = @ + 1]
Fault == Use("faults", MaxFaults)

-----------------------------------------------------------------------------
(* The environment.                                                          *)

Tick ==
  /\ now < 2 * MaxTime
  /\ now' = now + 2
  /\ UNCHANGED <<committed, memory, run, store, silenced, due, quieted, used>>

\* AMFA stores an event, some time after it happened; in time is within
\* lateEventWindow, once the check has started to read.
AmfaCommits(e) ==
  /\ e \notin committed /\ EventTime[e] <= now
  /\ committed' = committed \cup {e}
  /\ due' = IF now - EventTime[e] < LateEventWindow
               /\ (cursor # Unset => EventTime[e] > cursor - LateEventWindow)
            THEN due \cup {e} ELSE due
  /\ UNCHANGED <<now, memory, run, store, silenced, quieted, used>>

SilenceChanges ==
  /\ Use("silences", MaxSilences)
  /\ silenced' = ~silenced
  /\ UNCHANGED <<now, committed, memory, run, store, due, quieted>>

\* An operator deletes the alert: a soft delete.
deleteAlert(e) ==
  /\ rows[e] = "live"
  /\ rows' = [rows EXCEPT ![e] = "deleted"]
  /\ UNCHANGED <<now, committed, memory, run, latest, announced, silenced, due, quieted, used>>

Crash ==
  /\ Use("crashes", MaxCrashes)
  /\ cursor' = Unset /\ handled' = {} /\ pending' = {}
  /\ run' = [NoRun EXCEPT !.pc = "down"]
  /\ quieted' = {}
  /\ UNCHANGED <<now, committed, store, silenced, due>>

Boot ==
  /\ run.pc = "down"
  /\ run' = NoRun
  /\ UNCHANGED <<now, committed, memory, store, silenced, due, quieted, used>>

-----------------------------------------------------------------------------
(* A run.                                                                    *)

\* start: one lookback before now, or before the newest alert where that is
\* earlier; found says whether there is one and it could be read.
Resume(found) ==
  IF found /\ latest < now THEN latest - Lookback ELSE now - Lookback

\* The events after since, oldest first, up to the page cap.
ListSince(since) ==
  LET new == {e \in committed : EventTime[e] > since} IN
  {S \in SUBSET new : /\ Cardinality(S) = IF Cardinality(new) < PageCap THEN Cardinality(new) ELSE PageCap
                      /\ \A e \in S, f \in new \ S : EventTime[e] <= EventTime[f]}

\* read: start sets the cursor on first sight.  What a restart gives up are the
\* events the resumed cursor no longer reaches.
read ==
  /\ run.pc = "idle"
  /\ \E found \in IF latest = Unset THEN {FALSE} ELSE IF used.faults < MaxFaults THEN BOOLEAN ELSE {TRUE} :
       LET from == IF cursor = Unset THEN Resume(found) ELSE cursor IN
       /\ cursor' = from
       /\ due' = {e \in due : EventTime[e] > from - LateEventWindow \/ cursor # Unset}
       /\ \/ \E S \in ListSince(from - LateEventWindow) :
               /\ pending' = S \ handled
               /\ run' = [NoRun EXCEPT !.pc = "alerts", !.todo = S \ handled]
               /\ IF found \/ latest = Unset THEN UNCHANGED used ELSE Fault
          \/ /\ found \/ latest = Unset
             /\ Fault /\ pending' = {} /\ UNCHANGED run
  /\ UNCHANGED <<now, committed, handled, store, silenced, quieted>>

\* The next alert of the run, oldest first.
Next1(e) == run.pc = "alerts" /\ e \in run.todo /\ EventTime[e] = Smallest(Times(run.todo))

\* A silenced event counts as stored.
Silence(e) ==
  /\ Next1(e) /\ silenced
  /\ run' = [run EXCEPT !.todo = @ \ {e}, !.stored = @ \cup {e}]
  /\ quieted' = quieted \cup {e}
  /\ UNCHANGED <<now, committed, memory, store, silenced, due, used>>

\* Mutant of Exists: a deleted alert does not count.
ExistsLive(e) == rows[e] = "live"

\* ExistsIncludingDeleted.
Exists(e) == rows[e] # "none"

\* AlertExists: an event whose alert exists is done; one that cannot be looked
\* up is reread.
AlertExists(e) ==
  /\ Next1(e) /\ ~silenced
  /\ \/ /\ run' = IF Exists(e) THEN [run EXCEPT !.todo = @ \ {e}, !.stored = @ \cup {e}]
                              ELSE [run EXCEPT !.todo = @ \ {e}, !.pc = "save", !.event = e]
        /\ UNCHANGED used
     \/ Fault /\ run' = [run EXCEPT !.todo = @ \ {e}]
  /\ UNCHANGED <<now, committed, memory, store, silenced, due, quieted>>

\* SaveAlert, as a new alert.
SaveAlert ==
  /\ run.pc = "save"
  /\ \/ /\ rows' = [rows EXCEPT ![run.event] = "live"]
        /\ latest' = now
        /\ run' = [run EXCEPT !.pc = "notify", !.stored = @ \cup {run.event}]
        /\ UNCHANGED used
     \/ Fault /\ run' = [run EXCEPT !.pc = "alerts", !.event = None] /\ UNCHANGED <<rows, latest>>
  /\ UNCHANGED <<now, committed, memory, announced, silenced, due, quieted>>

\* NotifyAlert: the one time an event's alert is announced.
NotifyAlert ==
  /\ run.pc = "notify"
  /\ \/ announced' = [announced EXCEPT ![run.event] = @ + 1] /\ UNCHANGED used
     \/ Fault /\ UNCHANGED announced
  /\ run' = [run EXCEPT !.pc = "alerts", !.event = None]
  /\ UNCHANGED <<now, committed, memory, rows, latest, silenced, due, quieted>>

\* Mutant of NextCursor: past every stored event, whatever is before it.
NextCursorNewest == Largest({cursor} \cup Times(run.stored))

\* Past the stored events, but just before the first that is not.
NextCursor ==
  LET next == Largest({cursor} \cup Times(pending \cap run.stored))
      unstored == Times(pending \ run.stored)
  IN  IF unstored # {} /\ Smallest(unstored) <= next THEN Smallest(unstored) - 1 ELSE next

\* Mutant of HandledNow: what was read counts as handled.
HandledNowAll == pending

HandledNow == pending \cap run.stored

\* Commit.  Only events a read can still return are kept in handled.
Commit ==
  /\ run.pc = "alerts" /\ run.todo = {}
  /\ cursor' = NextCursor
  /\ handled' = {e \in handled \cup HandledNow : EventTime[e] > NextCursor - LateEventWindow}
  /\ due' = due \ run.stored
  /\ quieted' = IF NextCursor < cursor THEN quieted \cap handled' ELSE quieted
  /\ pending' = {} /\ run' = NoRun
  /\ UNCHANGED <<now, committed, store, silenced, used>>

-----------------------------------------------------------------------------
RunStep ==
  \/ read \/ SaveAlert \/ NotifyAlert \/ Commit
  \/ \E e \in run.todo : Silence(e) \/ AlertExists(e)

Next ==
  \/ Tick \/ SilenceChanges \/ Crash \/ Boot \/ RunStep
  \/ \E e \in Events : AmfaCommits(e) \/ deleteAlert(e)

Spec == Init /\ [][Next]_vars

\* The ticker starts run after run, a run finishes, and a stopped process is
\* started again.
FairSpec == Spec /\ WF_vars(RunStep) /\ WF_vars(Boot)

-----------------------------------------------------------------------------
(* Properties.                                                               *)

\* The types of the state; the cursor is never ahead of the clock.
TypeOK ==
  /\ now \in 0..2 * MaxTime /\ committed \subseteq Events
  /\ cursor = Unset \/ cursor <= now
  /\ handled \cup pending \cup due \cup quieted \subseteq committed
  /\ run.todo \cup run.stored \subseteq committed
  /\ run.pc \in {"down", "idle", "alerts", "save", "notify"}
  /\ rows \in [Events -> {"none", "live", "deleted"}]

\* Commit: the cursor never moves past an event whose alert is not stored.  An
\* event AMFA stored within lateEventWindow, and that no restart gave up, is
\* returned by the next read, whatever failed, in whatever order events came.
\* The types hold.
NoEventLost ==
  /\ TypeOK
  /\ run.pc = "idle" /\ cursor # Unset =>
       \A e \in due : EventTime[e] > cursor - LateEventWindow /\ e \notin handled

\* An event's alert is announced once at most: not again when its alert is
\* deleted, when the event is read again, or after a restart.  A silenced event is
\* not alerted when the silence ends, as long as the process runs and no failed
\* save of a late event moves the cursor back over it.
AlertedOnce ==
  [][\A e \in Events :
       /\ announced'[e] <= 1
       /\ e \in quieted /\ rows[e] = "none" => rows'[e] = "none"]_vars

\* Every such event is dealt with in the end: alerted, silenced, or given up by
\* a restart.
DueHandled == \A e \in Events : []<>(e \notin due)

\* "The checkers re-request their own open alerts every hour, which already
\* retries a failed send": an open alert is announced in the end.
OpenIsAnnounced ==
  \A e \in Events : (rows[e] = "live") ~> (announced[e] > 0 \/ rows[e] = "deleted")
=============================================================================
