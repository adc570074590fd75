---------------------------- MODULE EventCursor ----------------------------
(***************************************************************************)
(* One realm's position in its Keycloak event stream: the poll of new      *)
(* events, the sweeps that read again for events committed late, and the   *)
(* queue of events whose write failed (internal/keycloak/event_cursor.go,  *)
(* collectEvents and readEvents of internal/keycloak/monitor.go).          *)
(*                                                                         *)
(* Keycloak stamps an event when its flow succeeds and makes it visible    *)
(* when the transaction commits, up to LateWindow later; a node's clock    *)
(* may run Ahead.  `time` is Keycloak's clock and the monitor's runs up to *)
(* Skew ahead of it, by an amount that may change from cycle to cycle (so  *)
(* the monitor's clock may step back).  Events become visible between any  *)
(* two requests of a cycle, requests and writes fail, and the monitor may  *)
(* restart, which loses the cursor.                                        *)
(*                                                                         *)
(* A request reads pages of exact times, oldest first, or, on a Keycloak   *)
(* before 26.2, walks the list back from its newest event one page at a    *)
(* time (getEventsSinceByDate, pkg/keycloakadmin/events.go).  Which of the *)
(* two serves a request may change at any time: the version is read again  *)
(* every hour, and a reply outranks it.                                    *)
(*                                                                         *)
(* Only timing warnings and metrics (covered, visibilityDelay, timing,     *)
(* warnedBehind, backfilling) are left out.                                *)
(***************************************************************************)
EXTENDS Integers, FiniteSets

CONSTANTS Events,         \* events Keycloak may write to the realm
          LateWindow,     \* Keycloak's transaction timeout (lateCommitWindow)
          Margin,         \* eventClockMargin
          Overlap,        \* eventPollOverlap
          SweepInterval,  \* eventSweepInterval
          Lookback, Day,  \* the two lengths of eventLookbackFloor
          PageSize,       \* MaxEventsPerPoll
          PollPages,      \* maxEventPagesPerCycle
          SweepPages,     \* maxEventPagesPerSweepCycle
          DatePages,      \* maxDatePagesPerRead
          MaxRetries,     \* maxEventRetries
          Skew,           \* how far the monitor's clock may run ahead
          Ahead,          \* how far ahead an event may be stamped
          Horizon         \* bound: clock ticks in a behaviour

ASSUME DurationsAssumption ==
    /\ {LateWindow, Margin, Overlap, SweepInterval, Lookback, Skew, Ahead, Horizon} \subseteq Nat
    /\ {Day, PageSize, PollPages, SweepPages, DatePages} \subseteq Nat \ {0}
    /\ MaxRetries \in Nat

\* What eventClockMargin is for: it absorbs the difference of the clocks.
ASSUME ClockAssumption == Skew <= Margin

VARIABLES
    time,       \* Keycloak's clock
    visible,    \* events Keycloak returns
    stamp,      \* their times
    alive,      \* the realm has a cursor
    cur,        \* realmEventCursor: since, lastSweepStart, sweeping, sweepFrom, sweepFirst
    seen,       \* cursor.seen
    retry,      \* cursor.retry
    pc,         \* the events worker: "idle", "sweep" or "poll"
    now,        \* the cycle's time on the monitor's clock
    pos,        \* readEvents: next, nextFirst, pages read, newest
    walk,       \* getEventsSinceByDate: pages walked, events kept of them
    stored,     \* events whose processing succeeded
    dropped,    \* events given up: queue overflow or older than the floor
    missed,     \* events a walk by date passed over
    ever,       \* events processed as new since the cursor was created
    twice,      \* events processed as new again
    back        \* the monitor's clock has stepped back under a cursor

env  == <<time, visible, stamp>>
hist == <<stored, dropped, missed, ever, twice, back>>
vars == <<env, alive, cur, seen, retry, pc, now, pos, walk, hist>>

\* Late enough that every time below is positive, like epoch milliseconds.
StartTime == LateWindow + Margin + Overlap + Lookback + Day + 1

Least(a, b) == IF a < b THEN a ELSE b

----------------------------------------------------------------------------
(* The cursor *)

\* eventLookbackFloor: the start of the day that holds t - Lookback.
Floor(t) == ((t - Lookback) \div Day) * Day

NewCursor(t) ==
    [since |-> IF t - Overlap < Floor(t) THEN Floor(t) ELSE t - Overlap,
     last |-> t, sweeping |-> TRUE, from |-> Floor(t), first |-> 0]

SweepAnchor(c, t) == Least(t, c.last)

\* Mutant: the sweep counts back from its own start, not from the last one's.
SweepStartLate(c, t) == t - LateWindow - Margin

SweepStart(c, t) == SweepAnchor(c, t) - LateWindow - Margin

SweepDue(c, t) == t - c.last >= SweepInterval \/ t < c.last

StartSweepIfDue(c, t) ==
    IF ~c.sweeping /\ SweepDue(c, t)
      THEN [c EXCEPT !.sweeping = TRUE, !.from = SweepStart(c, t), !.first = 0, !.last = t]
      ELSE c

\* Mutant: the cursor follows an event's time wherever it leads.
AdvanceUncapped(c, newest, complete, t) ==
    LET next == newest - (IF complete THEN Overlap ELSE 0) IN
    IF newest # 0 /\ next > c.since THEN [c EXCEPT !.since = next] ELSE c

Advance(c, newest, complete, t) ==
    LET next == Least(newest, t) - (IF complete THEN Overlap ELSE 0) IN
    IF newest # 0 /\ next > c.since THEN [c EXCEPT !.since = next] ELSE c

\* Mutant: prune forgets that a sweep may still be behind.
KeptForSweep(c, s, t) ==
    {e \in s : stamp[e] >= c.since}

\* prune: the seen events that are kept.
Kept(c, s, t) ==
    LET a == Least(SweepStart(c, t), c.since)
        cutoff == IF c.sweeping THEN Least(a, c.from) ELSE a
    IN  {e \in s : stamp[e] >= cutoff}
----------------------------------------------------------------------------
(* Processing a batch: the events in `failed` could not be saved, converted *)
(* or merged and are queued.                                                *)

\* addRetries: beyond MaxRetries the oldest are dropped (the model does not
\* order the queue, so any are).
QueueRetries(queued, failed) ==
    \E over \in SUBSET (queued \union failed) :
        /\ IF Cardinality(queued \union failed) > MaxRetries
             THEN Cardinality((queued \union failed) \ over) = MaxRetries
             ELSE over = {}
        /\ retry' = (queued \union failed) \ over
        /\ dropped' = dropped \union over

Process(batch, failed, queued) ==
    /\ QueueRetries(queued, failed)
    /\ stored' = stored \union (batch \ failed)

\* takeRetries: the queued events older than the floor are given up.
Expired(t) == {e \in retry : stamp[e] < Floor(t)}

\* unseen: the events of a page not fetched before are marked seen.
MarkSeen(page) ==
    /\ seen' = seen \union page
    /\ twice' = twice \union ((page \ seen) \cap ever)
    /\ ever' = ever \union (page \ seen)
----------------------------------------------------------------------------
(* Keycloak *)

Tick ==
    /\ time < StartTime + Horizon
    /\ time' = time + 1
    /\ UNCHANGED <<visible, stamp, alive, cur, seen, retry, pc, now, pos, walk, hist>>

\* An event becomes visible.  No more of them share a millisecond than fit a
\* page, the case in which readEvents' offset fallback is exact.
Commit(e, s) ==
    /\ e \notin visible
    /\ s \in (time - LateWindow) .. (time + Ahead)
    /\ Cardinality({x \in visible : stamp[x] = s}) < PageSize
    /\ visible' = visible \union {e}
    /\ stamp' = [stamp EXCEPT ![e] = s]
    /\ UNCHANGED <<time, alive, cur, seen, retry, pc, now, pos, walk, hist>>

\* No event of A is newer than one of B.
NotAfter(A, B) == \A a \in A, b \in B : stamp[a] <= stamp[b]

\* GetEventsSince with exact times: a page of the events visible from `since`,
\* oldest first, at offset `first`; events that share a time come in any order.
IsPage(page, since, first) ==
    LET found == {e \in visible : stamp[e] >= since} IN
    \E skipped \in SUBSET found :
        /\ Cardinality(skipped) = Least(first, Cardinality(found))
        /\ page \subseteq found \ skipped
        /\ Cardinality(page) = Least(PageSize, Cardinality(found \ skipped))
        /\ NotAfter(skipped, found \ skipped)
        /\ NotAfter(page, found \ (skipped \union page))

\* One request of a walk by date: page number n of the list, newest first (the
\* day it asks from only leaves out events older than the read's start).
IsDatePage(page, n) ==
    \E newer \in SUBSET visible :
        /\ Cardinality(newer) = Least(n * PageSize, Cardinality(visible))
        /\ page \subseteq visible \ newer
        /\ Cardinality(page) = Least(PageSize, Cardinality(visible \ newer))
        /\ NotAfter(visible \ newer, newer)
        /\ NotAfter(visible \ (newer \union page), page)

Full(page) == Cardinality(page) = PageSize
----------------------------------------------------------------------------
(* collectEvents *)

StartRead(since, first) == [next |-> since, first |-> first, page |-> 0, newest |-> 0]
NoRead == StartRead(0, 0)
NoWalk == [page |-> 0, got |-> {}]
NoCursor == NewCursor(StartTime)   \* never read

\* A cycle begins: a realm without a cursor gets one, the events that failed
\* before are processed again (those older than the floor are given up), and a
\* sweep starts if one is due.
BeginCycle ==
    /\ pc = "idle"
    /\ \E off \in 0 .. Skew :
         LET t == time + off
             base == IF alive THEN cur ELSE NewCursor(t)
             c == StartSweepIfDue(base, t)
             expired == Expired(t)
             unread == IF alive THEN {}
                       ELSE {e \in visible \ stored : stamp[e] < Floor(t)}
         IN  /\ now' = t
             /\ back' = (back \/ (alive /\ t < now))
             /\ cur' = c
             /\ pc' = IF c.sweeping THEN "sweep" ELSE "poll"
             /\ pos' = IF c.sweeping THEN StartRead(c.from, c.first) ELSE StartRead(c.since, 0)
             /\ \E failed \in SUBSET (retry \ expired) :
                  /\ retry' = failed
                  /\ stored' = stored \union ((retry \ expired) \ failed)
                  /\ dropped' = dropped \union expired \union unread
    /\ alive' = TRUE
    /\ UNCHANGED <<env, seen, walk, missed, ever, twice>>

\* readEvents, one page: where the read goes on.
Newest(page) == IF page = {} THEN 0
                ELSE CHOOSE s \in {stamp[e] : e \in page} : \A e \in page : stamp[e] <= s

AfterPage(page) ==
    [next   |-> IF Newest(page) > pos.next THEN Newest(page) ELSE pos.next,
     first  |-> IF Newest(page) > pos.next THEN 0 ELSE pos.first + Cardinality(page),
     page   |-> pos.page + 1,
     newest |-> IF Newest(page) > pos.newest THEN Newest(page) ELSE pos.newest]

\* The sweep is over for this cycle: it completed, or goes on from r next time.
EndSweep(complete, r) ==
    /\ cur' = IF complete THEN [cur EXCEPT !.sweeping = FALSE]
              ELSE [cur EXCEPT !.from = r.next, !.first = r.first]
    /\ pc' = "poll"
    /\ pos' = StartRead(cur.since, 0)

\* A page the sweep gets from GetEventsSince, `full` as it reports.
SweepRead(page, full) ==
    LET r == AfterPage(page)
        complete == ~full \/ (cur.since > 0 /\ Newest(page) >= cur.since)
    IN  /\ pc = "sweep"
        /\ MarkSeen(page)
        /\ \E failed \in SUBSET (page \ seen) : Process(page \ seen, failed, retry)
        /\ \/ /\ complete \/ r.page = SweepPages
              /\ EndSweep(complete, r)
           \/ /\ ~complete /\ r.page < SweepPages
              /\ pos' = r
              /\ UNCHANGED <<cur, pc>>
        /\ UNCHANGED <<env, alive, now, back>>

\* The poll is over and so is the cycle: advance and prune.
EndPoll(c, s) ==
    /\ cur' = c
    /\ seen' = Kept(c, s, now)
    /\ pc' = "idle"
    /\ pos' = NoRead

PollRead(page, full) ==
    LET r == AfterPage(page) IN
    /\ pc = "poll"
    /\ twice' = twice \union ((page \ seen) \cap ever)
    /\ ever' = ever \union (page \ seen)
    /\ \E failed \in SUBSET (page \ seen) : Process(page \ seen, failed, retry)
    /\ \/ /\ ~full \/ r.page = PollPages
          /\ EndPoll(Advance(cur, r.newest, ~full, now), seen \union page)
       \/ /\ full /\ r.page < PollPages
          /\ pos' = r
          /\ seen' = seen \union page
          /\ UNCHANGED <<cur, pc>>
    /\ UNCHANGED <<env, alive, now, back>>

\* A page of exact times.
ExactPage(page) ==
    /\ walk = NoWalk
    /\ IsPage(page, pos.next, pos.first)
    /\ SweepRead(page, Full(page)) \/ PollRead(page, Full(page))
    /\ UNCHANGED <<walk, missed>>
----------------------------------------------------------------------------
(* getEventsSinceByDate *)

\* The events a walk kept, without the `first` oldest (an event that came with
\* two of its pages counts twice).
Skips(skipped, got) ==
    /\ Cardinality(skipped) <= pos.first
    /\ Cardinality(skipped) = Least(pos.first, Cardinality(got)) \/ walk.page > 0
    /\ NotAfter(skipped, got \ skipped)

\* What a walk that kept `got` passed over: below the oldest event of a walk
\* cut at DatePages; at a page boundary, where events of one time may change
\* places between two requests; and what the offset skips in their stead.
PassedOver(got, skipped, cut) ==
    {e \in visible \ seen :
        \/ e \in skipped /\ \E x \in visible \ got : stamp[x] = pos.next
        \/ /\ e \notin got /\ stamp[e] >= pos.next
           /\ \/ \E x \in got : stamp[x] = stamp[e]
              \/ cut /\ \A x \in got : stamp[e] < stamp[x]}

\* A page of the walk: it goes on until a page reaches past the start of the
\* read or ends the list, or is cut.  What it returns is never full.
DatePage(batch) ==
    LET got == walk.got \union {e \in batch : stamp[e] >= pos.next}
        reached == ~Full(batch) \/ \E e \in batch : stamp[e] < pos.next
        last == walk.page + 1 = DatePages
    IN  /\ pc \in {"sweep", "poll"}
        /\ IsDatePage(batch, walk.page)
        /\ \/ /\ ~reached /\ ~last
              /\ walk' = [page |-> walk.page + 1, got |-> got]
              /\ UNCHANGED <<env, alive, cur, seen, retry, pc, now, pos, hist>>
           \/ /\ reached \/ last
              /\ \E skipped \in SUBSET got :
                    /\ Skips(skipped, got)
                    /\ missed' = missed \union PassedOver(got, skipped, ~reached)
                    /\ SweepRead(got \ skipped, FALSE) \/ PollRead(got \ skipped, FALSE)
              /\ walk' = NoWalk
----------------------------------------------------------------------------
\* A request fails, and with it the walk it belongs to.
SweepError ==
    /\ pc = "sweep"
    /\ EndSweep(FALSE, pos)
    /\ walk' = NoWalk
    /\ UNCHANGED <<env, alive, seen, retry, now, hist>>

PollError ==
    /\ pc = "poll"
    /\ EndPoll(Advance(cur, pos.newest, FALSE, now), seen)
    /\ walk' = NoWalk
    /\ UNCHANGED <<env, alive, retry, now, hist>>

\* The monitor restarts, or the realm is not monitored for a while
\* (forgetUnmonitoredRealms): the cursor is gone.
Restart ==
    /\ alive
    /\ alive' = FALSE
    /\ pc' = "idle"
    /\ seen' = {}
    /\ retry' = {}
    /\ ever' = {}
    /\ cur' = NoCursor
    /\ pos' = NoRead
    /\ walk' = NoWalk
    /\ UNCHANGED <<env, now, stored, dropped, missed, twice, back>>
----------------------------------------------------------------------------
Init ==
    /\ time = StartTime
    /\ visible = {}
    /\ stamp = [e \in Events |-> 0]
    /\ alive = FALSE
    /\ cur = NoCursor
    /\ seen = {}
    /\ retry = {}
    /\ pc = "idle"
    /\ now = StartTime
    /\ pos = NoRead
    /\ walk = NoWalk
    /\ stored = {}
    /\ dropped = {}
    /\ missed = {}
    /\ ever = {}
    /\ twice = {}
    /\ back = FALSE

Next ==
    \/ Tick
    \/ \E e \in Events : \E s \in (time - LateWindow) .. (time + Ahead) : Commit(e, s)
    \/ BeginCycle
    \/ \E page \in SUBSET visible : ExactPage(page) \/ DatePage(page)
    \/ SweepError
    \/ PollError
    \/ Restart

Spec == Init /\ [][Next]_vars
----------------------------------------------------------------------------
TypeOK ==
    /\ time \in Nat
    /\ visible \in SUBSET Events
    /\ stamp \in [Events -> Int]
    /\ alive \in BOOLEAN
    /\ cur \in [since : Int, last : Int, sweeping : BOOLEAN, from : Int, first : Nat]
    /\ seen \in SUBSET visible
    /\ retry \in SUBSET visible /\ Cardinality(retry) <= MaxRetries
    /\ pc \in {"idle", "sweep", "poll"}
    /\ now \in Int
    /\ pos \in [next : Int, first : Nat, page : Nat, newest : Int]
    /\ walk \in [page : 0 .. DatePages - 1, got : SUBSET visible]
    /\ stored \in SUBSET visible
    /\ dropped \in SUBSET visible
    /\ missed \in SUBSET visible
    /\ ever \in SUBSET visible
    /\ twice \in SUBSET visible
    /\ back \in BOOLEAN

----------------------------------------------------------------------------
(* Properties *)

\* What became of the event is settled: stored, queued for a retry, or given up.
Handled(e) == e \in stored \union retry \union dropped

\* A read from `from` at offset `first` still returns the event.
ReadFrom(e, from, first) == stamp[e] > from \/ (stamp[e] = from /\ first = 0)

\* A request the cursor still has to make returns the event as new.
StillAhead(e) ==
    /\ e \notin seen
    /\ \/ stamp[e] >= cur.since
       \/ cur.sweeping /\ ReadFrom(e, cur.from, cur.first)
       \/ stamp[e] >= cur.last - LateWindow - Margin

\* No event is lost, however late it is committed within the transaction
\* timeout, however long the sweeps take, whichever requests fail and whether
\* they are served by time or by date: every visible event was handled, or lies
\* ahead of the poll, of the running sweep or of the next one.  The exceptions
\* are a walk by date cut at maxDatePagesPerRead, which loses the oldest events
\* (and logs it), and one that finds events of one time swapped at a boundary
\* of its pages.
NoEventLost ==
    alive => \A e \in visible \ missed : Handled(e) \/ StillAhead(e)

\* An event is processed as new once, although the overlap, the sweeps and the
\* page boundaries fetch it again and `seen` is pruned all the time, as long as
\* the monitor's clock does not step back.
ProcessedOnce == back \/ twice = {}

\* A Keycloak node whose clock runs ahead does not carry the cursor past the
\* monitor's own time, where the other nodes still write events; the types hold.
CursorNotAhead == TypeOK /\ (alive /\ ~back => cur.since <= now)

\* As realmEventCursor says, `seen` holds every event back to where the next
\* sweep starts, "so the overlap, sweeps and page boundaries never process an
\* event twice".
NeverTwice == twice = {}

=============================================================================
