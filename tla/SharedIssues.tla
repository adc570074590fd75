---------------------------- MODULE SharedIssues ----------------------------
(* The announcements of one identity provider's alerts (internal/            *)
(* notifications: the service, its log, the GitLab, Slack and email          *)
(* notifiers).  The alerts of a provider share one GitLab issue, which       *)
(* closes when the last of them resolves.  The configuration check raises,   *)
(* supersedes and resolves the alerts; operators change them over HTTP, and  *)
(* an operator's resolution is announced by a goroutine of its own.  Every   *)
(* database query and every request to a channel is a step.                  *)
EXTENDS Integers, Sequences, FiniteSets

CONSTANTS
  Alerts,       \* alerts of one provider
  Replaces,     \* [Alerts -> SUBSET Alerts]: the alerts an alert replaces
  Meets,        \* [Alerts -> SUBSET Channels]: channels whose minimum severity it meets
  Channels,     \* enabled channels, of "gitlab", "slack" and "email"
  Worlds,       \* sets of problems the check can find together
  MaxOcc,       \* bound: occurrences of an alert
  MaxIssues,    \* bound: issues, more than can be opened
  MaxFaults,    \* bound: failed queries and requests
  MaxWorlds,    \* bound: changes of the provider
  MaxPeople     \* bound: changes by people, here or in GitLab

ASSUME NoticeAssumption ==
  /\ Channels \subseteq {"gitlab", "slack", "email"} /\ Meets \in [Alerts -> SUBSET Channels]
  /\ Replaces \in [Alerts -> SUBSET Alerts] /\ Worlds \subseteq SUBSET Alerts
  /\ \A a \in Alerts : \A b \in Replaces[a] : Replaces[b] = {} /\ \A w \in Worlds : ~({a, b} \subseteq w)
  /\ {MaxOcc, MaxIssues, MaxFaults, MaxWorlds, MaxPeople} \subseteq Nat

VARIABLES
  found,     \* the problems the provider has
  rows,      \* configuration_alerts: [status, occ], occ counting the occurrences
  log,       \* notification_logs: the sends that succeeded, in order
  issues,    \* GitLab: the state of each issue, in the order they were opened
  calls,     \* what the check and the operator's request are doing
  told,      \* history: how often the current occurrence was announced, per channel
  excused,   \* history: issues a person closed, a failure or a race spoiled
  doubt,     \* history: alerts with a failed lookup, a failed log or a lost answer
  happened   \* how often each bounded event has happened

issueVars == <<found, rows, log, issues, calls, told, excused, doubt, happened>>

Callers == {"check", "operator"}
NoIssue == 0
NoAlert == "none"
Idle == [pc |-> "idle", alert |-> NoAlert, todo |-> {}, issue |-> NoIssue, others |-> FALSE]
IssueIDs == DOMAIN issues
IsOpen(i) == i \in IssueIDs /\ issues[i] = "open"

IssuesInit ==
  /\ found \in Worlds /\ rows = [a \in Alerts |-> [status |-> "none", occ |-> 0]]
  /\ log = <<>> /\ issues = <<>> /\ calls = [p \in Callers |-> Idle]
  /\ told = [a \in Alerts |-> [c \in Channels |-> 0]]
  /\ excused = {} /\ doubt = {}
  /\ happened = [faults |-> 0, worlds |-> 0, people |-> 0]

Happens(what, max) == happened[what] < max /\ happened' = [happened EXCEPT ![what] = @ + 1]
Failure == Happens("faults", MaxFaults)

-----------------------------------------------------------------------------
(* The log.                                                                  *)

OpenAlert(a) == rows[a].status \in {"active", "acknowledged"}

\* heldIssues: the sends of an alert's current occurrence.
Sends(a, c) == {n \in DOMAIN log : log[n].alert = a /\ log[n].channel = c /\ log[n].occ = rows[a].occ}
Holds(a, i) == \E n \in Sends(a, "gitlab") : log[n].issue = i

\* Mutant of AlreadySent: a send of an earlier occurrence counts.
SentEver(a, c) == \E n \in DOMAIN log : log[n].alert = a /\ log[n].channel = c

\* CheckAlreadySent.
AlreadySent(a, c) == Sends(a, c) # {}

Latest(N) == IF N = {} THEN NoIssue ELSE log[CHOOSE n \in N : \A k \in N : k <= n].issue

\* FindSharedExternalID, FindHeldExternalID.
FindShared == Latest(UNION {Sends(a, "gitlab") : a \in {b \in Alerts : OpenAlert(b)}})
FindHeld(S) == Latest(UNION {Sends(a, "gitlab") : a \in S})

\* Mutant of sharedIssue: only the issues of open alerts are looked for.
sharedIssueOpen(a) == FindShared

\* sharedIssue: the issue the open alerts hold or, failing that, one held by
\* an alert this one supersedes.
sharedIssue(a) == IF FindShared # NoIssue THEN FindShared ELSE FindHeld(Replaces[a])

\* GetByAlertAndChannel: the most recent send, of any occurrence.
LatestIssue(a) == Latest({n \in DOMAIN log : log[n].alert = a /\ log[n].channel = "gitlab"})

\* Mutant of SharedByOthers: acknowledged alerts do not count.
SharedByActive(a, i) == \E b \in Alerts \ {a} : rows[b].status = "active" /\ Holds(b, i)

\* CountSharingAlerts.
SharedByOthers(a, i) == \E b \in Alerts \ {a} : OpenAlert(b) /\ Holds(b, i)

-----------------------------------------------------------------------------
(* A call's next channel.  The sends go to GitLab, Slack and email in turn,  *)
(* whatever became of the one before; a resolution to Slack and GitLab.      *)

ResolutionSteps == {"rcheck", "rpost", "rcount", "rnote", "close"}

ChannelOf(call) ==
  IF call.pc \in ResolutionSteps THEN IF "slack" \in call.todo THEN "slack" ELSE "gitlab"
  ELSE IF "gitlab" \in call.todo THEN "gitlab" ELSE IF "slack" \in call.todo THEN "slack" ELSE "email"

Call(p) == calls[p]
Channel(p) == ChannelOf(calls[p])
At(p, pc) == calls[p].pc = pc
Goto(p, pc) == calls' = [calls EXCEPT ![p].pc = pc]

NextChannel(call) ==
  IF call.todo \subseteq {ChannelOf(call)} THEN Idle
  ELSE [call EXCEPT !.todo = @ \ {ChannelOf(call)}, !.pc = IF call.pc \in ResolutionSteps THEN "rcheck" ELSE "check"]
Skip(p) == calls' = [calls EXCEPT ![p] = NextChannel(@)]

Resolution(a) ==
  LET todo == Channels \cap {"slack", "gitlab"} IN
  IF todo = {} THEN Idle ELSE [Idle EXCEPT !.pc = "rcheck", !.alert = a, !.todo = todo]

Announcement(a) ==
  IF Meets[a] = {} THEN Idle ELSE [Idle EXCEPT !.pc = "check", !.alert = a, !.todo = Meets[a]]

Tell(p, c) == told' = [told EXCEPT ![Call(p).alert][c] = @ + 1]

\* The issues a resolution that goes no further, or comes too late, leaves.
LeftBy(a) ==
  {i \in IssueIDs : \E n \in DOMAIN log :
     log[n].issue = i /\ (log[n].alert = a \/ (a \in Alerts /\ log[n].alert \in Replaces[a]))}

\* A new occurrence of a; nobody was told of it yet.
Starts(a, status) ==
  /\ rows' = [rows EXCEPT ![a] = [status |-> status, occ |-> @.occ + 1]]
  /\ told' = [told EXCEPT ![a] = [c \in Channels |-> 0]]

\* Whether the resolution of a is still being announced.  A new occurrence that
\* starts meanwhile spoils a's issues: the resolution may act on the wrong one.
Resolving(a) ==
  \E p \in Callers : calls[p].alert = a /\ calls[p].pc \in ResolutionSteps

-----------------------------------------------------------------------------
(* The environment: the provider, people in GitLab, operators.               *)

\* A certificate that has expired does not become one that expires soon.
ProviderChanges(w) ==
  /\ Happens("worlds", MaxWorlds) /\ w # found
  /\ \A a \in w, b \in Alerts : a \in Replaces[b] => rows[b].occ = 0 /\ b \notin found
  /\ found' = w
  /\ UNCHANGED <<rows, log, issues, calls, told, excused, doubt>>

ClosedByHand(i) ==
  /\ Happens("people", MaxPeople) /\ issues[i] = "open"
  /\ issues' = [issues EXCEPT ![i] = "closed"] /\ excused' = excused \cup {i}
  /\ UNCHANGED <<found, rows, log, calls, told, doubt>>

\* updateAlertStatus.  An alert made open again by hand spoils its issues: it
\* reopens none of them.
OperatorSets(a, status) ==
  /\ Happens("people", MaxPeople)
  /\ rows[a].status \notin {"none", status}
  /\ IF rows[a].status = "resolved" /\ status = "active"
     THEN /\ rows[a].occ < MaxOcc /\ Starts(a, status)
          /\ excused' = excused \cup LeftBy(a)
          /\ doubt' = IF calls["check"].alert = a THEN doubt \cup {a} ELSE doubt
     ELSE /\ rows' = [rows EXCEPT ![a].status = status] /\ UNCHANGED <<told, doubt>>
          /\ excused' = IF OpenAlert(a) THEN excused ELSE excused \cup {i \in IssueIDs : Holds(a, i)}
  /\ UNCHANGED <<found, log, issues, calls>>

\* resolveAlertByID reads the alert, resolves it, and announces the resolution
\* of one that was not resolved yet.
OperatorReads(a) ==
  /\ At("operator", "idle") /\ Happens("people", MaxPeople)
  /\ rows[a].status \notin {"none", "resolved"}
  /\ calls' = [calls EXCEPT !["operator"] = [Idle EXCEPT !.pc = "resolve", !.alert = a]]
  /\ UNCHANGED <<found, rows, log, issues, told, excused, doubt>>

-----------------------------------------------------------------------------
(* The configuration check.                                                  *)

\* executeCheck saves an alert it finds.  A new one, and one that was resolved,
\* is announced; an active one is announced again, every hour, which changes
\* something only where a channel has not been told yet.
Detect(a) ==
  /\ At("check", "idle") /\ a \in found
  /\ \/ /\ rows[a].status \in {"none", "resolved"} /\ rows[a].occ < MaxOcc
        /\ Starts(a, "active")
        /\ excused' = IF Resolving(a) THEN excused \cup LeftBy(a) ELSE excused
     \/ /\ rows[a].status = "active" /\ \E c \in Meets[a] : ~AlreadySent(a, c)
        /\ UNCHANGED <<rows, told, excused>>
  /\ calls' = [calls EXCEPT !["check"] = [Idle EXCEPT !.pc = "supersede", !.alert = a]]
  /\ UNCHANGED <<found, log, issues, doubt, happened>>

\* resolveReplaced, without a notice; then NotifyAlert.  An alert resolved before
\* it replaces others leaves their issues behind.
resolveReplaced ==
  LET a == Call("check").alert IN
  /\ At("check", "supersede")
  /\ \/ /\ rows' = [b \in Alerts |-> IF b \in Replaces[a] /\ rows[b].status # "none"
                                     THEN [rows[b] EXCEPT !.status = "resolved"] ELSE rows[b]]
        /\ UNCHANGED happened
     \/ Failure /\ UNCHANGED rows
  /\ excused' = IF rows[a].status = "resolved" THEN excused \cup LeftBy(a) ELSE excused
  /\ calls' = [calls EXCEPT !["check"] = Announcement(a)]
  /\ UNCHANGED <<found, log, issues, told, doubt>>

\* ResolveCleared: the open alerts whose problem is gone.
ListOpen(a) ==
  /\ At("check", "idle") /\ a \notin found /\ OpenAlert(a)
  /\ calls' = [calls EXCEPT !["check"] = [Idle EXCEPT !.pc = "resolve", !.alert = a]]
  /\ UNCHANGED <<found, rows, log, issues, told, excused, doubt, happened>>

ResolveListed(p) ==
  /\ At(p, "resolve")
  /\ \/ /\ rows' = [rows EXCEPT ![Call(p).alert].status = "resolved"]
        /\ calls' = [calls EXCEPT ![p] = Resolution(@.alert)] /\ UNCHANGED happened
     \/ Failure /\ calls' = [calls EXCEPT ![p] = Idle] /\ UNCHANGED rows
  /\ UNCHANGED <<found, log, issues, told, excused, doubt>>

-----------------------------------------------------------------------------
(* sendToChannel.                                                            *)

\* A failed lookup sends anyway.
CheckAlreadySent(p) ==
  /\ At(p, "check")
  /\ \/ /\ IF AlreadySent(Call(p).alert, Channel(p)) THEN Skip(p)
           ELSE Goto(p, IF Channel(p) = "gitlab" THEN "find" ELSE "post")
        /\ UNCHANGED <<doubt, happened>>
     \/ /\ Failure /\ doubt' = doubt \cup {Call(p).alert}
        /\ Goto(p, IF Channel(p) = "gitlab" THEN "find" ELSE "post")
  /\ UNCHANGED <<found, rows, log, issues, told, excused>>

\* Where the look for a shared issue fails, a new one is opened.  An issue that
\* the alert (sent before a failed lookup) or one it replaces holds is left behind
\* where another is found: the one of the open alerts comes first.
Find(p) ==
  LET a == Call(p).alert
      held == {i \in IssueIDs : i = FindShared \/ \E b \in {a} \cup Replaces[a] : Holds(b, i)}
  IN
  /\ At(p, "find")
  /\ \/ /\ calls' = [calls EXCEPT ![p].issue = sharedIssue(a),
                                  ![p].pc = IF sharedIssue(a) = NoIssue THEN "create" ELSE "read"]
        /\ excused' = excused \cup
                        (held \ {IF FindShared # NoIssue THEN FindShared ELSE FindHeld(Replaces[a])})
        /\ UNCHANGED happened
     \/ Failure /\ Goto(p, "create") /\ excused' = excused \cup held
  /\ UNCHANGED <<found, rows, log, issues, told, doubt>>

\* createIssue; its answer may be lost.
createIssue(p) ==
  LET i == Len(issues) + 1 IN
  /\ At(p, "create") /\ i <= MaxIssues
  /\ \/ /\ issues' = Append(issues, "open") /\ Tell(p, "gitlab")
        /\ calls' = [calls EXCEPT ![p].issue = i, ![p].pc = "log"]
        /\ UNCHANGED <<excused, doubt, happened>>
     \/ /\ Failure /\ issues' = Append(issues, "open") /\ Tell(p, "gitlab") /\ Skip(p)
        /\ excused' = excused \cup {i} /\ doubt' = doubt \cup {Call(p).alert}
     \/ Failure /\ Skip(p) /\ UNCHANGED <<issues, told, excused, doubt>>
  /\ UNCHANGED <<found, rows, log>>

\* ShareIssue reads the issue, reopens it if it is closed, then comments.
readIssue(p) ==
  /\ At(p, "read")
  /\ \/ Goto(p, IF issues[Call(p).issue] = "closed" THEN "edit" ELSE "note") /\ UNCHANGED happened
     \/ Failure /\ Skip(p)
  /\ UNCHANGED <<found, rows, log, issues, told, excused, doubt>>

reopenIssue(p) ==
  /\ At(p, "edit")
  /\ \/ issues' = [issues EXCEPT ![Call(p).issue] = "open"] /\ Goto(p, "note") /\ UNCHANGED <<happened, excused>>
     \/ /\ Failure /\ Skip(p)
        /\ \/ UNCHANGED <<issues, excused>>
           \/ issues' = [issues EXCEPT ![Call(p).issue] = "open"] /\ excused' = excused \cup {Call(p).issue}
  /\ UNCHANGED <<found, rows, log, told, doubt>>

\* A comment on the issue, or a message to Slack or by email.  An issue reopened
\* for a comment that then fails stays open for nobody: the failure spoils it.
Post(p) ==
  /\ At(p, "note") \/ At(p, "post")
  /\ \/ Tell(p, Channel(p)) /\ Goto(p, "log") /\ UNCHANGED <<doubt, happened, excused>>
     \/ /\ Failure /\ Skip(p)
        /\ excused' = IF At(p, "note") THEN excused \cup {Call(p).issue} ELSE excused
        /\ \/ UNCHANGED <<told, doubt>>
           \/ Tell(p, Channel(p)) /\ doubt' = doubt \cup {Call(p).alert}
  /\ UNCHANGED <<found, rows, log, issues>>

\* What another call is doing when the send on an issue is logged.
ToResolve(p) == \E q \in Callers \ {p} : calls[q].pc = "rcheck" /\ calls[q].alert = Call(p).alert
Closing(p) ==
  \E q \in Callers \ {p} :
    /\ calls[q].issue = Call(p).issue
    /\ calls[q].pc \in {"rnote", "close"} \/ (calls[q].pc = "rcount" /\ calls[q].alert = Call(p).alert)
TooLate(p) ==
  /\ Channel(p) = "gitlab"
  /\ Closing(p) \/ (rows[Call(p).alert].status = "resolved" /\ ~ToResolve(p))

\* Mutant of LogNotification: a shared issue is not logged.
LogOwnIssues(p) ==
  /\ At(p, "log") /\ Skip(p)
  /\ log' = IF Call(p).issue # Len(issues) THEN log
            ELSE Append(log, [alert |-> Call(p).alert, occ |-> rows[Call(p).alert].occ,
                              channel |-> Channel(p), issue |-> Call(p).issue])
  /\ UNCHANGED <<found, rows, issues, told, excused, doubt, happened>>

\* LogNotification.  A send logged while another call closes its issue, or after
\* the alert's resolution looked for one, and one that is not logged, spoils it.
LogNotification(p) ==
  /\ At(p, "log") /\ Skip(p)
  /\ \/ /\ log' = Append(log, [alert |-> Call(p).alert, occ |-> rows[Call(p).alert].occ,
                               channel |-> Channel(p), issue |-> IF Channel(p) = "gitlab" THEN Call(p).issue ELSE NoIssue])
        /\ excused' = IF TooLate(p) THEN excused \cup {Call(p).issue} ELSE excused
        /\ UNCHANGED <<doubt, happened>>
     \/ /\ Failure /\ doubt' = doubt \cup {Call(p).alert}
        /\ excused' = IF Channel(p) = "gitlab" THEN excused \cup {Call(p).issue} ELSE excused
        /\ UNCHANGED log
  /\ UNCHANGED <<found, rows, issues, told>>

-----------------------------------------------------------------------------
(* sendResolutionToSlack and sendResolutionToGitLab.                         *)

\* Nothing is said where this occurrence was not announced.  A resolution that
\* comes after the alert was raised again acts on the new occurrence's issue.
ResolutionCheck(p) ==
  LET a == Call(p).alert IN
  /\ At(p, "rcheck")
  /\ \/ /\ UNCHANGED happened
        /\ IF ~AlreadySent(a, Channel(p))
           THEN /\ Skip(p)
                /\ excused' = IF Channel(p) = "gitlab" THEN excused \cup LeftBy(a) ELSE excused
           ELSE IF Channel(p) = "slack" THEN Goto(p, "rpost") /\ UNCHANGED excused
           ELSE /\ calls' = [calls EXCEPT ![p].issue = LatestIssue(a), ![p].pc = "rcount"]
                /\ excused' = IF OpenAlert(a) THEN excused \cup LeftBy(a) ELSE excused
     \/ /\ Failure /\ Skip(p)
        /\ excused' = IF Channel(p) = "gitlab" THEN excused \cup LeftBy(a) ELSE excused
  /\ UNCHANGED <<found, rows, log, issues, told, doubt>>

\* NotifyResolution: one message, tried once.
NotifyResolution(p) ==
  /\ At(p, "rpost") /\ Skip(p)
  /\ UNCHANGED happened \/ Failure
  /\ UNCHANGED <<found, rows, log, issues, told, excused, doubt>>

\* CountSharingAlerts.
CountSharing(p) ==
  LET c == Call(p) IN
  /\ At(p, "rcount")
  /\ \/ /\ calls' = [calls EXCEPT ![p].others = SharedByOthers(c.alert, c.issue), ![p].pc = "rnote"]
        /\ UNCHANGED <<happened, excused>>
     \/ Failure /\ Skip(p) /\ excused' = excused \cup {c.issue}
  /\ UNCHANGED <<found, rows, log, issues, told, doubt>>

\* ResolveIssue: comment, then close unless other open alerts hold the issue.
CommentResolved(p) ==
  /\ At(p, "rnote")
  /\ \/ (IF Call(p).others THEN Skip(p) ELSE Goto(p, "close")) /\ UNCHANGED <<happened, excused>>
     \/ Failure /\ Skip(p) /\ excused' = excused \cup {Call(p).issue}
  /\ UNCHANGED <<found, rows, log, issues, told, doubt>>

\* A call that shares the issue and has read it as open spoils it.
CloseIssue(p) ==
  LET i == Call(p).issue
      sharing == \E q \in Callers \ {p} : calls[q].pc \in {"note", "log"} /\ calls[q].issue = i
  IN
  /\ At(p, "close") /\ Skip(p)
  /\ \/ /\ issues' = [issues EXCEPT ![i] = "closed"]
        /\ excused' = IF sharing THEN excused \cup {i} ELSE excused
        /\ UNCHANGED happened
     \/ Failure /\ excused' = excused \cup {i} /\ UNCHANGED issues
  /\ UNCHANGED <<found, rows, log, told, doubt>>

-----------------------------------------------------------------------------
Step(p) ==
  \/ ResolveListed(p) \/ CheckAlreadySent(p) \/ Find(p) \/ createIssue(p)
  \/ readIssue(p) \/ reopenIssue(p) \/ Post(p) \/ LogNotification(p)
  \/ ResolutionCheck(p) \/ NotifyResolution(p) \/ CountSharing(p)
  \/ CommentResolved(p) \/ CloseIssue(p)

CheckStep ==
  \/ resolveReplaced \/ Step("check")
  \/ \E a \in Alerts : Detect(a) \/ ListOpen(a)

IssuesNext ==
  \/ \E w \in Worlds : ProviderChanges(w)
  \/ \E i \in IssueIDs : ClosedByHand(i)
  \/ \E a \in Alerts : OperatorReads(a)
  \/ \E a \in Alerts, status \in {"active", "acknowledged", "ignored"} : OperatorSets(a, status)
  \/ CheckStep \/ Step("operator")

IssuesSpec == IssuesInit /\ [][IssuesNext]_issueVars

\* The check runs again and again, and a goroutine that was started goes on.
FairIssuesSpec == IssuesSpec /\ WF_issueVars(CheckStep) /\ WF_issueVars(Step("operator"))

-----------------------------------------------------------------------------
(* Properties.                                                               *)

\* The types of the state; a call that edits an issue has one.
IssueTypes ==
  /\ found \subseteq Alerts /\ doubt \subseteq Alerts /\ excused \subseteq IssueIDs
  /\ \A a \in Alerts : /\ rows[a].status \in {"none", "active", "acknowledged", "ignored", "resolved"}
                       /\ rows[a].occ \in 0..MaxOcc
  /\ \A i \in IssueIDs : issues[i] \in {"open", "closed"}
  /\ \A p \in Callers : calls[p].pc \in {"read", "edit", "note", "rcount", "rnote", "close"}
                          => calls[p].issue \in IssueIDs

\* "The issue stays open until the last alert on this resource resolves": an
\* issue an open alert holds is open, however the alerts of the provider were
\* raised, superseded, acknowledged and resolved, unless a person closed it or
\* the close overlapped the announcement that joined it.  The types hold.
HeldIssueOpen ==
  IssueTypes /\ \A a \in Alerts, i \in IssueIDs :
    OpenAlert(a) /\ Holds(a, i) /\ i \notin excused => issues[i] = "open"

\* Once per occurrence: however often a run asks for it again, an occurrence is
\* announced once on a channel, unless its lookup, its answer or its log failed.
AnnouncedOnce == \A a \in Alerts, c \in Channels : told[a][c] > 1 => a \in doubt

\* A failed send is repeated: while the problem is there and the alert is active,
\* every channel whose minimum severity it meets is told of the occurrence in the
\* end, unless the log took one for sent that was not.
EveryChannelTold ==
  \A a \in Alerts :
    []<>(rows[a].status = "active" /\ a \in found /\ a \notin doubt
           => \A c \in Meets[a] : told[a][c] > 0)

\* An issue does not outlive its alerts, not even where the alert that opened it
\* was superseded without a notice: an open one belongs to an alert that is not
\* resolved, or to one such an alert superseded, or is being dealt with.
NoIssueLeft ==
  \A i \in IssueIDs : IsOpen(i) /\ i \notin excused =>
    \/ \E a \in Alerts : rows[a].status \notin {"none", "resolved"} /\ i \in LeftBy(a)
    \/ \E p \in Callers : /\ calls[p].pc # "idle"
                          /\ calls[p].issue = i \/ i \in LeftBy(calls[p].alert)
=============================================================================
