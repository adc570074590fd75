------------------------------ MODULE Access ------------------------------
(***************************************************************************)
(* Accounts, web sessions and API tokens: internal/users/postgres,         *)
(* internal/auth, internal/apitoken, and the handlers and the middleware   *)
(* of internal/http/chi that use them.                                     *)
(*                                                                         *)
(* Several server instances share the database.  A session is a signed     *)
(* cookie, so the server can only refuse it: by the blacklist that the     *)
(* instance keeps in memory, by its age, and by comparing the session      *)
(* epoch it carries with the one in its account's row.  A handler that     *)
(* reads a row and later writes it is two steps; one transaction, or one   *)
(* statement, is one step.                                                 *)
(*                                                                         *)
(* A password is a number, 0 for none.  A simple account's subject is its  *)
(* username; all identity provider subjects are one person with one email  *)
(* address.  A request that is refused changes nothing more, and its       *)
(* refusal is left out.                                                    *)
(***************************************************************************)
EXTENDS Naturals, Sequences, FiniteSets, Functions

CONSTANTS Accounts,    \* ids of the rows of the users table
          Names,       \* usernames
          Subjects,    \* "sub" claims of the identity provider
          Instances,   \* server processes
          Callers,     \* requests in progress
          Link,        \* auth.oauth2.link_by_verified_email
          Faults,      \* database writes that may fail: {} or {"revoke"}
          Ops,         \* the requests that are made
          MaxAge,      \* auth.session.max_age
          MaxTime,     \* bound: time that passes
          MaxIssued,   \* bound: sessions and API tokens issued
          MaxCuts      \* bound: changes of an account that end its sessions

ASSUME BoundsAssumption == {MaxAge, MaxTime, MaxIssued, MaxCuts} \subseteq Nat
ASSUME NamesAssumption == Names \intersect Subjects = {}

VARIABLES
    users,      \* the users table
    sessions,   \* the session cookies issued; a session's id is its index
    tokens,     \* the api_tokens table
    blacklist,  \* each instance's SessionBlacklist: session ids and times
    call,       \* the requests in progress
    now,        \* the clock, in units of the session's age
    cuts,       \* how often each account's sessions were to end
    states,     \* how often each account was cut off or restored
    endedHere,  \* sessions logged out through an instance since its start
    renamed     \* whether a subject ever changed hands or was changed

vars == <<users, sessions, tokens, blacklist, call, now, cuts, states, endedHere, renamed>>

Kinds == {"none", "simple", "oauth2"}
NoSubject == "none"
Row == [kind : Kinds, subject : Names \union Subjects \union {NoSubject}, active : BOOLEAN,
        blocked : BOOLEAN, pw : Nat, epoch : Nat, recent : BOOLEAN]
Session == [user : Accounts, subject : Names \union Subjects, epoch : Nat, created : Nat, gen : Nat]
Token == [user : Accounts, revoked : BOOLEAN, expired : BOOLEAN, gen : Nat]
Idle == [pc |-> "idle"]
Call == {Idle}
    \union [pc : {"signed"}, u : Accounts, s : Names, epoch : Nat, gen : Nat]
    \union [pc : {"unknown"}, s : Subjects]
    \union [pc : {"profile", "found", "vouched"}, s : Subjects, u : Accounts]
    \union [pc : {"update"}, u : Accounts, new : Row]
    \union [pc : {"password", "token"}, u : Accounts]

Usable(row) == row.kind # "none" /\ row.active /\ ~row.blocked
Named(s) == {u \in Accounts : users[u].kind # "none" /\ users[u].subject = s}
Sso == {u \in Accounts : users[u].kind = "oauth2"}
\* A hash is new with every password that is set.
Fresh == MaxCuts + 3
FreshHash(u) == cuts[u] + 2

Start(c, r) == call[c] = Idle /\ call' = [call EXCEPT ![c] = r]
Goto(c, pc) == call' = [call EXCEPT ![c].pc = pc]
Return(c) == call' = [call EXCEPT ![c] = Idle]
AllCuts == FoldFunction(+, 0, cuts)
CutAllowed == AllCuts < MaxCuts
\* A sign-in, and a request for a token, only starts within the bound.
Issuing == {c \in Callers : call[c].pc \in {"signed", "unknown", "profile", "found", "vouched", "token"}}
IssueAllowed == Len(sessions) + Len(tokens) + Cardinality(Issuing) < MaxIssued
----------------------------------------------------------------------------
(* The users repository *)

\* endSessions, as a change of a row.
endSessions(row) == [row EXCEPT !.epoch = @ + 1]

\* Mutant: a restored user keeps the tokens.
revokeAtCutOff(u, after) ==
    [t \in DOMAIN tokens |->
        IF tokens[t].user = u /\ ~tokens[t].expired /\ ~Usable(after)
        THEN [tokens[t] EXCEPT !.revoked = TRUE] ELSE tokens[t]]

\* revokeAPITokens: the live ones, when the account is cut off and when it is
\* restored.
revokeAPITokens(u, after) ==
    [t \in DOMAIN tokens |->
        IF tokens[t].user = u /\ ~tokens[t].expired
        THEN [tokens[t] EXCEPT !.revoked = TRUE] ELSE tokens[t]]

\* endAccess: the row, its tokens and its sessions in one transaction.
endAccess(u, row) ==
    /\ users' = [users EXCEPT ![u] = endSessions(row)]
    /\ tokens' = revokeAPITokens(u, row)
    /\ cuts' = [cuts EXCEPT ![u] = @ + 1]
    /\ states' = [states EXCEPT ![u] = @ + 1]

\* Update: the status is written as the caller has it, the other columns when
\* they are not empty.  The row is locked, so `before` is what is replaced.
Update(u, new) ==
    LET before == users[u]
        hash == CASE new.pw = 0 -> before.pw [] new.pw = Fresh -> FreshHash(u) [] OTHER -> new.pw
        row == [before EXCEPT !.active = new.active, !.blocked = new.blocked,
                              !.subject = new.subject,
                              !.pw = hash]
        status == row.active # before.active \/ row.blocked # before.blocked
        password == row.pw # before.pw
    IN  /\ CutAllowed
        /\ \/ status /\ endAccess(u, row)
           \/ /\ ~status /\ password
              /\ users' = [users EXCEPT ![u] = endSessions(row)]
              /\ cuts' = [cuts EXCEPT ![u] = @ + 1]
              /\ UNCHANGED <<tokens, states>>
           \/ /\ ~status /\ ~password
              /\ users' = [users EXCEPT ![u] = row]
              /\ UNCHANGED <<tokens, cuts, states>>

\* Delete deactivates.
Delete(u) ==
    LET row == [users[u] EXCEPT !.active = FALSE] IN
    /\ CutAllowed
    /\ \/ users[u].active /\ endAccess(u, row)
       \/ ~users[u].active /\ UNCHANGED <<users, tokens, cuts, states>>

\* UpdatePasswordWithFlags: one statement, by id, whatever the row is by now.
UpdatePasswordWithFlags(u, pw) ==
    /\ CutAllowed
    /\ users' = [users EXCEPT ![u] = endSessions([@ EXCEPT !.pw = pw])]
    /\ cuts' = [cuts EXCEPT ![u] = @ + 1]
    /\ UNCHANGED <<tokens, states>>

\* CreateSimpleAuthUser: the unique index refuses a subject in use.
CreateSimpleAuthUser(u, n) ==
    /\ users[u].kind = "none" /\ Named(n) = {}
    /\ users' = [users EXCEPT ![u].kind = "simple", ![u].subject = n, ![u].pw = 1,
                              ![u].active = TRUE]

\* CurrentSessionEpoch: 0 when no account has the subject.
CurrentSessionEpoch(s) ==
    IF Named(s) = {} THEN 0 ELSE users[CHOOSE u \in Named(s) : TRUE].epoch

\* Mutant: the epoch moves whatever the cookie carries.
RevokeAnySessions(s, epoch) ==
    users' = [u \in Accounts |-> IF u \in Named(s) THEN endSessions(users[u]) ELSE users[u]]

\* RevokeSessions: the epoch moves only if the session logging out has it.
RevokeSessions(s, epoch) ==
    users' = [u \in Accounts |->
        IF u \in Named(s) /\ users[u].epoch = epoch THEN endSessions(users[u]) ELSE users[u]]
----------------------------------------------------------------------------
(* Sign-in *)

\* A session cookie; gen is the account's count of cuts when its credentials
\* were checked.
Issue(u, s, epoch, gen) ==
    sessions' = Append(sessions, [user |-> u, subject |-> s, epoch |-> epoch,
                                  created |-> now, gen |-> gen])

\* Authenticate: the password is checked against the row as it is read, and
\* the row's epoch is kept with it.
Authenticate(c, n) ==
    /\ "simple" \in Ops /\ IssueAllowed
    /\ \E u \in Named(n) :
        /\ users[u].kind = "simple" /\ Usable(users[u])
        /\ Start(c, [pc |-> "signed", u |-> u, s |-> n, epoch |-> users[u].epoch, gen |-> cuts[u]])
    /\ UNCHANGED <<users, sessions, tokens, blacklist, now, cuts, states, endedHere, renamed>>

\* Mutant: the cookie takes the epoch of the moment it is written.
simpleLoginLateEpoch(c) ==
    /\ call[c].pc = "signed"
    /\ Issue(call[c].u, call[c].s, CurrentSessionEpoch(call[c].s), call[c].gen)
    /\ Return(c)
    /\ UNCHANGED <<users, tokens, blacklist, now, cuts, states, endedHere, renamed>>

handleSimpleLogin(c) ==
    /\ call[c].pc = "signed"
    /\ Issue(call[c].u, call[c].s, call[c].epoch, call[c].gen)
    /\ Return(c)
    /\ UNCHANGED <<users, tokens, blacklist, now, cuts, states, endedHere, renamed>>

\* handleCallback, once the provider has vouched for the subject:
\* FindOrCreateBySubject looks the subject up.
FindBySubject(c, s) ==
    /\ "sso" \in Ops /\ IssueAllowed
    /\ \/ Named(s) = {} /\ Start(c, [pc |-> "unknown", s |-> s])
       \/ \E u \in Named(s) : Start(c, [pc |-> "profile", s |-> s, u |-> u])
    /\ UNCHANGED <<users, sessions, tokens, blacklist, now, cuts, states, endedHere, renamed>>

\* The accounts with the address of this sign-in.
adoptByVerifiedEmail == IF Link THEN Sso ELSE {}

refuseIfEmailInUse == Sso # {}

\* An unknown subject: adopt the account with this verified address, refuse
\* if the address is in use, or create the account.  The unique indexes on
\* email and subject make this what the separate statements amount to.
AdoptOrCreate(c) ==
    LET s == call[c].s IN
    /\ call[c].pc = "unknown"
    /\ \/ /\ \E u \in adoptByVerifiedEmail :
              call' = [call EXCEPT ![c] = [pc |-> "profile", s |-> s, u |-> u]]
          /\ UNCHANGED users
       \/ /\ ~refuseIfEmailInUse
          /\ \E u \in Accounts :
              /\ users[u].kind = "none"
              /\ users' = [users EXCEPT ![u].kind = "oauth2", ![u].subject = s,
                                        ![u].active = TRUE, ![u].recent = TRUE]
              /\ call' = [call EXCEPT ![c] = [pc |-> "found", s |-> s, u |-> u]]
    /\ UNCHANGED <<sessions, tokens, blacklist, now, cuts, states, endedHere, renamed>>

\* onlyIfUsable: a sign-in that will be refused does not count as one.
onlyIfUsable(row) == IF Usable(row) THEN TRUE ELSE row.recent

\* The profile of the account found is written by id, its subject with it.
UpdateProfile(c) ==
    LET s == call[c].s
        u == call[c].u
    IN  /\ call[c].pc = "profile"
        /\ Named(s) \subseteq {u}
        /\ users' = [users EXCEPT ![u].subject = s, ![u].recent = onlyIfUsable(users[u])]
        /\ renamed' = (renamed \/ users[u].subject # s)
        /\ Goto(c, "found")
        /\ UNCHANGED <<sessions, tokens, blacklist, now, cuts, states, endedHere>>

\* FindOrCreateUser: the account is read again by its subject, and an
\* inactive or blocked one is refused.
FindOrCreateUser(c) ==
    /\ call[c].pc = "found"
    /\ \E u \in Named(call[c].s) :
        /\ Usable(users[u])
        /\ call' = [call EXCEPT ![c] = [pc |-> "vouched", s |-> call[c].s, u |-> u]]
    /\ UNCHANGED <<users, sessions, tokens, blacklist, now, cuts, states, endedHere, renamed>>

\* The rest of handleCallback: the epoch is read last.
handleCallback(c) ==
    LET s == call[c].s
        u == call[c].u
    IN  /\ call[c].pc = "vouched"
        /\ Issue(u, s, CurrentSessionEpoch(s), cuts[u])
        /\ Return(c)
        /\ UNCHANGED <<users, tokens, blacklist, now, cuts, states, endedHere, renamed>>
----------------------------------------------------------------------------
(* Sessions: the middleware, logout, the blacklist *)

IsRevoked(i, id) == \E e \in blacklist[i] : e.id = id

\* authenticateFromSession: whether instance i accepts the session, when the
\* account can be looked up.
authenticateFromSession(i, id) ==
    LET x == sessions[id] IN
    /\ ~IsRevoked(i, id)
    /\ now - x.created <= MaxAge
    /\ \E u \in Named(x.subject) :
        u = x.user /\ x.epoch >= users[u].epoch /\ Usable(users[u])

\* Revoke: the entry's time is that of the last revocation.
Revoke(i, id) ==
    blacklist' = [blacklist EXCEPT ![i] = {e \in @ : e.id # id} \union {[id |-> id, at |-> now]}]

\* handleLogout with a cookie that was issued, live or not.  What it promises
\* is counted in cuts: that the account's sessions from before it end, when
\* the write succeeds and the session was one of the current ones and not
\* already rejected by its epoch.
handleLogout(i, id) ==
    LET x == sessions[id]
        own == /\ x.user \in Named(x.subject) /\ x.gen = cuts[x.user]
               /\ x.epoch >= users[x.user].epoch
    IN  /\ "logout" \in Ops
        /\ CutAllowed
        /\ Revoke(i, id)
        /\ endedHere' = [endedHere EXCEPT ![i] = @ \union {id}]
        /\ \/ /\ RevokeSessions(x.subject, x.epoch)
              /\ cuts' = [cuts EXCEPT ![x.user] = IF own THEN @ + 1 ELSE @]
           \/ "revoke" \in Faults /\ UNCHANGED <<users, cuts>>
        /\ UNCHANGED <<sessions, tokens, call, now, states, renamed>>

cleanup(i) ==
    /\ blacklist[i] # {}
    /\ blacklist' = [blacklist EXCEPT ![i] = {e \in @ : now - e.at <= MaxAge}]
    /\ UNCHANGED <<users, sessions, tokens, call, now, cuts, states, endedHere, renamed>>

\* An instance is restarted; its blacklist was in memory.
Restart(i) ==
    /\ "restart" \in Ops /\ blacklist[i] # {}
    /\ blacklist' = [blacklist EXCEPT ![i] = {}]
    /\ endedHere' = [endedHere EXCEPT ![i] = {}]
    /\ UNCHANGED <<users, sessions, tokens, call, now, cuts, states, renamed>>

Tick ==
    /\ now < MaxTime
    /\ now' = now + 1
    /\ UNCHANGED <<users, sessions, tokens, blacklist, call, cuts, states, endedHere, renamed>>
----------------------------------------------------------------------------
(* Account administration *)

\* createUser, and at boot the first administrator (auth.CreateUser).
createUser(u, n) ==
    /\ "create" \in Ops
    /\ CreateSimpleAuthUser(u, n)
    /\ UNCHANGED <<sessions, tokens, blacklist, call, now, cuts, states, endedHere, renamed>>

\* What a request changes of the row it has read.  An identity provider's
\* account only has its status changed here.
Edits(u, row) ==
    {[row EXCEPT !.active = b] : b \in BOOLEAN} \union {[row EXCEPT !.blocked = b] : b \in BOOLEAN}
    \union (IF row.kind # "simple" THEN {}
            ELSE {[row EXCEPT !.pw = Fresh]}
                 \union {[row EXCEPT !.subject = n] : n \in {m \in Names : Named(m) \subseteq {u}}})

\* updateUser reads the user, and changes what it has read.
updateUser(c, u) ==
    /\ "update" \in Ops /\ users[u].kind # "none" /\ CutAllowed
    /\ \E new \in Edits(u, users[u]) : Start(c, [pc |-> "update", u |-> u, new |-> new])
    /\ UNCHANGED <<users, sessions, tokens, blacklist, now, cuts, states, endedHere, renamed>>

\* UpdateUser writes it, whatever the row is by then; the unique index
\* refuses a subject taken meanwhile.
UpdateUser(c) ==
    LET u == call[c].u
        new == call[c].new
    IN  /\ call[c].pc = "update"
        /\ Named(new.subject) \subseteq {u}
        /\ Update(u, new)
        /\ renamed' = (renamed \/ new.subject # users[u].subject)
        /\ Return(c)
        /\ UNCHANGED <<sessions, blacklist, now, endedHere>>

deleteUser(u) ==
    /\ "delete" \in Ops /\ users[u].kind # "none"
    /\ Delete(u)
    /\ UNCHANGED <<sessions, blacklist, call, now, endedHere, renamed>>

\* ChangePasswordByUsername: the old password is checked against the row as
\* it is read, and the new one written by id.
ChangePasswordByUsername(c, n) ==
    /\ "password" \in Ops /\ CutAllowed
    /\ \E u \in Named(n) : users[u].kind = "simple" /\ Start(c, [pc |-> "password", u |-> u])
    /\ UNCHANGED <<users, sessions, tokens, blacklist, now, cuts, states, endedHere, renamed>>

handleChangePassword(c) ==
    /\ call[c].pc = "password"
    /\ UpdatePasswordWithFlags(call[c].u, FreshHash(call[c].u))
    /\ Return(c)
    /\ UNCHANGED <<sessions, blacklist, now, endedHere, renamed>>
----------------------------------------------------------------------------
(* API tokens *)

\* Create reads the user; a cut-off one may be given a token.
createToken(c, u) ==
    /\ "token" \in Ops /\ users[u].kind # "none" /\ IssueAllowed
    /\ Start(c, [pc |-> "token", u |-> u])
    /\ UNCHANGED <<users, sessions, tokens, blacklist, now, cuts, states, endedHere, renamed>>

InsertToken(c) ==
    LET u == call[c].u IN
    /\ call[c].pc = "token"
    /\ tokens' = Append(tokens, [user |-> u, revoked |-> FALSE, expired |-> FALSE, gen |-> states[u]])
    /\ Return(c)
    /\ UNCHANGED <<users, sessions, blacklist, now, cuts, states, endedHere, renamed>>

revokeToken(t) ==
    /\ "token" \in Ops
    /\ ~tokens[t].revoked
    /\ tokens' = [tokens EXCEPT ![t].revoked = TRUE]
    /\ UNCHANGED <<users, sessions, blacklist, call, now, cuts, states, endedHere, renamed>>

\* Time passes for a token, or for the last sign-in of an account.
ExpireToken(t) ==
    /\ ~tokens[t].expired
    /\ tokens' = [tokens EXCEPT ![t].expired = TRUE]
    /\ UNCHANGED <<users, sessions, blacklist, call, now, cuts, states, endedHere, renamed>>

SignInAges(u) ==
    /\ "token" \in Ops
    /\ users[u].kind = "oauth2" /\ users[u].recent
    /\ users' = [users EXCEPT ![u].recent = FALSE]
    /\ UNCHANGED <<sessions, tokens, blacklist, call, now, cuts, states, endedHere, renamed>>

ssoSignInTooOld(row) == row.kind = "oauth2" /\ ~row.recent

Validate(t) ==
    LET row == users[tokens[t].user] IN
    /\ ~tokens[t].revoked /\ ~tokens[t].expired
    /\ Usable(row) /\ ~ssoSignInTooOld(row)
----------------------------------------------------------------------------
NoRow == [kind |-> "none", subject |-> NoSubject,
          active |-> FALSE, blocked |-> FALSE, pw |-> 0, epoch |-> 0, recent |-> FALSE]

Init ==
    /\ users = [u \in Accounts |-> NoRow]
    /\ sessions = <<>> /\ tokens = <<>>
    /\ blacklist = [i \in Instances |-> {}]
    /\ call = [c \in Callers |-> Idle]
    /\ now = 0
    /\ cuts = [u \in Accounts |-> 0] /\ states = [u \in Accounts |-> 0]
    /\ endedHere = [i \in Instances |-> {}]
    /\ renamed = FALSE

Next ==
    \/ Tick
    \/ \E i \in Instances : cleanup(i) \/ Restart(i)
    \/ \E i \in Instances, id \in DOMAIN sessions : handleLogout(i, id)
    \/ \E u \in Accounts : deleteUser(u) \/ SignInAges(u)
    \/ \E u \in Accounts, n \in Names : createUser(u, n)
    \/ \E t \in DOMAIN tokens : revokeToken(t) \/ ExpireToken(t)
    \/ \E c \in Callers, n \in Names : Authenticate(c, n) \/ ChangePasswordByUsername(c, n)
    \/ \E c \in Callers, s \in Subjects : FindBySubject(c, s)
    \/ \E c \in Callers, u \in Accounts : updateUser(c, u) \/ createToken(c, u)
    \/ \E c \in Callers :
        \/ handleSimpleLogin(c) \/ AdoptOrCreate(c) \/ UpdateProfile(c) \/ FindOrCreateUser(c)
        \/ handleCallback(c) \/ UpdateUser(c) \/ handleChangePassword(c) \/ InsertToken(c)

Spec == Init /\ [][Next]_vars
----------------------------------------------------------------------------
(* Properties *)

TypeOK ==
    /\ users \in [Accounts -> Row]
    /\ sessions \in Seq(Session) /\ tokens \in Seq(Token)
    /\ blacklist \in [Instances -> SUBSET [id : DOMAIN sessions, at : 0..now]]
    /\ call \in [Callers -> Call]
    /\ now \in 0..MaxTime
    /\ cuts \in [Accounts -> Nat] /\ states \in [Accounts -> Nat]
    /\ endedHere \in [Instances -> SUBSET DOMAIN sessions]
    /\ renamed \in BOOLEAN

\* A session is never accepted again once it was to end: after a logout, a
\* deactivation, a block, a restored account or a new password, on every
\* instance and after a restart (users/postgres endSessions, RevokeSessions);
\* and a logout whose write failed still holds on its instance until that
\* restarts (auth SessionBlacklist).  The types hold.
EndedStaysEnded ==
    /\ TypeOK
    /\ \A i \in Instances, id \in DOMAIN sessions :
           authenticateFromSession(i, id) =>
               /\ sessions[id].gen = cuts[sessions[id].user]
               /\ id \notin endedHere[i]

\* No other session is lost: while no subject was changed, an account's
\* current session is accepted until it ages, is logged out here or the
\* account is cut off; an old cookie's logout does not end newer sessions.
CurrentSessionsKept ==
    \A i \in Instances, id \in DOMAIN sessions :
        LET x == sessions[id] IN
        /\ ~renamed
        /\ x.gen = cuts[x.user] /\ now - x.created <= MaxAge
        /\ Usable(users[x.user]) /\ id \notin endedHere[i]
        => authenticateFromSession(i, id)

\* A token issued before the account was last cut off or restored is never
\* valid again, also one issued while the account was cut off, or by a
\* request that had read the account before (revokeAPITokens).
TokensEndWithStatus ==
    \A t \in DOMAIN tokens : Validate(t) => tokens[t].gen = states[tokens[t].user]

\* "An old cookie that is already rejected cannot be replayed at logout to
\* end the user's newer sessions" (users/postgres RevokeSessions): a current
\* session is accepted until it ages, is logged out or its account cut off.
NewerSessionsLeftAlone ==
    \A i \in Instances, id \in DOMAIN sessions :
        LET x == sessions[id] IN
        /\ x.gen = cuts[x.user] /\ now - x.created <= MaxAge
        /\ Usable(users[x.user]) /\ id \notin endedHere[i]
        /\ users[x.user].subject = x.subject
        => authenticateFromSession(i, id)
============================================================================
