---------------------------- MODULE AccountProofs ----------------------------
(***************************************************************************)
(* Proofs about Access and SsoLogin, for any accounts, names, subjects,    *)
(* server instances, browsers and requests in progress, any claims and     *)
(* discovery times, and whatever the bounds: a session that was to end is  *)
(* not accepted again, no other session is lost, and a token does not      *)
(* outlive a change of its account's status; a browser is signed in by its *)
(* own login and nobody gets the admin role unvouched for, and attempts at *)
(* discovery are spaced.                                                   *)
(***************************************************************************)
EXTENDS Access, SsoLogin, TLAPS

-----------------------------------------------------------------------------
(* Access: the inductive invariant.                                          *)


\* The unique indexes on subject and email, and which subjects an account of
\* either kind has.
RowInv ==
    /\ \A u \in Accounts :
        /\ users[u].kind = "simple" => users[u].subject \in Names
        /\ users[u].kind = "oauth2" => users[u].subject \in Subjects
    /\ \A u, v \in Accounts :
        /\ users[u].kind # "none" /\ users[v].kind # "none"
        /\ users[u].subject = users[v].subject
        => u = v
    /\ \A u, v \in Sso : u = v

\* What a cookie, or a login about to write one, says of the account u: that it
\* had the subject s, and the epoch it had when its sessions had been cut g
\* times.  An older g shows in the epoch; while no subject was changed, the
\* current g has the current epoch.
Good(u, s, epoch, g) ==
    /\ users[u].kind # "none"
    /\ g <= cuts[u] /\ epoch <= users[u].epoch
    /\ g < cuts[u] => epoch < users[u].epoch
    /\ ~renamed => /\ users[u].subject = s
                   /\ g = cuts[u] => epoch = users[u].epoch

SessionInv ==
    \A id \in DOMAIN sessions :
        LET x == sessions[id] IN
        Good(x.user, x.subject, x.epoch, x.gen) /\ x.created <= now

\* What a request in progress still knows to be so of the account it has read.
CallOK(r) ==
    /\ r.pc = "signed" => Good(r.u, r.s, r.epoch, r.gen)
    /\ r.pc \in {"profile", "vouched"} => r.u \in Sso
    /\ r.pc = "vouched" /\ ~renamed => users[r.u].subject = r.s
    /\ r.pc = "update" =>
        /\ users[r.u].kind # "none"
        /\ r.new.subject \in IF users[r.u].kind = "simple" THEN Names ELSE Subjects

CallInv == \A c \in Callers : CallOK(call[c])

\* The blacklist holds what was logged out here, until it is too old anyway.
ListInv ==
    \A i \in Instances :
        /\ \A e \in blacklist[i] : e.id \in endedHere[i] /\ e.at >= sessions[e.id].created
        /\ \A id \in endedHere[i] : IsRevoked(i, id) \/ now - sessions[id].created > MaxAge

\* A token that is alive is from after the last change of its account's status.
TokenInv ==
    \A t \in DOMAIN tokens :
        ~tokens[t].revoked /\ ~tokens[t].expired => tokens[t].gen = states[tokens[t].user]

IInv == TypeOK /\ RowInv /\ SessionInv /\ CallInv /\ ListInv /\ TokenInv
----------------------------------------------------------------------------
(* What a step does to the accounts *)

\* A row is never taken back, its epoch and its count of cuts only grow, a cut
\* moves the epoch, and while no subject was changed only a cut moves it.
RowStep(u) ==
    /\ users[u].kind # "none" => users'[u].kind = users[u].kind
    /\ cuts[u] <= cuts'[u] /\ users[u].epoch <= users'[u].epoch
    /\ cuts[u] < cuts'[u] => users[u].epoch < users'[u].epoch
    /\ ~renamed' /\ users[u].kind # "none" =>
        /\ users'[u].subject = users[u].subject
        /\ cuts'[u] = cuts[u] => users'[u].epoch = users[u].epoch

AccountsStep == (renamed => renamed') /\ \A u \in Accounts : RowStep(u)

\* Sessions are only added, and say of their account what is so.
SessionsStep ==
    /\ \A id \in DOMAIN sessions : id \in DOMAIN sessions' /\ sessions'[id] = sessions[id]
    /\ \A id \in DOMAIN sessions' \ DOMAIN sessions :
        LET x == sessions'[id] IN
        /\ x.user \in Accounts /\ x.epoch \in Nat /\ x.gen \in Nat
        /\ Good(x.user, x.subject, x.epoch, x.gen) /\ x.created <= now

\* A request stays where it is, or knows what it has to know.
CallsStep == \A c \in Callers : call'[c] = call[c] \/ CallOK(call[c])'

\* The fields of a request have their types.
LEMMA CallTypes ==
    ASSUME NEW r \in Call
    PROVE  /\ r.pc = "signed" =>
                r.u \in Accounts /\ r.s \in Names /\ r.epoch \in Nat /\ r.gen \in Nat
           /\ r.pc = "unknown" => r.s \in Subjects
           /\ r.pc \in {"profile", "found", "vouched"} =>
                /\ r \in [pc : {"profile", "found", "vouched"}, s : Subjects, u : Accounts]
                /\ r.s \in Subjects /\ r.u \in Accounts
           /\ r.pc = "update" => r.u \in Accounts /\ r.new \in Row
           /\ r.pc \in {"password", "token"} => r.u \in Accounts
<1>1. CASE r = Idle
  BY <1>1 DEF Idle
<1>2. CASE r \in [pc : {"signed"}, u : Accounts, s : Names, epoch : Nat, gen : Nat]
  BY <1>2
<1>3. CASE r \in [pc : {"unknown"}, s : Subjects]
  BY <1>3
<1>4. CASE r \in [pc : {"profile", "found", "vouched"}, s : Subjects, u : Accounts]
  BY <1>4
<1>5. CASE r \in [pc : {"update"}, u : Accounts, new : Row]
  BY <1>5
<1>6. CASE r \in [pc : {"password", "token"}, u : Accounts]
  BY <1>6
<1> QED
  BY <1>1, <1>2, <1>3, <1>4, <1>5, <1>6 DEF Call

\* The fields of a session have their types.
LEMMA SessionTypes ==
    ASSUME TypeOK, NEW id \in DOMAIN sessions
    PROVE  /\ sessions[id] \in Session
           /\ sessions[id].user \in Accounts /\ sessions[id].subject \in Names \union Subjects
           /\ sessions[id].epoch \in Nat /\ sessions[id].created \in Nat /\ sessions[id].gen \in Nat
<1>1. sessions[id] \in Session
  BY DEF TypeOK
<1> QED
  BY <1>1 DEF Session

\* What is said of an account stays so.
LEMMA GoodKept ==
    ASSUME TypeOK, TypeOK', AccountsStep,
           NEW u \in Accounts, NEW s, NEW e \in Nat, NEW g \in Nat, Good(u, s, e, g)
    PROVE  Good(u, s, e, g)'
<1>1. /\ cuts[u] \in Nat /\ cuts'[u] \in Nat
      /\ users[u].epoch \in Nat /\ users'[u].epoch \in Nat
      /\ renamed \in BOOLEAN /\ renamed' \in BOOLEAN
  BY DEF TypeOK, Row
<1>2. RowStep(u) /\ (renamed => renamed')
  BY DEF AccountsStep
<1> QED
  BY <1>1, <1>2 DEF RowStep, Good

\* So does what a request knows.
LEMMA CallKept ==
    ASSUME TypeOK, TypeOK', AccountsStep, NEW r \in Call, CallOK(r)
    PROVE  CallOK(r)'
<1>1. r.pc = "signed" => Good(r.u, r.s, r.epoch, r.gen)'
  BY CallTypes, GoodKept DEF CallOK
<1>2. r.pc \in {"profile", "vouched"} =>
        /\ r.u \in Sso'
        /\ r.pc = "vouched" /\ ~renamed' => users'[r.u].subject = r.s
  BY CallTypes DEF CallOK, AccountsStep, RowStep, Sso
<1>3. r.pc = "update" =>
        /\ users'[r.u].kind # "none"
        /\ r.new.subject \in IF users'[r.u].kind = "simple" THEN Names ELSE Subjects
  BY CallTypes DEF CallOK, AccountsStep, RowStep
<1> QED
  BY <1>1, <1>2, <1>3 DEF CallOK

\* The parts of a step's proof, put together.
LEMMA Assembled ==
    ASSUME IInv, TypeOK', AccountsStep, SessionsStep, CallsStep, now <= now',
           RowInv', ListInv', TokenInv'
    PROVE  IInv'
<1>1. SessionInv'
  <2> SUFFICES ASSUME NEW id \in DOMAIN sessions', NEW x, x = sessions'[id]
               PROVE  Good(x.user, x.subject, x.epoch, x.gen)' /\ x.created <= now'
    BY DEF SessionInv
  <2>1. x \in Session /\ now \in Nat /\ now' \in Nat
    BY DEF TypeOK, IInv
  <2>2. x.user \in Accounts /\ x.epoch \in Nat /\ x.gen \in Nat /\ x.created \in Nat
    BY <2>1 DEF Session
  <2>3. Good(x.user, x.subject, x.epoch, x.gen) /\ x.created <= now
    BY DEF SessionsStep, IInv, SessionInv
  <2>4. Good(x.user, x.subject, x.epoch, x.gen)'
    BY <2>2, <2>3, GoodKept DEF IInv
  <2> QED
    BY <2>1, <2>2, <2>3, <2>4
<1>2. CallInv'
  <2> SUFFICES ASSUME NEW c \in Callers PROVE CallOK(call[c])'
    BY DEF CallInv
  <2>1. CASE call'[c] = call[c]
    <3>1. call[c] \in Call /\ CallOK(call[c])
      BY DEF IInv, TypeOK, CallInv
    <3>2. \A r \in Call : CallOK(r) => CallOK(r)'
      BY CallKept DEF IInv
    <3> QED
      BY <2>1, <3>1, <3>2
  <2> QED
    BY <2>1 DEF CallsStep
<1> QED
  BY <1>1, <1>2 DEF IInv
----------------------------------------------------------------------------
(* Steps of one kind *)

\* A sequence and what is added to it.
LEMMA Appended ==
    ASSUME NEW S, NEW seq \in Seq(S), NEW e \in S
    PROVE  /\ Append(seq, e) \in Seq(S)
           /\ DOMAIN seq = 1..Len(seq) /\ Len(seq) \in Nat
           /\ DOMAIN Append(seq, e) = 1..(Len(seq) + 1)
           /\ Append(seq, e)[Len(seq) + 1] = e
           /\ \A i \in DOMAIN seq : /\ i \in DOMAIN Append(seq, e)
                                    /\ Append(seq, e)[i] = seq[i] /\ seq[i] \in S
  OBVIOUS

\* The accounts are left alone.
LEMMA AccountsLeft ==
    ASSUME TypeOK, UNCHANGED <<users, cuts, renamed>>
    PROVE  AccountsStep /\ (RowInv => RowInv')
<1>1. \A u \in Accounts : cuts[u] \in Nat /\ users[u].epoch \in Nat
  BY DEF TypeOK, Row
<1> QED
  BY <1>1 DEF AccountsStep, RowStep, RowInv, Sso

\* The blacklists are left alone, and sessions are only added.
LEMMA ListsLeft ==
    ASSUME IInv, UNCHANGED <<blacklist, endedHere, now>>, SessionsStep
    PROVE  ListInv'
<1> SUFFICES ASSUME NEW i \in Instances
             PROVE  /\ \A e \in blacklist[i] :
                         e.id \in endedHere[i] /\ e.at >= sessions'[e.id].created
                    /\ \A id \in endedHere[i] :
                         IsRevoked(i, id) \/ now - sessions'[id].created > MaxAge
  BY DEF ListInv, IsRevoked
<1>1. /\ \A e \in blacklist[i] : sessions'[e.id] = sessions[e.id]
      /\ \A id \in endedHere[i] : sessions'[id] = sessions[id]
  BY DEF SessionsStep, IInv, TypeOK
<1> QED
  BY <1>1 DEF IInv, ListInv

\* Only the request c moves on, to r.
LEMMA CallOnly ==
    ASSUME IInv, UNCHANGED <<users, sessions, tokens, blacklist, now, cuts, states, endedHere, renamed>>,
           NEW c \in Callers, NEW r \in Call, CallOK(r), call' = [call EXCEPT ![c] = r]
    PROVE  IInv'
<1>1. TypeOK'
  BY DEF IInv, TypeOK
<1>2. AccountsStep /\ RowInv'
  BY AccountsLeft DEF IInv
<1>3. SessionsStep /\ TokenInv' /\ now <= now'
  BY DEF SessionsStep, IInv, TokenInv, TypeOK
<1>4. ListInv'
  BY <1>3, ListsLeft
<1>5. CallsStep
  <2>1. CallOK(r)'
    BY <1>1, <1>2, CallKept DEF IInv
  <2> QED
    BY <2>1 DEF CallsStep, IInv, TypeOK
<1> QED
  BY <1>1, <1>2, <1>3, <1>4, <1>5, Assembled

\* A request returns, having added at most one session that is good.
LEMMA SessionAdded ==
    ASSUME IInv, UNCHANGED <<users, tokens, blacklist, now, cuts, states, endedHere, renamed>>,
           NEW c \in Callers, Return(c),
           NEW x \in Session, Good(x.user, x.subject, x.epoch, x.gen), x.created = now,
           sessions' = Append(sessions, x)
    PROVE  IInv'
<1>0. /\ sessions \in Seq(Session) /\ sessions' \in Seq(Session)
      /\ \A id \in DOMAIN sessions : id \in DOMAIN sessions' /\ sessions'[id] = sessions[id]
      /\ \A id \in DOMAIN sessions' \ DOMAIN sessions : sessions'[id] = x
  BY Appended DEF IInv, TypeOK
<1>1. TypeOK'
  <2>1. /\ blacklist \in [Instances -> SUBSET [id : DOMAIN sessions', at : 0..now]]
        /\ endedHere \in [Instances -> SUBSET DOMAIN sessions']
    BY <1>0 DEF IInv, TypeOK
  <2>2. call' \in [Callers -> Call]
    BY DEF IInv, TypeOK, Return, Call
  <2> QED
    BY <1>0, <2>1, <2>2 DEF IInv, TypeOK
<1>2. AccountsStep /\ RowInv'
  BY AccountsLeft DEF IInv
<1>3. SessionsStep
  <2>1. /\ x.user \in Accounts /\ x.epoch \in Nat /\ x.gen \in Nat
        /\ now \in Nat /\ x.created <= now
    BY DEF Session, IInv, TypeOK
  <2> QED
    BY <1>0, <2>1 DEF SessionsStep
<1>4. TokenInv' /\ now <= now'
  BY DEF IInv, TokenInv, TypeOK
<1>5. ListInv'
  BY <1>3, ListsLeft
<1>6. CallsStep
  BY DEF CallsStep, IInv, TypeOK, Return, Idle, CallOK
<1> QED
  BY <1>1, <1>2, <1>3, <1>4, <1>5, <1>6, Assembled

\* A step that changes rows, and the history of the accounts with them.
LEMMA RowsChanged ==
    ASSUME IInv, UNCHANGED <<sessions, blacklist, now, endedHere>>,
           users' \in [Accounts -> Row], tokens' \in Seq(Token), call' \in [Callers -> Call],
           cuts' \in [Accounts -> Nat], states' \in [Accounts -> Nat], renamed' \in BOOLEAN,
           AccountsStep, CallsStep, RowInv', TokenInv'
    PROVE  IInv'
<1>1. TypeOK'
  BY DEF IInv, TypeOK
<1>2. SessionsStep /\ now <= now'
  BY DEF SessionsStep, IInv, TypeOK
<1>3. ListInv'
  BY <1>2, ListsLeft
<1> QED
  BY <1>1, <1>2, <1>3, Assembled
----------------------------------------------------------------------------
(* The requests that only read *)

\* The account with an identity provider's subject is an identity provider's.
LEMMA NamedSso ==
    ASSUME IInv, NEW s \in Subjects, NEW u \in Named(s)
    PROVE  u \in Sso
<1>1. u \in Accounts /\ users[u].kind # "none" /\ users[u].subject = s /\ users[u].kind \in Kinds
  BY DEF Named, IInv, TypeOK, Row
<1> QED
  BY <1>1, NamesAssumption DEF IInv, RowInv, Sso, Kinds

\* A subject names one account at most.
LEMMA NamedOne ==
    ASSUME IInv, NEW s, NEW u \in Named(s)
    PROVE  Named(s) = {u}
  BY DEF Named, IInv, RowInv

LEMMA AuthenticateStep ==
    ASSUME IInv, NEW c \in Callers, NEW n \in Names, Authenticate(c, n)
    PROVE  IInv'
<1>1. PICK u \in Named(n) :
        /\ users[u].kind = "simple"
        /\ call' = [call EXCEPT ![c] =
             [pc |-> "signed", u |-> u, s |-> n, epoch |-> users[u].epoch, gen |-> cuts[u]]]
  BY DEF Authenticate, Start
<1> DEFINE r == [pc |-> "signed", u |-> u, s |-> n, epoch |-> users[u].epoch, gen |-> cuts[u]]
<1>2. u \in Accounts /\ users[u].epoch \in Nat /\ cuts[u] \in Nat
  BY DEF Named, IInv, TypeOK, Row
<1>3. r \in Call
  BY <1>2 DEF Call
<1>4. CallOK(r)
  BY <1>1, <1>2 DEF CallOK, Good, Named
<1> HIDE DEF r
<1> QED
  BY <1>1, <1>3, <1>4, CallOnly DEF Authenticate, r

LEMMA FindBySubjectStep ==
    ASSUME IInv, NEW c \in Callers, NEW s \in Subjects, FindBySubject(c, s)
    PROVE  IInv'
<1>1. CASE call' = [call EXCEPT ![c] = [pc |-> "unknown", s |-> s]]
  <2> DEFINE r == [pc |-> "unknown", s |-> s]
  <2>1. r \in Call /\ CallOK(r)
    BY DEF Call, CallOK
  <2> HIDE DEF r
  <2> QED
    BY <1>1, <2>1, CallOnly DEF FindBySubject, r
<1>2. ASSUME NEW u \in Named(s), call' = [call EXCEPT ![c] = [pc |-> "profile", s |-> s, u |-> u]]
      PROVE  IInv'
  <2> DEFINE r == [pc |-> "profile", s |-> s, u |-> u]
  <2>1. r \in Call /\ CallOK(r)
    BY NamedSso DEF Call, CallOK, Named
  <2> HIDE DEF r
  <2> QED
    BY <1>2, <2>1, CallOnly DEF FindBySubject, r
<1> QED
  BY <1>1, <1>2 DEF FindBySubject, Start

LEMMA FindOrCreateUserStep ==
    ASSUME IInv, NEW c \in Callers, FindOrCreateUser(c)
    PROVE  IInv'
<1>1. call[c].s \in Subjects
  BY CallTypes DEF IInv, TypeOK, FindOrCreateUser
<1>2. PICK u \in Named(call[c].s) :
        call' = [call EXCEPT ![c] = [pc |-> "vouched", s |-> call[c].s, u |-> u]]
  BY DEF FindOrCreateUser
<1> DEFINE r == [pc |-> "vouched", s |-> call[c].s, u |-> u]
<1>3. r \in Call /\ CallOK(r)
  BY <1>1, NamedSso DEF Call, CallOK, Named
<1> HIDE DEF r
<1> QED
  BY <1>2, <1>3, CallOnly DEF FindOrCreateUser, r

\* What a request would write has the type of a row and a subject of its kind.
LEMMA EditsTyped ==
    ASSUME IInv, NEW u \in Accounts, users[u].kind # "none", NEW new \in Edits(u, users[u])
    PROVE  /\ new \in Row
           /\ new.subject \in IF users[u].kind = "simple" THEN Names ELSE Subjects
<1>1. users[u] \in Row /\ users[u].kind \in {"simple", "oauth2"} /\ Fresh \in Nat
  BY BoundsAssumption DEF IInv, TypeOK, Row, Kinds, Fresh
<1>2. users[u].subject \in IF users[u].kind = "simple" THEN Names ELSE Subjects
  BY <1>1 DEF IInv, RowInv
<1>3. CASE new \in {[users[u] EXCEPT !.active = b] : b \in BOOLEAN}
           \union {[users[u] EXCEPT !.blocked = b] : b \in BOOLEAN}
           \union {[users[u] EXCEPT !.pw = Fresh]}
  <2>1. new \in Row /\ new.subject = users[u].subject
    BY <1>1, <1>3 DEF Row
  <2> QED
    BY <1>2, <2>1
<1>4. ASSUME users[u].kind = "simple", NEW n \in Names, new = [users[u] EXCEPT !.subject = n]
      PROVE  new \in Row /\ new.subject \in Names
  BY <1>1, <1>4 DEF Row
<1> QED
  BY <1>3, <1>4 DEF Edits

LEMMA updateUserStep ==
    ASSUME IInv, NEW c \in Callers, NEW u \in Accounts, updateUser(c, u)
    PROVE  IInv'
<1>1. PICK new \in Edits(u, users[u]) :
        call' = [call EXCEPT ![c] = [pc |-> "update", u |-> u, new |-> new]]
  BY DEF updateUser, Start
<1> DEFINE r == [pc |-> "update", u |-> u, new |-> new]
<1>2. users[u].kind # "none"
  BY DEF updateUser
<1>3. r \in Call /\ CallOK(r)
  BY <1>2, EditsTyped DEF Call, CallOK
<1> HIDE DEF r
<1> QED
  BY <1>1, <1>3, CallOnly DEF updateUser, r

LEMMA ChangePasswordStep ==
    ASSUME IInv, NEW c \in Callers, NEW n \in Names, ChangePasswordByUsername(c, n)
    PROVE  IInv'
<1>1. PICK u \in Accounts : call' = [call EXCEPT ![c] = [pc |-> "password", u |-> u]]
  BY DEF ChangePasswordByUsername, Start, Named
<1> DEFINE r == [pc |-> "password", u |-> u]
<1>2. r \in Call /\ CallOK(r)
  BY DEF Call, CallOK
<1> HIDE DEF r
<1> QED
  BY <1>1, <1>2, CallOnly DEF ChangePasswordByUsername, r

LEMMA createTokenStep ==
    ASSUME IInv, NEW c \in Callers, NEW u \in Accounts, createToken(c, u)
    PROVE  IInv'
<1> DEFINE r == [pc |-> "token", u |-> u]
<1>1. r \in Call /\ CallOK(r)
  BY DEF Call, CallOK
<1> HIDE DEF r
<1> QED
  BY <1>1, CallOnly DEF createToken, Start, r
----------------------------------------------------------------------------
(* Sessions and tokens *)

LEMMA handleSimpleLoginStep ==
    ASSUME IInv, NEW c \in Callers, handleSimpleLogin(c)
    PROVE  IInv'
<1> DEFINE x == [user |-> call[c].u, subject |-> call[c].s, epoch |-> call[c].epoch,
                 created |-> now, gen |-> call[c].gen]
<1>1. Good(call[c].u, call[c].s, call[c].epoch, call[c].gen)
  BY DEF IInv, CallInv, CallOK, handleSimpleLogin
<1>2. x \in Session
  BY CallTypes, BoundsAssumption DEF IInv, TypeOK, handleSimpleLogin, Session
<1>3. Good(x.user, x.subject, x.epoch, x.gen) /\ x.created = now
  BY <1>1
<1>4. sessions' = Append(sessions, x)
  BY DEF handleSimpleLogin, Issue
<1> HIDE DEF x
<1> QED
  BY <1>2, <1>3, <1>4, SessionAdded DEF handleSimpleLogin

LEMMA handleCallbackStep ==
    ASSUME IInv, NEW c \in Callers, handleCallback(c)
    PROVE  IInv'
<1> DEFINE s == call[c].s
           u == call[c].u
           e == CurrentSessionEpoch(s)
           x == [user |-> u, subject |-> s, epoch |-> e, created |-> now, gen |-> cuts[u]]
<1>1. s \in Subjects /\ u \in Accounts /\ u \in Sso /\ users[u].kind = "oauth2"
  BY CallTypes DEF IInv, TypeOK, CallInv, CallOK, handleCallback, Sso
<1>2. users[u].epoch \in Nat /\ cuts[u] \in Nat /\ now \in Nat
  BY <1>1, BoundsAssumption DEF IInv, TypeOK, Row
<1>3. e = IF users[u].subject = s THEN users[u].epoch ELSE 0
  <2>1. CASE users[u].subject = s
    <3>1. u \in Named(s)
      BY <1>1, <2>1 DEF Named
    <3>2. Named(s) = {u}
      BY <3>1, NamedOne
    <3> QED
      BY <2>1, <3>2 DEF CurrentSessionEpoch
  <2>2. CASE users[u].subject # s
    <3>1. \A v \in Named(s) : v \in Sso
      BY <1>1, NamedSso
    <3>2. Named(s) = {}
      BY <1>1, <2>2, <3>1 DEF IInv, RowInv, Named
    <3> QED
      BY <2>2, <3>2 DEF CurrentSessionEpoch
  <2> QED
    BY <2>1, <2>2
<1>4. ~renamed => users[u].subject = s
  BY DEF IInv, CallInv, CallOK, handleCallback
<1> HIDE DEF e
<1>5. x \in Session
  BY <1>1, <1>2, <1>3 DEF Session
<1>6. Good(u, s, e, cuts[u])
  BY <1>1, <1>2, <1>3, <1>4 DEF Good
<1>7. Good(x.user, x.subject, x.epoch, x.gen) /\ x.created = now
  BY <1>6
<1>8. sessions' = Append(sessions, x) /\ Return(c)
      /\ UNCHANGED <<users, tokens, blacklist, now, cuts, states, endedHere, renamed>>
  BY DEF handleCallback, Issue, e
<1> HIDE DEF x
<1> QED
  BY <1>5, <1>7, <1>8, SessionAdded

\* Only tokens change.
LEMMA TokensChanged ==
    ASSUME IInv, UNCHANGED <<users, sessions, blacklist, now, cuts, states, endedHere, renamed>>,
           tokens' \in Seq(Token), TokenInv', call' \in [Callers -> Call], CallsStep
    PROVE  IInv'
<1>1. AccountsStep /\ RowInv'
  BY AccountsLeft DEF IInv
<1> QED
  BY <1>1, RowsChanged DEF IInv, TypeOK

LEMMA InsertTokenStep ==
    ASSUME IInv, NEW c \in Callers, InsertToken(c)
    PROVE  IInv'
<1> DEFINE x == [user |-> call[c].u, revoked |-> FALSE, expired |-> FALSE, gen |-> states[call[c].u]]
<1>1. x \in Token
  BY CallTypes DEF IInv, TypeOK, InsertToken, Token
<1>2. x.gen = states[x.user]
  OBVIOUS
<1>3. tokens' = Append(tokens, x)
  BY DEF InsertToken
<1> HIDE DEF x
<1>4. tokens' \in Seq(Token)
  BY <1>1, <1>3 DEF IInv, TypeOK
<1>5. TokenInv'
  <2>1. \A t \in DOMAIN tokens' :
            \/ t \in DOMAIN tokens /\ tokens'[t] = tokens[t]
            \/ tokens'[t] = x
    BY <1>1, <1>3, Appended DEF IInv, TypeOK
  <2> QED
    BY <1>2, <2>1 DEF IInv, TokenInv, InsertToken
<1>6. call' \in [Callers -> Call] /\ CallsStep
  BY DEF InsertToken, Return, IInv, TypeOK, Call, CallsStep, CallOK, Idle
<1> QED
  BY <1>4, <1>5, <1>6, TokensChanged DEF InsertToken

LEMMA TokenEndsStep ==
    ASSUME IInv, NEW t \in DOMAIN tokens, revokeToken(t) \/ ExpireToken(t)
    PROVE  IInv'
<1>1. tokens \in Seq(Token) /\ tokens[t] \in Token
  BY DEF IInv, TypeOK
<1>2. PICK x \in Token : /\ tokens' = [tokens EXCEPT ![t] = x]
                         /\ x.revoked \/ x.expired
  <2>1. CASE revokeToken(t)
    <3>1. [tokens[t] EXCEPT !.revoked = TRUE] \in Token
      BY <1>1 DEF Token
    <3>2. [tokens[t] EXCEPT !.revoked = TRUE].revoked
      BY <1>1 DEF Token
    <3> QED
      BY <2>1, <3>1, <3>2 DEF revokeToken
  <2>2. CASE ExpireToken(t)
    <3>1. [tokens[t] EXCEPT !.expired = TRUE] \in Token
      BY <1>1 DEF Token
    <3>2. [tokens[t] EXCEPT !.expired = TRUE].expired
      BY <1>1 DEF Token
    <3> QED
      BY <2>2, <3>1, <3>2 DEF ExpireToken
  <2> QED
    BY <2>1, <2>2
<1>3. tokens' \in Seq(Token)
  BY <1>1, <1>2
<1>4. TokenInv'
  BY <1>1, <1>2 DEF IInv, TokenInv, revokeToken, ExpireToken
<1>5. call' \in [Callers -> Call] /\ CallsStep
  BY DEF revokeToken, ExpireToken, IInv, TypeOK, CallsStep
<1> QED
  BY <1>3, <1>4, <1>5, TokensChanged DEF revokeToken, ExpireToken
----------------------------------------------------------------------------
(* The blacklist and time *)

\* Accounts, sessions, tokens and requests are left alone.
LEMMA ListsChanged ==
    ASSUME IInv, UNCHANGED <<users, sessions, tokens, call, cuts, states, renamed>>,
           now <= now', now' \in 0..MaxTime,
           blacklist' \in [Instances -> SUBSET [id : DOMAIN sessions, at : 0..now']],
           endedHere' \in [Instances -> SUBSET DOMAIN sessions],
           ListInv'
    PROVE  IInv'
<1>1. TypeOK'
  BY DEF IInv, TypeOK
<1>2. AccountsStep /\ RowInv'
  BY AccountsLeft DEF IInv
<1>3. SessionsStep /\ CallsStep /\ TokenInv'
  BY DEF SessionsStep, CallsStep, IInv, TokenInv
<1> QED
  BY <1>1, <1>2, <1>3, Assembled

LEMMA TickStep ==
    ASSUME IInv, Tick
    PROVE  IInv'
<1>1. now \in Nat /\ now' = now + 1 /\ now' \in 0..MaxTime /\ MaxTime \in Nat /\ MaxAge \in Nat
  BY BoundsAssumption DEF IInv, TypeOK, Tick
<1>2. \A i \in Instances : /\ blacklist[i] \subseteq [id : DOMAIN sessions, at : 0..now]
                           /\ endedHere[i] \subseteq DOMAIN sessions
  BY DEF IInv, TypeOK
<1>3. blacklist' \in [Instances -> SUBSET [id : DOMAIN sessions, at : 0..now']]
  <2>1. [id : DOMAIN sessions, at : 0..now] \subseteq [id : DOMAIN sessions, at : 0..now']
    BY <1>1
  <2> QED
    BY <2>1 DEF Tick, IInv, TypeOK
<1>4. \A id \in DOMAIN sessions : sessions[id].created \in Nat
  BY SessionTypes DEF IInv
<1>5. ListInv'
  BY <1>1, <1>2, <1>4 DEF IInv, ListInv, Tick, IsRevoked
<1> QED
  BY <1>1, <1>3, <1>5, ListsChanged DEF Tick, IInv, TypeOK

LEMMA cleanupStep ==
    ASSUME IInv, NEW i \in Instances, cleanup(i)
    PROVE  IInv'
<1>1. /\ blacklist' \in [Instances -> SUBSET [id : DOMAIN sessions, at : 0..now]]
      /\ now \in Nat /\ MaxAge \in Nat
  BY BoundsAssumption DEF IInv, TypeOK, cleanup
<1>2. ASSUME NEW j \in Instances
      PROVE  /\ blacklist'[j] \subseteq blacklist[j]
             /\ \A e \in blacklist[j] \ blacklist'[j] : now - e.at > MaxAge
             /\ \A e \in blacklist[j] : e.at \in Nat /\ e.id \in DOMAIN sessions
             /\ endedHere[j] \subseteq DOMAIN sessions
  <2>1. /\ blacklist[j] \subseteq [id : DOMAIN sessions, at : 0..now]
        /\ endedHere[j] \subseteq DOMAIN sessions
    BY DEF IInv, TypeOK
  <2>2. blacklist'[j] = IF j = i THEN {e \in blacklist[i] : now - e.at <= MaxAge} ELSE blacklist[j]
    BY DEF IInv, TypeOK, cleanup
  <2> QED
    BY <1>1, <2>1, <2>2
<1>3. \A id \in DOMAIN sessions : sessions[id].created \in Nat
  BY SessionTypes DEF IInv
<1>4. ASSUME NEW j \in Instances, NEW id \in endedHere[j]
      PROVE  IsRevoked(j, id)' \/ now - sessions[id].created > MaxAge
  <2>1. CASE IsRevoked(j, id)
    <3>1. PICK e \in blacklist[j] : e.id = id /\ e.at >= sessions[id].created
      BY <2>1 DEF IsRevoked, IInv, ListInv
    <3> QED
      BY <1>1, <1>2, <1>3, <1>4, <3>1 DEF IsRevoked
  <2> QED
    BY <2>1, <1>4 DEF IInv, ListInv
<1>5. ListInv'
  BY <1>2, <1>4 DEF ListInv, IInv, cleanup
<1> QED
  BY <1>1, <1>5, ListsChanged DEF cleanup, IInv, TypeOK

LEMMA RestartStep ==
    ASSUME IInv, NEW i \in Instances, Restart(i)
    PROVE  IInv'
<1>1. /\ blacklist' \in [Instances -> SUBSET [id : DOMAIN sessions, at : 0..now]]
      /\ endedHere' \in [Instances -> SUBSET DOMAIN sessions]
  BY DEF IInv, TypeOK, Restart
<1>2. \A j \in Instances : \/ blacklist'[j] = {} /\ endedHere'[j] = {}
                           \/ blacklist'[j] = blacklist[j] /\ endedHere'[j] = endedHere[j]
  BY DEF IInv, TypeOK, Restart
<1>3. ListInv'
  BY <1>2 DEF IInv, ListInv, IsRevoked, Restart
<1> QED
  BY <1>1, <1>3, ListsChanged DEF Restart, IInv, TypeOK
----------------------------------------------------------------------------
(* The steps that change rows *)

\* Only the row of u changes, and neither its kind nor its subject.
LEMMA RowKept ==
    ASSUME IInv, NEW u \in Accounts, NEW row \in Row,
           users' = [users EXCEPT ![u] = row],
           row.kind = users[u].kind, row.subject = users[u].subject
    PROVE  RowInv'
  BY DEF IInv, TypeOK, RowInv, Sso

\* Nothing of the history of the accounts changes but what happens to u.
LEMMA OneAccount ==
    ASSUME IInv, NEW u \in Accounts, renamed => renamed',
           \A v \in Accounts \ {u} : users'[v] = users[v] /\ cuts'[v] = cuts[v],
           RowStep(u)
    PROVE  AccountsStep
<1>1. \A v \in Accounts : cuts[v] \in Nat /\ users[v].epoch \in Nat
  BY DEF IInv, TypeOK, Row
<1> QED
  BY <1>1 DEF AccountsStep, RowStep

\* endAccess revokes what is alive of u's, and counts.
LEMMA TokensEnded ==
    ASSUME IInv, NEW u \in Accounts, NEW row, tokens' = revokeAPITokens(u, row),
           states' = [states EXCEPT ![u] = @ + 1]
    PROVE  tokens' \in Seq(Token) /\ TokenInv'
<1>1. \A t \in DOMAIN tokens : tokens[t] \in Token /\ [tokens[t] EXCEPT !.revoked = TRUE] \in Token
  <2>1. \A t \in DOMAIN tokens : tokens[t] \in Token
    BY DEF IInv, TypeOK
  <2> QED
    BY <2>1 DEF Token
<1>2. /\ tokens \in Seq(Token) /\ DOMAIN tokens' = DOMAIN tokens
      /\ \A t \in DOMAIN tokens :
            tokens'[t] = IF tokens[t].user = u /\ ~tokens[t].expired
                         THEN [tokens[t] EXCEPT !.revoked = TRUE] ELSE tokens[t]
  BY DEF IInv, TypeOK, revokeAPITokens
<1>3. tokens' \in Seq(Token)
  <2>1. DOMAIN tokens = 1..Len(tokens) /\ Len(tokens) \in Nat
    BY <1>2
  <2>2. tokens' \in [1..Len(tokens) -> Token]
    BY <1>1, <1>2, <2>1 DEF revokeAPITokens
  <2> QED
    BY <2>1, <2>2
<1>4. \A t \in DOMAIN tokens :
          ~tokens'[t].revoked /\ ~tokens'[t].expired =>
            tokens'[t] = tokens[t] /\ tokens[t].user # u
  BY <1>1, <1>2 DEF Token
<1>5. TokenInv'
  <2>1. \A t \in DOMAIN tokens : tokens[t].user \in Accounts
    BY <1>1 DEF Token
  <2>2. \A v \in Accounts \ {u} : states'[v] = states[v]
    BY DEF IInv, TypeOK
  <2> QED
    BY <1>2, <1>4, <2>1, <2>2 DEF IInv, TokenInv
<1> QED
  BY <1>3, <1>5

\* endAccess, with a row whose subject may have been written too.
LEMMA endAccessStep ==
    ASSUME IInv, NEW u \in Accounts, NEW row \in Row, endAccess(u, row),
           row.kind = users[u].kind, row.epoch = users[u].epoch,
           renamed => renamed', ~renamed' => row.subject = users[u].subject
    PROVE  /\ users' = [users EXCEPT ![u] = endSessions(row)] /\ endSessions(row) \in Row
           /\ endSessions(row).kind = row.kind /\ endSessions(row).subject = row.subject
           /\ tokens' \in Seq(Token) /\ TokenInv' /\ AccountsStep
           /\ cuts' \in [Accounts -> Nat] /\ states' \in [Accounts -> Nat]
<1>1. /\ endSessions(row) \in Row /\ endSessions(row).epoch = row.epoch + 1
      /\ endSessions(row).kind = row.kind /\ endSessions(row).subject = row.subject
  BY DEF endSessions, Row
<1>2. /\ users' = [users EXCEPT ![u] = endSessions(row)]
      /\ users'[u] = endSessions(row) /\ cuts'[u] = cuts[u] + 1
      /\ \A v \in Accounts \ {u} : users'[v] = users[v] /\ cuts'[v] = cuts[v]
      /\ cuts' \in [Accounts -> Nat] /\ states' \in [Accounts -> Nat]
  BY DEF IInv, TypeOK, endAccess
<1>3. tokens' \in Seq(Token) /\ TokenInv'
  BY TokensEnded DEF endAccess
<1>4. users[u].epoch \in Nat /\ cuts[u] \in Nat
  BY DEF IInv, TypeOK, Row
<1>5. RowStep(u)
  BY <1>1, <1>2, <1>4 DEF RowStep
<1>6. AccountsStep
  BY <1>2, <1>5, OneAccount
<1> QED
  BY <1>1, <1>2, <1>3, <1>6

\* The row of u takes a subject of its kind that no other row has.
LEMMA RowRenamed ==
    ASSUME IInv, NEW u \in Accounts, NEW row \in Row,
           users' = [users EXCEPT ![u] = row],
           row.kind # users[u].kind => users[u].kind = "none" /\ row.kind \in {"simple", "oauth2"},
           row.kind # users[u].kind /\ row.kind = "oauth2" => Sso = {},
           row.kind = "simple" => row.subject \in Names,
           row.kind = "oauth2" => row.subject \in Subjects,
           Named(row.subject) \subseteq {u}
    PROVE  RowInv'
<1>1. users'[u] = row /\ \A v \in Accounts \ {u} : users'[v] = users[v]
  BY DEF IInv, TypeOK
<1>2. \A v \in Accounts : v # u /\ users[v].kind # "none" => users[v].subject # row.subject
  BY DEF Named
<1>3. \A v, w \in Sso' : v = w
  BY <1>1 DEF IInv, RowInv, Sso
<1> QED
  BY <1>1, <1>2, <1>3 DEF IInv, RowInv

\* A request that returns knows nothing.
LEMMA Returned ==
    ASSUME IInv, NEW c \in Callers, Return(c)
    PROVE  call' \in [Callers -> Call] /\ CallsStep
  BY DEF Return, IInv, TypeOK, Call, CallsStep, CallOK, Idle

LEMMA UpdateUserStep ==
    ASSUME IInv, NEW c \in Callers, UpdateUser(c)
    PROVE  IInv'
<1> DEFINE u == call[c].u
           new == call[c].new
           before == users[u]
           hash == CASE new.pw = 0 -> before.pw [] new.pw = Fresh -> FreshHash(u) [] OTHER -> new.pw
           row == [before EXCEPT !.active = new.active, !.blocked = new.blocked,
                                 !.subject = new.subject, !.pw = hash]
<1>1. /\ u \in Accounts /\ new \in Row
      /\ before.kind # "none"
      /\ new.subject \in IF before.kind = "simple" THEN Names ELSE Subjects
  BY CallTypes DEF UpdateUser, IInv, TypeOK, CallInv, CallOK
<1>2. before \in Row /\ before.kind \in {"simple", "oauth2"} /\ cuts[u] \in Nat /\ before.epoch \in Nat
  BY <1>1 DEF IInv, TypeOK, Row, Kinds
<1>3. hash \in Nat
  BY <1>1, <1>2 DEF Row, FreshHash
<1> HIDE DEF hash
<1>4. /\ row \in Row /\ row.kind = before.kind /\ row.epoch = before.epoch
      /\ row.subject = new.subject
  BY <1>1, <1>2, <1>3 DEF Row
<1>5. /\ Named(row.subject) \subseteq {u} /\ Return(c)
      /\ renamed' = (renamed \/ row.subject # before.subject)
      /\ UNCHANGED <<sessions, blacklist, now, endedHere>>
      /\ \/ endAccess(u, row)
         \/ /\ users' = [users EXCEPT ![u] = endSessions(row)]
            /\ cuts' = [cuts EXCEPT ![u] = @ + 1]
            /\ UNCHANGED <<tokens, states>>
         \/ users' = [users EXCEPT ![u] = row] /\ UNCHANGED <<tokens, cuts, states>>
  BY <1>4 DEF UpdateUser, Update, hash
<1> HIDE DEF row
<1>6. renamed' \in BOOLEAN /\ (renamed => renamed') /\ (~renamed' => row.subject = before.subject)
  BY <1>5 DEF IInv, TypeOK
<1>7. endSessions(row) \in Row /\ endSessions(row).kind = row.kind
      /\ endSessions(row).subject = row.subject /\ endSessions(row).epoch = row.epoch + 1
  BY <1>4 DEF endSessions, Row
<1>8. ASSUME users' = [users EXCEPT ![u] = row] \/ users' = [users EXCEPT ![u] = endSessions(row)]
      PROVE  RowInv'
  <2>1. PICK w \in Row : /\ users' = [users EXCEPT ![u] = w]
                         /\ w.kind = before.kind /\ w.subject = new.subject
    BY <1>4, <1>7, <1>8
  <2>2. /\ w.kind = users[u].kind /\ Named(w.subject) \subseteq {u}
        /\ w.kind = "simple" => w.subject \in Names
        /\ w.kind = "oauth2" => w.subject \in Subjects
    BY <1>1, <1>2, <1>4, <1>5, <2>1
  <2> HIDE DEF u
  <2> QED
    BY <1>1, <2>1, <2>2, RowRenamed
<1>9. call' \in [Callers -> Call] /\ CallsStep
  BY <1>5, Returned
<1>10. CASE endAccess(u, row)
  <2>1. /\ users' = [users EXCEPT ![u] = endSessions(row)] /\ tokens' \in Seq(Token) /\ TokenInv'
        /\ AccountsStep /\ cuts' \in [Accounts -> Nat] /\ states' \in [Accounts -> Nat]
    BY <1>1, <1>4, <1>6, <1>10, endAccessStep
  <2>2. users' \in [Accounts -> Row]
    BY <2>1, <1>7 DEF IInv, TypeOK
  <2> QED
    BY <2>1, <2>2, <1>5, <1>6, <1>8, <1>9, RowsChanged
<1>11. CASE /\ users' = [users EXCEPT ![u] = endSessions(row)]
            /\ cuts' = [cuts EXCEPT ![u] = @ + 1]
            /\ UNCHANGED <<tokens, states>>
  <2>1. users' \in [Accounts -> Row] /\ cuts' \in [Accounts -> Nat]
    BY <1>1, <1>2, <1>7, <1>11 DEF IInv, TypeOK
  <2>2. users'[u] = endSessions(row) /\ cuts'[u] = cuts[u] + 1
        /\ \A v \in Accounts \ {u} : users'[v] = users[v] /\ cuts'[v] = cuts[v]
    BY <1>1, <1>11 DEF IInv, TypeOK
  <2>3. RowStep(u)
    BY <2>2, <1>2, <1>4, <1>6, <1>7 DEF RowStep
  <2>4. AccountsStep
    BY <2>2, <2>3, <1>1, <1>6, OneAccount
  <2>5. TokenInv' /\ tokens' \in Seq(Token) /\ states' \in [Accounts -> Nat]
    BY <1>11 DEF IInv, TypeOK, TokenInv
  <2> QED
    BY <2>1, <2>4, <2>5, <1>5, <1>6, <1>8, <1>9, <1>11, RowsChanged
<1>12. CASE users' = [users EXCEPT ![u] = row] /\ UNCHANGED <<tokens, cuts, states>>
  <2>1. users' \in [Accounts -> Row]
    BY <1>1, <1>4, <1>12 DEF IInv, TypeOK
  <2>2. users'[u] = row /\ \A v \in Accounts \ {u} : users'[v] = users[v]
    BY <1>1, <1>12 DEF IInv, TypeOK
  <2>3. RowStep(u)
    BY <2>2, <1>2, <1>4, <1>6, <1>12 DEF RowStep
  <2>4. AccountsStep
    BY <2>2, <2>3, <1>1, <1>6, <1>12, OneAccount
  <2>5. /\ TokenInv' /\ tokens' \in Seq(Token) /\ states' \in [Accounts -> Nat]
        /\ cuts' \in [Accounts -> Nat]
    BY <1>12 DEF IInv, TypeOK, TokenInv
  <2> QED
    BY <2>1, <2>4, <2>5, <1>5, <1>6, <1>8, <1>9, <1>12, RowsChanged
<1> QED
  BY <1>5, <1>10, <1>11, <1>12

LEMMA deleteUserStep ==
    ASSUME IInv, NEW u \in Accounts, deleteUser(u)
    PROVE  IInv'
<1> DEFINE row == [users[u] EXCEPT !.active = FALSE]
<1>1. /\ row \in Row /\ row.kind = users[u].kind /\ row.epoch = users[u].epoch
      /\ row.subject = users[u].subject
  BY DEF IInv, TypeOK, Row
<1>2. CASE endAccess(u, row)
  <2> HIDE DEF row
  <2>1. /\ users' = [users EXCEPT ![u] = endSessions(row)] /\ endSessions(row) \in Row
        /\ endSessions(row).kind = users[u].kind /\ endSessions(row).subject = users[u].subject
        /\ tokens' \in Seq(Token) /\ TokenInv' /\ AccountsStep
        /\ cuts' \in [Accounts -> Nat] /\ states' \in [Accounts -> Nat]
    BY <1>1, <1>2, endAccessStep DEF deleteUser
  <2>2. RowInv'
    BY <2>1, RowKept
  <2>3. users' \in [Accounts -> Row] /\ renamed' \in BOOLEAN /\ call' \in [Callers -> Call] /\ CallsStep
    BY <2>1 DEF IInv, TypeOK, deleteUser, CallsStep
  <2> QED
    BY <2>1, <2>2, <2>3, RowsChanged DEF deleteUser
<1>3. CASE UNCHANGED <<users, tokens, cuts, states>>
  <2>1. AccountsStep /\ RowInv'
    BY <1>3, AccountsLeft DEF IInv, deleteUser
  <2> QED
    BY <1>3, <2>1, RowsChanged DEF IInv, TypeOK, deleteUser, CallsStep, TokenInv
<1> QED
  BY <1>2, <1>3 DEF deleteUser, Delete

LEMMA handleChangePasswordStep ==
    ASSUME IInv, NEW c \in Callers, handleChangePassword(c)
    PROVE  IInv'
<1> DEFINE u == call[c].u
           w == endSessions([users[u] EXCEPT !.pw = FreshHash(u)])
<1>1. u \in Accounts
  BY CallTypes DEF handleChangePassword, IInv, TypeOK
<1>2. users[u] \in Row /\ cuts[u] \in Nat /\ users[u].epoch \in Nat
  BY <1>1 DEF IInv, TypeOK, Row
<1>3. /\ w \in Row /\ w.kind = users[u].kind /\ w.subject = users[u].subject
      /\ w.epoch = users[u].epoch + 1
  <2>1. FreshHash(u) \in Nat
    BY <1>2 DEF FreshHash
  <2> DEFINE x == [users[u] EXCEPT !.pw = FreshHash(u)]
  <2>2. /\ x \in Row /\ x.kind = users[u].kind /\ x.subject = users[u].subject
        /\ x.epoch = users[u].epoch
    BY <1>2, <2>1 DEF Row
  <2>3. w = [x EXCEPT !.epoch = @ + 1]
    BY DEF endSessions
  <2> HIDE DEF x, w
  <2> QED
    BY <2>2, <2>3 DEF Row
<1>4. users' = [users EXCEPT ![u] = w] /\ cuts' = [cuts EXCEPT ![u] = @ + 1]
      /\ UNCHANGED <<tokens, states, sessions, blacklist, now, endedHere, renamed>> /\ Return(c)
  BY DEF handleChangePassword, UpdatePasswordWithFlags
<1> HIDE DEF w, u
<1>5. RowInv'
  BY <1>1, <1>3, <1>4, RowKept
<1>6. /\ users' \in [Accounts -> Row] /\ cuts' \in [Accounts -> Nat]
      /\ users'[u] = w /\ cuts'[u] = cuts[u] + 1
      /\ \A v \in Accounts \ {u} : users'[v] = users[v] /\ cuts'[v] = cuts[v]
  BY <1>1, <1>2, <1>3, <1>4 DEF IInv, TypeOK
<1>7. RowStep(u)
  BY <1>2, <1>3, <1>6 DEF RowStep
<1>8. AccountsStep
  BY <1>1, <1>4, <1>6, <1>7, OneAccount
<1>9. call' \in [Callers -> Call] /\ CallsStep
  BY <1>4, Returned
<1>10. TokenInv' /\ tokens' \in Seq(Token) /\ states' \in [Accounts -> Nat] /\ renamed' \in BOOLEAN
  BY <1>4 DEF IInv, TypeOK, TokenInv
<1> QED
  BY <1>4, <1>5, <1>6, <1>8, <1>9, <1>10, RowsChanged

\* Rows are written without a cut: what counts is the row of u.
LEMMA RowOnly ==
    ASSUME IInv, NEW u \in Accounts, NEW row \in Row,
           users' = [users EXCEPT ![u] = row], row.epoch = users[u].epoch,
           users[u].kind # "none" => row.kind = users[u].kind,
           ~renamed' /\ users[u].kind # "none" => row.subject = users[u].subject,
           renamed' \in BOOLEAN, renamed => renamed',
           UNCHANGED <<sessions, tokens, blacklist, now, cuts, states, endedHere>>,
           RowInv', call' \in [Callers -> Call], AccountsStep => CallsStep
    PROVE  IInv'
<1>1. /\ users' \in [Accounts -> Row]
      /\ users'[u] = row /\ \A v \in Accounts \ {u} : users'[v] = users[v]
      /\ users[u].epoch \in Nat /\ cuts[u] \in Nat
  BY DEF IInv, TypeOK, Row
<1>2. RowStep(u)
  BY <1>1 DEF RowStep
<1>3. AccountsStep
  BY <1>1, <1>2, OneAccount
<1>4. TokenInv' /\ tokens' \in Seq(Token) /\ cuts' \in [Accounts -> Nat] /\ states' \in [Accounts -> Nat]
  BY DEF IInv, TypeOK, TokenInv
<1> QED
  BY <1>1, <1>3, <1>4, RowsChanged

LEMMA SignInAgesStep ==
    ASSUME IInv, NEW u \in Accounts, SignInAges(u)
    PROVE  IInv'
<1> DEFINE row == [users[u] EXCEPT !.recent = FALSE]
<1>1. /\ row \in Row /\ row.kind = users[u].kind /\ row.epoch = users[u].epoch
      /\ row.subject = users[u].subject
  BY DEF IInv, TypeOK, Row
<1>2. users' = [users EXCEPT ![u] = row]
  BY DEF SignInAges
<1> HIDE DEF row
<1>3. RowInv'
  BY <1>1, <1>2, RowKept
<1> QED
  BY <1>1, <1>2, <1>3, RowOnly DEF SignInAges, IInv, TypeOK, CallsStep

LEMMA createUserStep ==
    ASSUME IInv, NEW u \in Accounts, NEW n \in Names, createUser(u, n)
    PROVE  IInv'
<1> DEFINE row == [users[u] EXCEPT !.kind = "simple", !.subject = n, !.pw = 1, !.active = TRUE]
<1>1. /\ row \in Row /\ row.kind = "simple" /\ row.epoch = users[u].epoch /\ row.subject = n
      /\ users[u].kind = "none"
  BY DEF IInv, TypeOK, Row, Kinds, createUser, CreateSimpleAuthUser
<1>2. users' = [users EXCEPT ![u] = row]
  BY DEF createUser, CreateSimpleAuthUser, IInv, TypeOK
<1> HIDE DEF row
<1>3. RowInv'
  BY <1>1, <1>2, RowRenamed DEF createUser, CreateSimpleAuthUser
<1> QED
  BY <1>1, <1>2, <1>3, RowOnly DEF createUser, IInv, TypeOK, CallsStep

LEMMA AdoptOrCreateStep ==
    ASSUME IInv, NEW c \in Callers, AdoptOrCreate(c)
    PROVE  IInv'
<1> DEFINE s == call[c].s
<1>0. s \in Subjects
  BY CallTypes DEF IInv, TypeOK, AdoptOrCreate
<1>1. ASSUME NEW u \in adoptByVerifiedEmail, UNCHANGED users,
             call' = [call EXCEPT ![c] = [pc |-> "profile", s |-> s, u |-> u]]
      PROVE  IInv'
  <2> DEFINE r == [pc |-> "profile", s |-> s, u |-> u]
  <2>1. r \in Call /\ CallOK(r)
    BY <1>0 DEF Call, CallOK, adoptByVerifiedEmail, Sso
  <2> HIDE DEF r
  <2> QED
    BY <1>1, <2>1, CallOnly DEF AdoptOrCreate, r
<1>2. ASSUME Sso = {}, NEW u \in Accounts, users[u].kind = "none",
             users' = [users EXCEPT ![u].kind = "oauth2", ![u].subject = s,
                                    ![u].active = TRUE, ![u].recent = TRUE],
             call' = [call EXCEPT ![c] = [pc |-> "found", s |-> s, u |-> u]]
      PROVE  IInv'
  <2> DEFINE row == [users[u] EXCEPT !.kind = "oauth2", !.subject = s, !.active = TRUE, !.recent = TRUE]
             r == [pc |-> "found", s |-> s, u |-> u]
  <2>1. row \in Row /\ row.kind = "oauth2" /\ row.epoch = users[u].epoch /\ row.subject = s
    BY <1>0 DEF IInv, TypeOK, Row, Kinds
  <2>2. users' = [users EXCEPT ![u] = row]
    BY <1>2 DEF IInv, TypeOK
  <2>3. Named(s) = {}
    BY <1>0, <1>2, NamedSso DEF Named
  <2>4. r \in Call /\ r.pc = "found"
    BY <1>0 DEF Call
  <2> HIDE DEF row, r, s
  <2>5. RowInv'
    <3>1. Named(row.subject) \subseteq {u} /\ row.subject \in Subjects /\ row.kind # "simple"
      BY <1>0, <2>1, <2>3
    <3> QED
      BY <1>2, <2>1, <2>2, <3>1, RowRenamed
  <2>6. call' \in [Callers -> Call] /\ CallsStep
    <3>1. call' = [call EXCEPT ![c] = r]
      BY <1>2 DEF r
    <3> QED
      BY <2>4, <3>1 DEF IInv, TypeOK, CallsStep, CallOK
  <2>7. /\ UNCHANGED <<sessions, tokens, blacklist, now, cuts, states, endedHere, renamed>>
        /\ renamed' \in BOOLEAN
    BY DEF AdoptOrCreate, IInv, TypeOK
  <2> QED
    BY <1>2, <2>1, <2>2, <2>5, <2>6, <2>7, RowOnly
<1> QED
  BY <1>1, <1>2 DEF AdoptOrCreate, refuseIfEmailInUse

LEMMA UpdateProfileStep ==
    ASSUME IInv, NEW c \in Callers, UpdateProfile(c)
    PROVE  IInv'
<1> DEFINE s == call[c].s
           u == call[c].u
           row == [users[u] EXCEPT !.subject = s, !.recent = onlyIfUsable(users[u])]
           r == [call[c] EXCEPT !.pc = "found"]
<1>1. /\ call[c] \in [pc : {"profile", "found", "vouched"}, s : Subjects, u : Accounts]
      /\ s \in Subjects /\ u \in Accounts /\ u \in Sso
  BY CallTypes DEF IInv, TypeOK, CallInv, CallOK, UpdateProfile
<1>2. users[u] \in Row /\ users[u].kind = "oauth2"
  BY <1>1 DEF IInv, TypeOK, Sso
<1>3. onlyIfUsable(users[u]) \in BOOLEAN
  BY <1>2 DEF onlyIfUsable, Row
<1>4. row \in Row /\ row.kind = users[u].kind /\ row.epoch = users[u].epoch /\ row.subject = s
  BY <1>1, <1>2, <1>3 DEF Row
<1>5. /\ users' = [users EXCEPT ![u] = row] /\ Named(s) \subseteq {u}
      /\ renamed' = (renamed \/ users[u].subject # s)
      /\ UNCHANGED <<sessions, tokens, blacklist, now, cuts, states, endedHere>>
      /\ call' = [call EXCEPT ![c] = r]
  BY <1>1 DEF UpdateProfile, Goto, IInv, TypeOK
<1>6. r \in Call /\ r.pc = "found"
  BY <1>1 DEF Call
<1> HIDE DEF row, r
<1>7. RowInv'
  BY <1>1, <1>2, <1>4, <1>5, RowRenamed
<1>8. call' \in [Callers -> Call] /\ CallsStep
  BY <1>5, <1>6 DEF IInv, TypeOK, CallsStep, CallOK
<1>9. renamed' \in BOOLEAN /\ (renamed => renamed') /\ (~renamed' => row.subject = users[u].subject)
  BY <1>4, <1>5 DEF IInv, TypeOK
<1> QED
  BY <1>1, <1>4, <1>5, <1>7, <1>8, <1>9, RowOnly
----------------------------------------------------------------------------
(* Logout *)

\* A logout's effect on the accounts: while no subject was changed, an epoch it
\* moves is that of the session's own account, whose sessions it cuts.
LEMMA LogoutAccounts ==
    ASSUME IInv, NEW id \in DOMAIN sessions, UNCHANGED renamed,
           RevokeSessions(sessions[id].subject, sessions[id].epoch),
           cuts' = [cuts EXCEPT ![sessions[id].user] =
                      IF /\ sessions[id].user \in Named(sessions[id].subject)
                         /\ sessions[id].gen = cuts[sessions[id].user]
                         /\ sessions[id].epoch >= users[sessions[id].user].epoch
                      THEN @ + 1 ELSE @]
    PROVE  /\ AccountsStep /\ RowInv'
           /\ users' \in [Accounts -> Row] /\ cuts' \in [Accounts -> Nat]
<1> DEFINE x == sessions[id]
           u == x.user
           own == u \in Named(x.subject) /\ x.gen = cuts[u] /\ x.epoch >= users[u].epoch
<1>1. u \in Accounts /\ x.epoch \in Nat /\ x.gen \in Nat /\ Good(u, x.subject, x.epoch, x.gen)
  BY SessionTypes DEF IInv, SessionInv
<1>2. \A v \in Accounts : users[v] \in Row /\ users[v].epoch \in Nat /\ cuts[v] \in Nat
  BY DEF IInv, TypeOK, Row
<1>3. \A v \in Accounts : /\ endSessions(users[v]) \in Row
                          /\ endSessions(users[v]).epoch = users[v].epoch + 1
                          /\ endSessions(users[v]).kind = users[v].kind
                          /\ endSessions(users[v]).subject = users[v].subject
  BY <1>2 DEF endSessions, Row
<1>4. \A v \in Accounts : users'[v] = IF v \in Named(x.subject) /\ users[v].epoch = x.epoch
                                     THEN endSessions(users[v]) ELSE users[v]
  BY DEF RevokeSessions
<1>5. users' \in [Accounts -> Row]
  BY <1>2, <1>3 DEF RevokeSessions
<1>6. \A v \in Accounts : cuts'[v] = IF v = u /\ own THEN cuts[v] + 1 ELSE cuts[v]
  BY <1>1 DEF IInv, TypeOK
<1>7. cuts' \in [Accounts -> Nat]
  BY <1>1, <1>2 DEF IInv, TypeOK
<1>8. \A v \in Named(x.subject) : ~renamed => v = u
  BY <1>1 DEF Good, Named, IInv, RowInv
<1> HIDE DEF own
<1>9. ASSUME NEW v \in Accounts PROVE RowStep(v)
  <2>1. CASE v = u
    <3>1. own => users[v].epoch = x.epoch /\ v \in Named(x.subject)
      BY <1>1, <1>2, <2>1 DEF own, Good
    <3>2. ~own /\ ~renamed => ~(v \in Named(x.subject) /\ users[v].epoch = x.epoch)
      BY <1>1, <1>2, <2>1 DEF own, Good
    <3> QED
      BY <1>2, <1>3, <1>4, <1>6, <2>1, <3>1, <3>2 DEF RowStep
  <2>2. CASE v # u
    BY <1>2, <1>3, <1>4, <1>6, <1>8, <2>2 DEF RowStep
  <2> QED
    BY <2>1, <2>2
<1>10. AccountsStep
  BY <1>9 DEF AccountsStep
<1>11. RowInv'
  <2>1. \A v \in Accounts : users'[v].kind = users[v].kind /\ users'[v].subject = users[v].subject
    BY <1>3, <1>4
  <2> QED
    BY <2>1 DEF IInv, RowInv, Sso
<1> QED
  BY <1>5, <1>7, <1>10, <1>11

LEMMA handleLogoutStep ==
    ASSUME IInv, NEW i \in Instances, NEW id \in DOMAIN sessions, handleLogout(i, id)
    PROVE  IInv'
<1>1. /\ now \in Nat /\ sessions[id].created \in Nat /\ sessions[id].created <= now
  BY SessionTypes, BoundsAssumption DEF IInv, TypeOK, SessionInv
<1>2. /\ AccountsStep /\ RowInv'
      /\ users' \in [Accounts -> Row] /\ cuts' \in [Accounts -> Nat]
  <2>1. CASE UNCHANGED <<users, cuts>>
    BY <2>1, AccountsLeft DEF IInv, TypeOK, handleLogout
  <2>2. CASE ~UNCHANGED <<users, cuts>>
    BY <2>2, LogoutAccounts DEF handleLogout
  <2> QED
    BY <2>1, <2>2
<1>3. ASSUME NEW j \in Instances
      PROVE  /\ blacklist'[j] = IF j = i THEN {e \in blacklist[i] : e.id # id} \union {[id |-> id, at |-> now]}
                                 ELSE blacklist[j]
             /\ endedHere'[j] = IF j = i THEN endedHere[i] \union {id} ELSE endedHere[j]
  BY DEF handleLogout, Revoke, IInv, TypeOK
<1>4. /\ blacklist' \in [Instances -> SUBSET [id : DOMAIN sessions, at : 0..now]]
      /\ endedHere' \in [Instances -> SUBSET DOMAIN sessions]
  <2>1. [id |-> id, at |-> now] \in [id : DOMAIN sessions, at : 0..now]
    BY <1>1
  <2> QED
    BY <2>1 DEF handleLogout, Revoke, IInv, TypeOK
<1>5. TypeOK'
  BY <1>2, <1>4 DEF IInv, TypeOK, handleLogout
<1>6. ListInv'
  <2> SUFFICES ASSUME NEW j \in Instances
               PROVE  /\ \A e \in blacklist'[j] : e.id \in endedHere'[j] /\ e.at >= sessions[e.id].created
                      /\ \A d \in endedHere'[j] :
                           (\E e \in blacklist'[j] : e.id = d) \/ now - sessions[d].created > MaxAge
    BY DEF ListInv, IsRevoked, handleLogout
  <2>1. /\ \A e \in blacklist[j] : e.id \in endedHere[j] /\ e.at >= sessions[e.id].created
        /\ \A d \in endedHere[j] :
             (\E e \in blacklist[j] : e.id = d) \/ now - sessions[d].created > MaxAge
    BY DEF IInv, ListInv, IsRevoked
  <2>2. CASE j # i
    BY <1>3, <2>1, <2>2
  <2>3. CASE j = i
    <3> DEFINE new == [id |-> id, at |-> now]
    <3>1. new \in blacklist'[j] /\ new.id = id /\ new.at = now
      BY <1>3, <2>3
    <3>2. \A e \in blacklist[j] : e.id # id => e \in blacklist'[j]
      BY <1>3, <2>3
    <3>3. \A e \in blacklist'[j] : e = new \/ e \in blacklist[j]
      BY <1>3, <2>3
    <3>4. endedHere'[j] = endedHere[j] \union {id}
      BY <1>3, <2>3
    <3> HIDE DEF new
    <3> QED
      BY <1>1, <2>1, <3>1, <3>2, <3>3, <3>4
  <2> QED
    BY <2>2, <2>3
<1>7. SessionsStep /\ CallsStep /\ TokenInv' /\ now <= now'
  BY <1>1 DEF SessionsStep, CallsStep, IInv, TokenInv, handleLogout
<1> QED
  BY <1>2, <1>5, <1>6, <1>7, Assembled
----------------------------------------------------------------------------
(* The invariant and what follows from it *)

LEMMA IInvInit == Init => IInv
<1> SUFFICES ASSUME Init PROVE IInv
  OBVIOUS
<1>1. sessions = <<>> /\ tokens = <<>> /\ DOMAIN sessions = {} /\ DOMAIN tokens = {}
  BY DEF Init
<1>2. NoRow \in Row /\ NoRow.kind = "none"
  BY DEF NoRow, Row, Kinds
<1>3. \A u \in Accounts : users[u] = NoRow
  BY DEF Init
<1>4. Idle \in Call /\ Idle.pc = "idle"
  BY DEF Call, Idle
<1>5. TypeOK
  <2>1. sessions \in Seq(Session) /\ tokens \in Seq(Token)
    BY <1>1
  <2>2. users \in [Accounts -> Row] /\ call \in [Callers -> Call]
    BY <1>2, <1>4 DEF Init
  <2>3. now \in 0..MaxTime
    BY BoundsAssumption DEF Init
  <2> QED
    BY <2>1, <2>2, <2>3 DEF Init, TypeOK
<1>6. RowInv
  BY <1>2, <1>3 DEF RowInv, Sso
<1>7. CallInv
  BY <1>4 DEF Init, CallInv, CallOK
<1>8. SessionInv /\ TokenInv /\ ListInv
  BY <1>1 DEF Init, SessionInv, TokenInv, ListInv
<1> QED
  BY <1>5, <1>6, <1>7, <1>8 DEF IInv

LEMMA IInvStutter == ASSUME IInv, UNCHANGED vars PROVE IInv'
<1>1. UNCHANGED <<users, sessions, tokens, blacklist, call, now, cuts, states, endedHere, renamed>>
  BY DEF vars
<1> QED
  BY <1>1 DEF IInv, TypeOK, RowInv, Sso, SessionInv, Good, CallInv, CallOK, ListInv, IsRevoked, TokenInv

LEMMA IInvNext == IInv /\ [Next]_vars => IInv'
<1> SUFFICES ASSUME IInv, [Next]_vars PROVE IInv'
  OBVIOUS
<1>1. ASSUME NEW i \in Instances, cleanup(i) \/ Restart(i) PROVE IInv'
  BY <1>1, cleanupStep, RestartStep
<1>2. ASSUME NEW i \in Instances, NEW id \in DOMAIN sessions, handleLogout(i, id) PROVE IInv'
  BY <1>2, handleLogoutStep
<1>3. ASSUME NEW u \in Accounts, deleteUser(u) \/ SignInAges(u) PROVE IInv'
  BY <1>3, deleteUserStep, SignInAgesStep
<1>4. ASSUME NEW u \in Accounts, NEW n \in Names, createUser(u, n) PROVE IInv'
  BY <1>4, createUserStep
<1>5. ASSUME NEW t \in DOMAIN tokens, revokeToken(t) \/ ExpireToken(t) PROVE IInv'
  BY <1>5, TokenEndsStep
<1>6. ASSUME NEW c \in Callers, NEW n \in Names, Authenticate(c, n) \/ ChangePasswordByUsername(c, n)
      PROVE  IInv'
  BY <1>6, AuthenticateStep, ChangePasswordStep
<1>7. ASSUME NEW c \in Callers, NEW s \in Subjects, FindBySubject(c, s) PROVE IInv'
  BY <1>7, FindBySubjectStep
<1>8. ASSUME NEW c \in Callers, NEW u \in Accounts, updateUser(c, u) \/ createToken(c, u) PROVE IInv'
  BY <1>8, updateUserStep, createTokenStep
<1>9. ASSUME NEW c \in Callers,
             \/ handleSimpleLogin(c) \/ AdoptOrCreate(c) \/ UpdateProfile(c) \/ FindOrCreateUser(c)
             \/ handleCallback(c) \/ UpdateUser(c) \/ handleChangePassword(c) \/ InsertToken(c)
      PROVE  IInv'
  BY <1>9, handleSimpleLoginStep, AdoptOrCreateStep, UpdateProfileStep, FindOrCreateUserStep,
     handleCallbackStep, UpdateUserStep, handleChangePasswordStep, InsertTokenStep
<1> QED
  BY <1>1, <1>2, <1>3, <1>4, <1>5, <1>6, <1>7, <1>8, <1>9, TickStep, IInvStutter DEF Next

THEOREM Invariance == Spec => []IInv
  BY IInvInit, IInvNext, PTL DEF Spec

\* A session that was to end is never accepted again, on any instance, and a
\* logout holds on its instance until that restarts; the types hold.
THEOREM SessionsEnd == Spec => []EndedStaysEnded
<1>1. ASSUME IInv PROVE EndedStaysEnded
  <2> SUFFICES ASSUME NEW i \in Instances, NEW id \in DOMAIN sessions,
                      authenticateFromSession(i, id)
               PROVE  /\ sessions[id].gen = cuts[sessions[id].user]
                      /\ id \notin endedHere[i]
    BY <1>1 DEF EndedStaysEnded, IInv
  <2> DEFINE x == sessions[id]
  <2>1. /\ ~IsRevoked(i, id) /\ now - x.created <= MaxAge
        /\ x.epoch >= users[x.user].epoch
    BY DEF authenticateFromSession
  <2>2. /\ x.user \in Accounts /\ x.epoch \in Nat /\ x.created \in Nat /\ x.gen \in Nat
        /\ cuts[x.user] \in Nat /\ users[x.user].epoch \in Nat /\ now \in Nat /\ MaxAge \in Nat
    <3>1. /\ x.user \in Accounts /\ x.epoch \in Nat /\ x.created \in Nat /\ x.gen \in Nat
      BY <1>1, SessionTypes DEF IInv
    <3>2. users \in [Accounts -> Row] /\ cuts \in [Accounts -> Nat] /\ now \in Nat /\ MaxAge \in Nat
      BY <1>1, BoundsAssumption DEF IInv, TypeOK
    <3> HIDE DEF x
    <3> QED
      BY <3>1, <3>2 DEF Row
  <2>3. Good(x.user, x.subject, x.epoch, x.gen)
    BY <1>1 DEF IInv, SessionInv
  <2>4. x.gen = cuts[x.user]
    BY <2>1, <2>2, <2>3 DEF Good
  <2>5. id \notin endedHere[i]
    BY <1>1, <2>1, <2>2 DEF IInv, ListInv
  <2> QED
    BY <2>4, <2>5
<1> QED
  BY <1>1, Invariance, PTL

\* While no subject was changed, an account's current session is accepted until
\* it ages, is logged out here or the account is cut off.
THEOREM SessionsKept == Spec => []CurrentSessionsKept
<1>1. ASSUME IInv PROVE CurrentSessionsKept
  <2> SUFFICES ASSUME NEW i \in Instances, NEW id \in DOMAIN sessions, ~renamed,
                      sessions[id].gen = cuts[sessions[id].user],
                      now - sessions[id].created <= MaxAge,
                      Usable(users[sessions[id].user]), id \notin endedHere[i]
               PROVE  authenticateFromSession(i, id)
    BY DEF CurrentSessionsKept
  <2> DEFINE x == sessions[id]
  <2>1. /\ x.user \in Accounts /\ x.epoch \in Nat /\ x.epoch = users[x.user].epoch
        /\ users[x.user].subject = x.subject /\ users[x.user].kind # "none"
    BY <1>1, SessionTypes DEF IInv, SessionInv, Good
  <2>2. ~IsRevoked(i, id)
    BY <1>1 DEF IInv, ListInv, IsRevoked
  <2>3. x.user \in Named(x.subject)
    BY <2>1 DEF Named
  <2> QED
    BY <2>1, <2>2, <2>3 DEF authenticateFromSession
<1> QED
  BY <1>1, Invariance, PTL

\* A token does not outlive a change of its account's status.
THEOREM TokensEnd == Spec => []TokensEndWithStatus
<1>1. IInv => TokensEndWithStatus
  BY DEF IInv, TokenInv, TokensEndWithStatus, Validate
<1> QED
  BY <1>1, Invariance, PTL

-----------------------------------------------------------------------------
(* SsoLogin: the inductive invariant.                                        *)

USE SsoAssumption

LoginRows == [browser : Browsers, url : {TRUE}, code : {"no", "issued", "used"}]

\* After a callback was taken, a request has the login it is about.
Bound == {"exchange", "redeem", "store", "reload", "admin"}

RequestStates ==
       {NoRequest}
  \cup [pc : {"ready", "url"}, browser : Browsers]
  \cup [pc : {"exchange", "redeem", "reload"}, browser : Browsers, login : Nat]
  \cup [pc : {"store", "admin"}, browser : Browsers, login : Nat, claim : AllClaims]

\* A browser's cookie, and a callback taken with it, are about a login of that
\* browser, and every login has its URL.
RequestInv ==
  /\ request \in [Calls -> RequestStates] /\ logins \in Seq(LoginRows)
  /\ cookie \in [Browsers -> Nat]
  /\ \A b \in Browsers : cookie[b] # 0 => cookie[b] \in DOMAIN logins /\ logins[cookie[b]].browser = b
  /\ \A c \in Calls : request[c].pc \in Bound =>
       request[c].login \in DOMAIN logins /\ logins[request[c].login].browser = request[c].browser

\* Attempts: since is the time since the last one failed, discovery is only run
\* when that was long enough ago, and a login that asks for the URL is connected.
DiscoveryInv ==
  /\ gap = since /\ (mu # None => since = RetryAfter)
  /\ \A c \in Calls : request[c].pc = "url" => connected

\* The claims, stored and on their way, and the role: only what was vouched for.
AdminInv ==
  /\ admin \in BOOLEAN /\ vouched \in BOOLEAN
  /\ admin => vouched
  /\ stored.listed /\ stored.verified => vouched
  /\ \A c \in Calls : request[c].pc \in {"store", "admin"} =>
       (request[c].claim.listed /\ request[c].claim.verified => vouched)

SignInInv == LoginTypes /\ RequestInv /\ DiscoveryInv /\ AdminInv

-----------------------------------------------------------------------------
(* Requests.                                                                 *)

\* What LoginTypes states of the cookies and logins.
Tabled ==
  /\ \A b \in Browsers : cookie[b] \in 0..Len(logins)
  /\ \A l \in DOMAIN logins : logins[l].url

LEMMA RequestTypes == RequestInv => Tabled
<1> SUFFICES ASSUME RequestInv PROVE Tabled
  OBVIOUS
<1>1. \A b \in Browsers : cookie[b] \in 0..Len(logins)
  BY DEF RequestInv
<1>2. \A l \in DOMAIN logins : logins[l] \in LoginRows
  BY DEF RequestInv
<1>3. \A l \in DOMAIN logins : logins[l].url
  BY <1>2 DEF LoginRows
<1> QED BY <1>1, <1>3 DEF Tabled

LEMMA RequestTypesNext == RequestInv' => Tabled'
BY RequestTypes, PTL

\* A request moves on: the others stay.
LEMMA OneMoves ==
  ASSUME request \in [Calls -> RequestStates], NEW c \in Calls, NEW r \in RequestStates, request' = [request EXCEPT ![c] = r]
  PROVE  /\ request' \in [Calls -> RequestStates] /\ request'[c] = r
         /\ \A d \in Calls : d # c => request'[d] = request[d]
OBVIOUS

\* A step of one request that begins no login keeps RequestInv.
LEMMA RequestStep ==
  ASSUME RequestInv, NEW c \in Calls, NEW r \in RequestStates, request' = [request EXCEPT ![c] = r],
         r.pc \in Bound => r.login \in DOMAIN logins /\ logins[r.login].browser = r.browser,
         cookie' = cookie \/ \E b \in Browsers : cookie' = [cookie EXCEPT ![b] = 0],
         logins' \in Seq(LoginRows), DOMAIN logins' = DOMAIN logins,
         \A l \in DOMAIN logins : logins'[l].browser = logins[l].browser
  PROVE  RequestInv'
<1>1. /\ request' \in [Calls -> RequestStates] /\ request'[c] = r
      /\ \A d \in Calls : d # c => request'[d] = request[d]
  BY OneMoves DEF RequestInv
<1>2. cookie' \in [Browsers -> Nat]
  BY DEF RequestInv
<1>3. \A b \in Browsers : cookie'[b] # 0 => cookie'[b] = cookie[b]
  BY DEF RequestInv
<1>4. \A b \in Browsers : cookie'[b] # 0 => cookie'[b] \in DOMAIN logins' /\ logins'[cookie'[b]].browser = b
  BY <1>3 DEF RequestInv
<1>5. ASSUME NEW d \in Calls, request'[d].pc \in Bound
      PROVE  request'[d].login \in DOMAIN logins' /\ logins'[request'[d].login].browser = request'[d].browser
  <2>1. CASE d = c
    BY <1>1, <1>5, <2>1
  <2>2. CASE d # c
    BY <1>1, <1>5, <2>2 DEF RequestInv
  <2> QED BY <2>1, <2>2
<1> QED BY <1>1, <1>2, <1>4, <1>5 DEF RequestInv

\* The fields of a request, by where it is.
LEMMA RequestFields ==
  ASSUME NEW r \in RequestStates
  PROVE  /\ r.pc # "idle" => r.browser \in Browsers
         /\ r.pc \in Bound => r.login \in Nat
         /\ r.pc \in {"store", "admin"} => r.claim \in AllClaims
BY DEF RequestStates, NoRequest, Bound

\* A request begins a login: the browser's cookie and the new login.
LEMMA LoginBegins ==
  ASSUME RequestInv, NEW c \in Calls, request[c].pc = "url", request' = [request EXCEPT ![c] = NoRequest],
         logins' = Append(logins, [browser |-> request[c].browser, url |-> TRUE, code |-> "no"]),
         cookie' = [cookie EXCEPT ![request[c].browser] = Len(logins) + 1]
  PROVE  RequestInv'
<1> DEFINE b == request[c].browser
           row1 == [browser |-> b, url |-> TRUE, code |-> "no"]
<1>1. b \in Browsers
  BY RequestFields DEF RequestInv
<1>2. row1 \in LoginRows /\ row1.browser = b
  BY <1>1 DEF LoginRows
<1>3. logins \in Seq(LoginRows) /\ logins' = Append(logins, row1)
  BY DEF RequestInv
<1>4. /\ request' \in [Calls -> RequestStates] /\ request'[c] = NoRequest
      /\ \A d \in Calls : d # c => request'[d] = request[d]
  BY OneMoves DEF RequestInv, RequestStates
<1> HIDE DEF row1
<1>5. /\ logins' \in Seq(LoginRows) /\ DOMAIN logins' = 1..Len(logins) + 1 /\ DOMAIN logins = 1..Len(logins)
      /\ Len(logins) \in Nat /\ logins'[Len(logins) + 1] = row1
      /\ \A l \in DOMAIN logins : logins'[l] = logins[l]
  BY <1>2, <1>3
<1>6. cookie' \in [Browsers -> Nat] /\ cookie'[b] = Len(logins) + 1
      /\ \A a \in Browsers : a # b => cookie'[a] = cookie[a]
  BY <1>1, <1>5 DEF RequestInv
<1>7. \A a \in Browsers : cookie'[a] # 0 => cookie'[a] \in DOMAIN logins' /\ logins'[cookie'[a]].browser = a
  <2>1. \A a \in Browsers : cookie[a] # 0 => cookie[a] \in DOMAIN logins /\ logins[cookie[a]].browser = a
    BY DEF RequestInv
  <2> QED BY <1>2, <1>5, <1>6, <2>1
<1>8. ASSUME NEW d \in Calls, request'[d].pc \in Bound
      PROVE  request'[d].login \in DOMAIN logins' /\ logins'[request'[d].login].browser = request'[d].browser
  <2>1. d # c
    BY <1>4, <1>8 DEF NoRequest, Bound
  <2>2. request'[d] = request[d]
    BY <1>4, <2>1
  <2>3. request[d].login \in DOMAIN logins /\ logins[request[d].login].browser = request[d].browser
    BY <1>8, <2>2 DEF RequestInv
  <2> QED BY <1>5, <2>2, <2>3
<1> QED BY <1>4, <1>5, <1>6, <1>7, <1>8 DEF RequestInv

\* The answer of a callback ends the request.
LEMMA AnswerStep ==
  ASSUME RequestInv, NEW c \in Calls, request[c].pc \in Bound, Answer(c),
         logins' \in Seq(LoginRows), DOMAIN logins' = DOMAIN logins,
         \A l \in DOMAIN logins : logins'[l].browser = logins[l].browser
  PROVE  RequestInv' /\ request' = [request EXCEPT ![c] = NoRequest]
<1>1. request[c].browser \in Browsers
  BY RequestFields DEF RequestInv, Bound
<1>2. /\ request' = [request EXCEPT ![c] = NoRequest]
      /\ cookie' = cookie \/ \E b \in Browsers : cookie' = [cookie EXCEPT ![b] = 0]
  BY <1>1 DEF Answer, Finish
<1>3. NoRequest \in RequestStates /\ NoRequest.pc \notin Bound
  BY DEF RequestStates, NoRequest, Bound
<1> QED BY <1>2, <1>3, RequestStep

\* A request that goes on, with the same browser and login.
LEMMA ProceedStep ==
  ASSUME RequestInv, NEW c \in Calls, NEW pc,
         \/ request[c].pc = "ready" /\ pc = "url"
         \/ request[c].pc = "exchange" /\ pc = "redeem",
         Proceed(c, pc)
  PROVE  \E r \in RequestStates :
           /\ r.pc = pc /\ request' = [request EXCEPT ![c] = r]
           /\ r.pc \in Bound => r.login = request[c].login /\ r.browser = request[c].browser /\ request[c].pc \in Bound
<1> DEFINE r == [request[c] EXCEPT !.pc = pc]
<1>1. request[c] \in RequestStates /\ request' = [request EXCEPT ![c] = r]
  BY DEF RequestInv, Proceed
<1>2. CASE request[c].pc = "ready" /\ pc = "url"
  <2>1. request[c] \in [pc : {"ready", "url"}, browser : Browsers]
    BY <1>1, <1>2 DEF RequestStates, NoRequest
  <2>2. r \in [pc : {"ready", "url"}, browser : Browsers] /\ r.pc = "url"
    BY <1>2, <2>1
  <2>3. r \in RequestStates /\ r.pc \notin Bound
    BY <2>2 DEF RequestStates, Bound
  <2> QED BY <1>1, <1>2, <2>2, <2>3
<1>3. CASE request[c].pc = "exchange" /\ pc = "redeem"
  <2>1. request[c] \in [pc : {"exchange", "redeem", "reload"}, browser : Browsers, login : Nat]
    BY <1>1, <1>3 DEF RequestStates, NoRequest
  <2>2. /\ r \in [pc : {"exchange", "redeem", "reload"}, browser : Browsers, login : Nat]
        /\ r.pc = "redeem" /\ r.login = request[c].login /\ r.browser = request[c].browser
    BY <1>3, <2>1
  <2>3. r \in RequestStates /\ request[c].pc \in Bound
    BY <1>3, <2>2 DEF RequestStates, Bound
  <2> QED BY <1>1, <1>3, <2>2, <2>3
<1> QED BY <1>2, <1>3

\* What get's return leaves: the server waits again, or one request moves, not to
\* the URL without a provider and not past the code.
LEMMA GetReturnsFacts ==
  ASSUME SignInInv, NEW a \in Actors, NEW ok \in BOOLEAN, GetReturns(a, ok),
         a \in Calls /\ request[a].pc = "url" => ok
  PROVE  /\ RequestInv'
         /\ \/ a = "server" /\ server' = "wait" /\ UNCHANGED request
            \/ a \in Calls /\ UNCHANGED server /\ \E r \in RequestStates :
                  /\ request' = [request EXCEPT ![a] = r]
                  /\ r.pc = "url" => ok
                  /\ r.pc \notin {"store", "admin"}
<1>1. RequestInv
  BY DEF SignInInv
<1>2. CASE a = "server"
  <2>1. a \notin Calls
    BY <1>2 DEF SsoAssumption
  <2>2. server' = "wait" /\ UNCHANGED <<due, stopping, cookie, logins, request>>
    BY <1>2, <2>1 DEF GetReturns
  <2> QED BY <1>1, <1>2, <2>2 DEF RequestInv
<1>3. CASE a \in Calls /\ request[a].pc = "ready"
  <2>1. a # "server" /\ (IF ok THEN Proceed(a, "url") ELSE Finish(a)) /\ UNCHANGED <<running, cookie, logins>>
    BY <1>3 DEF GetReturns, SsoAssumption
  <2>2. PICK r \in RequestStates : request' = [request EXCEPT ![a] = r] /\ r.pc \in {"url", "idle"} /\ (r.pc = "url" => ok)
    <3>1. CASE ok
      BY <1>1, <1>3, <2>1, <3>1, ProceedStep
    <3>2. CASE ~ok
      <4>1. NoRequest \in RequestStates /\ NoRequest.pc = "idle"
        BY DEF RequestStates, NoRequest
      <4> QED BY <2>1, <3>2, <4>1 DEF Finish
    <3> QED BY <3>1, <3>2
  <2>3. r.pc \notin Bound
    BY <2>2 DEF Bound
  <2>4. logins' \in Seq(LoginRows)
    BY <1>1, <2>1 DEF RequestInv
  <2>5. RequestInv'
    BY <1>1, <1>3, <2>1, <2>2, <2>3, <2>4, RequestStep
  <2> QED BY <1>3, <2>1, <2>2, <2>5 DEF running
<1>4. CASE a \in Calls /\ request[a].pc = "url"
  <2>1. /\ a # "server" /\ ok = TRUE /\ Finish(a) /\ UNCHANGED running
        /\ logins' = Append(logins, [browser |-> request[a].browser, url |-> ok, code |-> "no"])
        /\ Save(request[a].browser)
    BY <1>4 DEF GetReturns, SsoAssumption
  <2>2. RequestInv'
    BY <1>1, <1>4, <2>1, LoginBegins DEF Finish, Save
  <2>3. NoRequest \in RequestStates /\ NoRequest.pc = "idle"
    BY DEF RequestStates, NoRequest
  <2> QED BY <1>4, <2>1, <2>2, <2>3 DEF Finish, running
<1>5. CASE a \in Calls /\ request[a].pc \notin {"ready", "url"}
  <2>1. /\ a # "server" /\ request[a].pc = "exchange" /\ UNCHANGED <<running, logins>>
        /\ \/ ok /\ Proceed(a, "redeem") /\ UNCHANGED cookie
           \/ Answer(a)
    BY <1>5 DEF GetReturns, SsoAssumption
  <2>2. logins' \in Seq(LoginRows) /\ DOMAIN logins' = DOMAIN logins /\ logins' = logins
    BY <1>1, <2>1 DEF RequestInv
  <2>3. CASE Proceed(a, "redeem") /\ UNCHANGED cookie
    <3>1. PICK r \in RequestStates :
            /\ r.pc = "redeem" /\ request' = [request EXCEPT ![a] = r]
            /\ r.pc \in Bound => r.login = request[a].login /\ r.browser = request[a].browser /\ request[a].pc \in Bound
      BY <1>1, <1>5, <2>1, <2>3, ProceedStep
    <3>2. r.pc \in Bound => r.login \in DOMAIN logins /\ logins[r.login].browser = r.browser
      BY <1>1, <1>5, <3>1 DEF RequestInv
    <3>3. RequestInv'
      BY <1>1, <1>5, <2>2, <2>3, <3>1, <3>2, RequestStep
    <3> QED BY <1>5, <2>1, <3>1, <3>3 DEF running
  <2>4. CASE Answer(a)
    <3>1. request[a].pc \in Bound
      BY <2>1 DEF Bound
    <3>2. RequestInv' /\ request' = [request EXCEPT ![a] = NoRequest]
      BY <1>1, <1>5, <2>2, <2>4, <3>1, AnswerStep
    <3>3. NoRequest \in RequestStates /\ NoRequest.pc = "idle"
      BY DEF RequestStates, NoRequest
    <3> QED BY <1>5, <2>1, <3>2, <3>3 DEF running
  <2> QED BY <2>1, <2>3, <2>4
<1> QED BY <1>2, <1>3, <1>4, <1>5 DEF Actors

-----------------------------------------------------------------------------
(* Discovery.                                                                *)

\* A step of one request that says nothing about claims keeps what was vouched for.
LEMMA AdminUnaffected ==
  ASSUME SignInInv, NEW c \in Calls, NEW r \in RequestStates, request' = [request EXCEPT ![c] = r],
         r.pc \notin {"store", "admin"}, UNCHANGED account
  PROVE  AdminInv'
<1>1. request'[c] = r /\ \A d \in Calls : d # c => request'[d] = request[d]
  BY DEF SignInInv, RequestInv
<1>2. UNCHANGED <<stored, admin, vouched>>
  BY DEF account
<1>3. ASSUME NEW d \in Calls, request'[d].pc \in {"store", "admin"}
      PROVE  request'[d].claim.listed /\ request'[d].claim.verified => vouched
  <2>1. d # c
    BY <1>1, <1>3
  <2>2. request'[d] = request[d]
    BY <1>1, <2>1
  <2> QED BY <1>3, <2>2 DEF SignInInv, AdminInv
<1> QED BY <1>2, <1>3 DEF SignInInv, AdminInv

\* A step that leaves the requests and the account alone.
LEMMA AdminStays == ASSUME SignInInv, UNCHANGED <<request, account>> PROVE AdminInv'
BY DEF SignInInv, AdminInv, account

LEMMA GetInv == ASSUME SignInInv, NEW a \in Actors, Get(a) PROVE SignInInv'
<1> USE DEF SignInInv
<1>1. InGet(a) /\ mu = None /\ UNCHANGED <<idp, connected, since, gap, account>>
  BY DEF Get
<1>2. ASSUME NEW ok \in BOOLEAN, connected = ok, GetReturns(a, ok), UNCHANGED <<mu, held>>
      PROVE  SignInInv'
  <2>1. a \in Calls /\ request[a].pc = "url" => ok
    BY <1>2 DEF DiscoveryInv
  <2>2. /\ RequestInv'
        /\ \/ a = "server" /\ server' = "wait" /\ UNCHANGED request
           \/ a \in Calls /\ UNCHANGED server /\ \E r \in RequestStates :
                 /\ request' = [request EXCEPT ![a] = r]
                 /\ r.pc = "url" => ok
                 /\ r.pc \notin {"store", "admin"}
    BY <1>2, <2>1, GetReturnsFacts
  <2>3. LoginTypes'
    <3>1. server' \in {"boot", "wait", "get", "done"}
      BY <2>2 DEF LoginTypes
    <3>2. Tabled'
      BY <2>2, RequestTypesNext
    <3> QED BY <1>1, <1>2, <3>1, <3>2 DEF LoginTypes, Tabled, account
  <2>4. DiscoveryInv'
    <3>1. \A c \in Calls : request'[c].pc = "url" => connected
      <4>1. CASE UNCHANGED request
        BY <4>1 DEF DiscoveryInv
      <4>2. ASSUME NEW r \in RequestStates, a \in Calls, request' = [request EXCEPT ![a] = r], r.pc = "url" => ok
            PROVE  \A c \in Calls : request'[c].pc = "url" => connected
        <5>1. request'[a] = r /\ \A d \in Calls : d # a => request'[d] = request[d]
          BY <4>2 DEF RequestInv
        <5> QED BY <1>2, <4>2, <5>1 DEF DiscoveryInv
      <4> QED BY <2>2, <4>1, <4>2
    <3> QED BY <1>1, <1>2, <3>1 DEF DiscoveryInv
  <2>5. AdminInv'
    BY <1>1, <2>2, AdminStays, AdminUnaffected
  <2> QED BY <2>2, <2>3, <2>4, <2>5
<1>3. CASE /\ ~connected /\ since = RetryAfter /\ mu' = a /\ held' = 0
           /\ UNCHANGED <<running, cookie, logins, request>>
  <2>1. LoginTypes'
    BY <1>1, <1>3 DEF LoginTypes, running, account, InGet
  <2>2. RequestInv'
    BY <1>3 DEF RequestInv
  <2>3. DiscoveryInv' /\ AdminInv'
    BY <1>1, <1>3, AdminStays DEF DiscoveryInv
  <2> QED BY <2>1, <2>2, <2>3
<1>4. connected \in BOOLEAN
  BY DEF LoginTypes
<1> QED BY <1>2, <1>3, <1>4 DEF Get

LEMMA AttemptEndsInv == ASSUME SignInInv, NEW a \in Actors, NEW ok \in BOOLEAN, AttemptEnds(a, ok) PROVE SignInInv'
<1> USE DEF SignInInv
<1>1. /\ mu = a /\ InGet(a) /\ mu' = None /\ held' = 0 /\ connected' = ok
      /\ since' = (IF ok THEN RetryAfter ELSE 0) /\ gap' = (IF ok THEN RetryAfter ELSE 0)
      /\ GetReturns(a, ok) /\ UNCHANGED <<idp, account>>
  BY DEF AttemptEnds, Attempted
<1>2. mu # None /\ ~connected
  BY <1>1 DEF Actors, SsoAssumption, LoginTypes, None
<1>3. \A c \in Calls : request[c].pc # "url"
  BY <1>2 DEF DiscoveryInv
<1>4. /\ RequestInv'
      /\ \/ a = "server" /\ server' = "wait" /\ UNCHANGED request
         \/ a \in Calls /\ UNCHANGED server /\ \E r \in RequestStates :
               /\ request' = [request EXCEPT ![a] = r]
               /\ r.pc = "url" => ok
               /\ r.pc \notin {"store", "admin"}
  BY <1>1, <1>3, GetReturnsFacts
<1>5. LoginTypes'
  <2>1. server' \in {"boot", "wait", "get", "done"}
    BY <1>4 DEF LoginTypes
  <2>2. Tabled'
    BY <1>4, RequestTypesNext
  <2>3. RetryAfter \in Nat /\ Timeout \in Nat
    BY DEF SsoAssumption
  <2> QED BY <1>1, <2>1, <2>2, <2>3 DEF LoginTypes, Tabled, account
<1>6. DiscoveryInv'
  <2>1. \A c \in Calls : request'[c].pc = "url" => ok
    <3>1. CASE UNCHANGED request
      BY <1>3, <3>1
    <3>2. ASSUME NEW r \in RequestStates, a \in Calls, request' = [request EXCEPT ![a] = r], r.pc = "url" => ok
          PROVE  \A c \in Calls : request'[c].pc = "url" => ok
      <4>1. request'[a] = r /\ \A d \in Calls : d # a => request'[d] = request[d]
        BY <3>2 DEF RequestInv
      <4> QED BY <1>3, <3>2, <4>1
    <3> QED BY <1>4, <3>1, <3>2
  <2> QED BY <1>1, <2>1 DEF DiscoveryInv
<1>7. AdminInv'
  BY <1>1, <1>4, AdminStays, AdminUnaffected
<1> QED BY <1>4, <1>5, <1>6, <1>7
\* Run, its ticker, the server's stop and the provider's changes.
LEMMA ServerInv ==
  ASSUME SignInInv, Run \/ TickerTicks \/ Stop \/ IdpChanges
  PROVE  SignInInv'
<1> USE DEF SignInInv
<1>1. /\ UNCHANGED <<discovery, cookie, logins, account, request>>
      /\ idp' \in {"up", "down"} /\ server' \in {"boot", "wait", "get", "done"}
      /\ server = "wait" \/ UNCHANGED server
  BY DEF Run, TickerTicks, Stop, IdpChanges, running, LoginTypes
<1>2. RequestInv'
  BY <1>1 DEF RequestInv
<1>3. DiscoveryInv' /\ AdminInv'
  BY <1>1, AdminStays DEF DiscoveryInv, discovery
<1>4. LoginTypes'
  <2>1. (mu' # None => InGet(mu)' /\ ~connected')
    BY <1>1 DEF LoginTypes, InGet, discovery
  <2>2. Tabled'
    BY <1>2, RequestTypesNext
  <2> QED BY <1>1, <2>1, <2>2 DEF LoginTypes, Tabled, discovery, account
<1> QED BY <1>2, <1>3, <1>4

LEMMA ServerRestartsInv == ASSUME SignInInv, ServerRestarts PROVE SignInInv'
<1> USE DEF SignInInv
<1>1. /\ connected' = FALSE /\ since' = RetryAfter /\ gap' = RetryAfter /\ mu' = None /\ held' = 0
      /\ server' = "boot" /\ request' = [c \in Calls |-> NoRequest] /\ UNCHANGED <<idp, cookie, logins, account>>
  BY DEF ServerRestarts
<1>2. \A c \in Calls : request'[c].pc = "idle"
  BY <1>1 DEF NoRequest
<1>3. RequestInv'
  BY <1>1, <1>2 DEF RequestInv, RequestStates, Bound
<1>4. DiscoveryInv' /\ AdminInv'
  BY <1>1, <1>2 DEF DiscoveryInv, AdminInv, account
<1>5. LoginTypes'
  <2>1. RetryAfter \in Nat /\ Timeout \in Nat
    BY DEF SsoAssumption
  <2>2. since' \in 0..RetryAfter /\ held' \in 0..Timeout /\ gap' \in 0..RetryAfter
    BY <1>1, <2>1
  <2>3. Tabled'
    BY <1>3, RequestTypesNext
  <2> QED BY <1>1, <2>2, <2>3 DEF LoginTypes, Tabled, account
<1> QED BY <1>3, <1>4, <1>5

LEMMA TimePassesInv == ASSUME SignInInv, TimePasses PROVE SignInInv'
<1> USE DEF SignInInv
<1>1. /\ mu = None \/ held < Timeout
      /\ held' = (IF mu = None THEN 0 ELSE held + 1) /\ since' = Older(since)
      /\ gap' = (IF mu = None THEN Older(gap) ELSE gap)
      /\ UNCHANGED <<idp, connected, mu, running, cookie, logins, account, request>>
  BY DEF TimePasses
<1>2. RetryAfter \in Nat /\ Timeout \in Nat
  BY DEF SsoAssumption
<1>3. since \in 0..RetryAfter /\ gap = since /\ (mu # None => since = RetryAfter) /\ held \in 0..Timeout
  BY DEF LoginTypes, DiscoveryInv
<1>4. /\ since' \in 0..RetryAfter /\ gap' = since' /\ (mu # None => since' = RetryAfter)
      /\ held' \in 0..Timeout
  BY <1>1, <1>2, <1>3 DEF Older
<1>5. LoginTypes'
  BY <1>1, <1>4 DEF LoginTypes, InGet, running, account
<1>6. DiscoveryInv'
  BY <1>1, <1>4 DEF DiscoveryInv
<1>7. RequestInv' /\ AdminInv'
  BY <1>1, AdminStays DEF RequestInv
<1> QED BY <1>5, <1>6, <1>7

-----------------------------------------------------------------------------
(* Logins and callbacks.                                                     *)

\* A request that is not in get, before or after its step, leaves discovery alone.
LEMMA DiscoveryUnaffected ==
  ASSUME SignInInv, NEW c \in Calls, NEW r \in RequestStates, request' = [request EXCEPT ![c] = r],
         request[c].pc \notin {"ready", "url", "exchange"}, r.pc # "url",
         UNCHANGED <<idp, discovery, running>>, RequestInv', stored' \in AllClaims
  PROVE  LoginTypes' /\ DiscoveryInv'
<1> USE DEF SignInInv
<1>1. /\ UNCHANGED <<idp, connected, since, mu, held, gap, server>> /\ stored' \in AllClaims
      /\ request'[c] = r /\ \A d \in Calls : d # c => request'[d] = request[d]
  BY OneMoves DEF discovery, running, RequestInv
<1>2. mu # None => InGet(mu)' /\ ~connected
  BY <1>1 DEF LoginTypes, InGet, Actors
<1>3. Tabled'
  BY RequestTypesNext
<1>4. LoginTypes'
  BY <1>1, <1>2, <1>3 DEF LoginTypes, Tabled
<1>5. DiscoveryInv'
  BY <1>1 DEF DiscoveryInv
<1> QED BY <1>4, <1>5

LEMMA LoginInv ==
  ASSUME SignInInv, NEW c \in Calls, NEW b \in Browsers, handleOAuth2Login(c, b)
  PROVE  SignInInv'
<1> USE DEF SignInInv
<1> DEFINE r == [pc |-> "ready", browser |-> b]
<1>1. /\ request[c] = NoRequest /\ request' = [request EXCEPT ![c] = r]
      /\ UNCHANGED <<idp, discovery, running, cookie, logins, account>>
  BY DEF handleOAuth2Login, Begin
<1>2. r \in RequestStates /\ r.pc \notin Bound /\ r.pc \notin {"store", "admin", "url"}
  BY DEF RequestStates, Bound
<1>3. request[c].pc = "idle" /\ stored' \in AllClaims
  BY <1>1 DEF NoRequest, account, LoginTypes
<1> HIDE DEF r
<1>4. RequestInv'
  BY <1>1, <1>2, RequestStep DEF RequestInv
<1>5. LoginTypes' /\ DiscoveryInv'
  BY <1>1, <1>2, <1>3, <1>4, DiscoveryUnaffected
<1>6. AdminInv'
  BY <1>1, <1>2, AdminUnaffected
<1> QED BY <1>4, <1>5, <1>6

LEMMA CallbackInv ==
  ASSUME SignInInv, NEW c \in Calls, NEW b \in Browsers, NEW l \in DOMAIN logins, CallbackBegins(c, b, l)
  PROVE  SignInInv'
<1> USE DEF SignInInv
<1> DEFINE r == [pc |-> "exchange", browser |-> b, login |-> l]
<1>1. /\ request[c] = NoRequest /\ cookie[b] = l /\ request' = [request EXCEPT ![c] = r]
      /\ UNCHANGED <<idp, discovery, running, cookie, logins, account>>
  BY DEF CallbackBegins, Take
<1>2. l \in Nat /\ l # 0 /\ logins[l].browser = b
  <2>1. l \in 1..Len(logins) /\ Len(logins) \in Nat
    BY DEF RequestInv
  <2> QED BY <1>1, <2>1 DEF RequestInv
<1>3. r \in RequestStates /\ r.pc \notin {"store", "admin", "url"} /\ r.login = l /\ r.browser = b
  BY <1>2 DEF RequestStates
<1>4. request[c].pc = "idle" /\ stored' \in AllClaims
  BY <1>1 DEF NoRequest, account, LoginTypes
<1> HIDE DEF r
<1>5. RequestInv'
  BY <1>1, <1>2, <1>3, RequestStep DEF RequestInv
<1>6. LoginTypes' /\ DiscoveryInv'
  BY <1>1, <1>3, <1>4, <1>5, DiscoveryUnaffected
<1>7. AdminInv'
  BY <1>1, <1>3, AdminUnaffected
<1> QED BY <1>5, <1>6, <1>7

\* The claims of an ID token, or of the account, go on with the request.
LEMMA ClaimStep ==
  ASSUME RequestInv, NEW c \in Calls, request[c].pc \in Bound, NEW pc \in {"store", "admin"}, NEW claim \in AllClaims,
         ProceedWith(c, pc, claim)
  PROVE  \E r \in RequestStates :
           /\ r.pc = pc /\ r.claim = claim /\ request' = [request EXCEPT ![c] = r]
           /\ r.login \in DOMAIN logins /\ logins[r.login].browser = r.browser
<1> DEFINE r == [pc |-> pc, browser |-> request[c].browser, login |-> request[c].login, claim |-> claim]
<1>1. request' = [request EXCEPT ![c] = r]
  BY DEF ProceedWith, RequestInv
<1>2. request[c] \in RequestStates /\ request[c].pc # "idle"
  BY DEF RequestInv, Bound
<1>3. request[c].browser \in Browsers /\ request[c].login \in Nat
  BY <1>2, RequestFields
<1>4. r \in RequestStates
  BY <1>3 DEF RequestStates
<1>5. request[c].login \in DOMAIN logins /\ logins[request[c].login].browser = request[c].browser
  BY DEF RequestInv
<1> QED BY <1>1, <1>4, <1>5

\* A step that gives a request claims that were vouched for.
LEMMA AdminClaims ==
  ASSUME SignInInv, NEW c \in Calls, NEW r \in RequestStates, request' = [request EXCEPT ![c] = r],
         r.claim.listed /\ r.claim.verified => vouched', vouched' \in BOOLEAN, vouched => vouched',
         UNCHANGED <<stored, admin>>
  PROVE  AdminInv'
<1>1. request'[c] = r /\ \A d \in Calls : d # c => request'[d] = request[d]
  BY DEF SignInInv, RequestInv
<1>2. ASSUME NEW d \in Calls, request'[d].pc \in {"store", "admin"}
      PROVE  request'[d].claim.listed /\ request'[d].claim.verified => vouched'
  <2>1. CASE d = c
    BY <1>1, <2>1
  <2>2. CASE d # c
    <3>1. request'[d] = request[d]
      BY <1>1, <2>2
    <3> QED BY <1>2, <3>1 DEF SignInInv, AdminInv
  <2> QED BY <2>1, <2>2
<1> QED BY <1>2 DEF SignInInv, AdminInv

\* The code is used: the logins stay those of their browsers.
LEMMA CodeUsed ==
  ASSUME RequestInv, NEW l \in DOMAIN logins, NEW code \in {"no", "issued", "used"},
         logins' = [logins EXCEPT ![l].code = code]
  PROVE  /\ logins' \in Seq(LoginRows) /\ DOMAIN logins' = DOMAIN logins
         /\ \A k \in DOMAIN logins : logins'[k].browser = logins[k].browser
<1> DEFINE r == [logins[l] EXCEPT !.code = code]
<1>1. logins \in Seq(LoginRows) /\ logins' = [logins EXCEPT ![l] = r]
  BY DEF RequestInv
<1>2. logins[l] \in LoginRows
  BY <1>1
<1>3. r \in LoginRows /\ r.browser = logins[l].browser
  BY <1>2 DEF LoginRows
<1> HIDE DEF r
<1>4. logins' \in Seq(LoginRows) /\ DOMAIN logins' = DOMAIN logins
  BY <1>1, <1>3
<1>5. logins'[l] = r /\ \A k \in DOMAIN logins : k # l => logins'[k] = logins[k]
  BY <1>1
<1> QED BY <1>3, <1>4, <1>5

LEMMA ExchangeInv == ASSUME SignInInv, NEW c \in Calls, Exchange(c) PROVE SignInInv'
<1> USE DEF SignInInv
<1>1. request[c].pc = "redeem" /\ UNCHANGED <<idp, discovery, running, stored, admin>>
  BY DEF Exchange
<1>2. request[c].pc \in Bound /\ request[c].login \in DOMAIN logins /\ stored' \in AllClaims
  BY <1>1 DEF Bound, RequestInv, LoginTypes
<1>3. /\ logins' \in Seq(LoginRows) /\ DOMAIN logins' = DOMAIN logins
      /\ \A k \in DOMAIN logins : logins'[k].browser = logins[k].browser
  <2>1. CASE logins' = [logins EXCEPT ![request[c].login].code = "used"]
    BY <1>2, <2>1, CodeUsed
  <2>2. CASE UNCHANGED logins
    BY <2>2 DEF RequestInv
  <2> QED BY <2>1, <2>2 DEF Exchange
<1>4. CASE Answer(c) /\ UNCHANGED vouched
  <2>1. RequestInv' /\ request' = [request EXCEPT ![c] = NoRequest]
    BY <1>2, <1>3, <1>4, AnswerStep
  <2>2. NoRequest \in RequestStates /\ NoRequest.pc \notin {"store", "admin", "url"}
    BY DEF RequestStates, NoRequest
  <2>3. LoginTypes' /\ DiscoveryInv'
    BY <1>1, <1>2, <2>1, <2>2, DiscoveryUnaffected
  <2>4. AdminInv'
    BY <1>1, <1>4, <2>1, <2>2, AdminUnaffected DEF account
  <2> QED BY <2>1, <2>3, <2>4
<1>5. ASSUME NEW claim \in Claims, ProceedWith(c, "store", claim),
             vouched' = (vouched \/ (claim.listed /\ claim.verified)), UNCHANGED cookie
      PROVE  SignInInv'
  <2>1. claim \in AllClaims
    BY DEF SsoAssumption
  <2>2. PICK r \in RequestStates :
           /\ r.pc = "store" /\ r.claim = claim /\ request' = [request EXCEPT ![c] = r]
           /\ r.login \in DOMAIN logins /\ logins[r.login].browser = r.browser
    BY <1>2, <1>5, <2>1, ClaimStep
  <2>3. RequestInv'
    BY <1>3, <1>5, <2>2, RequestStep
  <2>4. LoginTypes' /\ DiscoveryInv'
    BY <1>1, <1>2, <2>2, <2>3, DiscoveryUnaffected
  <2>5. vouched' \in BOOLEAN /\ (vouched => vouched')
    BY <1>5
  <2>6. r.claim.listed /\ r.claim.verified => vouched'
    BY <1>5, <2>2
  <2>7. AdminInv'
    BY <1>1, <2>2, <2>5, <2>6, AdminClaims
  <2> QED BY <2>3, <2>4, <2>7
<1> QED BY <1>4, <1>5 DEF Exchange

LEMMA StoreUserInv == ASSUME SignInInv, NEW c \in Calls, StoreUser(c) PROVE SignInInv'
<1> USE DEF SignInInv
<1>1. request[c].pc \in {"store", "reload"} /\ UNCHANGED <<idp, discovery, running, logins, admin, vouched>>
  BY DEF StoreUser
<1>2. /\ request[c].pc \in Bound /\ request[c] \in RequestStates
      /\ logins' \in Seq(LoginRows) /\ DOMAIN logins' = DOMAIN logins /\ logins' = logins
  BY <1>1 DEF Bound, RequestInv
<1>3. CASE Answer(c) /\ UNCHANGED stored
  <2>1. RequestInv' /\ request' = [request EXCEPT ![c] = NoRequest]
    BY <1>2, <1>3, AnswerStep
  <2>2. NoRequest \in RequestStates /\ NoRequest.pc \notin {"store", "admin", "url"}
    BY DEF RequestStates, NoRequest
  <2>3. LoginTypes' /\ DiscoveryInv'
    BY <1>1, <1>3, <2>1, <2>2, DiscoveryUnaffected DEF LoginTypes
  <2>4. AdminInv'
    BY <1>1, <1>3, <2>1, <2>2, AdminUnaffected DEF account
  <2> QED BY <2>1, <2>3, <2>4
<1>4. CASE /\ request[c].pc = "store" /\ stored' = Stored(request[c].claim) /\ UNCHANGED cookie
           /\ request' = [request EXCEPT ![c] = [pc |-> "reload", browser |-> @.browser, login |-> @.login]]
  <2> DEFINE r == [pc |-> "reload", browser |-> request[c].browser, login |-> request[c].login]
  <2>1. request[c].browser \in Browsers /\ request[c].login \in Nat /\ request[c].claim \in AllClaims
    BY <1>2, <1>4, RequestFields DEF Bound
  <2>2. r \in RequestStates /\ r.pc = "reload" /\ r.login = request[c].login /\ r.browser = request[c].browser
    BY <2>1 DEF RequestStates
  <2>3. request' = [request EXCEPT ![c] = r] /\ stored' = request[c].claim
    BY <1>4 DEF Stored, RequestInv
  <2>4. request[c].login \in DOMAIN logins /\ logins[request[c].login].browser = request[c].browser
    BY <1>2 DEF RequestInv
  <2> HIDE DEF r
  <2>5. RequestInv'
    BY <1>2, <1>4, <2>2, <2>3, <2>4, RequestStep
  <2>6. LoginTypes' /\ DiscoveryInv'
    BY <1>1, <1>4, <2>1, <2>2, <2>3, <2>5, DiscoveryUnaffected
  <2>7. AdminInv'
    <3>1. stored'.listed /\ stored'.verified => vouched
      BY <1>4, <2>3 DEF AdminInv
    <3>2. request'[c] = r /\ \A d \in Calls : d # c => request'[d] = request[d]
      BY <2>2, <2>3, OneMoves DEF RequestInv
    <3>3. ASSUME NEW d \in Calls, request'[d].pc \in {"store", "admin"}
          PROVE  request'[d].claim.listed /\ request'[d].claim.verified => vouched
      <4>1. d # c
        BY <2>2, <3>2, <3>3
      <4>2. request'[d] = request[d]
        BY <3>2, <4>1
      <4> QED BY <3>3, <4>2 DEF AdminInv
    <3>4. UNCHANGED <<admin, vouched>>
      BY <1>1
    <3> QED BY <3>1, <3>3, <3>4 DEF AdminInv
  <2> QED BY <2>5, <2>6, <2>7
<1>5. CASE request[c].pc = "reload" /\ UNCHANGED <<stored, cookie>> /\ ProceedWith(c, "admin", stored)
  <2>1. stored \in AllClaims
    BY DEF LoginTypes
  <2>2. PICK r \in RequestStates :
           /\ r.pc = "admin" /\ r.claim = stored /\ request' = [request EXCEPT ![c] = r]
           /\ r.login \in DOMAIN logins /\ logins[r.login].browser = r.browser
    BY <1>2, <1>5, <2>1, ClaimStep
  <2>3. RequestInv'
    BY <1>2, <1>5, <2>2, RequestStep
  <2>4. LoginTypes' /\ DiscoveryInv'
    BY <1>1, <1>5, <2>1, <2>2, <2>3, DiscoveryUnaffected
  <2>5. UNCHANGED <<stored, admin, vouched>>
    BY <1>1, <1>5
  <2>6. r.claim.listed /\ r.claim.verified => vouched
    BY <2>2 DEF AdminInv
  <2>7. vouched' \in BOOLEAN /\ (vouched => vouched') /\ (r.claim.listed /\ r.claim.verified => vouched')
    BY <2>5, <2>6 DEF AdminInv
  <2>8. AdminInv'
    BY <2>2, <2>5, <2>7, AdminClaims
  <2> QED BY <2>3, <2>4, <2>8
<1> QED BY <1>1, <1>3, <1>4, <1>5 DEF StoreUser

LEMMA SaveSessionInv == ASSUME SignInInv, NEW c \in Calls, SaveSession(c) PROVE SignInInv'
<1> USE DEF SignInInv
<1>1. /\ request[c].pc = "admin" /\ Answer(c) /\ admin' \in {admin, EnsureAdminRole(request[c].claim)}
      /\ UNCHANGED <<idp, discovery, running, logins, stored, vouched>>
  BY DEF SaveSession
<1>2. /\ request[c].pc \in Bound /\ stored' \in AllClaims
      /\ logins' \in Seq(LoginRows) /\ DOMAIN logins' = DOMAIN logins /\ logins' = logins
  BY <1>1 DEF Bound, RequestInv, LoginTypes
<1>3. RequestInv' /\ request' = [request EXCEPT ![c] = NoRequest]
  BY <1>1, <1>2, AnswerStep
<1>4. NoRequest \in RequestStates /\ NoRequest.pc \notin {"store", "admin", "url"}
  BY DEF RequestStates, NoRequest
<1>5. LoginTypes' /\ DiscoveryInv'
  BY <1>1, <1>2, <1>3, <1>4, DiscoveryUnaffected
<1>6. AdminInv'
  <2>1. request[c].claim.listed /\ request[c].claim.verified => vouched
    BY <1>1 DEF AdminInv
  <2>2. admin' \in BOOLEAN /\ (admin' => vouched)
    BY <1>1, <2>1 DEF AdminInv, EnsureAdminRole, ShouldBeAdmin
  <2>3. request'[c] = NoRequest /\ \A d \in Calls : d # c => request'[d] = request[d]
    BY <1>3, <1>4, OneMoves DEF RequestInv
  <2>4. ASSUME NEW d \in Calls, request'[d].pc \in {"store", "admin"}
        PROVE  request'[d].claim.listed /\ request'[d].claim.verified => vouched
    <3>1. d # c
      BY <1>4, <2>3, <2>4
    <3>2. request'[d] = request[d]
      BY <2>3, <3>1
    <3> QED BY <2>4, <3>2 DEF AdminInv
  <2>5. UNCHANGED <<stored, vouched>>
    BY <1>1
  <2> QED BY <2>2, <2>4, <2>5 DEF AdminInv
<1> QED BY <1>3, <1>5, <1>6

LEMMA ExpiresInv == ASSUME SignInInv, NEW b \in Browsers, Expires(b) PROVE SignInInv'
<1> USE DEF SignInInv
<1>1. cookie' = [cookie EXCEPT ![b] = 0] /\ UNCHANGED <<idp, discovery, running, logins, account, request>>
  BY DEF Expires
<1>2. RequestInv'
  BY <1>1 DEF RequestInv
<1>3. Tabled'
  BY <1>2, RequestTypesNext
<1>4. LoginTypes'
  BY <1>1, <1>3 DEF LoginTypes, Tabled, InGet, discovery, running, account
<1>5. DiscoveryInv' /\ AdminInv'
  BY <1>1, AdminStays DEF DiscoveryInv, discovery
<1> QED BY <1>2, <1>4, <1>5

LEMMA AuthorizesInv == ASSUME SignInInv, NEW l \in DOMAIN logins, Authorizes(l) PROVE SignInInv'
<1> USE DEF SignInInv
<1>1. /\ logins' = [logins EXCEPT ![l].code = "issued"]
      /\ UNCHANGED <<idp, discovery, running, cookie, account, request>>
  BY DEF Authorizes
<1>2. /\ logins' \in Seq(LoginRows) /\ DOMAIN logins' = DOMAIN logins
      /\ \A k \in DOMAIN logins : logins'[k].browser = logins[k].browser
  BY <1>1, CodeUsed
<1>3. RequestInv'
  BY <1>1, <1>2 DEF RequestInv
<1>4. Tabled'
  BY <1>3, RequestTypesNext
<1>5. LoginTypes'
  BY <1>1, <1>4 DEF LoginTypes, Tabled, InGet, discovery, running, account
<1>6. DiscoveryInv' /\ AdminInv'
  BY <1>1, AdminStays DEF DiscoveryInv, discovery
<1> QED BY <1>3, <1>5, <1>6

-----------------------------------------------------------------------------
(* The invariant holds at first and is preserved.                            *)

LEMMA InitInv == LoginInit => SignInInv
<1> SUFFICES ASSUME LoginInit PROVE SignInInv
  OBVIOUS
<1>1. \A c \in Calls : request[c] = NoRequest /\ request[c].pc = "idle"
  BY DEF LoginInit, NoRequest
<1>2. RequestInv
  <2>1. request \in [Calls -> RequestStates]
    BY DEF LoginInit, RequestStates
  <2>2. logins \in Seq(LoginRows) /\ cookie \in [Browsers -> Nat] /\ \A b \in Browsers : cookie[b] = 0
    BY DEF LoginInit
  <2> QED BY <1>1, <2>1, <2>2 DEF RequestInv, Bound
<1>3. stored = [listed |-> FALSE, verified |-> FALSE]
  BY DEF LoginInit
<1>4. stored \in AllClaims /\ ~stored.listed
  BY <1>3 DEF AllClaims
<1>5. LoginTypes
  <2>1. RetryAfter \in Nat /\ Timeout \in Nat
    BY DEF SsoAssumption
  <2>2. Tabled
    BY <1>2, RequestTypes
  <2>3. idp \in {"up", "down"} /\ server \in {"boot", "wait", "get", "done"} /\ mu = None /\ connected \in BOOLEAN
    BY DEF LoginInit
  <2>4. since \in 0..RetryAfter /\ held \in 0..Timeout /\ gap \in 0..RetryAfter
    BY <2>1 DEF LoginInit
  <2> QED BY <1>4, <2>2, <2>3, <2>4 DEF LoginTypes, Tabled
<1>6. DiscoveryInv
  BY <1>1 DEF LoginInit, DiscoveryInv
<1>7. AdminInv
  BY <1>1, <1>4 DEF LoginInit, AdminInv
<1> QED BY <1>2, <1>5, <1>6, <1>7 DEF SignInInv

LEMMA StutterInv == ASSUME SignInInv, UNCHANGED loginVars PROVE SignInInv'
<1> USE DEF SignInInv
<1>1. UNCHANGED <<idp, discovery, running, cookie, logins, account, request>>
  BY DEF loginVars
<1>2. RequestInv' /\ LoginTypes'
  BY <1>1 DEF RequestInv, LoginTypes, InGet, discovery, running, account
<1>3. DiscoveryInv' /\ AdminInv'
  BY <1>1, AdminStays DEF DiscoveryInv, discovery
<1> QED BY <1>2, <1>3

LEMMA NextInv == ASSUME SignInInv, [LoginNext]_loginVars PROVE SignInInv'
<1>1. CASE \E a \in Actors : Get(a) \/ Discovered(a) \/ DiscoveryFails(a) \/ GivesUp(a)
  <2>1. PICK a \in Actors : Get(a) \/ AttemptEnds(a, TRUE) \/ AttemptEnds(a, FALSE)
    BY <1>1 DEF Discovered, DiscoveryFails, GivesUp
  <2> QED BY <2>1, GetInv, AttemptEndsInv
<1>2. CASE Run \/ TickerTicks \/ Stop \/ IdpChanges
  BY <1>2, ServerInv
<1>3. CASE ServerRestarts
  BY <1>3, ServerRestartsInv
<1>4. CASE TimePasses
  BY <1>4, TimePassesInv
<1>5. CASE \E c \in Calls, b \in Browsers : handleOAuth2Login(c, b)
  BY <1>5, LoginInv
<1>6. CASE \E c \in Calls, b \in Browsers, l \in DOMAIN logins : CallbackBegins(c, b, l)
  BY <1>6, CallbackInv
<1>7. CASE \E c \in Calls : Exchange(c) \/ StoreUser(c) \/ SaveSession(c)
  BY <1>7, ExchangeInv, StoreUserInv, SaveSessionInv
<1>8. CASE \E b \in Browsers : Expires(b)
  BY <1>8, ExpiresInv
<1>9. CASE \E l \in DOMAIN logins : Authorizes(l)
  BY <1>9, AuthorizesInv
<1>10. CASE UNCHANGED loginVars
  BY <1>10, StutterInv
<1> QED BY <1>1, <1>2, <1>3, <1>4, <1>5, <1>6, <1>7, <1>8, <1>9, <1>10 DEF LoginNext

-----------------------------------------------------------------------------
(* The theorems.                                                             *)

\* The invariant holds in every state.
THEOREM SignInInvariance == LoginSpec => []SignInInv
<1>1. LoginInit => SignInInv
  BY InitInv
<1>2. SignInInv /\ [LoginNext]_loginVars => SignInInv'
  BY NextInv
<1> QED BY <1>1, <1>2, PTL DEF LoginSpec

\* Whose login a session is: the one its own browser began; and the admin role
\* only where a token vouched for the address.
THEOREM SignInsVouched == LoginSpec => SignInVouched
<1>1. ASSUME SignInInv, SignInInv'
      PROVE  /\ LoginTypes' /\ (admin' => vouched')
             /\ \A c \in Calls : SaveSession(c) => logins[request[c].login].browser = request[c].browser
  <2>1. ASSUME NEW c \in Calls, SaveSession(c)
        PROVE  logins[request[c].login].browser = request[c].browser
    <3>1. request[c].pc \in Bound
      BY <2>1 DEF SaveSession, Bound
    <3> QED BY <1>1, <3>1 DEF SignInInv, RequestInv
  <2>2. LoginTypes' /\ (admin' => vouched')
    BY <1>1 DEF SignInInv, AdminInv
  <2> QED BY <2>1, <2>2
<1>2. SignInInv /\ SignInInv' =>
        [/\ LoginTypes' /\ (admin' => vouched')
         /\ \A c \in Calls : SaveSession(c) => logins[request[c].login].browser = request[c].browser]_loginVars
  BY <1>1
<1> QED BY <1>2, SignInInvariance, PTL DEF SignInVouched

\* Discovery starts only when the mutex is free and the last failed attempt is
\* retryAfter ago, whoever asks.
THEOREM AttemptsAreSpaced == LoginSpec => AttemptsSpaced
<1>1. ASSUME SignInInv, LoginNext, mu = None, mu' # None
      PROVE  gap = RetryAfter
  <2>1. CASE \E a \in Actors : Get(a)
    BY <1>1, <2>1 DEF Get, SignInInv, DiscoveryInv
  <2>2. CASE \E a \in Actors : Discovered(a) \/ DiscoveryFails(a) \/ GivesUp(a)
    BY <1>1, <2>2 DEF Discovered, DiscoveryFails, GivesUp, AttemptEnds
  <2>3. CASE Run \/ TickerTicks \/ Stop \/ IdpChanges
    BY <1>1, <2>3 DEF Run, TickerTicks, Stop, IdpChanges, discovery
  <2>4. CASE ServerRestarts \/ TimePasses
    BY <1>1, <2>4 DEF ServerRestarts, TimePasses
  <2>5. CASE \E c \in Calls, b \in Browsers : handleOAuth2Login(c, b)
    BY <1>1, <2>5 DEF handleOAuth2Login, Begin, discovery
  <2>6. CASE \E c \in Calls, b \in Browsers, l \in DOMAIN logins : CallbackBegins(c, b, l)
    BY <1>1, <2>6 DEF CallbackBegins, discovery
  <2>7. CASE \E c \in Calls : Exchange(c) \/ StoreUser(c) \/ SaveSession(c)
    BY <1>1, <2>7 DEF Exchange, StoreUser, SaveSession, discovery
  <2>8. CASE \E b \in Browsers : Expires(b)
    BY <1>1, <2>8 DEF Expires, discovery
  <2>9. CASE \E l \in DOMAIN logins : Authorizes(l)
    BY <1>1, <2>9 DEF Authorizes, discovery
  <2> QED BY <1>1, <2>1, <2>2, <2>3, <2>4, <2>5, <2>6, <2>7, <2>8, <2>9 DEF LoginNext
<1>2. SignInInv /\ [LoginNext]_loginVars => [mu = None /\ mu' # None => gap = RetryAfter]_loginVars
  BY <1>1
<1> QED BY <1>2, SignInInvariance, PTL DEF LoginSpec, AttemptsSpaced
=============================================================================
