-------------------------------- MODULE Login --------------------------------
(***************************************************************************)
(* POST /auth/login: LoginHandler.execute.  A login reads one row of       *)
(* auth_credentials, compares the password with the hash it read, writes   *)
(* last_login_at and issues tokens.  Between any two of these steps other  *)
(* logins act, accounts are created and deleted and operators switch       *)
(* accounts on and off; the row a login works with is never read again.    *)
(*                                                                         *)
(* As in Registration.tla, a step is a statement taking effect with the    *)
(* synchronous code that runs when its result arrives, and a lost          *)
(* connection or a crash leaves an UPDATE on its way.                      *)
(***************************************************************************)
EXTENDS AuthCredentials, Integers

CONSTANTS
  Users,           \* user ids
  Logins,          \* login requests, each handled once
  Bodies,          \* the request bodies clients send
  LoginDto,        \* the bodies LoginRequestDto accepts
  Passwords,
  Hash,            \* what bcrypt tells apart of a password
  Accounts,        \* the rows that may be created
  Switched,        \* the users whose is_active operators change
  Erasable,        \* the users whose credentials may be deleted
  MaxTime,         \* bound on the clock
  MaxFaults        \* bound on crashes, failed statements and lost results

Body       == [identifier : Texts, password : Passwords]
Credential == [userId : Users, email : Texts, username : Texts,
               password : Passwords]

ASSUME LoginAssumption ==
  /\ Lower \in [Texts -> Texts]
  /\ Bodies \subseteq Body /\ LoginDto \subseteq Bodies
  /\ Accounts \subseteq Credential
  /\ Switched \subseteq Users /\ Erasable \subseteq Users
  /\ MaxTime \in Nat /\ MaxFaults \in Nat
\* E-mails are stored in lower case and no username is one in lower case
\* (IdentifierUnambiguous of Registration.tla says so of registered accounts).
ASSUME AccountsAssumption ==
  \A a, b \in Accounts : \A t \in Texts :
    a.email = Lower[t] => b.username # t

VARIABLES
  pc,              \* where the handling of a login stands
  body,            \* the body of a login
  seen,            \* the row the lookup of a login returned
  at,              \* the time a login took for last_login_at
  reply,           \* what its client was told
  inactive,        \* users whose is_active is false
  last_login_at,   \* of each user, or Never
  clock,           \* the time the process reads
  faults,          \* how many faults have happened
  past,            \* history: logins answered 200 when one arrived
  barred,          \* history: users inactive or gone ever since a login arrived
  erased           \* history: the rows that were deleted

own   == <<pc, body, seen, at, reply, past>>
table == <<auth_credentials, last_login_at, erased>>
vars  == <<own, table, inactive, clock, faults, barred>>

Steps   == {"new", "lookup", "verify", "update", "tokens", "done"}
\* 200, 400, 401, 500, and no answer at all
Replies == {"none", "ok", "invalid", "unauthorized", "error", "lost"}
Never   == -1
NoBody  == [identifier |-> "none"]
NoRow   == [userId |-> "none"]

Gone == {row.userId : row \in erased}
-----------------------------------------------------------------------------
Init ==
  /\ pc    = [l \in Logins |-> "new"]
  /\ body  = [l \in Logins |-> NoBody]
  /\ seen  = [l \in Logins |-> NoRow]
  /\ at    = [l \in Logins |-> Never]
  /\ reply = [l \in Logins |-> "none"]
  /\ auth_credentials = {}
  /\ inactive = {}
  /\ last_login_at = [u \in Users |-> Never]
  /\ clock = 0 /\ faults = 0
  /\ past   = [l \in Logins |-> {}]
  /\ barred = [l \in Logins |-> {}]
  /\ erased = {}

Alive(l) == reply[l] = "none"

Answer(l, status) ==
  /\ pc' = [pc EXCEPT ![l] = "done"]
  /\ reply' = [reply EXCEPT ![l] = IF Alive(l) THEN status ELSE @]

GoTo(l, step) ==
  /\ pc' = [pc EXCEPT ![l] = IF Alive(l) THEN step ELSE "done"]
  /\ UNCHANGED reply

Fault == faults < MaxFaults /\ faults' = faults + 1

\* What a step of a login never touches.
Others == UNCHANGED <<auth_credentials, erased, inactive, clock, past>>

\* The request arrives and passes the ValidationPipe, or is refused by it.
Arrive(l, b) ==
  /\ pc[l] = "new"
  /\ body'   = [body EXCEPT ![l] = b]
  /\ past'   = [past EXCEPT ![l] = {k \in Logins : reply[k] = "ok"}]
  /\ barred' = [barred EXCEPT ![l] = inactive \cup Gone]
  /\ IF b \in LoginDto THEN GoTo(l, "lookup") ELSE Answer(l, "invalid")
  /\ UNCHANGED <<seen, at, table, inactive, clock, faults>>

\* mutant: the status of the account is not looked at
LookupAnyStatus(l) ==
  /\ pc[l] = "lookup"
  /\ \/ /\ Found(body[l].identifier) = {}
        /\ Answer(l, "unauthorized") /\ UNCHANGED seen
     \/ \E row \in Found(body[l].identifier) :
          seen' = [seen EXCEPT ![l] = row] /\ GoTo(l, "verify")
  /\ Others /\ UNCHANGED <<body, at, last_login_at, faults, barred>>

\* mutant: a login that finds nothing is not answered
LookupUnanswered(l) ==
  /\ pc[l] = "lookup"
  /\ \E row \in Found(body[l].identifier) :
       /\ seen' = [seen EXCEPT ![l] = row]
       /\ IF row.userId \in inactive THEN Answer(l, "unauthorized")
          ELSE GoTo(l, "verify")
  /\ Others /\ UNCHANGED <<body, at, last_login_at, faults, barred>>

\* mutant: a lookup that finds nothing is not told apart from one that does
LookupUnguarded(l) ==
  /\ pc[l] = "lookup"
  /\ \/ Found(body[l].identifier) = {} /\ GoTo(l, "verify") /\ UNCHANGED seen
     \/ \E row \in Found(body[l].identifier) :
          /\ seen' = [seen EXCEPT ![l] = row]
          /\ IF row.userId \in inactive THEN Answer(l, "unauthorized")
             ELSE GoTo(l, "verify")
  /\ Others /\ UNCHANGED <<body, at, last_login_at, faults, barred>>

\* The SELECT, its LIMIT 1, and the check of is_active.
Lookup(l) ==
  /\ pc[l] = "lookup"
  /\ \/ /\ Found(body[l].identifier) = {}
        /\ Answer(l, "unauthorized") /\ UNCHANGED seen
     \/ \E row \in Found(body[l].identifier) :
          /\ seen' = [seen EXCEPT ![l] = row]
          /\ IF row.userId \in inactive THEN Answer(l, "unauthorized")
             ELSE GoTo(l, "verify")
  /\ Others /\ UNCHANGED <<body, at, last_login_at, faults, barred>>

\* bcrypt compares the password with the hash that was read.
PasswordMatches(l) == Hash[body[l].password] = Hash[seen[l].password]

\* mutant: the promise of verify is not awaited, and a promise is true
VerifyNotAwaited(l) ==
  /\ pc[l] = "verify"
  /\ at' = [at EXCEPT ![l] = clock] /\ GoTo(l, "update")
  /\ Others /\ UNCHANGED <<body, seen, last_login_at, faults, barred>>

\* new Date() is taken before the UPDATE is sent.
Verify(l) ==
  /\ pc[l] = "verify"
  /\ IF PasswordMatches(l)
     THEN at' = [at EXCEPT ![l] = clock] /\ GoTo(l, "update")
     ELSE Answer(l, "unauthorized") /\ UNCHANGED at
  /\ Others /\ UNCHANGED <<body, seen, last_login_at, faults, barred>>

\* mutant: the promise of updateLastLogin is not awaited
SetLastLoginNotAwaited(l) ==
  \/ /\ seen[l] \in auth_credentials
     /\ last_login_at' = [last_login_at EXCEPT ![seen[l].userId] = at[l]]
  \/ UNCHANGED last_login_at

\* mutant: only the first login of an account is recorded
SetLastLoginOnce(l) ==
  last_login_at' = IF seen[l] \in auth_credentials
                      /\ last_login_at[seen[l].userId] = Never
                   THEN [last_login_at EXCEPT ![seen[l].userId] = at[l]]
                   ELSE last_login_at

\* updateLastLogin, for the user id that was read; no row, no effect, no error.
SetLastLogin(l) ==
  last_login_at' = IF seen[l] \in auth_credentials
                   THEN [last_login_at EXCEPT ![seen[l].userId] = at[l]]
                   ELSE last_login_at

UpdateLastLogin(l) ==
  /\ pc[l] = "update"
  /\ SetLastLogin(l) /\ GoTo(l, "tokens")
  /\ Others /\ UNCHANGED <<body, seen, at, faults, barred>>

\* Tokens for seen[l].userId; nothing is stored.
IssueTokens(l) ==
  /\ pc[l] = "tokens"
  /\ Answer(l, "ok")
  /\ Others /\ UNCHANGED <<body, seen, at, last_login_at, faults, barred>>
-----------------------------------------------------------------------------
\* Faults.  A statement, the comparison or the signing fails: 500.
StatementFails(l) ==
  /\ pc[l] \in {"lookup", "verify", "update", "tokens"} /\ Alive(l)
  /\ Answer(l, "error") /\ Fault
  /\ Others /\ UNCHANGED <<body, seen, at, last_login_at, barred>>

\* The connection is lost under the UPDATE: the client is told 500, and the
\* UPDATE is still on its way.
ConnectionLost(l) ==
  /\ pc[l] = "update" /\ Alive(l)
  /\ reply' = [reply EXCEPT ![l] = "error"] /\ Fault
  /\ Others /\ UNCHANGED <<pc, body, seen, at, last_login_at, barred>>

\* The process crashes; an UPDATE it had sent is on its way as well,
InFlight == {l \in Logins : pc[l] \notin {"new", "done"} /\ Alive(l)}

Crash ==
  /\ InFlight # {}
  /\ reply' = [l \in Logins |-> IF l \in InFlight THEN "lost" ELSE reply[l]]
  /\ pc' = [l \in Logins |->
              IF l \in InFlight /\ pc[l] # "update" THEN "done" ELSE pc[l]]
  /\ Fault
  /\ Others /\ UNCHANGED <<body, seen, at, last_login_at, barred>>

\* ... or never arrives.
UpdateLost(l) ==
  /\ pc[l] = "update" /\ ~ Alive(l)
  /\ Answer(l, "lost")
  /\ Others /\ UNCHANGED <<body, seen, at, last_login_at, faults, barred>>
-----------------------------------------------------------------------------
\* Around the handler: registrations, deletions, operators and time.  A new
\* account has a fresh user id.  The service never writes is_active after the
\* insert.
CreateAccount(a) ==
  /\ \A c \in auth_credentials : ~ Clash(c, a)
  /\ a.userId \notin Gone
  /\ auth_credentials' = auth_credentials \cup {a}
  /\ UNCHANGED <<own, last_login_at, erased, inactive, clock, faults, barred>>

RowsOf(u) == {row \in auth_credentials : row.userId = u}

\* Erasure: the row is deleted, not marked.
DeleteByUserId(u) ==
  /\ RowsOf(u) # {}
  /\ auth_credentials' = auth_credentials \ RowsOf(u)
  /\ erased' = erased \cup RowsOf(u)
  /\ last_login_at' = [last_login_at EXCEPT ![u] = Never]
  /\ UNCHANGED <<own, inactive, clock, faults, barred>>

Deactivate(u) ==
  /\ u \notin inactive /\ inactive' = inactive \cup {u}
  /\ UNCHANGED <<own, table, clock, faults, barred>>

Activate(u) ==
  /\ u \in inactive \ Gone /\ inactive' = inactive \ {u}
  /\ barred' = [l \in Logins |-> barred[l] \ {u}]
  /\ UNCHANGED <<own, table, clock, faults>>

Tick ==
  /\ clock < MaxTime /\ clock' = clock + 1
  /\ UNCHANGED <<own, table, inactive, faults, barred>>
-----------------------------------------------------------------------------
Handle(l) == Lookup(l) \/ Verify(l) \/ UpdateLastLogin(l) \/ IssueTokens(l)

LoginNext ==
  \/ Crash
  \/ \E l \in Logins :
       \/ \E b \in Bodies : Arrive(l, b)
       \/ Handle(l)
       \/ StatementFails(l) \/ ConnectionLost(l) \/ UpdateLost(l)

Operate ==
  \/ Tick
  \/ \E u \in Switched : Deactivate(u) \/ Activate(u)
  \/ \E u \in Erasable : DeleteByUserId(u)

Next == LoginNext \/ Operate \/ \E a \in Accounts : CreateAccount(a)

Spec == Init /\ [][Next]_vars

\* The steps of a login are carried out; arrivals, faults, operators and the
\* clock are not scheduled.
FairSpec == Spec /\ \A l \in Logins : WF_vars(Handle(l))
-----------------------------------------------------------------------------
\* The variables hold what the code keeps in them, and a login that has passed
\* its lookup holds a row that is or was in the table.
TypeOK ==
  /\ pc \in [Logins -> Steps]
  /\ body \in [Logins -> Bodies \cup {NoBody}]
  /\ \A l \in Logins : pc[l] # "new" => body[l] \in Bodies
  /\ seen \in [Logins -> Credential \cup {NoRow}]
  /\ \A l \in Logins : seen[l] # NoRow => seen[l] \in auth_credentials \cup erased
  /\ \A l \in Logins : pc[l] \in {"verify", "update", "tokens"} => seen[l] # NoRow
  /\ at \in [Logins -> {Never} \cup Nat]
  /\ \A l \in Logins : pc[l] \in {"update", "tokens"} => at[l] # Never
  /\ reply \in [Logins -> Replies]
  /\ auth_credentials \subseteq Accounts /\ erased \subseteq Accounts
  /\ inactive \subseteq Users
  /\ last_login_at \in [Users -> {Never} \cup Nat]
  /\ clock \in 0 .. MaxTime /\ faults \in 0 .. MaxFaults
  /\ past \in [Logins -> SUBSET Logins]
  /\ barred \in [Logins -> SUBSET Users]

\* Tokens go to the account the identifier names, and only with its password.
\* Also now that other accounts have been created since the lookup it names no
\* other, unless that account has been deleted (login.handler.ts:36-67).
TokensForTheNamedAccount ==
  \A l \in Logins : reply[l] = "ok" =>
    /\ Matches(seen[l], body[l].identifier) /\ PasswordMatches(l)
    /\ seen[l] \notin erased => Found(body[l].identifier) = {seen[l]}

\* An account that was switched off before a login arrived, and not on again, or
\* deleted before it arrived, gets no tokens from it, whoever has taken over its
\* e-mail or its username (login.handler.ts:48-54).
NoTokensWhileBarred ==
  \A l \in Logins : reply[l] = "ok" => seen[l].userId \notin barred[l]

\* last_login_at is the time of a login to that account with its password,
\* never of one that was refused (login.handler.ts:57-70); the login may have
\* failed afterwards.
LastLoginIsALogin ==
  \A u \in Users : last_login_at[u] # Never =>
    \E l \in Logins : /\ seen[l].userId = u /\ at[l] = last_login_at[u]
                      /\ PasswordMatches(l)
                      /\ reply[l] \notin {"invalid", "unauthorized"}

\* A login that was answered 200 left its mark: the account, as long as it is
\* there, has a last login.
AcceptedIsRecorded ==
  \A l \in Logins : reply[l] = "ok" /\ seen[l] \notin erased =>
    last_login_at[seen[l].userId] # Never

\* The UPDATE of a login has taken effect for user u.
Recorded(l, u) ==
  /\ seen[l].userId = u
  /\ pc[l] = "tokens" \/ reply[l] = "ok"

\* Concurrent logins may write last_login_at in either order, but a login that
\* arrived after another was answered 200 is never overtaken by it
\* (login.handler.ts:70).  One that was answered 500, because the connection was
\* lost under its UPDATE, may overtake: the UPDATE is carried out late.
LastLoginNotOvertaken ==
  \A u \in Users : last_login_at[u] # Never =>
    \E k \in Logins :
      /\ seen[k].userId = u /\ at[k] = last_login_at[u]
      /\ \A l \in Logins : k \in past[l] => ~ Recorded(l, u)

\* Every login is answered, unless the process crashes under it.
LoginsAnswered == \A l \in Logins : pc[l] # "new" ~> reply[l] # "none"
=============================================================================
