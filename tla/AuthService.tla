----------------------------- MODULE AuthService -----------------------------
(***************************************************************************)
(* The auth context as its clients see it: registrations (Registration)    *)
(* and logins (Login) of one process, or of several, over one table        *)
(* auth_credentials.  A client may log in while its registration, or one   *)
(* that clashes with it, is still being handled, and an account may be     *)
(* deleted under both.                                                     *)
(***************************************************************************)
EXTENDS AuthCredentials, Integers

CONSTANTS
  Requests, Commands, EmailDto, UsernameDto, EmailRegex, UsernameRegex,
  Passwords, ShortPasswords,              \* see Registration
  Logins, Bodies, LoginDto, Hash,
  Switched, Erasable, MaxTime,            \* see Login
  RegistrationFaults, LoginFaults         \* bounds on the faults of each

VARIABLES
  pc, command, response, domain_events, users, published, faults, before,
                                          \* see Registration
  lpc, body, seen, at, reply, inactive, last_login_at, clock, lfaults, past,
  barred, erased,                         \* see Login
  created      \* history: registrations answered 201 when a login arrived

registering == <<pc, command, response, domain_events, users, published,
                 faults, before>>
loggingIn   == <<lpc, body, seen, at, reply, inactive, last_login_at, clock,
                 lfaults, past, barred, erased, created>>
vars == <<registering, loggingIn, auth_credentials>>

R == INSTANCE Registration WITH MaxFaults <- RegistrationFaults

\* The accounts registrations may create, from bodies that the DTO and the value
\* objects accept; their requests are the user ids.
Accounts ==
  {R!AccountFor(r, c) : r \in Requests,
                        c \in {d \in Commands : R!ValidDto(d) /\ R!ValidForUser(d)}}

L == INSTANCE Login WITH Users <- Requests, MaxFaults <- LoginFaults,
                         pc <- lpc, faults <- lfaults

\* What Registration and Login assume; that no username is an e-mail in lower
\* case (Login's AccountsAssumption) follows from it.
ASSUME ServiceAssumption ==
  R!CommandsAssumption /\ R!TextsAssumption /\ L!LoginAssumption
-----------------------------------------------------------------------------
Init == R!Init /\ L!Init /\ created = [l \in Logins |-> {}]

Registering == R!Next /\ UNCHANGED loggingIn

LoggingIn ==
  /\ L!LoginNext
  /\ created' = [l \in Logins |->
                   IF lpc[l] = "new" /\ lpc'[l] # "new"
                   THEN {r \in Requests : response[r] = "created"} ELSE created[l]]
  /\ UNCHANGED registering

Operating == L!Operate /\ UNCHANGED <<registering, created>>

\* A process dies with its registrations and its logins.
ProcessCrash == R!Crash /\ L!Crash /\ UNCHANGED created

Next == Registering \/ LoggingIn \/ Operating \/ ProcessCrash

Spec == Init /\ [][Next]_vars

\* As in Registration and Login: every statement is carried out.
FairSpec ==
  /\ Spec
  /\ \A r \in Requests : WF_vars(R!Handle(r) /\ UNCHANGED loggingIn)
  /\ \A l \in Logins : WF_vars(L!Handle(l) /\ UNCHANGED <<registering, created>>)
-----------------------------------------------------------------------------
\* Login's description of the world around it is what Registration does: the
\* accounts that appear are whole, do not clash, and nothing else touches the
\* table.  So what is checked and proved of Login holds here.
ImplementsLogin == L!Spec

\* What clients are told is what one atomic registry of accounts would tell
\* them, also while accounts are deleted and logins update the same rows.
ImplementsAccountRegistry == R!ImplementsAccountRegistry

\* Every registration is answered, unless the process crashes under it; no login
\* or deletion keeps it waiting.
RequestsAnswered == R!RequestsAnswered

\* The client of login l uses an identifier of registration r as it typed it,
\* and its password.
KnowsAccount(l, r) ==
  /\ body[l].identifier \in {command[r].email, command[r].username}
  /\ Hash[body[l].password] = Hash[command[r].password]

\* A client that was told 201 and then logs in with what it typed is not turned
\* away with 401, unless its account is inactive or deleted at that moment: no
\* earlier request, concurrent one or late write gets between it and its account
\* (register.handler.ts:80-98, login.handler.ts:36-67).
CreatedNotRefused ==
  [][\A l \in Logins : \A r \in created[l] :
       lpc[l] \in {"lookup", "verify"} /\ KnowsAccount(l, r)
         /\ reply'[l] = "unauthorized"
       => r \in inactive \cup L!Gone]_vars

\* Tokens name a user of the event store that was not refused registration, and
\* go to a client that knows its identifier, in any case an e-mail may be
\* written in, and its password.
TokensForRegisteredUsers ==
  \A l \in Logins : reply[l] = "ok" =>
    LET r == seen[l].userId IN
    /\ \E e \in domain_events : e.userId = r
    /\ response[r] \notin {"invalid", "conflict"}
    /\ \/ Lower[body[l].identifier] = R!Normal(command[r].email)
       \/ body[l].identifier = command[r].username
    /\ Hash[body[l].password] = Hash[command[r].password]
=============================================================================
