---------------------------- MODULE Registration ----------------------------
(***************************************************************************)
(* POST /auth/register, from the controller to the last SQL statement:     *)
(* RegisterHandler.execute, the CreateUserHandler and UserUnitOfWork it    *)
(* reaches through the CommandBus, and the three tables they write.  No    *)
(* transaction spans the tables, so a registration is five separate        *)
(* statements (two lookups, append, projection, credentials) and requests  *)
(* interleave between any two of them.                                     *)
(*                                                                         *)
(* One step is one statement taking effect in the database together with   *)
(* the synchronous code that runs when its result arrives.  The append is  *)
(* one step: EventStore.tla shows that appendToStream is atomic.           *)
(*                                                                         *)
(* A connection may be lost, and the process may crash, at any moment.  A  *)
(* write that was sent may then still take effect later, after its client  *)
(* was told of an error, or without any answer.                            *)
(***************************************************************************)
EXTENDS AuthCredentials, Integers

CONSTANTS
  Requests,        \* requests, each handled once; also the user ids they draw
  Commands,        \* the request bodies clients send
  EmailDto,        \* the texts RegisterRequestDto accepts as an e-mail
  UsernameDto,     \* ... and as a username
  EmailRegex,      \* the texts Email.REGEX matches
  UsernameRegex,   \* the texts Username.REGEX matches
  Passwords,
  ShortPasswords,  \* the passwords of less than 8 characters
  MaxFaults        \* bound on crashes, failed statements and lost results

Command == [email : Texts, username : Texts, password : Passwords]

ASSUME CommandsAssumption ==
  /\ Commands \subseteq Command
  /\ ShortPasswords \subseteq Passwords
  /\ MaxFaults \in Nat
\* An e-mail address has an @ and a username has none, whatever its case;
\* @IsEmail refuses surrounding whitespace.
ASSUME TextsAssumption ==
  /\ Lower \in [Texts -> Texts] /\ Trim \in [Texts -> Texts]
  /\ EmailRegex \subseteq Texts /\ UsernameRegex \subseteq Texts
  /\ EmailRegex \cap UsernameRegex = {}
  /\ \A t \in UsernameRegex : Lower[t] \in UsernameRegex
  /\ \A t \in Texts : Trim[Lower[t]] = Lower[Trim[t]]
  /\ \A t \in EmailDto \cap Texts : Trim[t] = t

VARIABLES
  pc,                \* where the handling of a request stands
  command,           \* the body of a request
  response,          \* what its client was told
  domain_events,     \* the UserCreated events, one per stream
  users,             \* the rows of the read model
  published,         \* users whose UserRegisteredIntegrationEvent went out
  faults,            \* how many faults have happened
  before             \* history: requests answered "created" when one arrived

tables == <<domain_events, users, auth_credentials>>
vars == <<pc, command, response, tables, published, faults, before>>

Steps     == {"new", "checkEmail", "checkUsername", "append", "project",
              "store", "done"}
\* 201, 400, 409, 500, and no answer at all
Responses == {"none", "created", "invalid", "conflict", "error", "lost"}
User       == [userId : Requests, email : Texts, username : Texts]
Credential == [userId : Requests, email : Texts, username : Texts,
               password : Passwords]
NoCommand  == [email |-> "none"]
-----------------------------------------------------------------------------
\* Email.create: raw.trim().toLowerCase()
Normal(email) == Lower[Trim[email]]

\* mutant: only the e-mail is a value object
ValidEmailOnly(c) == Normal(c.email) \in EmailRegex

\* Email.create and Username.create throw a plain Error, which no exception
\* filter maps to 400.
ValidForUser(c) ==
  Normal(c.email) \in EmailRegex /\ c.username \in UsernameRegex

\* ValidationPipe with RegisterRequestDto; the handler repeats the length
\* check of the password.
ValidDto(c) ==
  /\ c.email \in EmailDto /\ c.username \in UsernameDto
  /\ c.password \notin ShortPasswords

\* The payload of the UserCreatedEvent, and the row applyProjection inserts.
UserOf(r) == [userId |-> r, email |-> Normal(command[r].email),
              username |-> command[r].username]

\* mutant: create is called with the username before the e-mail
CredentialSwapped(r) ==
  [userId |-> r, email |-> StoredEmail(command[r].username),
   username |-> command[r].email, password |-> command[r].password]

\* The row AuthCredentialsRepository.create inserts; the hash of a password is
\* told apart by the password.
CredentialOf(r) == [userId |-> r, email |-> StoredEmail(command[r].email),
                    username |-> command[r].username,
                    password |-> command[r].password]
-----------------------------------------------------------------------------
Init ==
  /\ pc        = [r \in Requests |-> "new"]
  /\ command   = [r \in Requests |-> NoCommand]
  /\ response  = [r \in Requests |-> "none"]
  /\ domain_events = {} /\ users = {} /\ auth_credentials = {}
  /\ published = {}
  /\ faults    = 0
  /\ before    = [r \in Requests |-> {}]

\* The process handles r: it has neither answered nor crashed.
Alive(r) == response[r] = "none"

\* The handler answers r, unless it has given up or has crashed.
Answer(r, status) ==
  /\ pc' = [pc EXCEPT ![r] = "done"]
  /\ response' = [response EXCEPT ![r] = IF Alive(r) THEN status ELSE @]

\* The handler goes on to its next statement, unless it has given up or has crashed.
GoTo(r, step) ==
  /\ pc' = [pc EXCEPT ![r] = IF Alive(r) THEN step ELSE "done"]
  /\ UNCHANGED response

Fault == faults < MaxFaults /\ faults' = faults + 1

\* The request arrives and passes the ValidationPipe, or is refused by it.
Register(r, c) ==
  /\ pc[r] = "new"
  /\ command' = [command EXCEPT ![r] = c]
  /\ before'  = [before EXCEPT ![r] = {q \in Requests : response[q] = "created"}]
  /\ IF ValidDto(c) THEN GoTo(r, "checkEmail") ELSE Answer(r, "invalid")
  /\ UNCHANGED <<tables, published, faults>>

\* The two pre-checks, one lookup each.
CheckEmail(r) ==
  /\ pc[r] = "checkEmail"
  /\ IF Found(command[r].email) # {}
     THEN Answer(r, "conflict") ELSE GoTo(r, "checkUsername")
  /\ UNCHANGED <<command, tables, published, faults, before>>

\* mutant: the second pre-check looks the e-mail up again
CheckEmailTwice(r) ==
  /\ pc[r] = "checkUsername"
  /\ IF Found(command[r].email) # {}
     THEN Answer(r, "conflict") ELSE GoTo(r, "append")
  /\ UNCHANGED <<command, tables, published, faults, before>>

\* mutant: the username is looked up in the read model
CheckUsernameInUsers(r) ==
  /\ pc[r] = "checkUsername"
  /\ IF \E u \in users : u.username = command[r].username
     THEN Answer(r, "conflict") ELSE GoTo(r, "append")
  /\ UNCHANGED <<command, tables, published, faults, before>>

CheckUsername(r) ==
  /\ pc[r] = "checkUsername"
  /\ IF Found(command[r].username) # {}
     THEN Answer(r, "conflict") ELSE GoTo(r, "append")
  /\ UNCHANGED <<command, tables, published, faults, before>>

\* UserAggregate.create throws before anything is written.
RejectUser(r) ==
  /\ pc[r] = "append" /\ Alive(r) /\ ~ ValidForUser(command[r])
  /\ Answer(r, "error")
  /\ UNCHANGED <<command, tables, published, faults, before>>

\* mutant: a failure of the append is only logged, like one of the projection
AppendBestEffort(r) ==
  /\ pc[r] = "append" /\ ValidForUser(command[r])
  /\ domain_events' \in {domain_events, domain_events \cup {UserOf(r)}}
  /\ GoTo(r, "project")
  /\ UNCHANGED <<command, users, auth_credentials, published, faults, before>>

\* Step 1 of UserUnitOfWork.commit: the event is in the stream "user-<r>".
AppendEvent(r) ==
  /\ pc[r] = "append" /\ ValidForUser(command[r])
  /\ domain_events' = domain_events \cup {UserOf(r)}
  /\ GoTo(r, "project")
  /\ UNCHANGED <<command, users, auth_credentials, published, faults, before>>

\* Steps 3 to 5 of commit: the projection, whose failure is only logged, then
\* the publication; UserCreatedDomainHandler publishes the integration event
\* while the domain event is being published.
Publish(r) == published' = IF Alive(r) THEN published \cup {r} ELSE published

\* mutant: the projection does not recognise the event
InsertNothing(r) == UNCHANGED users

\* mutant: the projection is repeated until the row is in
InsertUntilDone(r) ==
  /\ \A u \in users : ~ Clash(u, UserOf(r))
  /\ users' = users \cup {UserOf(r)}

\* A unique violation is an error like any other: logged, no row.
InsertUser(r) ==
  users' = IF \E u \in users : Clash(u, UserOf(r)) THEN users
           ELSE users \cup {UserOf(r)}

ProjectUser(r) ==
  /\ pc[r] = "project"
  /\ InsertUser(r) /\ Publish(r)
  /\ GoTo(r, "store")
  /\ UNCHANGED <<command, domain_events, auth_credentials, faults, before>>

\* mutant: a failed insert is reported like a failed pre-check
StoreConflict == "conflict"

\* A unique violation of the credentials insert is logged and rethrown; it is
\* no HttpException.
StoreFailed == "error"

StoreCredentials(r) ==
  /\ pc[r] = "store"
  /\ IF \E row \in auth_credentials : Clash(row, CredentialOf(r))
     THEN Answer(r, StoreFailed) /\ UNCHANGED auth_credentials
     ELSE /\ auth_credentials' = auth_credentials \cup {CredentialOf(r)}
          /\ Answer(r, "created")
  /\ UNCHANGED <<command, domain_events, users, published, faults, before>>
-----------------------------------------------------------------------------
\* Faults.  A statement fails without an effect, and the error reaches the
\* client as 500.
StatementFails(r) ==
  /\ pc[r] \in {"checkEmail", "checkUsername", "append", "store"} /\ Alive(r)
  /\ Answer(r, "error") /\ Fault
  /\ UNCHANGED <<command, tables, published, before>>

\* The connection is lost under the append or the credentials insert: the client
\* is told 500, and the write is still on its way to the database.
ConnectionLost(r) ==
  /\ pc[r] \in {"append", "store"} /\ Alive(r) /\ ValidForUser(command[r])
  /\ response' = [response EXCEPT ![r] = "error"] /\ Fault
  /\ UNCHANGED <<pc, command, tables, published, before>>

\* The projection fails, with or without an effect; commit goes on.
ProjectionFails(r) ==
  /\ pc[r] = "project" /\ Alive(r)
  /\ InsertUser(r) \/ UNCHANGED users
  /\ Publish(r)
  /\ GoTo(r, "store") /\ Fault
  /\ UNCHANGED <<command, domain_events, auth_credentials, before>>

\* The process crashes with requests in flight.  Lookups end with it; a write
\* it had sent is on its way as well,
InFlight == {r \in Requests : pc[r] \notin {"new", "done"} /\ Alive(r)}

Crash ==
  /\ InFlight # {}
  /\ response' = [r \in Requests |-> IF r \in InFlight THEN "lost" ELSE response[r]]
  /\ pc' = [r \in Requests |->
              IF r \in InFlight /\ pc[r] \in {"checkEmail", "checkUsername"}
              THEN "done" ELSE pc[r]]
  /\ Fault
  /\ UNCHANGED <<command, tables, published, before>>

\* ... or never arrives.
WriteLost(r) ==
  /\ pc[r] \in {"append", "project", "store"} /\ ~ Alive(r)
  /\ Answer(r, "lost")
  /\ UNCHANGED <<command, tables, published, faults, before>>
-----------------------------------------------------------------------------
Handle(r) ==
  \/ CheckEmail(r) \/ CheckUsername(r) \/ RejectUser(r)
  \/ AppendEvent(r) \/ ProjectUser(r) \/ StoreCredentials(r)

Next ==
  \/ Crash
  \/ \E r \in Requests :
       \/ \E c \in Commands : Register(r, c)
       \/ Handle(r)
       \/ StatementFails(r) \/ ConnectionLost(r)
       \/ ProjectionFails(r) \/ WriteLost(r)

Spec == Init /\ [][Next]_vars

\* Every statement of a request is carried out sooner or later; arrivals and
\* faults are not scheduled.
FairSpec == Spec /\ \A r \in Requests : WF_vars(Handle(r))
-----------------------------------------------------------------------------
\* The variables hold what the code keeps in them, and a row of a table has
\* every column of its table.
TypeOK ==
  /\ pc \in [Requests -> Steps]
  /\ command \in [Requests -> Commands \cup {NoCommand}]
  /\ \A r \in Requests : pc[r] # "new" => command[r] \in Commands
  /\ response \in [Requests -> Responses]
  /\ domain_events \in SUBSET User /\ users \in SUBSET User
  /\ auth_credentials \in SUBSET Credential
  /\ published \in SUBSET Requests
  /\ faults \in 0 .. MaxFaults
  /\ before \in [Requests -> SUBSET Requests]

EventOf(r)  == \E e \in domain_events : e.userId = r
HasCredential(r) == \E c \in auth_credentials : c.userId = r

\* Credentials belong to a user that exists: the event with their user id is
\* in the event store and tells the same e-mail and the same username, although
\* the two tables are written by two contexts that normalise on their own
\* (register.handler.ts:72-86).
CredentialsAreBacked ==
  \A c \in auth_credentials : \E e \in domain_events :
    e.userId = c.userId /\ e.email = c.email /\ e.username = c.username

\* A login identifier names one account: no text is the e-mail of one live
\* credential and the username of another (the LIMIT 1 of
\* auth-credentials.repository.ts:30-39 never has to choose).
IdentifierUnambiguous ==
  \A t \in Texts : \A c, d \in Found(t) : c = d

\* A client that was told 400 or 409 left nothing behind in any table.
RejectedLeavesNoTrace ==
  \A r \in Requests : response[r] \in {"invalid", "conflict"} =>
    /\ ~ EventOf(r) /\ ~ HasCredential(r) /\ r \notin published
    /\ \A u \in users : u.userId # r

\* A client that was told 201 has an account it can log in to with the e-mail
\* and with the username as it typed them.
CreatedCanLogIn ==
  \A r \in Requests : response[r] = "created" =>
    /\ EventOf(r)
    /\ Found(command[r].email) = {CredentialOf(r)}
    /\ Found(command[r].username) = {CredentialOf(r)}

\* An event without credentials is what a failure or a lost race leaves: its
\* client was told 500 or nothing, and without a fault another account holds
\* its e-mail or username (register.handler.ts:77-93).
OrphansExplained ==
  \A e \in domain_events : pc[e.userId] = "done" /\ ~ HasCredential(e.userId) =>
    /\ response[e.userId] \in {"error", "lost"}
    /\ faults = 0 => \E c \in auth_credentials :
                       c.email = e.email \/ c.username = e.username

\* The accounts that hold the e-mail or the username r asks for.
Holders(r) ==
  {c \in auth_credentials :
     /\ c.userId # r
     /\ c.email = Normal(command[r].email) \/ c.username = command[r].username}

\* What failed registrations leave in the event store and in users never stands
\* in the way of another: a valid body is refused only while an account holds
\* one of its keys, and without a fault that is an account whose client was told
\* 201 (register.handler.ts:47-66, 87-93).
RefusedForAnAccount ==
  \A r \in Requests :
    /\ response[r] = "conflict" \/ (response[r] = "error" /\ faults = 0)
    /\ ValidForUser(command[r])
    => \E c \in Holders(r) : faults = 0 => response[c.userId] = "created"

\* Without faults the read model lags only where another user's row already
\* holds the e-mail or the username (user-unit-of-work.ts:50-63).
ProjectionComplete ==
  faults = 0 => \A e \in domain_events : pc[e.userId] \in {"store", "done"} =>
    \E u \in users : Clash(u, e)

SameKey(c, d) == Normal(c.email) = Normal(d.email) \/ c.username = d.username

\* The pre-checks do their work against accounts that were complete when the
\* request arrived: such a duplicate never reaches the event store.
LateDuplicateNotWritten ==
  \A r \in Requests : \A q \in before[r] :
    SameKey(command[r], command[q]) => ~ EventOf(r)

\* Every request is answered, unless the process crashes under it.
RequestsAnswered ==
  \A r \in Requests : pc[r] # "new" ~> response[r] # "none"

\* Registration implements AccountRegistry: the accounts are the credentials.
AccountFor(r, c) == [userId |-> r, email |-> StoredEmail(c.email),
                     username |-> c.username, password |-> c.password]
Names(a, c) == Matches(a, c.email) \/ Matches(a, c.username)

Registry == INSTANCE AccountRegistry WITH accounts <- auth_credentials

ImplementsAccountRegistry == Registry!Spec
-----------------------------------------------------------------------------
\* Statements of the repository that the code does not keep.

\* register.handler.ts:46 "Pre-check: reject duplicates BEFORE writing to event
\* store".
DuplicatesRejectedBeforeWriting ==
  \A e1, e2 \in domain_events :
    e1.email = e2.email \/ e1.username = e2.username => e1 = e2

\* register.e2e-spec.ts:59 and db-entity-diagram.mmd: a registered user is
\* stored in the users table, under the user id of the credentials.
CreatedIsInUsersTable ==
  \A r \in Requests : response[r] = "created" => UserOf(r) \in users

\* auth.controller.ts:21: a body that breaks the rules of a username is a
\* validation error, 400.
InvalidUserGets400 ==
  \A r \in Requests :
    pc[r] = "done" /\ ~ ValidForUser(command[r]) => response[r] # "error"

\* user-registered.integration-event.ts:2-4: the integration event is consumed
\* by the Auth context, which syncs the credentials.
IntegrationEventSyncsCredentials ==
  \A r \in Requests : r \in published ~> HasCredential(r)
=============================================================================
