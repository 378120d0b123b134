# Verification of the Inviduality API

TLA+ models, TLC runs and TLAPS proofs for the NestJS application in this
repository: an event-sourced user context and an authentication context over
PostgreSQL.  File names without a directory are those under `src/src/`.

## The system

A request enters through `AuthController` (auth context). `RegisterHandler`
checks for duplicates, hashes the password, asks the user context through the
`CommandBus` to create a user, and stores credentials. `CreateUserHandler`
creates a `UserAggregate` and hands it to `UserUnitOfWork.commit`, which appends
its events through `EventStoreService`, projects them to `users`, and publishes
them on the `EventBus`. `LoginHandler` looks credentials up, verifies the
password, writes `last_login_at` and issues tokens.

State lives in three PostgreSQL tables, written by separate statements:

| component | state | operations |
|---|---|---|
| event store (`event-store.service.ts`) | `domain_events`: PK `id`, UNIQUE (`stream_id`, `version`) | `appendToStream` (one transaction), `readStream` |
| read model (`user-read-model.repository.ts`) | `users`: PK `id`, UNIQUE `email`, UNIQUE `username` | `applyProjection` |
| credentials (`auth-credentials.repository.ts`) | `auth_credentials`: PK `user_id`, UNIQUE `email`, UNIQUE `username` | `findByEmailOrUsername`, `create`, `updateLastLogin`, `deleteByUserId` (no caller) |
| aggregate (`user.aggregate.ts`, `aggregate-root.base.ts`) | uncommitted events, `version`, fields | `create`, `reconstitute`, `applyEvent` |
| unit of work (`user-unit-of-work.ts`) | none | `commit`: append, project (best effort), clear, publish |
| event bus and handlers (`user-created.handler.ts`) | none that is stored | `UserCreatedEvent` to `UserRegisteredIntegrationEvent` |
| registration (`register.handler.ts`) | none | `execute` |
| login (`login.handler.ts`) | none | `execute` |
| tokens (`token.service.impl.ts`) and guards (`jwt.strategy.ts`, `jwt-refresh.strategy.ts`) | two secrets from the environment; nothing about a token is stored | `generateTokenPair`, `verify...`, `validate` |
| audit columns (`auditable-table.service.ts`, `cls-user.interceptor.ts`) | the user id of the current request | `insert`, `update`, `softDelete` (no caller) |
| connection (`drizzle.service.ts`) | a pool of connections | `db`, `transaction`, start and shutdown |
| value objects (`email.vo.ts`, `username.vo.ts`, `user-id.vo.ts`) | immutable | `create` |
| bootstrap, health, logger; installer and make files | - | - |

Node.js runs one handler at a time, but every `await` lets another request in,
and several processes may share the database.  What is hard:

* no transaction spans the three tables, so a registration is five statements
  and any other registration may act between two of them;
* every statement may fail, take effect and lose its result, or be cut off by a
  crash;
* the same rule (what is one e-mail, which names are taken) is enforced in
  several places, each in its own way: the value object, the lookup, the insert,
  the unique constraints;
* optimistic concurrency rests on a version that was read before the insert;
* a login works with a row it read at the start, and a guard with a token issued
  earlier still, while the account may be switched off or deleted;
* a transaction keeps a connection of a bounded pool while it waits for another
  transaction.

The list of hazards, each at its line and with the properties that answer it, is
in `PROJECT.json`.

## What makes each part correct

* **Event store**: a stream is a log (versions 0, 1, 2, ... without a gap or a
  duplicate); no event is stored twice; rows become visible only on top of the
  revision the caller expected; the revision returned is true; every call ends.
* **Registration**: a client told 201 can log in with what it typed; a client
  told 400 or 409 left nothing behind; credentials always have their event; one
  identifier names one account; what is left without credentials is explained
  by a failure or a lost race, and never stands in the way of another request;
  every request is answered.
* **Read model**: it lags only where another row holds a key.
* **Unit of work**: nobody appends to a history it has not seen as a whole; a
  commit is refused only for a reason; what is stored is published, in order and
  once, unless the process dies, and nothing else is; all this also when an
  aggregate is changed or committed while it is being committed.
* **Login**: tokens only for the one account that is named, with its password,
  and not to one that was inactive all along; `last_login_at` is the time of a
  login that was verified (one that failed afterwards counts too), and is not
  overtaken by one that had been answered 200 when that login arrived; a deletion
  under a login, and an account that takes over its names, change none of this;
  every login is answered.
* **Tokens**: an account that is switched off or deleted loses access within the
  lifetime of a token.
* **Connection pool**: no call waits for a connection, or for a row, for ever.
* **Audited tables**: the audit columns name the users on whose behalf a row was
  created, last changed and first deleted, whatever else the process does at the
  time.
* **Registration and login together**: what login takes for granted of the rest
  of the service is what registration does; a client told 201 is let in; what
  clients are told is what one atomic registry of accounts would tell them.

## Modules

| module | models | kind |
|---|---|---|
| `EventStream` | the contract of `appendToStream`: an atomic append to a log | abstract specification |
| `EventStore` | `appendToStream` statement by statement (`event-store.service.ts:42-113`, `domain-events.table.ts`) | specification, properties |
| `MCEventStore` | constants for TLC | model |
| `EventStoreProofs` | inductive invariant, safety theorems, freedom from circles of waiting, the refinement of `EventStream` | proofs |
| `AccountRegistry` | the contract of registration: an atomic registry of accounts | abstract specification |
| `Registration` | `POST /auth/register` from `ValidationPipe` to the last statement, with the unit of work, projection and publication inside | specification, properties |
| `MCRegistration` | constants for TLC | model |
| `RegistrationProofs` | inductive invariant, safety theorems | proofs |
| `AuthCredentials` | the table `auth_credentials`: its variable, its unique constraints, its lookup, what an insert stores | shared part of `Registration` and `Login` |
| `Login` | `POST /auth/login` from `ValidationPipe` to the answer (`login.handler.ts`), among accounts that appear, are deleted (`deleteByUserId`) and are switched off by operators | specification, properties |
| `MCLogin` | constants for TLC | model |
| `LoginProofs` | inductive invariant, safety theorems | proofs |
| `AuthService` | `Registration` and `Login` over one table | composition, properties |
| `MCAuthService` | constants for TLC | model |
| `AuthServiceProofs` | two inductive invariants, safety theorems, the refinements of `Login` and of `AccountRegistry` | proofs |
| `AccessTokens` | `Login` with what becomes of its tokens (`token.service.impl.ts`, the two strategies), and the start and end of the process (`main.ts`) | extends `Login`; properties |
| `MCAccessTokens` | constants for TLC | model |
| `AccessTokensProofs` | inductive invariant on top of that of `LoginProofs`, safety theorems | proofs |
| `ConnectionPool` | `EventStore` over a bounded pool of connections (`drizzle.service.ts`) | extends `EventStore`; properties, liveness |
| `MCConnectionPool` | constants for TLC | model |
| `ConnectionPoolProofs` | inductive invariant on top of that of `EventStoreProofs`, freedom from deadlock | proofs |
| `UnitOfWork` | aggregates that are created, loaded, changed and committed (`user-unit-of-work.ts`, `user.aggregate.ts`, `user-event-store.repository.ts`, `readStream`) | specification, properties |
| `MCUnitOfWork` | constants for TLC | model |
| `UnitOfWorkProofs` | inductive invariant, safety theorems | proofs |
| `AuditableTable` | the statements that fill in audit columns, and the request context they take the user from (`auditable-table.service.ts`, `cls-user.interceptor.ts`, `cls.module.ts`) | specification, properties |
| `MCAuditableTable` | constants for TLC | model |
| `AuditableTableProofs` | inductive invariant, safety theorems | proofs |

### EventStore

`rows` are the committed rows of `domain_events`; `tx[w]` is the open
transaction of caller `w` (what it read, how many rows it has inserted);
`answer` is what the last step answered.  The actions are the statements:
`AppendToStream` (begin), `SelectLatest` (the SELECT and the check of the
expected revision), `InsertId` and `InsertVersion` (one row of the multi-row
INSERT, entered into the index of the primary key and then into that of
`stream_id`, `version`), `Commit`, and
the faults `CommitUnacknowledged` and `ConnectionLost`.  The isolation is READ
COMMITTED, the default of PostgreSQL: a SELECT sees committed rows, an index entry
meets one with the same key by waiting while its transaction is open and by
failing with 23505 once it is committed.  `'no_stream'` is revision -1 and
`'any'` is -2.  Payloads and times are left out: an event is its `eventId`.
`WaitsFor(w, o)` is that wait.  A row that waits with its version has its
`eventId` in the index already (`Entered`), so a caller that repeats the event waits
for one that waits itself; `NoWaitCircles` says that such chains end.

Callers append batches of events.  `FreshEventsAssumption` says what batches have
in common: an event is made for one aggregate, which only puts more events behind
it until they are stored and leave it together (`aggregate-root.base.ts`), so two
batches that share an event, because a commit was repeated, begin alike up to that
event.

The code recognises 23505 by the `code` of the error it catches
(`event-store.service.ts:95-106`); the model takes the driver to deliver it
there.  If the query builder wrapped the error, the call would fail with the
wrapped error in place of `ConcurrencyError`; rows and transactions would not
differ.

### Registration

A step is one statement taking effect together with the synchronous code that
runs when its result arrives: `Register` (arrival, `ValidationPipe`, length of
the password), `CheckEmail`, `CheckUsername` (the two lookups), `RejectUser`
(`Email.create` or `Username.create` throws), `AppendEvent` (step 1 of `commit`,
one step because of the refinement of `EventStream`), `ProjectUser` (steps 3 to
5: projection, then publication), `StoreCredentials`.  Faults are actions of
their own: `StatementFails`, `ConnectionLost` (the client is told 500 while the
append or the credentials insert is on its way), `ProjectionFails`, `Crash` (nobody
in flight is answered, but a write that was sent is on its way) and `WriteLost`.  A
write on its way is carried out at any later time, after the client has tried again
and others have come between, or never.  A projection whose connection is lost takes
effect at once or not at all: nothing but other projections reads `users`, so a
later moment is a moment at which another one was carried out first.  `before` is a
history variable: whose accounts were complete when a request arrived.
`AccountRegistry` grants an account accordingly to a client that is told
so, or to one that was told of an error before, or was never answered.

Texts are opaque; `Lower`, `Trim` and the sets of texts the DTO and the value
objects accept are constants.  `TextsAssumption` says what the code relies on: a
username has no `@` whatever its case, and `@IsEmail` lets no surrounding
whitespace pass.  A request id doubles as the user id that the request would
draw (a fresh UUID), a password stands for its hash.  `deleted_at` is never set
by the service, so every row of the model is a row not deleted.

### Login

A step is again one statement and the code that runs on its result: `Lookup`
(the query; no row or an inactive one is answered 401), `Verify` (bcrypt; a
mismatch is answered 401, a match reads the clock), `UpdateLastLogin`, and
`IssueTokens`.  `ConnectionLost` and `Crash` leave an UPDATE on its way, as in
`Registration`.  `seen[l]` is the row the lookup read and `at[l]` the time; both
may be stale when they are used.  The world around logins is kept as loose as
the code allows: accounts appear at any time (`CreateAccount`, any account that
does not clash), operators set and clear `is_active` (the service itself never
writes it), the clock advances, and accounts are deleted (`DeleteByUserId`, a hard
delete that frees the names for others; the repository offers it and nothing in
this version calls it).  `past`, `barred` and `erased` are history variables: who
had been answered when a login arrived, which accounts have been inactive or gone
ever since, and which rows were deleted.  A user id is a fresh UUID, so a deleted
one does not come back.  `Switched` and `Erasable` name the accounts that are
touched and `MaxTime` ends the clock; they only bound the state space.

### AccessTokens

Extends `Login`: `Issue` is `IssueTokens` with what `generateTokenPair` puts into
the two tokens, their time and the secrets of the running process; every other
step of `Login` goes on unchanged (`Proceed`, `SwitchAccount`).  A token is named
by the login that got it and the guard it is for; its payload is the user id in
both, so only the secret can tell them apart.  `Passes(l, g, h)` is what the strategy
of guard `h` lets through of the token for guard `g`.  `Start` is `bootstrap` with
one of the environments `Configs`: both strategies call `getOrThrow`, so it needs
both secrets; `Stop` ends the process, and whoever was in flight is not answered.
Nothing in the code keeps the two secrets apart, and nothing in the model does: an
environment may have one for both guards, or use as access secret what an earlier
one used as refresh secret, and then a refresh token passes the access guard.
`StaleAccessEnds` bounds a stale token by the lifetime it was signed with.
Lifetimes do not change between starts.  No route of this
version carries a guard, so the properties speak of any moment a guard is asked.

### ConnectionPool

Extends `EventStore`: `call[w]` is what a caller has asked for, `queue` the line
for connections and `held` who has one.  `Serve` hands a free connection to the
first in line and begins its transaction; `Select`, `Insert` and `End` are the
steps of `EventStore` sent on the transaction's own connection (`ThroughTx`),
which is given back when the transaction has ended; other parts of the service
are callers that run single statements (`Statement`), which take no part in
transactions.  `Connections` is the size of the pool (10 in postgres.js).
Pipelining and reconnecting are the driver's.  That the pool adds no behaviour to
the transactions is how the module is built.  `NeverStuck` says that as long as a call
is unanswered the pool can serve the first in line, or a caller that has a
connection can go on, without a fault and without another call.

### AuthService

`Registration` and `Login` are instantiated over one variable
`auth_credentials`.  A step belongs to one of them, except a crash, which takes
both down.  `Accounts`, what `Login` says may be created, is what registrations
create from bodies that pass the DTO and the value objects.  `ImplementsLogin`
says that the composition is a behaviour of `Login` alone: `Login`'s loose
`CreateAccount` covers what `StoreCredentials` does, so everything checked and
proved of `Login` holds of the service.  `ImplementsAccountRegistry` says the same
of the other side: logins, and deletions as its `Remove`, disturb no registration.
`created` is a history variable: which registrations had been answered 201 when a
login arrived.

### UnitOfWork

`log[s]` is a stream and `open[c]` the append of commit `c` that may still take
effect; the two change by the actions of `EventStream`, which `EventStore` is proved
to implement.  `agg[h]` is the aggregate a handler has in hand: its stream, the
`version` it counts, the events it was built from (`seen`) and the uncommitted ones.
`com[c]` is a call of `commit`: whose aggregate, the copy of the uncommitted events
it took at line 25 of `user-unit-of-work.ts`, and how far it is.
`FindById` is `readStream`, `deserialize` and `reconstitute`: the version counts the
events that could be read, not the rows.  `Commit` sends the append, and
`CommitAppend` is its success, after which the call waits for the projection, in
which others act, and `CommitFinish` clears and publishes.  `CommitRefused` is a
`ConcurrencyError`, after which the aggregate is unchanged and a handler may commit
it again or return and start over.  In `CommitFailed` the connection is lost:
`commit` throws and the aggregate keeps its events and its version; `Crash` takes the
aggregate as well.  Both leave `open[c]` behind, and `LateAppend` carries it out, or
refuses it, at any later time, when the handler has loaded its aggregate again or
changed it.

Nothing in the classes makes whoever holds an aggregate wait for its commit, so
`Apply` and `Commit` are possible at any time, also between the awaits of another
commit of the same aggregate.  What is applied then is not in the copy, and line 66
clears it with the rest (`CommitFinish`): unless another commit has copied such an
event and was carried out first, it is neither stored nor published.  No property
excludes that; what is stored, refused and published agrees nevertheless, and the
one caller of this version, `create-user.handler.ts:22-38`, awaits its commit.
`basis` is a history variable: what an aggregate knew, as
committed or pending, when it applied an event.  `bus[h]` is what handler `h` has
published, in order: a process has a bus of its own, and two handlers may publish
in the other order, because each awaits its projection first.

This version of the program has one event type and one command, which creates an
aggregate and commits it once.  The classes are written for more: `findById`,
`reconstitute`, the version counter and the skipping of unknown events have no
caller yet.  `Later[h]` are event types that handler `h` of a later version
registers besides `UserCreated`; with `Later[h] = {}` for all `h` the model is
today's program, and the theorems cover it, as well as every mixture of versions
that share a database during a deployment.

### AuditableTable

A context is a request (`Mount`, then the guards of its route, then
`Intercept`) or a job without a store (`StartJob`).  `Insert`, `Update` and
`SoftDelete` build a statement from `CurrentUserId` and send it, and
`DeleteByUserId` sends the hard delete of the credentials repository, which takes
soft-deleted rows as well and frees the key;
`Execute` is the server carrying it out, at any later time and in any order.  A
result may be lost while the statement still runs (`ResultLost`), or the
statement itself (`StatementLost`).  `writers` is a history variable: for whom
the statements that took effect were issued, until the row is removed.  The rows
are those of `users` or `auth_credentials` as far as the audit columns go; `Update` has the WHERE of its
one caller, `updateLastLogin`.  No route carries a guard today, so every column
is NULL, and `softDelete` has no caller; the model takes any user and any
caller, as the class does.  Of `deleted_at` the model has whether it is NULL; the
times themselves are left out.  `created_at` of a row of `users` is the time of its
event, by the clock of the process that created it, and that of a row of
`auth_credentials` the server's; `updated_at` is the time an update was sent.
Nothing in the code relates them or reads them.

## Runs

| run | configuration | bounds | shows |
|---|---|---|---|
| `event_store` | `MCEventStore.cfg` | 3 callers, 1 stream, batches of 1 and 2 events, expected revisions none, 0, 1; 1 fault | the stream is a log, no event twice, no circle of waiting inserts, expected and answered revisions are true; the refinement of `EventStream`; every call ends |
| `connection_pool` | `MCConnectionPool.cfg` | 3 callers, 2 connections, 1 stream, expected revisions any, none; 1 fault | the pool is never stuck, and every call gets a connection and is answered |
| `registration` | `MCRegistrationSafety.cfg` | 3 requests (symmetric), 8 bodies, 2 faults | the relations between tables and answers |
| `login` | `MCLogin.cfg` | 2 logins, 3 accounts of which 1 is switched and deleted and 1 takes over its names, 2 faults, 2 instants | whom tokens go to, what `last_login_at` says, every login is answered |
| `auth_service` | `MCAuthService.cfg` | 2 registrations, 4 bodies, 1 login, 1 account switched and deleted, 1 fault each | the refinements of `Login` and `AccountRegistry`; a created client is let in; every request is answered |
| `access_tokens` | `MCAccessTokens.cfg` | 2 logins to 1 account, 3 environments of which 1 lacks a secret and 1 has one for both guards, lifetimes 1 and 2, 4 instants, 1 fault | for how long a stale token passes a guard |
| `unit_of_work` | `MCUnitOfWork.cfg` | 2 handlers of different versions, 2 commits at a time of either or of one, 2 streams, 4 events of 3 types, 2 events pending, 2 faults | no blind writes, no unexplained refusals, publication, also where commits overlap or an append is carried out late |
| `auditable_table` | `MCAuditableTable.cfg` | 2 contexts at a time (any number one after another), 2 users, 1 row, 1 fault | the names in the audit columns |
| `registration_race` | `MCRegistrationRace.cfg` | 2 requests, no fault | finding 1 |
| `registration_read_model` | `MCRegistrationReadModel.cfg` | 2 requests, no fault | finding 2 |
| `registration_status` | `MCRegistrationStatus.cfg` | 2 requests, no fault | finding 3 |
| `registration_integration` | `MCRegistrationIntegration.cfg` | 2 requests, no fault | finding 4 |

The types of `EventStore`, `Registration` and `AuditableTable` are proved
(`TypeCorrect`) and not checked by a run of their own.

Two callers are enough for a race, the third for one that meets a committed row
and a pending one, or a projection lost to one request and credentials lost to
another.  A batch of two events makes a transaction that is partly inserted when
it meets a conflict.  The bodies clash in every way two can: the same e-mail in
another case, the same username, a username in another case (which is another
username), a username that is somebody's e-mail, one that the DTO lets pass and
the value object refuses, an e-mail with a space, a short password.  Two faults
allow a crash after a lost acknowledgement.  `MaxFaults` bounds nothing but the
faults; the streams are bounded because an event is stored once.

One stream is enough for the event store: streams share nothing but the ids of
events, and the theorems cover any number.  Three callers of one stream make the
longest chain of waits: the first waits for the event of the second, which waits for
the version of the third.  The unit of work passes 'no_stream' or a number as the
expected revision; 'any', which nobody passes, is in the run of the pool, and the
theorems cover both.  With two connections and three
callers, transactions can hold the whole pool while they wait for one another's
rows and a third caller waits in line.

Two logins can overtake one another at every step; the theorems cover more.  The
identifiers name an account by e-mail, by e-mail in another case, by username, or
not at all.  In `unit_of_work` the handlers differ in one event type, so that one
of them skips an event between two it can read, and four events let a stream hold
a creation, two changes and a lost one; two handlers are two copies of one
aggregate.  Two commits at a time are two of one aggregate, one of each handler, or
one and another whose handler is gone; a commit may begin again when it has ended, so
the number bounds only what is under way at once.  Commits and streams are
alike (symmetry).  Four instants let a token expire, with one to spare, after its account
was switched off, and the second login issue another one meanwhile.

Deadlock is checked for the event store and the connection pool, where a caller
may always call again, for the unit of work, where a handler can always load or
give up an aggregate, and for the audited table, where contexts come and go.  One
row is enough there: statements touch one row each.  The configurations of
registrations, logins and tokens turn it off: each request is handled once, an
account that is deleted stays deleted, and all may have been.

### Fairness

`EventStore.Fairness`: a statement that can be executed is executed (weak
fairness of `Proceed(w)`, its next statement, for each caller), which is what driver and
server do.  An insert that waits for another transaction is not enabled; that
transaction ends by the fairness of its own steps.  `Registration.FairSpec`:
every statement of a request is carried out sooner or later.  `Login.FairSpec`
says the same of a login (weak fairness of `Handle(l)`), and
`AuthService.FairSpec` of both.  `ConnectionPool.FairPoolSpec` says it of single
statements and of the steps of a transaction, and that a free connection is handed
to the first in line, which is what the driver does; of a caller that has to wait
for a connection or a row it says nothing.  The server executes what it is sent,
and a driver reports a result or an error.  Arrivals, faults, crashes and
deletions are never assumed.

### Findings

1. `register.handler.ts:46` promises to reject duplicates before the event store
   is written.  The pre-checks are separate statements; two requests with one
   key pass both, and the event store keeps two users.
2. `register.e2e-spec.ts:59` and `docs/db-entity-diagram.mmd:39` expect a row of
   `users` for every registered user.  When one request wins the projection and
   the other the credentials, the one told 201 has no row, and the projection's
   failure is only logged.
3. `auth.controller.ts:21` documents 400 for validation errors.  `Username.create`
   throws a plain `Error`, which becomes 500.
4. `user-registered.integration-event.ts:3` says the auth context consumes the
   event to sync credentials.  No handler for it exists.

## Proofs

All theorems hold for any number of callers, streams, events, requests, texts
and faults, under the named assumptions on the constants that stand beside their
declarations.

**EventStoreProofs.**  `StreamsAreLogs` is not inductive: a transaction may have
read a version that is no longer the latest.  `IInv` adds that the entries a
transaction has made in the two indexes, and not committed, conflict with nothing
committed and with no other transaction's entries (`IdsFree`, `VersionsFree`), that
what it read was committed with everything
below it (`ReadIsCommitted`), and that the revision it read is the one expected
(`RevisionChecked`).  The heart is `ReadStillLatest`: a stale read is harmless,
because a row above it would, by density, come with a row at exactly the version
of the transaction's first row, and the unique constraint has excluded that one.
From it follow `StreamsCorrect`, `StoredOnceCorrect`, `ExpectedCorrect` and
`AckedCorrect`.

A transaction that waits has no whole row in the table (`WaitersHoldNoRow`).  If it
had, the row before the one that waits would conflict with an entry of the other
transaction, or with a committed row: two batches that share an event begin alike, and
of two ranges of versions that meet above the first row of one, the other reaches, or
has read, the version below.  `IdsFree` and `VersionsFree` exclude that.  A caller
that waits may still be waited for, by one that repeats the event whose entry it has
made in the primary key.  But that entry is its first, so it waits with its version,
for a transaction that holds a whole row and therefore does not wait
(`WaitsAreOrdered`): every chain of waiting ends with its second link, and no circle
forms, of two callers or of more (`NoWaitCirclesCorrect`).  The prefix condition on
batches is what this rests on, and inserting rows in another order breaks it.

`Refinement`: the log of a stream is its committed rows in version order.  A commit
maps to one atomic append, an error to a refusal, selects and inserts to stutters.

**ConnectionPoolProofs.** Every step of the pool is one of `EventStore` or leaves
it alone (`ActsAsStore`, which is how the module is built), so `IInv` of
`EventStoreProofs` and every theorem there hold of transactions that share a pool
of any size. `PoolInv` adds that nobody stands in line twice (`QueuedOnce`), that
an unanswered call is in line or has a connection and not both
(`CallsAreSomewhere`), and that a transaction is open exactly while its caller has
one (`OpenOnConnection`). `NeverStuckCorrect`: if nobody has a connection, the
first in line gets one; otherwise a holder that cannot go on waits for an entry of
another holder, because open transactions are on connections, and the chain that
begins there ends with a holder that can (`HoldersGoOn`). This is the part of
`CallsAnswered` that does not speak of fairness: at every moment something can be
done, for any number of connections, callers and streams.

**RegistrationProofs.**  The properties are not inductive because they relate
rows of different tables to answers.  `IInv` traces every row to the request that
wrote it (`Traced`), ties the control point of a request to its rows and its
answer (`Staged`), states the unique keys (`KeysUnique`), and says what a late
duplicate may still do (`LateBlocked`).  It implies the theorems
`BackedCorrect`, `UnambiguousCorrect`, `NoTraceCorrect`, `LogInCorrect` and
`LateDuplicateCorrect`.  What an answer says about others needs a second layer,
`OutcomeInv`: without a fault nobody is left unanswered, nobody was told of an error
while its write was on its way (`Unlost`), and every account's client was told 201
(`NothingLost`), whoever was refused has an account against it
(`HasReason`), and the client of a user without credentials was told 500 or nothing
(`OrphanTold`).  Accounts only grow here, so a reason once there stays.  It gives
`RefusedCorrect`, `OrphansCorrect` and `ProjectionCorrect`.

**LoginProofs.**  What a login does at the end depends on a row it read at the
beginning.  `IInv` says what is still true of that row when it is used: it is or
was in the table and the identifier names it (`SeenMatches`), a deleted row never
comes back (`ErasedIsGone`), it was not barred
(`SeenUnbarred`), and a login that has read the clock has verified the password
(`TimedIsVerified`).  Of the clients that were answered only one that was told 500
may have an UPDATE on its way (`AnsweredIsDone`).  That and `RecordedIsSet` tie
answers to `last_login_at`, `PastIsAccepted` orders logins that do not overlap, and
`KeysUnique` and `BarredInactive` describe the table.  They give `TokensCorrect`,
`BarredCorrect`, `LastLoginCorrect`, `AcceptedCorrect` and `OvertakingCorrect`, for
any number of logins, accounts and faults.

**UnitOfWorkProofs.**  A version is a number, and `NoBlindWrites` is about what
an aggregate knows.  `AggSound` bridges the two: the version of an aggregate never
exceeds the revision of its stream, and when they are equal the aggregate has seen
the whole stream, and every uncommitted event was applied with that history in view.
It holds after loading because a version that counts n of n rows has read all of them
(`VersionReadBound`), and what others store only makes streams longer.  `CallSound`
says the same of an append under way, whatever has become of the commit that sent it,
so that an accepted append leaves every event with its whole history
(`AppendSeesHistory`); `ComSound` ties a commit to its append and to its aggregate.

Several commits of one aggregate may be under way.  Until one of them is carried out,
all of them hold the first uncommitted event (`Shared`); once it is, that event is
stored and the others can only be refused.  So no two commits publish the same event
(`Apart`), and two aggregates know the same event only if it is stored (`Private`).
`CopyOrdered` says that what is about to be published is in the order of its stream
and behind all its handler has published.  `StreamsCreated` gives every loaded
aggregate an identity, and `StoredIsPublished` accounts for what is between append and
publication.  `Counted` says that an aggregate knows no more events of its stream than
its version counts, unless one of its own was stored behind its back: a version that
is too low misses an event, which is the reason of a refusal.  They give
`TypeCorrect`, `BlindWritesCorrect`, `PublishedCorrect`, `RefusalCorrect` and
`SettledCorrect`, for any number of commits at a time.

**AuditableTableProofs.**  The name travels from the token over the store and the
statement to the column.  `IInv` says that a handler's store names its user
(`StoreIsUser`), and that a statement on its way carries its sender's user
(`IsFromSender`).  The history does not change a row that was deleted once, so
`WritersCorrect` also says that no late update or second deletion does.

**AccessTokensProofs.**  Every step of `AccessTokens` is one of `Login` or leaves
it alone, so `IInv` of `LoginProofs` holds of it.  `TokensInv` adds that a token
was signed with secrets the process can run with (`TokensTypeOK`), that a login
under way is one of those excepted when its account was switched off, or arrived
when it was off already (`NoneSinceOff`), and that every other token of that
account is no younger than that moment (`IssuedBefore`); such a login never gets
to a token, which is `SeenUnbarred` of `LoginProofs`.  That is `StaleCorrect`, for
any secrets, equal ones included.

**AuthServiceProofs.**  A row says for good which registration wrote it, even
after it was deleted (`RowsStored`), and a login that has read a row carries one
its identifier and, past the verification, its password match (`LoginStage`).
That gives `TokensCorrect`, `LoginImplemented` and `AccountsAssumptionMet`: what
`Login` assumes of its accounts is a fact about registered ones, because the value
objects and the lookup agree on what an e-mail in lower case is.  A second layer,
`CreatedInv`, follows a client that was told 201: its row is there or was deleted
(`CreatedStored`), keys are unique, and so the row a login finds under one of its
identifiers is that one and no other (`FindsCreated`, `CreatedStage`), which gives
`NotRefusedCorrect`.  The same facts map every step to one of `AccountRegistry`
or to a stutter (`RegistryImplemented`): the credentials insert is the moment an
account is granted, a pre-check that finds a row the moment of a conflict.

Only model-checked: liveness (`CallsEnd`, `CallsAnswered`, `RequestsAnswered`,
`LoginsAnswered`; the prover has no fairness).  Every other property of the passing
runs is a theorem.

## Plan

Done: `EventStream`, `EventStore` with proofs and refinement, `ConnectionPool` on
top of it, with proofs; `AccountRegistry`, `Registration`, `Login` and `AccessTokens` with
proofs; their composition `AuthService` with both refinements proved;
`UnitOfWork` and `AuditableTable` with proofs.  Of interest next: the commands
and queries a later version adds to the aggregate, and the routes it puts guards
on.

## Not modelled

* The end of the pool (`onModuleDestroy` calls `sql.end()`): `main.ts` neither
  closes the application nor enables shutdown hooks, so it does not run in
  production; a stop is a crash.
* The regular expressions of the value objects and of the DTOs: they are sets of
  texts with the assumptions the code relies on (`TextsAssumption`).
* bcrypt, the JWT library and the database driver: modelled by what the code uses
  of them, never in themselves.
* The times of the audit columns: they come from the clocks of the server and of
  several processes, nothing relates them, and nothing reads them; `updated_at` may
  go back under concurrent updates.
* The `last_login_at` of a login that was answered 500: its UPDATE may be carried out
  later and take the column back behind a later login.  `LastLoginNotOvertaken` speaks
  of logins answered 200, because of the others it does not hold.
* Publications lost in a crash: nothing in the code replays them, so there is no
  recovery to model.
* Wiring of the framework, logging and its redaction, health, Swagger, docker,
  make and the installer: no shared state and nothing concurrent, or code of
  others.
