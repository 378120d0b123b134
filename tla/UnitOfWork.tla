----------------------------- MODULE UnitOfWork -----------------------------
(***************************************************************************)
(* The write side of the user context: handlers that create an aggregate,  *)
(* or load one from its stream, let it apply events, and commit it through *)
(* UserUnitOfWork.  Two copies of one aggregate may be changed at the same *)
(* time; only the version each of them counts keeps them apart.            *)
(*                                                                         *)
(* commit works on a copy of the uncommitted events and clears all of them *)
(* in the end.  Nothing in it keeps others who hold the aggregate from     *)
(* applying events to it meanwhile, or from committing it once more; the   *)
(* one caller of this version, create-user.handler.ts, does neither.       *)
(*                                                                         *)
(* The classes are written for any kind of event; this version of the      *)
(* program has one, UserCreated, and Later[h] are the kinds that a later   *)
(* version, running beside this one, registers as well (readStream skips   *)
(* what it does not know, "forward compatibility").                        *)
(*                                                                         *)
(* appendToStream is the append of EventStream.tla, and the projection is  *)
(* the time others act between the append and the publication              *)
(* (Registration.tla models its rows).  A call whose handler has crashed   *)
(* or was told that the connection is lost may still be carried out: the   *)
(* COMMIT was on its way.                                                  *)
(***************************************************************************)
EXTENDS Integers, Sequences, FiniteSets

CONSTANTS
  Handlers,      \* command handlers, each in a process of its own
  Commits,       \* calls of commit, by any handler
  Streams,       \* "user-<uuid>"
  Events,        \* domain events, identified by eventId
  Type,          \* Type[e]: the eventType of e
  Later,         \* Later[h]: event types of later versions that h knows
  MaxPending,    \* bound on the uncommitted events of an aggregate
  MaxFaults      \* bound on crashes and lost connections

UserCreated == "UserCreated"

ASSUME UnitOfWorkAssumption ==
  /\ MaxPending \in Nat \ {0} /\ MaxFaults \in Nat
  /\ IsFiniteSet(Streams)

VARIABLES
  log,           \* log[s]: the events of stream s, in the order of versions
  open,          \* open[c]: the append of c that may still take effect, or none
  agg,           \* the aggregate a handler works with
  com,           \* com[c]: which aggregate c commits, what, and how far it is
  bus,           \* bus[h]: the events that h published, in that order
  faults,        \* how many faults have happened
  basis          \* history: what its aggregate knew when it applied an event

vars == <<log, open, agg, com, bus, faults, basis>>

\* The event store.  A commit has one append under way at most.
Stream == INSTANCE EventStream
            WITH Writers <- Commits, Batches <- [s \in Streams |-> Seq(Events)],
                 Revisions <- Nat \cup {-1}

NoAggregate == [stream |-> "none"]
NoCommit    == [step |-> "none"]
Versions    == Nat \cup {-1}
Aggregate   == [stream : Streams, version : Versions, seen : SUBSET Events,
                uncommitted : Seq(Events)]
Calls       == [open : {TRUE}, stream : Streams, batch : Seq(Events), expected : Versions]
NoCall      == Stream!NoCall
Committing  == [step : {"appending", "refused", "projecting"}, of : Handlers,
                copy : Seq(Events)]

Elements(q)  == {q[i] : i \in 1 .. Len(q)}
Before(q, i) == {q[j] : j \in 1 .. i - 1}
Revision(s) == Len(log[s]) - 1
Stored      == UNION {Elements(log[s]) : s \in Streams}
Published   == UNION {Elements(bus[h]) : h \in Handlers}
Has(h)      == agg[h] # NoAggregate
Calling(c)  == open[c] # NoCall
UnderWay(c) == com[c].step \in {"appending", "projecting"}
\* The commits of the aggregate h works with, those that have thrown included.
CommitsOf(h) == {c \in Commits : com[c] # NoCommit /\ com[c].of = h}
\* A fresh eventId: no aggregate has applied this event.
Fresh(e)    == e \in basis[e]
Fault       == faults < MaxFaults /\ faults' = faults + 1
-----------------------------------------------------------------------------
Init ==
  /\ log   = [s \in Streams |-> <<>>]
  /\ open  = [c \in Commits |-> NoCall]
  /\ agg   = [h \in Handlers |-> NoAggregate]
  /\ com   = [c \in Commits |-> NoCommit]
  /\ bus   = [h \in Handlers |-> <<>>]
  /\ faults = 0
  /\ basis = [e \in Events |-> {e}]

\* UserModule.onModuleInit registers the one event type of this version.
Registry(h) == {UserCreated} \cup Later[h]

\* deserialize returns null for an event type that is not registered.
Deserializes(h, e) == Type[e] \in Registry(h)

\* readStream: the rows h can make an event of, by their position.
ReadStream(h, s) == {i \in 1 .. Len(log[s]) : Deserializes(h, log[s][i])}

\* mutant: the version is that of the last row
VersionOfLastRow(h, s) == Revision(s)

\* The version counts the events that were applied.
VersionRead(h, s) == Cardinality(ReadStream(h, s)) - 1

Reconstitute(h, s) ==
  [stream |-> s, version |-> VersionRead(h, s),
   seen |-> {log[s][i] : i \in ReadStream(h, s)}, uncommitted |-> <<>>]

\* UserAggregate.create: a fresh user id, and its first event.
Create(h, s, e) ==
  /\ ~ Has(h)
  /\ log[s] = <<>>
  /\ \A k \in Handlers : Has(k) => agg[k].stream # s
  /\ \A c \in Commits : Calling(c) => open[c].stream # s
  /\ Fresh(e) /\ Type[e] = UserCreated
  /\ agg' = [agg EXCEPT ![h] = [stream |-> s, version |-> -1, seen |-> {e},
                                uncommitted |-> <<e>>]]
  /\ basis' = [basis EXCEPT ![e] = {}]
  /\ UNCHANGED <<log, open, com, bus, faults>>

\* mutant: a stream without events is reconstituted as well
FindByIdUnguarded(h, s) ==
  /\ ~ Has(h)
  /\ agg' = [agg EXCEPT ![h] = Reconstitute(h, s)]
  /\ UNCHANGED <<log, open, com, bus, faults, basis>>

\* findById, by a handler that starts, or that starts over after an error; null
\* for a stream without events.
FindById(h, s) ==
  /\ ~ Has(h)
  /\ agg' = [agg EXCEPT ![h] = IF ReadStream(h, s) = {} THEN NoAggregate
                               ELSE Reconstitute(h, s)]
  /\ UNCHANGED <<log, open, com, bus, faults, basis>>

\* AggregateRootBase.apply, from a method of the aggregate: at any time, also
\* while the aggregate is being committed.
Apply(h, e) ==
  /\ Has(h) /\ Len(agg[h].uncommitted) < MaxPending
  /\ Fresh(e) /\ Type[e] \in Later[h]
  /\ agg' = [agg EXCEPT ![h].seen = @ \cup {e}, ![h].uncommitted = Append(@, e)]
  /\ basis' = [basis EXCEPT ![e] = agg[h].seen]
  /\ UNCHANGED <<log, open, com, bus, faults>>
-----------------------------------------------------------------------------
\* UserUnitOfWork.commit, step 1: the events are copied and the append is sent,
\* unless there is nothing to append.  expectedRevision is the version; version
\* -1 is 'no_stream'.
Commit(h, c) ==
  /\ Has(h) /\ agg[h].uncommitted # <<>>
  /\ ~ UnderWay(c)
  /\ Stream!Invoke(c, agg[h].stream, agg[h].uncommitted, agg[h].version)
  /\ com' = [com EXCEPT ![c] = [step |-> "appending", of |-> h,
                                copy |-> agg[h].uncommitted]]
  /\ UNCHANGED <<agg, bus, faults, basis>>

\* The grounds for a refusal: another revision, or an event that is stored.
Accepted(c) ==
  /\ open[c].expected = Revision(open[c].stream)
  /\ Elements(open[c].batch) \cap Stored = {}

\* mutant: the version is not brought up to date
VersionKept(c) == agg[com[c].of].version

\* nextExpectedRevision of the append.
VersionAfter(c) == open[c].expected + Len(open[c].batch)

\* Step 2: the append took effect, take over the new revision.
CommitAppend(c) ==
  /\ com[c].step = "appending"
  /\ Stream!TakeEffect(c)
  /\ agg' = [agg EXCEPT ![com[c].of].version = VersionAfter(c)]
  /\ com' = [com EXCEPT ![c].step = "projecting"]
  /\ UNCHANGED <<bus, faults, basis>>

\* mutant: a refused append is only logged, like a failed projection
RefusedIsLogged == "projecting"

\* ConcurrencyError: commit throws, the aggregate is as before.
AfterRefusal == "refused"

CommitRefused(c) ==
  /\ com[c].step = "appending" /\ ~ Accepted(c)
  /\ Stream!Refuse(c)
  /\ com' = [com EXCEPT ![c].step = AfterRefusal]
  /\ UNCHANGED <<agg, bus, faults, basis>>

\* mutant: what is published is read from the aggregate after it was cleared
PublishNothing(c) == UNCHANGED bus

Publish(c) == bus' = [bus EXCEPT ![com[c].of] = @ \o com[c].copy]

\* Steps 3 to 5: project, clear, publish.  All uncommitted events are cleared,
\* those included that were applied since they were copied.
CommitFinish(c) ==
  /\ com[c].step = "projecting"
  /\ agg' = [agg EXCEPT ![com[c].of].uncommitted = <<>>]
  /\ Publish(c)
  /\ com' = [com EXCEPT ![c] = NoCommit]
  /\ UNCHANGED <<log, open, faults, basis>>

\* The aggregate is gone, and with it what is known of its commits.
Forget(h) ==
  /\ agg' = [agg EXCEPT ![h] = NoAggregate]
  /\ com' = [c \in Commits |-> IF c \in CommitsOf(h) THEN NoCommit ELSE com[c]]
  /\ UNCHANGED <<log, open, bus, basis>>

\* The handler returns; it may have given up on a refused aggregate.
Return(h) ==
  /\ Has(h) /\ (\A c \in CommitsOf(h) : ~ UnderWay(c))
  /\ Forget(h)
  /\ UNCHANGED faults

\* Faults.  The connection is lost: commit throws, the aggregate keeps version
\* and events, and the append may have taken effect, may yet, or never will.
CommitFailed(c) ==
  /\ com[c].step = "appending" /\ Fault
  /\ com' = [com EXCEPT ![c] = NoCommit]
  /\ UNCHANGED <<log, open, agg, bus, basis>>

\* The process crashes and takes the aggregate with it, not what it has sent.
Crash(h) == Has(h) /\ Fault /\ Forget(h)

\* Nobody waits for the append any more; it is carried out, or is not.
LateAppend(c) ==
  /\ com[c].step # "appending"
  /\ Stream!TakeEffect(c) \/ Stream!Refuse(c)
  /\ UNCHANGED <<agg, com, bus, faults, basis>>
-----------------------------------------------------------------------------
Next ==
  \/ \E h \in Handlers :
       \/ \E s \in Streams, e \in Events : Create(h, s, e)
       \/ \E s \in Streams : FindById(h, s)
       \/ \E e \in Events : Apply(h, e)
       \/ \E c \in Commits : Commit(h, c)
       \/ Return(h) \/ Crash(h)
  \/ \E c \in Commits :
       \/ CommitAppend(c) \/ CommitRefused(c) \/ CommitFinish(c)
       \/ CommitFailed(c) \/ LateAppend(c)

Spec == Init /\ [][Next]_vars
-----------------------------------------------------------------------------
\* The variables hold what the code keeps in them, and every aggregate has the
\* identity that its UserCreated event gave it.
TypeOK ==
  /\ log \in [Streams -> Seq(Events)]
  /\ open \in [Commits -> Calls \cup {NoCall}]
  /\ agg \in [Handlers -> Aggregate \cup {NoAggregate}]
  /\ \A h \in Handlers : Has(h) => \E e \in agg[h].seen : Type[e] = UserCreated
  /\ com \in [Commits -> Committing \cup {NoCommit}]
  /\ bus \in [Handlers -> Seq(Events)]
  /\ faults \in 0 .. MaxFaults
  /\ basis \in [Events -> SUBSET Events]

\* Every stored event was decided upon with the whole history before it in
\* view: no handler overwrites what it has not seen, whether another handler
\* wrote it meanwhile or a later version wrote what this one cannot read
\* (user-unit-of-work.ts:30-34, event-store.service.ts:133-137).
NoBlindWrites ==
  \A s \in Streams : \A i \in 1 .. Len(log[s]) :
    Before(log[s], i) \subseteq basis[log[s][i]]

\* A commit is refused only where the stream holds an event its aggregate does
\* not know, or where some of the events are stored already: by another commit
\* of the aggregate, or by its own after a lost result.  In particular an
\* aggregate may be committed again and again (user-unit-of-work.ts:47-48).
RefusalExplained ==
  \A c \in Commits : com[c].step = "refused" =>
    \/ ~ (Elements(log[agg[com[c].of].stream]) \subseteq agg[com[c].of].seen)
    \/ Elements(com[c].copy) \cap Stored # {}

\* In a stream that holds both, a comes before b.
InOrder(a, b) ==
  \A s \in Streams : \A m, n \in 1 .. Len(log[s]) :
    log[s][m] = a /\ log[s][n] = b => m < n

\* Only stored events are published, each by one handler, which publishes those
\* of a stream once and in their order there, whatever it had to reload or to
\* commit again, and also when it commits an aggregate that is being committed
\* (user-unit-of-work.ts:36-71).  Two handlers may publish in the other order,
\* because each awaits its projection in between.
PublishedInOrder ==
  /\ Published \subseteq Stored
  /\ \A h, k \in Handlers : h # k => Elements(bus[h]) \cap Elements(bus[k]) = {}
  /\ \A h \in Handlers : \A i, j \in 1 .. Len(bus[h]) :
       i < j => InOrder(bus[h][i], bus[h][j])

\* Without a fault every event that is stored is published once no commit is
\* under way.
SettledIsPublished ==
  faults = 0 /\ (\A c \in Commits : com[c].step # "projecting") => Stored \subseteq Published
=============================================================================
