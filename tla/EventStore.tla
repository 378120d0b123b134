----------------------------- MODULE EventStore -----------------------------
(***************************************************************************)
(* EventStoreService.appendToStream over the domain_events table, at the   *)
(* granularity of its SQL statements.  Each call is one READ COMMITTED     *)
(* transaction: it reads the latest version of the stream, compares it     *)
(* with the expected revision, inserts one row per event at the versions   *)
(* that follow, and commits.  What it read is stale by the time it         *)
(* inserts; the unique constraints of the table are what is left to        *)
(* serialise two callers.                                                  *)
(*                                                                         *)
(* The server enters a row into the two unique indexes one after the       *)
(* other.  An entry that meets the same key waits while the transaction    *)
(* that entered it is open, and fails once that is committed (error        *)
(* 23505).  While a row waits with its version, the entry of its eventId   *)
(* is in place, and others may wait for it in turn.                        *)
(***************************************************************************)
EXTENDS Integers, Sequences

CONSTANTS
  Writers,    \* concurrent callers of appendToStream
  Streams,    \* stream ids ("user-<uuid>")
  Events,     \* domain events, identified by eventId
  Batches,    \* Batches[s]: the event batches a caller may append to s
  Revisions,  \* the expectedRevision arguments callers pass
  MaxFaults   \* bound on lost connections and lost acknowledgements

Any      == -2      \* expectedRevision 'any'
NoStream == -1      \* expectedRevision 'no_stream'; currentRevision = null

\* The unit of work never appends an empty batch, and eventIds are fresh UUIDs.
IsBatch(b) ==
  /\ b \in Seq(Events) \ {<<>>}
  /\ \A i, j \in 1 .. Len(b) : b[i] = b[j] => i = j

ASSUME BatchesAssumption ==
  /\ Batches \in [Streams -> SUBSET Seq(Events)]
  /\ \A s \in Streams : \A b \in Batches[s] : IsBatch(b)
\* A batch is what an aggregate has pending.  Its events are made for it alone and
\* leave it together once they are stored; until then more are put behind them.
\* So two batches that share an event begin alike, up to and with that event.
ASSUME FreshEventsAssumption ==
  \A s, t \in Streams : \A b \in Batches[s], d \in Batches[t] :
    \A i \in 1 .. Len(b), j \in 1 .. Len(d) : b[i] = d[j] =>
      i = j /\ \A k \in 1 .. i : b[k] = d[k]
ASSUME RevisionsAssumption == Revisions \subseteq {n \in Int : n >= Any}
ASSUME FaultsAssumption    == MaxFaults \in Nat

VARIABLES
  rows,     \* the committed rows of domain_events
  tx,       \* tx[w]: the open transaction of caller w, or Idle
  answer,   \* what the last step answered its caller, or NoAnswer
  faults    \* how many faults have happened

vars == <<rows, tx, answer, faults>>

Row  == [stream : Streams, version : Nat, event : Events]
Idle == [pc |-> "idle"]
Tx   == [pc : {"select", "id", "version", "commit"}, stream : Streams,
         batch : Seq(Events), expected : Revisions,
         current : {NoStream} \cup Nat, done : Nat]

Answer(status, revision) == [status |-> status, revision |-> revision]
NoAnswer == Answer("none", NoStream)
-----------------------------------------------------------------------------
\* v is the version of the first row of
\* SELECT version ... ORDER BY version DESC LIMIT 1, or NoStream for no row.
IsLatest(table, s, v) ==
  LET versions == {r.version : r \in {x \in table : x.stream = s}} IN
  IF versions = {} THEN v = NoStream
  ELSE v \in versions /\ \A n \in versions : n <= v

\* mutant: an expected revision the stream has moved past is accepted
RevisionReached(expected, current) == expected = Any \/ current >= expected

\* The check of the expected revision.
RevisionMatches(expected, current) == expected = Any \/ current = expected

\* currentRevision !== null ? currentRevision + 1n : 0n
StartVersion(current) == current + 1

\* mutant: the table without its primary key, or without UNIQUE (stream_id, version)
NoConstraint(r1, r2) == FALSE

\* PRIMARY KEY (id)
SameId(r1, r2) == r1.event = r2.event

\* UNIQUE (stream_id, version)
SameVersion(r1, r2) == r1.stream = r2.stream /\ r1.version = r2.version

\* mutant: the versions are given out from the last event to the first
RowAtBackwards(w, i) ==
  [stream |-> tx[w].stream,
   version |-> StartVersion(tx[w].current) + i - 1,
   event |-> tx[w].batch[Len(tx[w].batch) + 1 - i]]

\* The row of the ith event of w's batch.
RowAt(w, i) ==
  [stream |-> tx[w].stream,
   version |-> StartVersion(tx[w].current) + i - 1,
   event |-> tx[w].batch[i]]

\* The row w inserts next, or is inserting.
NextRow(w) == RowAt(w, tx[w].done + 1)

\* The rows w has inserted and not committed: they are in both indexes.
Pending(w) == IF tx[w] = Idle THEN {} ELSE {RowAt(w, i) : i \in 1 .. tx[w].done}

\* The rows of w that the index of the primary key has an entry of.
Entered(w) == Pending(w) \cup IF tx[w].pc = "version" THEN {NextRow(w)} ELSE {}

\* The insert of w waits for the transaction of o, which has entered the same key.
WaitsFor(w, o) ==
  /\ o # w
  /\ \/ tx[w].pc = "id" /\ \E r \in Entered(o) : SameId(NextRow(w), r)
     \/ tx[w].pc = "version" /\ \E r \in Pending(o) : SameVersion(NextRow(w), r)
-----------------------------------------------------------------------------
Init ==
  /\ rows   = {}
  /\ tx     = [w \in Writers |-> Idle]
  /\ answer = NoAnswer
  /\ faults = 0

\* The call is made and its transaction begins.
AppendToStream(w, s, batch, expected) ==
  /\ tx[w] = Idle
  /\ tx' = [tx EXCEPT ![w] = [pc |-> "select", stream |-> s, batch |-> batch,
                              expected |-> expected, current |-> NoStream,
                              done |-> 0]]
  /\ answer' = NoAnswer
  /\ UNCHANGED <<rows, faults>>

\* mutant: the error is answered but the transaction is left open
FailLeavesOpen(w, status) ==
  /\ answer' = Answer(status, NoStream)
  /\ UNCHANGED <<rows, tx>>

\* mutant: the rows are inserted through the pool and not through tx
FailKeepsRows(w, status) ==
  /\ tx'     = [tx EXCEPT ![w] = Idle]
  /\ answer' = Answer(status, NoStream)
  /\ rows'   = rows \cup Pending(w)

\* The call ends with an error; the transaction is rolled back.
Fail(w, status) ==
  /\ tx'     = [tx EXCEPT ![w] = Idle]
  /\ answer' = Answer(status, NoStream)
  /\ rows'   = rows

\* The SELECT and the validation of the expected revision.
SelectLatest(w) ==
  /\ tx[w].pc = "select"
  /\ \E v \in {NoStream} \cup {r.version : r \in rows} :
       /\ IsLatest(rows, tx[w].stream, v)
       /\ IF RevisionMatches(tx[w].expected, v)
          THEN /\ tx' = [tx EXCEPT ![w].pc = "id", ![w].current = v]
               /\ answer' = NoAnswer
               /\ UNCHANGED rows
          ELSE Fail(w, "ConcurrencyError")
  /\ UNCHANGED faults

\* One row of the multi-row INSERT goes into the index of the primary key.  It
\* waits for an open transaction that has entered its eventId and fails with
\* 23505 on a committed one.  The catch block turns 23505 into a ConcurrencyError.
InsertId(w) ==
  /\ tx[w].pc = "id"
  /\ \A o \in Writers : ~ WaitsFor(w, o)
  /\ IF \E r \in rows : SameId(NextRow(w), r)
     THEN Fail(w, "ConcurrencyError")
     ELSE /\ tx' = [tx EXCEPT ![w].pc = "version"]
          /\ answer' = NoAnswer
          /\ UNCHANGED rows
  /\ UNCHANGED faults

\* ... and then into the index of (stream_id, version), likewise.
InsertVersion(w) ==
  /\ tx[w].pc = "version"
  /\ \A o \in Writers : ~ WaitsFor(w, o)
  /\ IF \E r \in rows : SameVersion(NextRow(w), r)
     THEN Fail(w, "ConcurrencyError")
     ELSE /\ tx' = [tx EXCEPT ![w].done = @ + 1,
                              ![w].pc = IF tx[w].done + 1 = Len(tx[w].batch)
                                        THEN "commit" ELSE "id"]
          /\ answer' = NoAnswer
          /\ UNCHANGED rows
  /\ UNCHANGED faults

\* mutant: the revision after the last row, not the revision of the last row
NextFreeRevision(w) == StartVersion(tx[w].current) + Len(tx[w].batch)

\* startVersion + BigInt(events.length) - 1n
NextExpectedRevision(w) == StartVersion(tx[w].current) + Len(tx[w].batch) - 1

\* COMMIT, and the result reaches the caller.
Commit(w) ==
  /\ tx[w].pc = "commit"
  /\ rows'   = rows \cup Pending(w)
  /\ tx'     = [tx EXCEPT ![w] = Idle]
  /\ answer' = Answer("ok", NextExpectedRevision(w))
  /\ UNCHANGED faults

\* COMMIT takes effect and the connection is lost before the caller hears.
CommitUnacknowledged(w) ==
  /\ tx[w].pc = "commit" /\ faults < MaxFaults
  /\ rows'   = rows \cup Pending(w)
  /\ tx'     = [tx EXCEPT ![w] = Idle]
  /\ answer' = Answer("error", NoStream)
  /\ faults' = faults + 1

\* The connection is lost before COMMIT: the server rolls back.
ConnectionLost(w) ==
  /\ tx[w] # Idle /\ faults < MaxFaults
  /\ Fail(w, "error")
  /\ faults' = faults + 1

Next ==
  \E w \in Writers :
    \/ \E s \in Streams, expected \in Revisions :
         \E batch \in Batches[s] : AppendToStream(w, s, batch, expected)
    \/ SelectLatest(w)
    \/ InsertId(w)
    \/ InsertVersion(w)
    \/ Commit(w)
    \/ CommitUnacknowledged(w)
    \/ ConnectionLost(w)

\* The next statement of a call.
Proceed(w) == SelectLatest(w) \/ InsertId(w) \/ InsertVersion(w) \/ Commit(w)

\* The driver and the server carry out every statement that can proceed;
\* callers and faults are not scheduled.
Fairness == \A w \in Writers : WF_vars(Proceed(w))

Spec     == Init /\ [][Next]_vars
FairSpec == Spec /\ Fairness
-----------------------------------------------------------------------------
\* The variables hold what the code keeps in them, and a transaction commits
\* exactly when every event of its batch has been inserted.
TypeOK ==
  /\ rows \in SUBSET Row
  /\ tx \in [Writers -> Tx \cup {Idle}]
  /\ \A w \in Writers : tx[w] # Idle =>
       /\ tx[w].batch \in Batches[tx[w].stream]
       /\ tx[w].done <= Len(tx[w].batch)
       /\ tx[w].pc = "select" => tx[w].done = 0
       /\ tx[w].pc \in {"id", "version"} => tx[w].done < Len(tx[w].batch)
       /\ tx[w].pc = "commit" => tx[w].done = Len(tx[w].batch)
  /\ answer \in [status : {"none", "ok", "ConcurrencyError", "error"},
                 revision : {NoStream} \cup Nat]
  /\ faults \in 0 .. MaxFaults

\* No two rows of a stream share a version: a replay has one order.
VersionsUnique ==
  \A r1, r2 \in rows :
    r1.stream = r2.stream /\ r1.version = r2.version => r1 = r2

\* No stream has a gap below a version it holds.
VersionsDense ==
  \A r \in rows : \A v \in 0 .. r.version - 1 :
    \E q \in rows : q.stream = r.stream /\ q.version = v

\* Every stream is a log: its versions run from 0 without a gap and no two
\* rows share one, although each caller computed its versions from a read
\* that another caller may have overtaken (lines 49-90).
StreamsAreLogs == VersionsUnique /\ VersionsDense

\* No event is stored twice, also when a caller appends a batch again
\* because the acknowledgement of its first attempt was lost.
EventsStoredOnce == \A r1, r2 \in rows : r1.event = r2.event => r1 = r2

\* Optimistic concurrency: rows become visible only on top of the revision
\* the caller expected - nothing slipped in between its read and its commit.
HonoursExpected ==
  \A w \in Writers :
    tx[w] # Idle /\ tx'[w] = Idle /\ rows' # rows /\ tx[w].expected # Any
      => IsLatest(rows, tx[w].stream, tx[w].expected)
ExpectedRevisionHonoured == [][HonoursExpected]_vars

\* The nextExpectedRevision a successful append returns is the revision of the
\* stream at that moment, so the caller can use it for its next append.
AcksCurrent ==
  \A w \in Writers :
    tx[w] # Idle /\ tx'[w] = Idle /\ answer'.status = "ok"
      => IsLatest(rows', tx[w].stream, answer'.revision)
AckedRevisionCurrent == [][AcksCurrent]_vars

\* Whichever rows, streams and repeated batches meet, no inserts wait for one
\* another in a circle, of two callers or of more, and the server never has to
\* break one: every chain of waiting ends with its second link.  A repeated
\* event waits for a row that may itself wait with its version, but for a
\* transaction that goes on (lines 89-93).
NoWaitCircles ==
  \A t, u, v, w \in Writers : ~ (WaitsFor(t, u) /\ WaitsFor(u, v) /\ WaitsFor(v, w))

\* Every call is answered, so that its caller is without one again and again: no
\* inserts wait for each other, and none waits for a transaction that is never
\* closed (event-store.service.ts:48-113).
CallsEnd == \A w \in Writers : []<>(tx[w] = Idle)

\* appendToStream implements the atomic append of EventStream: the log of a
\* stream is its committed rows in version order.
Latest(table, s) ==
  CHOOSE v \in {NoStream} \cup {r.version : r \in table} : IsLatest(table, s, v)
EventAt(table, s, v) ==
  (CHOOSE r \in table : r.stream = s /\ r.version = v).event
LogOf(table, s) ==
  [i \in 1 .. Latest(table, s) + 1 |-> EventAt(table, s, i - 1)]

LogBar  == [s \in Streams |-> LogOf(rows, s)]
OpenBar == [w \in Writers |->
              IF tx[w] = Idle THEN [open |-> FALSE]
              ELSE [open |-> TRUE, stream |-> tx[w].stream,
                    batch |-> tx[w].batch, expected |-> tx[w].expected]]

Stream == INSTANCE EventStream WITH log <- LogBar, open <- OpenBar

ImplementsEventStream == Stream!Spec
=============================================================================
