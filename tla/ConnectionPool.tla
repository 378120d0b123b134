--------------------------- MODULE ConnectionPool ---------------------------
(***************************************************************************)
(* DrizzleService: everything the service says to PostgreSQL goes through  *)
(* one pool of connections.  A single statement (the getter db) has a      *)
(* connection for as long as it runs; DrizzleService.transaction, which    *)
(* only appendToStream uses, keeps one from BEGIN to the end, also while   *)
(* an insert of its waits for another transaction to end.  Who finds no    *)
(* connection free waits in line.                                          *)
(*                                                                         *)
(* So there are two things to wait for, connections and rows, and whoever  *)
(* has a row has a connection.  Nobody may wait for the others for ever.   *)
(* What the transactions do to the table is what EventStore says, by the   *)
(* way this module is built.                                               *)
(***************************************************************************)
EXTENDS EventStore, FiniteSets

CONSTANT Connections       \* the size of the pool

ASSUME ConnectionsAssumption == Connections \in Nat \ {0}

VARIABLES
  call,      \* what a caller has asked of the database and not been answered
  queue,     \* the callers that wait for a connection
  held       \* the callers that have one

poolVars == <<vars, call, queue, held>>

NoCall    == [kind |-> "none"]
Statement == [kind |-> "statement"]
AppendCall(s, batch, expected) ==
  [kind |-> "append", stream |-> s, batch |-> batch, expected |-> expected]
-----------------------------------------------------------------------------
PoolInit ==
  /\ Init
  /\ call  = [w \in Writers |-> NoCall]
  /\ queue = <<>>
  /\ held  = {}

\* drizzle.db or drizzle.transaction, whatever the caller is about to run.
Request(w, c) ==
  /\ call[w] = NoCall
  /\ call'  = [call EXCEPT ![w] = c]
  /\ queue' = queue \o <<w>>
  /\ UNCHANGED <<vars, held>>

\* The first in line gets a connection; a transaction begins on it at once.
Serve ==
  /\ queue # <<>> /\ Cardinality(held) < Connections
  /\ LET w == Head(queue) IN
       /\ held' = held \cup {w}
       /\ IF call[w].kind = "append"
          THEN AppendToStream(w, call[w].stream, call[w].batch, call[w].expected)
          ELSE UNCHANGED vars
  /\ queue' = Tail(queue)
  /\ UNCHANGED call

\* A call that has ended gives its connection back.
Release(w) ==
  /\ held' = held \ {w}
  /\ call' = [call EXCEPT ![w] = NoCall]

\* A statement has run, or failed.
StatementEnds(w) ==
  /\ w \in held /\ call[w] = Statement
  /\ Release(w)
  /\ UNCHANGED <<vars, queue>>

\* mutant: the SELECT is sent through drizzle.db and not through tx
ThroughPool(w) == Cardinality(held) < Connections

\* The statements of a transaction are sent on its own connection.
ThroughTx(w) == w \in held

\* A step of an open transaction, and what its end does to the pool.
Transaction(w, step) ==
  /\ step
  /\ IF tx'[w] = Idle THEN Release(w) ELSE UNCHANGED <<call, held>>
  /\ UNCHANGED queue

Select(w) == ThroughTx(w) /\ Transaction(w, SelectLatest(w))
Insert(w) == w \in held /\ Transaction(w, InsertId(w) \/ InsertVersion(w))
End(w)    == w \in held /\ Transaction(w, Commit(w))

\* A lost connection ends its transaction; the pool opens another one.
Lost(w)   == Transaction(w, ConnectionLost(w) \/ CommitUnacknowledged(w))

PoolNext ==
  \/ Serve
  \/ \E w \in Writers :
       \/ Request(w, Statement)
       \/ \E s \in Streams, expected \in Revisions :
            \E batch \in Batches[s] : Request(w, AppendCall(s, batch, expected))
       \/ StatementEnds(w)
       \/ Select(w) \/ Insert(w) \/ End(w) \/ Lost(w)

PoolSpec == PoolInit /\ [][PoolNext]_poolVars

\* Free connections are handed out, and driver and server carry out what can
\* proceed; calls and faults are not scheduled.
FairPoolSpec ==
  /\ PoolSpec
  /\ WF_poolVars(Serve)
  /\ \A w \in Writers :
       /\ WF_poolVars(StatementEnds(w)) /\ WF_poolVars(Select(w))
       /\ WF_poolVars(Insert(w)) /\ WF_poolVars(End(w))
-----------------------------------------------------------------------------
\* The next statement of w, which has a connection, can be carried out: w waits
\* neither for another connection nor for a row.
CanGoOn(w) ==
  \/ call[w] = Statement
  \/ tx[w].pc = "select" /\ ThroughTx(w)
  \/ tx[w].pc \in {"id", "version"} /\ \A o \in Writers : ~ WaitsFor(w, o)
  \/ tx[w].pc = "commit"

\* The first in line can have a connection.
CanServe ==
  /\ queue # <<>> /\ Cardinality(held) < Connections
  /\ tx[Head(queue)] = Idle

\* As long as a call is unanswered, somebody can go on without a new call and
\* without a fault, however few connections there are and whoever holds them
\* (drizzle.service.ts:36-42, event-store.service.ts:48-93).
NeverStuck ==
  (\E w \in Writers : call[w] # NoCall) => CanServe \/ \E w \in held : CanGoOn(w)

\* Every call gets its connection and is answered, however many transactions
\* compete for connections and rows (drizzle.service.ts:36-42,
\* event-store.service.ts:48-93).
CallsAnswered == \A w \in Writers : call[w] # NoCall ~> call[w] = NoCall
=============================================================================
