-------------------------- MODULE EventStoreProofs --------------------------
(***************************************************************************)
(* Proofs about EventStore for any number of callers, streams, events and  *)
(* faults.  StreamsAreLogs is not inductive: a commit adds rows whose      *)
(* versions were computed long before.  IInv adds what the open            *)
(* transactions rely on: the entries they have made in the two unique      *)
(* indexes are free of conflicts, the versions up to the one they read are *)
(* committed (rows are never removed), and their expected revision has     *)
(* been compared with what they read.                                      *)
(*                                                                         *)
(* The second half shows that EventStore implements EventStream.  The      *)
(* refinement mapping reads the log of a stream off the table in version   *)
(* order; the proof needs, besides IInv, that each stream has a latest     *)
(* version.                                                                *)
(***************************************************************************)
EXTENDS EventStore, SequenceTheorems, TLAPS

\* No eventId a transaction has entered is that of a committed row or of another
\* transaction's entry.
IdsFree ==
  \A w \in Writers : \A p \in Entered(w) :
    /\ \A r \in rows : ~ SameId(p, r)
    /\ \A o \in Writers \ {w} : \A q \in Entered(o) : ~ SameId(p, q)

\* No inserted row has the version of a committed one or of another's row.
VersionsFree ==
  \A w \in Writers : \A p \in Pending(w) :
    /\ \A r \in rows : ~ SameVersion(p, r)
    /\ \A o \in Writers \ {w} : \A q \in Pending(o) : ~ SameVersion(p, q)

\* Every version up to the one a transaction read is committed.
ReadIsCommitted ==
  \A w \in Writers : tx[w] # Idle =>
    \A v \in 0 .. tx[w].current :
      \E q \in rows : q.stream = tx[w].stream /\ q.version = v

\* A transaction that inserts has passed the check of its expected revision.
RevisionChecked ==
  \A w \in Writers : tx[w] # Idle /\ tx[w].pc # "select" =>
    RevisionMatches(tx[w].expected, tx[w].current)

IInv ==
  /\ TypeOK
  /\ StreamsAreLogs
  /\ EventsStoredOnce
  /\ IdsFree
  /\ VersionsFree
  /\ ReadIsCommitted
  /\ RevisionChecked
-----------------------------------------------------------------------------
\* The batches callers append are non-empty sequences of distinct events.
LEMMA BatchFacts ==
  ASSUME NEW s \in Streams, NEW b \in Batches[s]
  PROVE  /\ b \in Seq(Events)
         /\ Len(b) \in Nat \ {0}
         /\ \A i \in 1 .. Len(b) : b[i] \in Events
         /\ \A i, j \in 1 .. Len(b) : b[i] = b[j] => i = j
BY BatchesAssumption DEF IsBatch

\* The state of an open transaction, without the case distinction of TypeOK.
LEMMA OpenFacts ==
  ASSUME TypeOK, NEW w \in Writers, tx[w] # Idle
  PROVE  /\ tx[w] \in Tx
         /\ tx[w].batch \in Batches[tx[w].stream]
         /\ tx[w].stream \in Streams
         /\ tx[w].current \in Int /\ tx[w].current >= -1
         /\ tx[w].done \in Nat
         /\ tx[w].done <= Len(tx[w].batch)
         /\ Len(tx[w].batch) \in Nat \ {0}
BY BatchFacts DEF TypeOK, Tx, NoStream

\* The rows of an open transaction are rows of its stream.
LEMMA RowAtIsRow ==
  ASSUME TypeOK, NEW w \in Writers, tx[w] # Idle,
         NEW i \in 1 .. Len(tx[w].batch)
  PROVE  /\ RowAt(w, i) \in Row
         /\ RowAt(w, i).stream = tx[w].stream
         /\ RowAt(w, i).version = tx[w].current + i
         /\ RowAt(w, i).event = tx[w].batch[i]
<1>1. /\ tx[w].stream \in Streams
      /\ tx[w].current \in Int /\ tx[w].current >= -1
      /\ tx[w].batch[i] \in Events
      /\ Len(tx[w].batch) \in Nat
  BY OpenFacts, BatchFacts
<1>2. /\ StartVersion(tx[w].current) + i - 1 = tx[w].current + i
      /\ tx[w].current + i \in Nat
  BY <1>1 DEF StartVersion
<1> QED BY <1>1, <1>2 DEF RowAt, Row

\* The rows a transaction has inserted are rows of the table.
LEMMA PendingRows ==
  ASSUME TypeOK, NEW w \in Writers
  PROVE  Pending(w) \subseteq Row
BY RowAtIsRow, OpenFacts DEF Pending
-----------------------------------------------------------------------------
\* The table and the transactions always have the shape the code gives them.
LEMMA TypeInit == Init => TypeOK
BY FaultsAssumption DEF Init, TypeOK, NoAnswer, Answer, NoStream

\* Every step keeps the types.
LEMMA TypeStep == TypeOK /\ [Next]_vars => TypeOK'
<1> SUFFICES ASSUME TypeOK, [Next]_vars PROVE TypeOK'
  OBVIOUS
<1>1. ASSUME NEW w \in Writers, NEW s \in Streams, NEW expected \in Revisions,
             NEW batch \in Batches[s], AppendToStream(w, s, batch, expected)
      PROVE  TypeOK'
  <2>1. /\ batch \in Seq(Events)
        /\ Len(batch) \in Nat \ {0}
    BY BatchFacts
  <2>2. tx'[w] \in Tx
    BY <1>1, <2>1 DEF AppendToStream, TypeOK, Tx
  <2> QED BY <1>1, <2>1, <2>2
          DEF AppendToStream, TypeOK, NoAnswer, Answer, NoStream
<1>2. ASSUME NEW w \in Writers, SelectLatest(w)
      PROVE  TypeOK'
  <2>1. tx[w] # Idle
    BY <1>2 DEF SelectLatest, Idle
  <2>2. /\ tx[w] \in Tx
        /\ Len(tx[w].batch) \in Nat \ {0}
    BY <2>1, OpenFacts
  <2>3. CASE Fail(w, "ConcurrencyError")
    BY <1>2, <2>3 DEF SelectLatest, Fail, TypeOK, Answer, NoStream
  <2>4. CASE ~ Fail(w, "ConcurrencyError")
    <3>1. PICK v \in {NoStream} \cup {r.version : r \in rows} :
            /\ tx' = [tx EXCEPT ![w].pc = "id", ![w].current = v]
            /\ answer' = NoAnswer
            /\ UNCHANGED <<rows, faults>>
      BY <1>2, <2>4 DEF SelectLatest
    <3>2. v \in {NoStream} \cup Nat
      BY <3>1 DEF TypeOK, Row
    <3>3. /\ tx'[w] \in Tx
          /\ tx'[w].batch = tx[w].batch /\ tx'[w].done = tx[w].done
          /\ tx'[w].stream = tx[w].stream /\ tx'[w].pc = "id"
      BY <2>2, <3>1, <3>2 DEF TypeOK, Tx
    <3>4. tx[w].done = 0
      BY <1>2, <2>1 DEF SelectLatest, TypeOK
    <3> QED BY <2>1, <2>2, <3>1, <3>3, <3>4
            DEF TypeOK, NoAnswer, Answer, NoStream
  <2> QED BY <2>3, <2>4
<1>6. ASSUME NEW w \in Writers, InsertId(w)
      PROVE  TypeOK'
  <2>1. tx[w] # Idle /\ tx[w].pc = "id"
    BY <1>6 DEF InsertId, Idle
  <2>2. tx[w] \in Tx /\ tx[w].done < Len(tx[w].batch)
    BY <2>1, OpenFacts DEF TypeOK
  <2>3. CASE Fail(w, "ConcurrencyError")
    BY <1>6, <2>3 DEF InsertId, Fail, TypeOK, Answer, NoStream
  <2>4. CASE ~ Fail(w, "ConcurrencyError")
    <3>1. /\ tx' = [tx EXCEPT ![w].pc = "version"]
          /\ answer' = NoAnswer
          /\ UNCHANGED <<rows, faults>>
      BY <1>6, <2>4 DEF InsertId
    <3>2. /\ tx'[w] \in Tx /\ tx'[w].pc = "version"
          /\ tx'[w].batch = tx[w].batch /\ tx'[w].done = tx[w].done
          /\ tx'[w].stream = tx[w].stream
      BY <2>2, <3>1 DEF TypeOK, Tx
    <3> QED BY <2>1, <2>2, <3>1, <3>2 DEF TypeOK, NoAnswer, Answer, NoStream
  <2> QED BY <2>3, <2>4
<1>3. ASSUME NEW w \in Writers, InsertVersion(w)
      PROVE  TypeOK'
  <2>1. tx[w] # Idle
    BY <1>3 DEF InsertVersion, Idle
  <2>2. /\ tx[w] \in Tx
        /\ Len(tx[w].batch) \in Nat \ {0}
        /\ tx[w].done < Len(tx[w].batch)
    BY <1>3, <2>1, OpenFacts DEF InsertVersion, TypeOK
  <2>3. CASE Fail(w, "ConcurrencyError")
    BY <1>3, <2>3 DEF InsertVersion, Fail, TypeOK, Answer, NoStream
  <2>4. CASE ~ Fail(w, "ConcurrencyError")
    <3>1. /\ tx' = [tx EXCEPT ![w].done = @ + 1,
                              ![w].pc = IF tx[w].done + 1 = Len(tx[w].batch)
                                        THEN "commit" ELSE "id"]
          /\ answer' = NoAnswer
          /\ UNCHANGED <<rows, faults>>
      BY <1>3, <2>4 DEF InsertVersion
    <3>2. /\ tx'[w] \in Tx
          /\ tx'[w].batch = tx[w].batch /\ tx'[w].done = tx[w].done + 1
          /\ tx'[w].stream = tx[w].stream
          /\ tx'[w].pc = IF tx[w].done + 1 = Len(tx[w].batch)
                         THEN "commit" ELSE "id"
      <4> DEFINE pc == IF tx[w].done + 1 = Len(tx[w].batch)
                       THEN "commit" ELSE "id"
      <4>1. pc \in {"id", "commit"}
        OBVIOUS
      <4>2. tx[w].done + 1 \in Nat
        BY <2>2 DEF Tx
      <4>3. tx' = [tx EXCEPT ![w] = [tx[w] EXCEPT !.done = tx[w].done + 1,
                                                  !.pc = pc]]
        BY <2>2, <3>1 DEF TypeOK, Tx
      <4> HIDE DEF pc
      <4>4. tx'[w] = [tx[w] EXCEPT !.done = tx[w].done + 1, !.pc = pc]
        BY <4>3 DEF TypeOK
      <4>5. tx'[w] \in Tx
        BY <2>2, <4>1, <4>2, <4>4 DEF Tx
      <4> QED BY <2>2, <4>4, <4>5 DEF Tx, pc
    <3>3. tx[w].done \in Nat
      BY <2>2 DEF Tx
    <3>4. \A o \in Writers \ {w} : tx'[o] = tx[o]
      BY <3>1 DEF TypeOK
    <3>5. tx' \in [Writers -> Tx \cup {Idle}]
      BY <3>1, <3>2, <3>4 DEF TypeOK
    <3>6. /\ tx'[w].batch \in Batches[tx'[w].stream]
          /\ tx'[w].done <= Len(tx'[w].batch)
          /\ tx'[w].pc = "select" => tx'[w].done = 0
          /\ tx'[w].pc \in {"id", "version"} => tx'[w].done < Len(tx'[w].batch)
          /\ tx'[w].pc = "commit" => tx'[w].done = Len(tx'[w].batch)
      BY <2>1, <2>2, <3>2, <3>3 DEF TypeOK
    <3> QED BY <1>3, <3>1, <3>4, <3>5, <3>6
            DEF InsertVersion, TypeOK, NoAnswer, Answer, NoStream
  <2> QED BY <2>3, <2>4
<1>4. ASSUME NEW w \in Writers, tx[w] # Idle,
             \/ Commit(w) \/ CommitUnacknowledged(w) \/ ConnectionLost(w)
      PROVE  TypeOK'
  <2>1. Pending(w) \subseteq Row
    BY PendingRows
  <2>2. NextExpectedRevision(w) \in Nat
    BY <1>4, OpenFacts DEF NextExpectedRevision, StartVersion
  <2> QED BY <1>4, <2>1, <2>2, FaultsAssumption
          DEF Commit, CommitUnacknowledged, ConnectionLost, Fail, TypeOK,
              Answer, NoStream
<1>5. CASE UNCHANGED vars
  BY <1>5 DEF vars, TypeOK
<1> QED BY <1>1, <1>2, <1>3, <1>4, <1>5, <1>6
        DEF Next, Commit, CommitUnacknowledged, ConnectionLost, Idle

\* TypeOK holds in every reachable state.
THEOREM TypeCorrect == Spec => []TypeOK
BY TypeInit, TypeStep, PTL DEF Spec
-----------------------------------------------------------------------------
\* A step of w leaves the entries of every other caller alone.
LEMMA OthersKeep ==
  ASSUME TypeOK, NEW w \in Writers, NEW t, tx' = [tx EXCEPT ![w] = t],
         NEW o \in Writers \ {w}
  PROVE  /\ tx'[o] = tx[o]
         /\ Pending(o)' = Pending(o) /\ Entered(o)' = Entered(o)
<1>1. tx'[o] = tx[o]
  BY DEF TypeOK
<1>2. Pending(o)' = Pending(o)
  BY <1>1 DEF Pending, RowAt, StartVersion, Idle
<1>3. NextRow(o)' = NextRow(o)
  BY <1>1 DEF NextRow, RowAt, StartVersion
<1> QED BY <1>1, <1>2, <1>3 DEF Entered

\* A transaction that is closed, or has entered nothing.
EnteredNothing(t) == t = Idle \/ (t.done = 0 /\ t.pc # "version")

\* ... holds no key.
LEMMA HoldsNothing ==
  ASSUME TypeOK, NEW w \in Writers, NEW t, tx' = [tx EXCEPT ![w] = t],
         EnteredNothing(t)
  PROVE  Pending(w)' = {} /\ Entered(w)' = {}
<1>1. tx'[w] = t
  BY DEF TypeOK
<1>2. CASE t = Idle
  BY <1>1, <1>2 DEF Pending, Entered, Idle
<1>3. CASE t.done = 0 /\ t.pc # "version"
  <2>1. 1 .. tx'[w].done = {}
    BY <1>1, <1>3
  <2>2. Pending(w)' = {}
    BY <2>1 DEF Pending
  <2> QED BY <1>1, <1>3, <2>2 DEF Entered
<1> QED BY <1>2, <1>3 DEF EnteredNothing

\* What a step that only drops or restarts w's transaction preserves.
LEMMA DropPreserves ==
  ASSUME IInv, NEW w \in Writers, NEW t, tx' = [tx EXCEPT ![w] = t],
         EnteredNothing(t), rows' = rows
  PROVE  StreamsAreLogs' /\ EventsStoredOnce' /\ IdsFree' /\ VersionsFree'
<1> USE DEF IInv
<1>1. StreamsAreLogs' /\ EventsStoredOnce'
  BY DEF StreamsAreLogs, VersionsUnique, VersionsDense, EventsStoredOnce
<1>2. \A o \in Writers : Pending(o)' \subseteq Pending(o) /\ Entered(o)' \subseteq Entered(o)
  BY OthersKeep, HoldsNothing
<1>3. IdsFree' /\ VersionsFree'
  BY <1>2 DEF IdsFree, VersionsFree, SameId, SameVersion
<1> QED BY <1>1, <1>3

\* A closed transaction leaves nothing to say about w.
LEMMA CloseReadChecked ==
  ASSUME IInv, NEW w \in Writers, tx' = [tx EXCEPT ![w] = Idle],
         rows \subseteq rows'
  PROVE  ReadIsCommitted' /\ RevisionChecked'
<1>1. \A o \in Writers : tx'[o] # Idle => tx'[o] = tx[o]
  BY DEF IInv, TypeOK
<1>2. ReadIsCommitted'
  BY <1>1 DEF IInv, ReadIsCommitted
<1> QED BY <1>1, <1>2 DEF IInv, RevisionChecked, RevisionMatches

\* A failed call leaves the table as it was.
LEMMA FailStep ==
  ASSUME IInv, NEW w \in Writers, NEW status, Fail(w, status), TypeOK'
  PROVE  IInv'
BY DropPreserves, CloseReadChecked DEF Fail, EnteredNothing, IInv

\* A call begins: nothing is pending for it yet.
LEMMA AppendStep ==
  ASSUME IInv, TypeOK', NEW w \in Writers, NEW s \in Streams,
         NEW batch \in Batches[s], NEW expected \in Revisions,
         AppendToStream(w, s, batch, expected)
  PROVE  IInv'
<1> DEFINE t == [pc |-> "select", stream |-> s, batch |-> batch,
                 expected |-> expected, current |-> NoStream, done |-> 0]
<1>1. /\ tx' = [tx EXCEPT ![w] = t]
      /\ t.done = 0 /\ t.pc = "select" /\ t.current = -1
      /\ rows' = rows
  BY DEF AppendToStream, NoStream
<1> HIDE DEF t
<1>2. StreamsAreLogs' /\ EventsStoredOnce' /\ IdsFree' /\ VersionsFree'
  BY <1>1, DropPreserves DEF EnteredNothing
<1>3. tx'[w] = t /\ \A o \in Writers \ {w} : tx'[o] = tx[o]
  BY <1>1 DEF IInv, TypeOK
<1>4. ReadIsCommitted'
  BY <1>1, <1>3 DEF IInv, ReadIsCommitted
<1>5. RevisionChecked'
  BY <1>1, <1>3 DEF IInv, RevisionChecked, RevisionMatches
<1> QED BY <1>2, <1>4, <1>5 DEF IInv

\* The read: what it returns is committed, and every version below it is too.
LEMMA SelectStep ==
  ASSUME IInv, TypeOK', NEW w \in Writers, SelectLatest(w)
  PROVE  IInv'
<1>1. CASE Fail(w, "ConcurrencyError")
  BY <1>1, FailStep
<1>2. CASE ~ Fail(w, "ConcurrencyError")
  <2>1. PICK v \in {NoStream} \cup {r.version : r \in rows} :
          /\ IsLatest(rows, tx[w].stream, v)
          /\ RevisionMatches(tx[w].expected, v)
          /\ tx' = [tx EXCEPT ![w].pc = "id", ![w].current = v]
          /\ rows' = rows
    BY <1>2 DEF SelectLatest
  <2>2. /\ tx[w] \in Tx /\ tx[w].done = 0
    <3>1. tx[w] # Idle
      BY DEF SelectLatest, Idle
    <3>2. tx[w] \in Tx
      BY <3>1, OpenFacts DEF IInv
    <3>3. tx[w].pc = "select" /\ TypeOK
      BY DEF IInv, SelectLatest
    <3> QED BY <3>1, <3>2, <3>3 DEF TypeOK
  <2> DEFINE t == [tx[w] EXCEPT !.pc = "id", !.current = v]
  <2>3. /\ tx' = [tx EXCEPT ![w] = t]
        /\ t.pc = "id" /\ t.done = 0 /\ t.current = v /\ t.stream = tx[w].stream
        /\ t.expected = tx[w].expected
    BY <2>1, <2>2 DEF IInv, TypeOK, Tx
  <2> HIDE DEF t
  <2>4. StreamsAreLogs' /\ EventsStoredOnce' /\ IdsFree' /\ VersionsFree'
    BY <2>1, <2>3, DropPreserves DEF EnteredNothing
  <2>5. tx'[w] = t /\ \A o \in Writers \ {w} : tx'[o] = tx[o]
    BY <2>3 DEF IInv, TypeOK
  <2>6. \A n \in 0 .. v : \E q \in rows : q.stream = t.stream /\ q.version = n
    <3>1. CASE v = NoStream
      BY <3>1 DEF NoStream
    <3>2. CASE v # NoStream
      <4>1. PICK r \in rows : r.stream = t.stream /\ r.version = v
        BY <2>1, <2>3, <3>2 DEF IsLatest
      <4>2. v \in Nat
        BY <4>1 DEF IInv, TypeOK, Row
      <4> QED BY <4>1, <4>2 DEF IInv, StreamsAreLogs, VersionsDense
    <3> QED BY <3>1, <3>2
  <2>7. ReadIsCommitted'
    <3> SUFFICES ASSUME NEW o \in Writers, tx'[o] # Idle,
                        NEW n \in 0 .. tx'[o].current
                 PROVE  \E q \in rows : q.stream = tx'[o].stream /\ q.version = n
      BY <2>1 DEF ReadIsCommitted
    <3>1. CASE o = w
      BY <2>3, <2>5, <2>6, <3>1
    <3>2. CASE o # w
      BY <2>5, <3>2 DEF IInv, ReadIsCommitted
    <3> QED BY <3>1, <3>2
  <2>8. RevisionChecked'
    BY <2>1, <2>3, <2>5 DEF IInv, RevisionChecked
  <2> QED BY <2>4, <2>7, <2>8 DEF IInv
<1> QED BY <1>1, <1>2

\* A step inside w's transaction changes nothing of what is committed, read and
\* compared.
LEMMA InsideKeeps ==
  ASSUME IInv, NEW w \in Writers, tx[w] # Idle, tx[w].pc # "select", rows' = rows,
         tx'[w].current = tx[w].current, tx'[w].stream = tx[w].stream,
         tx'[w].expected = tx[w].expected,
         \A o \in Writers \ {w} : tx'[o] = tx[o]
  PROVE  StreamsAreLogs' /\ EventsStoredOnce' /\ ReadIsCommitted' /\ RevisionChecked'
<1>1. StreamsAreLogs' /\ EventsStoredOnce'
  BY DEF IInv, StreamsAreLogs, VersionsUnique, VersionsDense, EventsStoredOnce
<1>2. ReadIsCommitted'
  <2> SUFFICES ASSUME NEW o \in Writers, tx'[o] # Idle,
                      NEW v \in 0 .. tx'[o].current
               PROVE  \E q \in rows : q.stream = tx'[o].stream /\ q.version = v
    BY DEF ReadIsCommitted
  <2>1. /\ tx[o] # Idle /\ tx'[o].current = tx[o].current
        /\ tx'[o].stream = tx[o].stream
    OBVIOUS
  <2> QED BY <2>1 DEF IInv, ReadIsCommitted
<1>3. RevisionChecked'
  BY DEF IInv, RevisionChecked, RevisionMatches
<1> QED BY <1>1, <1>2, <1>3

\* A row enters the index of the primary key, next to no entry with its eventId.
LEMMA InsertIdStep ==
  ASSUME IInv, TypeOK', NEW w \in Writers, InsertId(w)
  PROVE  IInv'
<1>1. CASE Fail(w, "ConcurrencyError")
  BY <1>1, FailStep
<1>2. CASE ~ Fail(w, "ConcurrencyError")
  <2>1. /\ tx' = [tx EXCEPT ![w].pc = "version"]
        /\ rows' = rows
        /\ \A o \in Writers \ {w} : \A r \in Entered(o) : ~ SameId(NextRow(w), r)
        /\ \A r \in rows : ~ SameId(NextRow(w), r)
        /\ tx[w].pc = "id"
    BY <1>2 DEF InsertId, WaitsFor
  <2>2. tx[w] # Idle
    BY <2>1 DEF Idle
  <2>3. tx[w] \in Tx
    BY <2>2, OpenFacts DEF IInv
  <2> DEFINE t == [tx[w] EXCEPT !.pc = "version"]
  <2>4. /\ tx' = [tx EXCEPT ![w] = t]
        /\ t.pc = "version" /\ t.done = tx[w].done /\ t.current = tx[w].current
        /\ t.stream = tx[w].stream /\ t.expected = tx[w].expected
        /\ t.batch = tx[w].batch /\ t # Idle
    BY <2>1, <2>3 DEF IInv, TypeOK, Tx, Idle
  <2> HIDE DEF t
  <2>5. /\ tx'[w] = t
        /\ \A o \in Writers \ {w} : /\ tx'[o] = tx[o]
                                   /\ Pending(o)' = Pending(o)
                                   /\ Entered(o)' = Entered(o)
    BY <2>4, OthersKeep DEF IInv, TypeOK
  <2>6. Pending(w)' = Pending(w) /\ Entered(w)' = Entered(w) \cup {NextRow(w)}
    <3>1. \A i : RowAt(w, i)' = RowAt(w, i)
      BY <2>4, <2>5 DEF RowAt, StartVersion
    <3>2. NextRow(w)' = NextRow(w)
      BY <2>4, <2>5 DEF NextRow, RowAt, StartVersion
    <3>3. Pending(w)' = Pending(w)
      BY <2>2, <2>4, <2>5, <3>1 DEF Pending
    <3> QED BY <2>1, <2>4, <2>5, <3>2, <3>3 DEF Entered
  <2>7. IdsFree' /\ VersionsFree'
    <3>1. VersionsFree'
      BY <2>1, <2>5, <2>6 DEF IInv, VersionsFree, SameVersion
    <3>2. IdsFree'
      BY <2>1, <2>5, <2>6 DEF IInv, IdsFree, SameId
    <3> QED BY <3>1, <3>2
  <2> QED BY <2>1, <2>2, <2>4, <2>5, <2>7, InsideKeeps DEF IInv
<1> QED BY <1>1, <1>2

\* A row enters the index of the versions, next to no entry with its version.
LEMMA InsertVersionStep ==
  ASSUME IInv, TypeOK', NEW w \in Writers, InsertVersion(w)
  PROVE  IInv'
<1>1. CASE Fail(w, "ConcurrencyError")
  BY <1>1, FailStep
<1>2. CASE ~ Fail(w, "ConcurrencyError")
  <2> DEFINE n == tx[w].done + 1
  <2>1. /\ tx' = [tx EXCEPT ![w].done = n,
                            ![w].pc = IF n = Len(tx[w].batch)
                                      THEN "commit" ELSE "id"]
        /\ rows' = rows
        /\ \A o \in Writers \ {w} : \A r \in Pending(o) : ~ SameVersion(NextRow(w), r)
        /\ \A r \in rows : ~ SameVersion(NextRow(w), r)
        /\ tx[w].pc = "version"
    BY <1>2 DEF InsertVersion, WaitsFor
  <2>2. tx[w] # Idle
    BY <2>1 DEF Idle
  <2>3. /\ tx[w] \in Tx /\ tx[w].done \in Nat
    BY <2>2, OpenFacts DEF IInv
  <2> DEFINE t == [tx[w] EXCEPT !.done = n,
                                !.pc = IF n = Len(tx[w].batch)
                                       THEN "commit" ELSE "id"]
  <2>4. /\ tx' = [tx EXCEPT ![w] = t]
        /\ t.done = n /\ t.current = tx[w].current /\ t.stream = tx[w].stream
        /\ t.expected = tx[w].expected /\ t.batch = tx[w].batch
        /\ t # Idle /\ t.pc \in {"id", "commit"}
    <3>1. tx' = [tx EXCEPT ![w] = t]
      BY <2>1, <2>3 DEF IInv, TypeOK, Tx
    <3>2. t.pc \in {"id", "commit"}
      BY <2>3 DEF Tx
    <3> QED BY <2>3, <3>1, <3>2 DEF Tx, Idle
  <2> HIDE DEF t
  <2>5. /\ tx'[w] = t
        /\ \A o \in Writers \ {w} : /\ tx'[o] = tx[o]
                                   /\ Pending(o)' = Pending(o)
                                   /\ Entered(o)' = Entered(o)
    BY <2>4, OthersKeep DEF IInv, TypeOK
  <2>6. Pending(w)' = Pending(w) \cup {NextRow(w)}
    <3>1. \A i : RowAt(w, i)' = RowAt(w, i)
      BY <2>4, <2>5 DEF RowAt, StartVersion
    <3>2. 1 .. n = (1 .. tx[w].done) \cup {n}
      BY <2>3
    <3>3. /\ Pending(w) = {RowAt(w, i) : i \in 1 .. tx[w].done}
          /\ Pending(w)' = {RowAt(w, i)' : i \in 1 .. n}
      BY <2>2, <2>4, <2>5 DEF Pending
    <3>4. Pending(w)' = {RowAt(w, i) : i \in 1 .. n}
      BY <3>1, <3>3
    <3>5. NextRow(w) = RowAt(w, n)
      BY DEF NextRow
    <3> HIDE DEF n
    <3> QED BY <3>2, <3>3, <3>4, <3>5
  <2>7. Entered(w)' = Entered(w)
    <3>1. Entered(w) = Pending(w) \cup {NextRow(w)}
      BY <2>1 DEF Entered
    <3>2. Entered(w)' = Pending(w)'
      BY <2>4, <2>5 DEF Entered
    <3> QED BY <2>6, <3>1, <3>2
  <2>8. IdsFree' /\ VersionsFree'
    <3>1. VersionsFree'
      BY <2>1, <2>5, <2>6 DEF IInv, VersionsFree, SameVersion
    <3>2. IdsFree'
      BY <2>1, <2>5, <2>7 DEF IInv, IdsFree, SameId
    <3> QED BY <3>1, <3>2
  <2> QED BY <2>1, <2>2, <2>4, <2>5, <2>8, InsideKeeps DEF IInv
<1> QED BY <1>1, <1>2

\* The rows a full transaction is about to commit.
LEMMA FullPending ==
  ASSUME IInv, NEW w \in Writers, tx[w].pc = "commit"
  PROVE  /\ tx[w] # Idle
         /\ Pending(w) = {RowAt(w, i) : i \in 1 .. Len(tx[w].batch)}
         /\ Entered(w) = Pending(w)
<1>1. tx[w] # Idle
  BY DEF Idle
<1>2. tx[w].done = Len(tx[w].batch)
  BY <1>1 DEF IInv, TypeOK
<1> QED BY <1>1, <1>2 DEF Pending, Entered

\* The rows of w become visible together: Commit and CommitUnacknowledged.
LEMMA CommitStep ==
  ASSUME IInv, TypeOK', NEW w \in Writers, tx[w].pc = "commit",
         rows' = rows \cup Pending(w), tx' = [tx EXCEPT ![w] = Idle]
  PROVE  IInv'
<1> DEFINE b == tx[w].batch
           R(i) == RowAt(w, i)
<1>1. /\ tx[w] # Idle
      /\ Pending(w) = {R(i) : i \in 1 .. Len(b)}
  BY FullPending
<1>2. /\ b \in Batches[tx[w].stream] /\ tx[w].stream \in Streams
      /\ tx[w].current \in Int /\ tx[w].current >= -1
      /\ Len(b) \in Nat \ {0}
      /\ \A i, j \in 1 .. Len(b) : b[i] = b[j] => i = j
  BY <1>1, OpenFacts, BatchFacts DEF IInv
<1>3. \A i \in 1 .. Len(b) :
        /\ R(i).stream = tx[w].stream
        /\ R(i).version = tx[w].current + i
        /\ R(i).event = b[i]
  BY <1>1, RowAtIsRow DEF IInv
<1>4. \A p \in Pending(w) : \A r \in rows : ~ SameId(p, r) /\ ~ SameVersion(p, r)
  BY FullPending DEF IInv, IdsFree, VersionsFree
<1> HIDE DEF R
<1>5. VersionsUnique'
  <2> SUFFICES ASSUME NEW r1 \in rows', NEW r2 \in rows',
                      r1.stream = r2.stream, r1.version = r2.version
               PROVE  r1 = r2
    BY DEF VersionsUnique
  <2>1. CASE r1 \in rows /\ r2 \in rows
    BY <2>1 DEF IInv, StreamsAreLogs, VersionsUnique
  <2>2. CASE r1 \in Pending(w) /\ r2 \in Pending(w)
    <3>1. PICK i \in 1 .. Len(b), j \in 1 .. Len(b) : r1 = R(i) /\ r2 = R(j)
      BY <1>1, <2>2
    <3>2. i = j
      BY <1>2, <1>3, <3>1
    <3> QED BY <3>1, <3>2
  <2> QED BY <1>4, <2>1, <2>2 DEF SameVersion
<1>6. EventsStoredOnce'
  <2> SUFFICES ASSUME NEW r1 \in rows', NEW r2 \in rows', r1.event = r2.event
               PROVE  r1 = r2
    BY DEF EventsStoredOnce
  <2>1. CASE r1 \in rows /\ r2 \in rows
    BY <2>1 DEF IInv, EventsStoredOnce
  <2>2. CASE r1 \in Pending(w) /\ r2 \in Pending(w)
    BY <1>1, <1>2, <1>3, <2>2
  <2> QED BY <1>4, <2>1, <2>2 DEF SameId
<1>7. VersionsDense'
  <2> SUFFICES ASSUME NEW r \in rows', NEW v \in 0 .. r.version - 1
               PROVE  \E q \in rows' : q.stream = r.stream /\ q.version = v
    BY DEF VersionsDense
  <2>1. CASE r \in rows
    BY <2>1 DEF IInv, StreamsAreLogs, VersionsDense
  <2>2. CASE r \in Pending(w)
    <3>1. PICK i \in 1 .. Len(b) : r = R(i)
      BY <1>1, <2>2
    <3>2. /\ r.stream = tx[w].stream
          /\ r.version = tx[w].current + i
      BY <1>3, <3>1
    <3>3. CASE v <= tx[w].current
      BY <1>1, <1>2, <3>2, <3>3 DEF IInv, ReadIsCommitted
    <3>4. CASE v > tx[w].current
      <4> DEFINE j == v - tx[w].current
      <4>1. j \in 1 .. Len(b)
        BY <1>2, <3>2, <3>4, SMTT(20)
      <4>2. R(j).version = v /\ R(j).stream = tx[w].stream
        BY <1>2, <1>3, <4>1, SMTT(20)
      <4> QED BY <1>1, <3>2, <4>1, <4>2
    <3> QED BY <1>2, <3>3, <3>4
  <2> QED BY <2>1, <2>2
<1>8. IdsFree' /\ VersionsFree'
  <2>1. \A o \in Writers \ {w} : Pending(o)' = Pending(o) /\ Entered(o)' = Entered(o)
    BY OthersKeep DEF IInv
  <2>2. Pending(w)' = {} /\ Entered(w)' = {}
    BY HoldsNothing DEF IInv, EnteredNothing
  <2>3. Pending(w) = Entered(w)
    BY FullPending
  <2>4. VersionsFree'
    BY <2>1, <2>2 DEF IInv, VersionsFree, SameVersion
  <2>5. IdsFree'
    BY <2>1, <2>2, <2>3 DEF IInv, IdsFree, SameId
  <2> QED BY <2>4, <2>5
<1>9. ReadIsCommitted' /\ RevisionChecked'
  BY CloseReadChecked
<1> QED BY <1>5, <1>6, <1>7, <1>8, <1>9 DEF IInv, StreamsAreLogs

\* The empty table satisfies the invariant,
LEMMA InvInit == Init => IInv
BY TypeInit DEF Init, IInv, StreamsAreLogs, VersionsUnique, VersionsDense,
                EventsStoredOnce, IdsFree, VersionsFree, Pending, Entered, Idle,
                ReadIsCommitted, RevisionChecked

\* ... and every step keeps it.
LEMMA InvStep == IInv /\ [Next]_vars => IInv'
<1> SUFFICES ASSUME IInv, [Next]_vars PROVE IInv'
  OBVIOUS
<1>1. TypeOK'
  BY TypeStep DEF IInv
<1>2. CASE UNCHANGED vars
  BY <1>2 DEF vars, IInv, TypeOK, StreamsAreLogs, VersionsUnique, VersionsDense,
              EventsStoredOnce, IdsFree, VersionsFree, Pending, Entered, NextRow,
              RowAt, ReadIsCommitted, RevisionChecked
<1>3. ASSUME NEW w \in Writers, ConnectionLost(w)
      PROVE  IInv'
  BY <1>1, <1>3, FailStep DEF ConnectionLost
<1>4. ASSUME NEW w \in Writers, Commit(w) \/ CommitUnacknowledged(w)
      PROVE  IInv'
  BY <1>1, <1>4, CommitStep DEF Commit, CommitUnacknowledged
<1> QED BY <1>1, <1>2, <1>3, <1>4, AppendStep, SelectStep,
        InsertIdStep, InsertVersionStep DEF Next
-----------------------------------------------------------------------------
\* The inductive invariant holds in every reachable state.
THEOREM Invariance == Spec => []IInv
BY InvInit, InvStep, PTL DEF Spec

\* Every stream stays a log, whatever the callers interleave.
THEOREM StreamsCorrect == Spec => []StreamsAreLogs
BY Invariance, PTL DEF IInv

\* No event is ever stored twice.
THEOREM StoredOnceCorrect == Spec => []EventsStoredOnce
BY Invariance, PTL DEF IInv
-----------------------------------------------------------------------------
\* What a full transaction read is still the latest version when it commits:
\* a later row would be at the version of the transaction's first row.
LEMMA ReadStillLatest ==
  ASSUME IInv, NEW w \in Writers, tx[w].pc = "commit"
  PROVE  IsLatest(rows, tx[w].stream, tx[w].current)
<1> DEFINE s == tx[w].stream
           c == tx[w].current
<1>1. /\ tx[w] # Idle
      /\ c \in Int /\ c >= -1
      /\ 1 \in 1 .. Len(tx[w].batch)
  BY FullPending, OpenFacts DEF IInv
<1>2. /\ RowAt(w, 1) \in Pending(w)
      /\ RowAt(w, 1).stream = s
      /\ RowAt(w, 1).version = c + 1
  BY <1>1, FullPending, RowAtIsRow DEF IInv
<1>3. \A r \in rows : ~ (r.stream = s /\ r.version = c + 1)
  BY <1>2 DEF IInv, VersionsFree, SameVersion
<1>4. ASSUME NEW r \in rows, r.stream = s
      PROVE  r.version <= c
  <2>1. r.version \in Nat
    BY DEF IInv, TypeOK, Row
  <2>2. CASE r.version > c + 1
    <3>1. c + 1 \in 0 .. r.version - 1
      BY <1>1, <2>1, <2>2
    <3>2. \E q \in rows : q.stream = r.stream /\ q.version = c + 1
      BY <3>1 DEF IInv, StreamsAreLogs, VersionsDense
    <3> QED BY <1>3, <1>4, <3>2
  <2> QED BY <1>1, <1>3, <1>4, <2>1, <2>2
<1>5. c # NoStream => \E r \in rows : r.stream = s /\ r.version = c
  BY <1>1 DEF IInv, ReadIsCommitted, NoStream
<1>6. c = NoStream => \A r \in rows : r.stream # s
  BY <1>4 DEF IInv, TypeOK, Row, NoStream
<1> QED BY <1>4, <1>5, <1>6 DEF IsLatest

\* The revision a commit answers, as the read version plus the batch.
LEMMA NextIs ==
  ASSUME NEW w, NEW c \in Int, NEW n \in Nat,
         tx[w].current = c, Len(tx[w].batch) = n
  PROVE  NextExpectedRevision(w) = c + n
<1>1. NextExpectedRevision(w) = c + 1 + n - 1
  BY DEF NextExpectedRevision, StartVersion
<1>2. c + 1 + n - 1 = c + n
  OBVIOUS
<1> QED BY <1>1, <1>2

\* After the commit, the last row of the batch is the latest.
LEMMA LastRowLatest ==
  ASSUME IInv, NEW w \in Writers, tx[w].pc = "commit"
  PROVE  IsLatest(rows \cup Pending(w), tx[w].stream, NextExpectedRevision(w))
<1> DEFINE s == tx[w].stream
           c == tx[w].current
           n == Len(tx[w].batch)
<1>1. /\ tx[w] # Idle
      /\ c \in Int /\ c >= -1
      /\ n \in Nat \ {0}
  BY FullPending, OpenFacts DEF IInv
<1>2. NextExpectedRevision(w) = c + n
  BY <1>1, NextIs
<1>3. RowAt(w, n) \in Pending(w)
  BY <1>1, FullPending
<1>4. \A i \in 1 .. n : RowAt(w, i).stream = s /\ RowAt(w, i).version = c + i
  BY <1>1, RowAtIsRow DEF IInv
<1>5. ASSUME NEW r \in Pending(w)
      PROVE  r.version <= c + n
  <2>1. PICK i \in 1 .. n : r.version = c + i
    BY <1>4, FullPending
  <2> HIDE DEF c, n
  <2> QED BY <1>1, <2>1
<1>6. ASSUME NEW r \in rows, r.stream = s
      PROVE  r.version <= c + n
  <2>1. IsLatest(rows, s, c)
    BY ReadStillLatest
  <2>2. r.version \in Nat
    BY DEF IInv, TypeOK, Row
  <2> HIDE DEF c, s, n
  <2>3. r.version <= c
    BY <1>6, <2>1 DEF IsLatest
  <2> QED BY <1>1, <2>2, <2>3
<1>7. RowAt(w, n).stream = s /\ RowAt(w, n).version = c + n
  BY <1>1, <1>4
<1> QED BY <1>2, <1>3, <1>5, <1>6, <1>7 DEF IsLatest

\* Only the end of w's own call closes w's transaction.
LEMMA WhoCloses ==
  ASSUME IInv, [Next]_vars, NEW w \in Writers, tx[w] # Idle, tx'[w] = Idle
  PROVE  \/ Commit(w)
         \/ CommitUnacknowledged(w)
         \/ rows' = rows /\ answer'.status # "ok"
<1>1. CASE UNCHANGED vars
  BY <1>1 DEF vars
<1>2. ASSUME NEW o \in Writers, o # w,
             \/ \E s \in Streams, expected \in Revisions :
                  \E batch \in Batches[s] : AppendToStream(o, s, batch, expected)
             \/ SelectLatest(o) \/ InsertId(o) \/ InsertVersion(o) \/ Commit(o)
             \/ CommitUnacknowledged(o) \/ ConnectionLost(o)
      PROVE  FALSE
  BY <1>2 DEF AppendToStream, SelectLatest, InsertId, InsertVersion, Commit,
              CommitUnacknowledged, ConnectionLost, Fail, IInv, TypeOK
<1>3. ASSUME NEW status \in {"ConcurrencyError", "error"}, Fail(w, status)
      PROVE  rows' = rows /\ answer'.status # "ok"
  BY <1>3 DEF Fail, Answer
<1>4. ASSUME \E s \in Streams, expected \in Revisions :
               \E batch \in Batches[s] : AppendToStream(w, s, batch, expected)
      PROVE  FALSE
  BY <1>4 DEF AppendToStream
<1>5. CASE SelectLatest(w)
  BY <1>3, <1>5 DEF SelectLatest, IInv, TypeOK, NoAnswer, Answer
<1>6. CASE InsertId(w) \/ InsertVersion(w)
  BY <1>3, <1>6 DEF InsertId, InsertVersion, IInv, TypeOK, NoAnswer, Answer
<1>7. CASE ConnectionLost(w)
  BY <1>3, <1>7 DEF ConnectionLost
<1> QED BY <1>1, <1>2, <1>4, <1>5, <1>6, <1>7 DEF Next

\* A commit finds the revision its caller expected: what the transaction read
\* was that revision, and it is still the latest.
LEMMA HonoursExpectedStep == IInv /\ [Next]_vars => HonoursExpected
<1> SUFFICES ASSUME IInv, [Next]_vars, NEW w \in Writers, tx[w] # Idle,
                    tx'[w] = Idle, rows' # rows, tx[w].expected # Any
             PROVE  IsLatest(rows, tx[w].stream, tx[w].expected)
  BY DEF HonoursExpected
<1>1. tx[w].pc = "commit"
  BY WhoCloses DEF Commit, CommitUnacknowledged
<1>2. tx[w].expected = tx[w].current
  BY <1>1 DEF IInv, RevisionChecked, RevisionMatches
<1> QED BY <1>1, <1>2, ReadStillLatest

\* The revision a commit answers is the version of the last row it adds.
LEMMA AcksCurrentStep == IInv /\ [Next]_vars => AcksCurrent
<1> SUFFICES ASSUME IInv, [Next]_vars, NEW w \in Writers, tx[w] # Idle,
                    tx'[w] = Idle, answer'.status = "ok"
             PROVE  IsLatest(rows', tx[w].stream, answer'.revision)
  BY DEF AcksCurrent
<1>1. /\ tx[w].pc = "commit"
      /\ rows' = rows \cup Pending(w)
      /\ answer'.revision = NextExpectedRevision(w)
  BY WhoCloses DEF Commit, CommitUnacknowledged, Answer
<1> QED BY <1>1, LastRowLatest

\* Nothing slips in between the revision a caller expected and its commit.
THEOREM ExpectedCorrect == Spec => ExpectedRevisionHonoured
BY Invariance, HonoursExpectedStep, PTL DEF Spec, ExpectedRevisionHonoured

\* The revision a caller is answered is the revision of its stream.
THEOREM AckedCorrect == Spec => AckedRevisionCurrent
BY Invariance, AcksCurrentStep, PTL DEF Spec, AckedRevisionCurrent
-----------------------------------------------------------------------------
\* The rows a transaction has inserted are entered, and its entries are its rows
\* up to the one it is inserting.
LEMMA EnteredAt ==
  ASSUME IInv, NEW w \in Writers, tx[w] # Idle
  PROVE  /\ \A i \in 1 .. tx[w].done : RowAt(w, i) \in Pending(w)
         /\ Pending(w) \subseteq Entered(w)
         /\ \A r \in Entered(w) : \E j \in 1 .. Len(tx[w].batch) :
              r = RowAt(w, j) /\ j - 1 <= tx[w].done
<1>1. Pending(w) = {RowAt(w, i) : i \in 1 .. tx[w].done}
  BY DEF Pending
<1>2. /\ tx[w].done \in Nat /\ Len(tx[w].batch) \in Nat
      /\ tx[w].done <= Len(tx[w].batch)
      /\ tx[w].pc = "version" => tx[w].done < Len(tx[w].batch)
  BY OpenFacts DEF IInv, TypeOK
<1>3. ASSUME NEW r \in Entered(w)
      PROVE  \E j \in 1 .. Len(tx[w].batch) : r = RowAt(w, j) /\ j - 1 <= tx[w].done
  <2>1. CASE r \in Pending(w)
    <3>1. PICK j \in 1 .. tx[w].done : r = RowAt(w, j)
      BY <1>1, <2>1
    <3>2. j \in 1 .. Len(tx[w].batch) /\ j - 1 <= tx[w].done
      BY <1>2
    <3> QED BY <3>1, <3>2
  <2>2. CASE r \notin Pending(w)
    <3> DEFINE j == tx[w].done + 1
    <3>1. tx[w].pc = "version" /\ r = RowAt(w, j)
      BY <2>2 DEF Entered, NextRow
    <3>2. j \in 1 .. Len(tx[w].batch) /\ j - 1 <= tx[w].done
      BY <1>2, <3>1
    <3> QED BY <3>1, <3>2
  <2> QED BY <2>1, <2>2
<1> QED BY <1>1, <1>3 DEF Entered

\* Two batches that share an event begin alike.
LEMMA BeginAlike ==
  ASSUME NEW s \in Streams, NEW t \in Streams,
         NEW b \in Batches[s], NEW d \in Batches[t],
         NEW i \in 1 .. Len(b), NEW j \in 1 .. Len(d), b[i] = d[j]
  PROVE  i = j /\ \A k \in 1 .. i : b[k] = d[k]
BY FreshEventsAssumption

\* Versions one below equal versions are equal.
LEMMA OneBelow ==
  ASSUME NEW c \in Int, NEW d \in Int, NEW n \in Int, NEW j \in Int,
         c + (n + 1) = d + j
  PROVE  d + (j - 1) = c + n /\ (j = 1 => d = c + n)
OBVIOUS

\* A transaction that waits has not inserted a row yet.  If it had, its last row
\* would be next to the one it waits for: in a batch that begins alike, or at the
\* version below, which the other transaction holds too or has read.
LEMMA WaitersHoldNoRow ==
  ASSUME IInv, NEW w \in Writers, NEW o \in Writers, WaitsFor(w, o)
  PROVE  tx[w] # Idle /\ tx[o] # Idle /\ tx[w].done = 0
<1> DEFINE n == tx[w].done
<1>1. tx[w] # Idle /\ tx[w].pc \in {"id", "version"} /\ o # w
  BY DEF WaitsFor, Idle
<1>2. /\ n \in Nat /\ n < Len(tx[w].batch) /\ Len(tx[w].batch) \in Nat
      /\ tx[w].stream \in Streams /\ tx[w].batch \in Batches[tx[w].stream]
      /\ tx[w].current \in Int
  BY <1>1, OpenFacts DEF IInv, TypeOK
<1>3. tx[o] # Idle
  BY DEF WaitsFor, Pending, Entered, Idle
<1>4. /\ tx[o].done \in Nat /\ tx[o].done <= Len(tx[o].batch)
      /\ Len(tx[o].batch) \in Nat
      /\ tx[o].stream \in Streams /\ tx[o].batch \in Batches[tx[o].stream]
      /\ tx[o].current \in Int /\ tx[o].current >= -1
  BY <1>3, OpenFacts DEF IInv
<1>5. /\ n + 1 \in 1 .. Len(tx[w].batch)
      /\ NextRow(w).stream = tx[w].stream
      /\ NextRow(w).version = tx[w].current + (n + 1)
      /\ NextRow(w).event = tx[w].batch[n + 1]
  <2>1. n + 1 \in 1 .. Len(tx[w].batch)
    BY <1>2
  <2> QED BY <1>1, <2>1, RowAtIsRow DEF IInv, NextRow
<1>6. ASSUME n # 0
      PROVE  FALSE
  <2>1. n \in 1 .. n /\ n \in 1 .. Len(tx[w].batch) /\ n \in 1 .. n + 1
    BY <1>2, <1>6
  <2>2. /\ RowAt(w, n) \in Pending(w) /\ RowAt(w, n) \in Entered(w)
        /\ RowAt(w, n).stream = tx[w].stream
        /\ RowAt(w, n).version = tx[w].current + n
        /\ RowAt(w, n).event = tx[w].batch[n]
    BY <1>1, <2>1, EnteredAt, RowAtIsRow DEF IInv
  <2>3. CASE tx[w].pc = "id"
    <3>1. PICK j \in 1 .. Len(tx[o].batch) :
            tx[w].batch[n + 1] = tx[o].batch[j] /\ j - 1 <= tx[o].done
      <4>1. PICK r \in Entered(o) : r.event = tx[w].batch[n + 1]
        BY <1>5, <2>3 DEF WaitsFor, SameId
      <4>2. PICK j \in 1 .. Len(tx[o].batch) : r = RowAt(o, j) /\ j - 1 <= tx[o].done
        BY <1>3, <4>1, EnteredAt
      <4>3. RowAt(o, j).event = tx[o].batch[j]
        BY <1>3, RowAtIsRow DEF IInv
      <4> QED BY <4>1, <4>2, <4>3
    <3>2. n + 1 = j /\ \A k \in 1 .. n + 1 : tx[w].batch[k] = tx[o].batch[k]
      BY <1>2, <1>4, <1>5, <3>1, SMTT(30), BeginAlike
    <3>3. n \in 1 .. tx[o].done /\ n \in 1 .. Len(tx[o].batch)
      BY <1>2, <1>4, <1>6, <3>1, <3>2
    <3>4. RowAt(o, n) \in Entered(o) /\ RowAt(o, n).event = tx[o].batch[n]
      BY <1>3, <3>3, EnteredAt, RowAtIsRow DEF IInv
    <3>5. RowAt(w, n).event = RowAt(o, n).event
      BY <2>1, <2>2, <3>2, <3>4
    <3> QED BY <1>1, <2>2, <3>4, <3>5 DEF IInv, IdsFree, SameId
  <2>4. CASE tx[w].pc = "version"
    <3>1. PICK r \in Pending(o) : SameVersion(NextRow(w), r)
      BY <2>4 DEF WaitsFor
    <3>2. PICK j \in 1 .. tx[o].done : r = RowAt(o, j)
      BY <1>3, <3>1 DEF Pending
    <3>3. j \in 1 .. Len(tx[o].batch)
      BY <1>4
    <3>4. /\ tx[w].stream = tx[o].stream
          /\ tx[w].current + (n + 1) = tx[o].current + j
      BY <1>3, <1>5, <3>1, <3>2, <3>3, RowAtIsRow DEF IInv, SameVersion
    <3>5. /\ tx[o].current + (j - 1) = tx[w].current + n
          /\ j = 1 => tx[o].current = tx[w].current + n
      <4>1. /\ j \in Int /\ n \in Int
            /\ tx[w].current \in Int /\ tx[o].current \in Int
        BY <1>2, <1>4
      <4> HIDE DEF n
      <4> QED BY <3>4, <4>1, OneBelow
    <3>6. CASE j = 1
      <4>1. tx[o].current = tx[w].current + n
        BY <3>5, <3>6
      <4>2. RowAt(w, n).version \in Nat
        BY <1>1, <2>1, RowAtIsRow DEF IInv, Row
      <4>3. PICK q \in rows : /\ q.stream = tx[o].stream
                              /\ q.version = tx[w].current + n
        BY <1>3, <2>2, <4>1, <4>2 DEF IInv, ReadIsCommitted
      <4> QED BY <2>2, <3>4, <4>3 DEF IInv, VersionsFree, SameVersion
    <3>7. CASE j # 1
      <4>1. j - 1 \in 1 .. tx[o].done /\ j - 1 \in 1 .. Len(tx[o].batch)
        BY <1>4, <3>7
      <4>2. /\ RowAt(o, j - 1) \in Pending(o)
            /\ RowAt(o, j - 1).stream = tx[o].stream
            /\ RowAt(o, j - 1).version = tx[o].current + (j - 1)
        BY <1>3, <4>1, EnteredAt, RowAtIsRow DEF IInv
      <4> QED BY <1>1, <2>2, <3>4, <3>5, <4>2 DEF IInv, VersionsFree, SameVersion
    <3> QED BY <3>6, <3>7
  <2> QED BY <1>1, <2>3, <2>4
<1> QED BY <1>1, <1>2, <1>3, <1>6

\* So who waits with an eventId has entered nothing, and nobody waits for it; and
\* who waits with a version waits for a transaction that does not wait.
LEMMA WaitsAreOrdered ==
  ASSUME IInv, NEW t \in Writers, NEW u \in Writers, NEW v \in Writers,
         WaitsFor(t, u), WaitsFor(u, v)
  PROVE  tx[u].pc = "version" /\ tx[v].done # 0
<1>1. tx[u] # Idle /\ tx[u].done = 0 /\ tx[v] # Idle
  BY WaitersHoldNoRow
<1>2. Pending(u) = {}
  BY <1>1 DEF Pending
<1>3. tx[u].pc = "version"
  BY <1>2 DEF WaitsFor, Entered
<1>4. Pending(v) # {}
  BY <1>3 DEF WaitsFor
<1>5. tx[v].done # 0
  BY <1>1, <1>4 DEF Pending
<1> QED BY <1>3, <1>5

\* A chain of waiting ends with its second link,
LEMMA NoCircles == IInv => NoWaitCircles
<1> SUFFICES ASSUME IInv, NEW t \in Writers, NEW u \in Writers, NEW v \in Writers,
                    NEW w \in Writers, WaitsFor(t, u), WaitsFor(u, v), WaitsFor(v, w)
             PROVE  FALSE
  BY DEF NoWaitCircles
<1>1. tx[v].done # 0
  BY WaitsAreOrdered
<1>2. tx[v].done = 0
  BY WaitersHoldNoRow
<1> QED BY <1>1, <1>2

\* ... so no circle of waiting inserts forms, of any length.
THEOREM NoWaitCirclesCorrect == Spec => []NoWaitCircles
BY Invariance, NoCircles, PTL
-----------------------------------------------------------------------------
\* Every stream has a latest version, or no row.
HasLatest == \A s \in Streams : \E v : IsLatest(rows, s, v)

\* What the mapping needs to know of a table.
IsLogTable(T) ==
  /\ T \subseteq Row
  /\ \A r1, r2 \in T :
       r1.stream = r2.stream /\ r1.version = r2.version => r1 = r2
  /\ \A r \in T : \A v \in 0 .. r.version - 1 :
       \E q \in T : q.stream = r.stream /\ q.version = v
  /\ \A s \in Streams : \E v : IsLatest(T, s, v)

\* The rows of a reachable state are a table of logs.
LEMMA RowsAreLogTable == IInv /\ HasLatest => IsLogTable(rows)
BY DEF IInv, TypeOK, StreamsAreLogs, VersionsUnique, VersionsDense, HasLatest,
       IsLogTable

\* A stream has one latest version.
LEMMA LatestUnique ==
  ASSUME NEW T \in SUBSET Row, NEW s, NEW u, NEW v,
         IsLatest(T, s, u), IsLatest(T, s, v)
  PROVE  u = v
<1> DEFINE V == {r.version : r \in {x \in T : x.stream = s}}
<1>1. CASE V = {}
  BY <1>1 DEF IsLatest
<1>2. CASE V # {}
  <2>1. u \in V /\ v \in V /\ u <= v /\ v <= u
    BY <1>2 DEF IsLatest
  <2>2. V \subseteq Nat
    BY DEF Row
  <2> QED BY <2>1, <2>2
<1> QED BY <1>1, <1>2

\* Latest chooses it.
LEMMA LatestIs ==
  ASSUME NEW T \in SUBSET Row, NEW s, NEW v, IsLatest(T, s, v)
  PROVE  /\ Latest(T, s) = v
         /\ v \in Int /\ v + 1 \in Nat
<1>1. v \in {NoStream} \cup {r.version : r \in T}
  BY DEF IsLatest
<1>2. IsLatest(T, s, Latest(T, s))
  BY <1>1 DEF Latest
<1>3. v \in {NoStream} \cup Nat
  BY <1>1 DEF Row
<1> QED BY <1>2, <1>3, LatestUnique DEF NoStream

\* The log of s is the one sequence that has the events of s in version order.
LEMMA LogIs ==
  ASSUME NEW T, IsLogTable(T), NEW s \in Streams, NEW q \in Seq(Events),
         IsLatest(T, s, Len(q) - 1),
         \A i \in 1 .. Len(q) :
           \E r \in T : r.stream = s /\ r.version = i - 1 /\ r.event = q[i]
  PROVE  LogOf(T, s) = q
<1>1. Latest(T, s) + 1 = Len(q) /\ Len(q) \in Nat
  BY LatestIs DEF IsLogTable
<1>2. \A i \in 1 .. Len(q) : EventAt(T, s, i - 1) = q[i]
  BY DEF EventAt, IsLogTable
<1>3. LogOf(T, s) = [i \in 1 .. Len(q) |-> q[i]]
  BY <1>1, <1>2 DEF LogOf
<1> QED BY <1>1, <1>3

\* A log of a table is a sequence of its events, in version order.
LEMMA LogFacts ==
  ASSUME NEW T, IsLogTable(T), NEW s \in Streams
  PROVE  /\ LogOf(T, s) \in Seq(Events)
         /\ IsLatest(T, s, Len(LogOf(T, s)) - 1)
         /\ \A i \in 1 .. Len(LogOf(T, s)) :
              \E r \in T : /\ r.stream = s /\ r.version = i - 1
                           /\ r.event = LogOf(T, s)[i]
<1>1. PICK v : IsLatest(T, s, v)
  BY DEF IsLogTable
<1>2. Latest(T, s) = v /\ v \in Int /\ v + 1 \in Nat
  BY <1>1, LatestIs DEF IsLogTable
<1>3. ASSUME NEW i \in 1 .. v + 1
      PROVE  \E r \in T : r.stream = s /\ r.version = i - 1
  <2>1. v # NoStream
    BY <1>2, <1>3 DEF NoStream
  <2>2. PICK r \in T : r.stream = s /\ r.version = v
    BY <1>1, <2>1 DEF IsLatest
  <2>3. CASE i - 1 < v
    BY <1>2, <2>2, <2>3 DEF IsLogTable
  <2> QED BY <1>2, <2>2, <2>3
<1>4. \A i \in 1 .. v + 1 :
        \E r \in T : /\ r.stream = s /\ r.version = i - 1
                     /\ r.event = EventAt(T, s, i - 1)
  BY <1>3 DEF EventAt
<1>5. LogOf(T, s) = [i \in 1 .. v + 1 |-> EventAt(T, s, i - 1)]
  BY <1>2 DEF LogOf
<1>6. \A i \in 1 .. v + 1 : EventAt(T, s, i - 1) \in Events
  BY <1>4 DEF IsLogTable, Row
<1>7. LogOf(T, s) \in Seq(Events)
  BY <1>2, <1>5, <1>6, IsASeq
<1>8. Len(LogOf(T, s)) = v + 1
  BY <1>2, <1>5
<1> QED BY <1>1, <1>2, <1>4, <1>5, <1>7, <1>8
-----------------------------------------------------------------------------
\* Rows become visible only when a full transaction commits.
LEMMA WhoAdds ==
  ASSUME [Next]_vars
  PROVE  \/ rows' = rows
         \/ \E w \in Writers : Commit(w) \/ CommitUnacknowledged(w)
<1>1. ASSUME NEW w \in Writers, SelectLatest(w) PROVE rows' = rows
  BY <1>1 DEF SelectLatest, Fail
<1>2. ASSUME NEW w \in Writers, InsertId(w) \/ InsertVersion(w) PROVE rows' = rows
  BY <1>2 DEF InsertId, InsertVersion, Fail
<1> QED BY <1>1, <1>2 DEF Next, vars, AppendToStream, ConnectionLost, Fail

\* Every stream keeps a latest version.
LEMMA LatestStep == IInv /\ HasLatest /\ [Next]_vars => HasLatest'
<1> SUFFICES ASSUME IInv, HasLatest, [Next]_vars, NEW s \in Streams
             PROVE  \E v : IsLatest(rows', s, v)
  BY DEF HasLatest
<1>1. CASE rows' = rows
  BY <1>1 DEF HasLatest
<1>2. ASSUME NEW w \in Writers, tx[w].pc = "commit", rows' = rows \cup Pending(w)
      PROVE  \E v : IsLatest(rows', s, v)
  <2>1. CASE s = tx[w].stream
    BY <1>2, <2>1, LastRowLatest
  <2>2. CASE s # tx[w].stream
    <3>1. \A r \in Pending(w) : r.stream # s
      BY <1>2, <2>2, RowAtIsRow, FullPending DEF IInv
    <3>2. {x \in rows' : x.stream = s} = {x \in rows : x.stream = s}
      BY <1>2, <3>1
    <3> QED BY <3>2 DEF HasLatest, IsLatest
  <2> QED BY <2>1, <2>2
<1> QED BY <1>1, <1>2, WhoAdds DEF Commit, CommitUnacknowledged

\* The elements of a concatenation.
LEMMA ConcatAt ==
  ASSUME NEW l \in Seq(Events), NEW b \in Seq(Events)
  PROVE  /\ l \o b \in Seq(Events)
         /\ Len(l \o b) = Len(l) + Len(b)
         /\ \A i \in 1 .. Len(l) : (l \o b)[i] = l[i]
         /\ \A j \in 1 .. Len(b) : (l \o b)[Len(l) + j] = b[j]
<1>1. Len(l) \in Nat /\ Len(b) \in Nat
  BY LenProperties
<1>2. /\ l \o b \in Seq(Events)
      /\ Len(l \o b) = Len(l) + Len(b)
      /\ \A i \in 1 .. Len(l) + Len(b) :
           (l \o b)[i] = IF i <= Len(l) THEN l[i] ELSE b[i - Len(l)]
  BY ConcatProperties
<1>3. ASSUME NEW i \in 1 .. Len(l) PROVE (l \o b)[i] = l[i]
  BY <1>1, <1>2
<1>4. ASSUME NEW j \in 1 .. Len(b) PROVE (l \o b)[Len(l) + j] = b[j]
  <2>1. /\ Len(l) + j \in 1 .. Len(l) + Len(b)
        /\ ~ (Len(l) + j <= Len(l))
        /\ Len(l) + j - Len(l) = j
    BY <1>1
  <2> QED BY <1>2, <2>1
<1> QED BY <1>2, <1>3, <1>4

\* A table of n rows of s that grows by the rows of b has a log that grows by b.
LEMMA LogGrows ==
  ASSUME NEW T, IsLogTable(T), NEW U, IsLogTable(U), T \subseteq U,
         NEW s \in Streams, NEW b \in Seq(Events), NEW n \in Nat,
         IsLatest(T, s, n - 1), IsLatest(U, s, n + Len(b) - 1),
         \A j \in 1 .. Len(b) :
           \E r \in U : r.stream = s /\ r.version = n + j - 1 /\ r.event = b[j]
  PROVE  LogOf(U, s) = LogOf(T, s) \o b
<1>1. PICK l \in Seq(Events) :
        /\ l = LogOf(T, s) /\ IsLatest(T, s, Len(l) - 1)
        /\ \A i \in 1 .. Len(l) :
             \E r \in T : r.stream = s /\ r.version = i - 1 /\ r.event = l[i]
  BY LogFacts
<1>2. Len(l) = n
  <2>1. Len(l) - 1 = n - 1
    BY <1>1, LatestUnique DEF IsLogTable
  <2> QED BY <2>1, LenProperties
<1>3. PICK q \in Seq(Events) :
        /\ q = l \o b /\ Len(q) = n + Len(b)
        /\ \A i \in 1 .. n : q[i] = l[i]
        /\ \A j \in 1 .. Len(b) : q[n + j] = b[j]
  BY <1>2, ConcatAt
<1>4. IsLatest(U, s, Len(q) - 1)
  BY <1>3
<1>5. ASSUME NEW i \in 1 .. Len(q)
      PROVE  \E r \in U : r.stream = s /\ r.version = i - 1 /\ r.event = q[i]
  <2>1. CASE i \in 1 .. n
    BY <1>1, <1>2, <1>3, <2>1
  <2>2. CASE i \notin 1 .. n
    <3>1. PICK j \in 1 .. Len(b) : i = n + j
      <4>1. i \in 1 .. n + Len(b) /\ Len(b) \in Nat
        BY <1>3, LenProperties
      <4>2. i - n \in 1 .. Len(b) /\ i = n + (i - n)
        BY <2>2, <4>1
      <4> QED BY <4>2
    <3>2. PICK r \in U : r.stream = s /\ r.version = n + j - 1 /\ r.event = b[j]
      OBVIOUS
    <3> QED BY <1>3, <3>1, <3>2, SMTT(20)
  <2> QED BY <2>1, <2>2
<1>6. LogOf(U, s) = q
  BY <1>4, <1>5, LogIs
<1> QED BY <1>1, <1>3, <1>6

\* A commit appends its batch to the log of its stream and to no other.
LEMMA LogExtends ==
  ASSUME IInv, HasLatest, IInv', HasLatest', NEW w \in Writers,
         tx[w].pc = "commit", rows' = rows \cup Pending(w)
  PROVE  LogBar' = [LogBar EXCEPT ![tx[w].stream] = @ \o tx[w].batch]
<1>1. /\ tx[w] # Idle
      /\ tx[w].stream \in Streams /\ tx[w].current \in Int
      /\ tx[w].batch \in Seq(Events) /\ Len(tx[w].batch) \in Nat
  BY FullPending, OpenFacts, BatchFacts DEF IInv
<1>2. IsLogTable(rows) /\ IsLogTable(rows')
  BY RowsAreLogTable DEF IInv, TypeOK, StreamsAreLogs, VersionsUnique,
                         VersionsDense, HasLatest, IsLogTable
<1>3. ASSUME NEW s \in Streams, s # tx[w].stream
      PROVE  LogOf(rows', s) = LogOf(rows, s)
  <2>1. \A r \in Pending(w) : r.stream # s
    BY <1>1, <1>3, RowAtIsRow, FullPending DEF IInv
  <2>2. {x \in rows' : x.stream = s} = {x \in rows : x.stream = s}
    BY <2>1
  <2> DEFINE q == LogOf(rows, s)
  <2>3. /\ q \in Seq(Events) /\ IsLatest(rows, s, Len(q) - 1)
        /\ \A i \in 1 .. Len(q) :
             \E r \in rows : /\ r.stream = s /\ r.version = i - 1
                             /\ r.event = q[i]
    BY <1>2, LogFacts
  <2> HIDE DEF q
  <2>4. IsLatest(rows', s, Len(q) - 1)
    BY <2>2, <2>3 DEF IsLatest
  <2>5. LogOf(rows', s) = q
    BY <1>2, <2>3, <2>4, LogIs
  <2> QED BY <2>5 DEF q
<1>4. LogOf(rows', tx[w].stream) = LogOf(rows, tx[w].stream) \o tx[w].batch
  <2>1. NextExpectedRevision(w) = tx[w].current + Len(tx[w].batch)
    BY <1>1, NextIs
  <2>2. PICK n \in Nat : tx[w].current = n - 1
    <3>1. tx[w].current \in Int /\ tx[w].current >= -1
      BY <1>1, OpenFacts DEF IInv
    <3>2. tx[w].current + 1 \in Nat /\ tx[w].current = (tx[w].current + 1) - 1
      BY <3>1
    <3> QED BY <3>2
  <2>3. NextExpectedRevision(w) = n + Len(tx[w].batch) - 1
    BY <1>1, <2>1, <2>2
  <2>4. /\ IsLatest(rows, tx[w].stream, n - 1)
        /\ IsLatest(rows', tx[w].stream, n + Len(tx[w].batch) - 1)
    BY <2>2, <2>3, ReadStillLatest, LastRowLatest
  <2>5. ASSUME NEW j \in 1 .. Len(tx[w].batch)
        PROVE  \E r \in rows' : /\ r.stream = tx[w].stream
                                /\ r.version = n + j - 1
                                /\ r.event = tx[w].batch[j]
    <3>1. RowAt(w, j) \in Pending(w)
      BY FullPending
    <3>2. /\ RowAt(w, j).stream = tx[w].stream
          /\ RowAt(w, j).version = tx[w].current + j
          /\ RowAt(w, j).event = tx[w].batch[j]
      BY <1>1, RowAtIsRow DEF IInv
    <3>3. tx[w].current + j = n + j - 1
      BY <2>2
    <3> QED BY <3>1, <3>2, <3>3
  <2> QED BY <1>1, <1>2, <2>4, <2>5, LogGrows, ZenonT(40)
<1> QED BY <1>1, <1>3, <1>4 DEF LogBar
-----------------------------------------------------------------------------
\* The mapped call of one writer changes and the others keep theirs.
LEMMA OpenChanges ==
  ASSUME TypeOK, NEW w \in Writers, NEW t, tx' = [tx EXCEPT ![w] = t]
  PROVE  OpenBar' = [OpenBar EXCEPT ![w] =
                       IF t = Idle THEN [open |-> FALSE]
                       ELSE [open |-> TRUE, stream |-> t.stream,
                             batch |-> t.batch, expected |-> t.expected]]
<1>1. tx'[w] = t /\ \A o \in Writers \ {w} : tx'[o] = tx[o]
  BY DEF TypeOK
<1> QED BY <1>1 DEF OpenBar, Idle

\* The logs depend on the committed rows alone.
LEMMA LogKept == rows' = rows => LogBar' = LogBar
BY DEF LogBar

\* The initial states map to initial states.
LEMMA InitMaps == Init => Stream!Init
<1> SUFFICES ASSUME Init PROVE Stream!Init
  OBVIOUS
<1>1. ASSUME NEW s \in Streams PROVE LogOf(rows, s) = <<>>
  <2>1. IsLatest(rows, s, NoStream)
    BY DEF Init, IsLatest
  <2>2. Latest(rows, s) = -1
    BY <2>1, LatestIs DEF Init, NoStream
  <2> QED BY <2>2 DEF LogOf
<1>2. LogBar = [s \in Streams |-> <<>>]
  BY <1>1 DEF LogBar
<1>3. OpenBar = [w \in Writers |-> Stream!NoCall]
  BY DEF Init, OpenBar, Stream!NoCall
<1> QED BY <1>2, <1>3 DEF Stream!Init

\* A call that begins is an invocation,
LEMMA InvokeMaps ==
  ASSUME IInv, NEW w \in Writers, NEW s \in Streams, NEW batch \in Batches[s],
         NEW expected \in Revisions, AppendToStream(w, s, batch, expected)
  PROVE  Stream!Invoke(w, s, batch, expected)
<1> DEFINE t == [pc |-> "select", stream |-> s, batch |-> batch,
                 expected |-> expected, current |-> NoStream, done |-> 0]
<1>1. /\ tx[w] = Idle /\ tx' = [tx EXCEPT ![w] = t] /\ rows' = rows
      /\ t.stream = s /\ t.batch = batch /\ t.expected = expected
      /\ t.pc # "idle"
  BY DEF AppendToStream
<1>2. t # Idle
  BY <1>1 DEF Idle
<1> HIDE DEF t
<1>3. OpenBar' = [OpenBar EXCEPT ![w] =
                    [open |-> TRUE, stream |-> s, batch |-> batch,
                     expected |-> expected]]
  BY <1>1, <1>2, OpenChanges DEF IInv
<1>4. OpenBar[w] = Stream!NoCall
  BY <1>1 DEF OpenBar, Stream!NoCall
<1> QED BY <1>1, <1>3, <1>4, LogKept DEF Stream!Invoke

\* ... one that fails is a refusal,
LEMMA RefuseMaps ==
  ASSUME IInv, NEW w \in Writers, tx[w] # Idle, NEW status, Fail(w, status)
  PROVE  Stream!Refuse(w)
<1>1. OpenBar' = [OpenBar EXCEPT ![w] = Stream!NoCall]
  BY OpenChanges DEF IInv, Fail, Stream!NoCall
<1>2. OpenBar[w] # Stream!NoCall
  <2>1. OpenBar[w].open = TRUE
    BY DEF OpenBar
  <2> QED BY <2>1 DEF Stream!NoCall
<1> QED BY <1>1, <1>2, LogKept DEF Stream!Refuse, Fail

\* ... and a commit appends the whole batch to the log at one instant.
LEMMA CommitMaps ==
  ASSUME IInv, HasLatest, IInv', HasLatest', NEW w \in Writers,
         tx[w].pc = "commit", rows' = rows \cup Pending(w),
         tx' = [tx EXCEPT ![w] = Idle]
  PROVE  Stream!TakeEffect(w)
<1>1. /\ tx[w] # Idle
      /\ tx[w].stream \in Streams /\ tx[w].current \in Int
  BY FullPending, OpenFacts DEF IInv
<1>2. OpenBar' = [OpenBar EXCEPT ![w] = Stream!NoCall]
  BY OpenChanges DEF IInv, Stream!NoCall
<1>3. /\ OpenBar[w].open = TRUE
      /\ OpenBar[w].stream = tx[w].stream
      /\ OpenBar[w].batch = tx[w].batch
      /\ OpenBar[w].expected = tx[w].expected
  BY <1>1 DEF OpenBar
<1>4. OpenBar[w] # Stream!NoCall
  BY <1>3 DEF Stream!NoCall
<1>5. IsLogTable(rows)
  BY RowsAreLogTable
<1>6. tx[w].expected \in {Stream!Any, Stream!Revision(tx[w].stream)}
  <2> DEFINE l == LogOf(rows, tx[w].stream)
  <2>1. IsLatest(rows, tx[w].stream, Len(l) - 1)
    BY <1>1, <1>5, LogFacts
  <2>2. Len(l) - 1 = tx[w].current
    BY <1>5, <2>1, ReadStillLatest, LatestUnique DEF IsLogTable
  <2>3. Stream!Revision(tx[w].stream) = tx[w].current
    BY <1>1, <2>2 DEF Stream!Revision, LogBar
  <2>4. tx[w].expected = Any \/ tx[w].expected = tx[w].current
    BY <1>1 DEF IInv, RevisionChecked, RevisionMatches
  <2> QED BY <2>3, <2>4 DEF Any, Stream!Any
<1>7. \A i \in 1 .. Len(tx[w].batch) : ~ Stream!Stored(tx[w].batch[i])
  <2> SUFFICES ASSUME NEW i \in 1 .. Len(tx[w].batch), NEW s \in Streams,
                      NEW j \in 1 .. Len(LogOf(rows, s)),
                      LogOf(rows, s)[j] = tx[w].batch[i]
               PROVE  FALSE
    BY DEF Stream!Stored, LogBar
  <2>1. PICK r \in rows : r.event = tx[w].batch[i]
    BY <1>5, LogFacts
  <2>2. RowAt(w, i) \in Pending(w) /\ RowAt(w, i).event = tx[w].batch[i]
    BY <1>1, FullPending, RowAtIsRow DEF IInv
  <2> QED BY <1>1, <2>1, <2>2, FullPending DEF IInv, IdsFree, SameId
<1>8. LogBar' = [LogBar EXCEPT ![tx[w].stream] = @ \o tx[w].batch]
  BY LogExtends
<1> QED BY <1>2, <1>3, <1>4, <1>6, <1>7, <1>8 DEF Stream!TakeEffect

\* Steps inside a transaction are stuttering steps of the log.
LEMMA InsideMaps ==
  ASSUME IInv, NEW w \in Writers, tx[w] # Idle, rows' = rows,
         NEW t, tx' = [tx EXCEPT ![w] = t], t # Idle,
         t.stream = tx[w].stream, t.batch = tx[w].batch,
         t.expected = tx[w].expected
  PROVE  LogBar' = LogBar /\ OpenBar' = OpenBar
<1>1. OpenBar' = [OpenBar EXCEPT ![w] =
                    [open |-> TRUE, stream |-> t.stream,
                     batch |-> t.batch, expected |-> t.expected]]
  BY OpenChanges DEF IInv
<1>2. OpenBar[w] = [open |-> TRUE, stream |-> t.stream,
                    batch |-> t.batch, expected |-> t.expected]
  BY DEF OpenBar
<1> QED BY <1>1, <1>2, LogKept DEF OpenBar

\* Every step maps to a step of EventStream or to a stutter.
LEMMA StepMaps ==
  ASSUME IInv, HasLatest, IInv', HasLatest', [Next]_vars
  PROVE  [Stream!Next]_(Stream!vars)
<1>1. CASE UNCHANGED vars
  BY <1>1 DEF vars, LogBar, OpenBar, Stream!vars
<1>2. ASSUME NEW w \in Writers, NEW s \in Streams, NEW expected \in Revisions,
             NEW batch \in Batches[s], AppendToStream(w, s, batch, expected)
      PROVE  Stream!Next
  BY <1>2, InvokeMaps DEF Stream!Next
<1>3. ASSUME NEW w \in Writers, SelectLatest(w)
      PROVE  Stream!Next \/ UNCHANGED Stream!vars
  <2>1. tx[w] # Idle
    BY <1>3 DEF SelectLatest, Idle
  <2>2. CASE Fail(w, "ConcurrencyError")
    BY <2>1, <2>2, RefuseMaps DEF Stream!Next
  <2>3. CASE ~ Fail(w, "ConcurrencyError")
    <3>1. PICK v : tx' = [tx EXCEPT ![w].pc = "id", ![w].current = v]
      BY <1>3, <2>3 DEF SelectLatest
    <3> DEFINE t == [tx[w] EXCEPT !.pc = "id", !.current = v]
    <3>2. tx[w] \in Tx
      BY <2>1, OpenFacts DEF IInv
    <3>3. /\ tx' = [tx EXCEPT ![w] = t] /\ t.pc = "id"
          /\ t.stream = tx[w].stream /\ t.batch = tx[w].batch
          /\ t.expected = tx[w].expected
      BY <3>1, <3>2 DEF IInv, TypeOK, Tx
    <3>4. t # Idle
      BY <3>3 DEF Idle
    <3>5. rows' = rows
      BY <1>3, <2>3 DEF SelectLatest
    <3> HIDE DEF t
    <3> QED BY <2>1, <3>3, <3>4, <3>5, InsideMaps DEF Stream!vars
  <2> QED BY <2>2, <2>3
<1>7. ASSUME NEW w \in Writers, InsertId(w)
      PROVE  Stream!Next \/ UNCHANGED Stream!vars
  <2>1. tx[w] # Idle
    BY <1>7 DEF InsertId, Idle
  <2>2. CASE Fail(w, "ConcurrencyError")
    BY <2>1, <2>2, RefuseMaps DEF Stream!Next
  <2>3. CASE ~ Fail(w, "ConcurrencyError")
    <3> DEFINE t == [tx[w] EXCEPT !.pc = "version"]
    <3>1. tx' = [tx EXCEPT ![w].pc = "version"] /\ rows' = rows
      BY <1>7, <2>3 DEF InsertId
    <3>2. tx[w] \in Tx
      BY <2>1, OpenFacts DEF IInv
    <3>3. /\ tx' = [tx EXCEPT ![w] = t] /\ t.pc = "version"
          /\ t.stream = tx[w].stream /\ t.batch = tx[w].batch
          /\ t.expected = tx[w].expected
      BY <3>1, <3>2 DEF IInv, TypeOK, Tx
    <3>4. t # Idle
      BY <3>3 DEF Idle
    <3> HIDE DEF t
    <3> QED BY <2>1, <3>1, <3>3, <3>4, InsideMaps DEF Stream!vars
  <2> QED BY <2>2, <2>3
<1>4. ASSUME NEW w \in Writers, InsertVersion(w)
      PROVE  Stream!Next \/ UNCHANGED Stream!vars
  <2>1. tx[w] # Idle
    BY <1>4 DEF InsertVersion, Idle
  <2>2. CASE Fail(w, "ConcurrencyError")
    BY <2>1, <2>2, RefuseMaps DEF Stream!Next
  <2>3. CASE ~ Fail(w, "ConcurrencyError")
    <3> DEFINE n == tx[w].done + 1
               t == [tx[w] EXCEPT !.done = n,
                                  !.pc = IF n = Len(tx[w].batch)
                                         THEN "commit" ELSE "id"]
    <3>1. /\ tx' = [tx EXCEPT ![w].done = n,
                              ![w].pc = IF n = Len(tx[w].batch)
                                        THEN "commit" ELSE "id"]
          /\ rows' = rows
      BY <1>4, <2>3 DEF InsertVersion
    <3>2. tx[w] \in Tx
      BY <2>1, OpenFacts DEF IInv
    <3>3. tx' = [tx EXCEPT ![w] = t]
      BY <3>1, <3>2 DEF IInv, TypeOK, Tx
    <3>4. /\ t.pc # "idle"
          /\ t.stream = tx[w].stream /\ t.batch = tx[w].batch
          /\ t.expected = tx[w].expected
      BY <3>2 DEF Tx
    <3>5. t # Idle
      BY <3>4 DEF Idle
    <3> HIDE DEF t
    <3> QED BY <2>1, <3>1, <3>3, <3>4, <3>5, InsideMaps DEF Stream!vars
  <2> QED BY <2>2, <2>3
<1>5. ASSUME NEW w \in Writers, Commit(w) \/ CommitUnacknowledged(w)
      PROVE  Stream!Next
  BY <1>5, CommitMaps DEF Commit, CommitUnacknowledged, Stream!Next
<1>6. ASSUME NEW w \in Writers, ConnectionLost(w)
      PROVE  Stream!Next
  BY <1>6, RefuseMaps DEF ConnectionLost, Stream!Next
<1> QED BY <1>1, <1>2, <1>3, <1>4, <1>5, <1>6, <1>7 DEF Next

\* appendToStream implements the atomic append, for every number of callers,
\* streams and events, and every placement of faults.
THEOREM Refinement == Spec => ImplementsEventStream
<1>1. Init => HasLatest
  BY DEF Init, HasLatest, IsLatest
<1>2. Spec => [](IInv /\ HasLatest)
  BY <1>1, InvInit, InvStep, LatestStep, PTL DEF Spec
<1>3. IInv /\ HasLatest /\ (IInv /\ HasLatest)' /\ [Next]_vars
        => [Stream!Next]_(Stream!vars)
  BY StepMaps
<1> QED BY <1>2, <1>3, InitMaps, PTL DEF Spec, ImplementsEventStream, Stream!Spec
=============================================================================
