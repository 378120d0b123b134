------------------------ MODULE ConnectionPoolProofs ------------------------
(***************************************************************************)
(* Proofs about ConnectionPool for any number of callers, streams and      *)
(* connections.  Whatever the pool does, the table and the transactions    *)
(* take a step of EventStore or none, so the theorems of EventStoreProofs  *)
(* hold of it.  PoolInv says who has a connection, who stands in line and  *)
(* whose transaction is open.  Together with NoWaitCircles it shows that   *)
(* the pool is never stuck: whoever keeps a connection while it waits for  *)
(* a row waits for somebody who has a connection too, and the chain ends   *)
(* with somebody who waits for nobody.                                     *)
(***************************************************************************)
EXTENDS ConnectionPool, EventStoreProofs, FiniteSetTheorems

IsAppendCall(c) ==
  \E s \in Streams, expected \in Revisions : \E batch \in Batches[s] :
    c = AppendCall(s, batch, expected)

\* The variables of the pool hold what the driver keeps in them.
PoolTypeOK ==
  /\ call = [w \in Writers |-> call[w]]
  /\ \A w \in Writers : call[w] \in {NoCall, Statement} \/ IsAppendCall(call[w])
  /\ queue \in Seq(Writers)
  /\ held \subseteq Writers

InLine(w) == \E i \in 1 .. Len(queue) : queue[i] = w

\* Nobody stands in line twice.
QueuedOnce == \A i, j \in 1 .. Len(queue) : queue[i] = queue[j] => i = j

\* A call that is not answered either waits for a connection or has one.
CallsAreSomewhere ==
  \A w \in Writers :
    /\ call[w] # NoCall <=> InLine(w) \/ w \in held
    /\ ~ (InLine(w) /\ w \in held)

\* A transaction is open exactly while its caller has a connection.
OpenOnConnection ==
  \A w \in Writers : tx[w] # Idle <=> w \in held /\ call[w].kind = "append"

PoolInv ==
  /\ IInv
  /\ PoolTypeOK
  /\ QueuedOnce
  /\ CallsAreSomewhere
  /\ OpenOnConnection
-----------------------------------------------------------------------------
\* A call is nothing, a statement or an append, and its kind tells which.
LEMMA Kinds ==
  ASSUME PoolTypeOK, NEW w \in Writers
  PROVE  /\ call[w].kind = "append" <=> IsAppendCall(call[w])
         /\ call[w] # NoCall /\ call[w] # Statement <=> IsAppendCall(call[w])
<1>1. \A c : IsAppendCall(c) => c.kind = "append"
  BY DEF IsAppendCall, AppendCall
<1>2. NoCall.kind # "append" /\ Statement.kind # "append"
  BY DEF NoCall, Statement
<1> QED BY <1>1, <1>2 DEF PoolTypeOK

\* What the pool does to the table and the transactions is a step of EventStore.
LEMMA ActsAsStore == PoolTypeOK /\ [PoolNext]_poolVars => [Next]_vars
<1> SUFFICES ASSUME PoolTypeOK, [PoolNext]_poolVars PROVE [Next]_vars
  OBVIOUS
<1>1. CASE UNCHANGED poolVars
  BY <1>1 DEF poolVars
<1>2. CASE Serve
  <2> DEFINE w == Head(queue)
  <2>1. w \in Writers
    BY <1>2, HeadTailProperties DEF Serve, PoolTypeOK
  <2>2. CASE call[w].kind = "append"
    <3>1. PICK s \in Streams, expected \in Revisions :
            \E batch \in Batches[s] : call[w] = AppendCall(s, batch, expected)
      BY <2>1, <2>2, Kinds DEF IsAppendCall
    <3>2. PICK batch \in Batches[s] : call[w] = AppendCall(s, batch, expected)
      BY <3>1
    <3>3. /\ call[w].stream = s /\ call[w].batch = batch
          /\ call[w].expected = expected
      BY <3>2 DEF AppendCall
    <3>4. AppendToStream(w, call[w].stream, call[w].batch, call[w].expected)
      BY <1>2, <2>2 DEF Serve
    <3>5. AppendToStream(w, s, batch, expected)
      BY <3>3, <3>4
    <3> QED BY <2>1, <3>5 DEF Next
  <2>3. CASE call[w].kind # "append"
    BY <1>2, <2>3 DEF Serve
  <2> QED BY <2>2, <2>3
<1>3. ASSUME NEW w \in Writers,
             Select(w) \/ Insert(w) \/ End(w) \/ Lost(w)
      PROVE  Next
  BY <1>3 DEF Select, Insert, End, Lost, Transaction, Next
<1>4. ASSUME NEW w \in Writers,
             \/ StatementEnds(w)
             \/ \E c : Request(w, c)
      PROVE  UNCHANGED vars
  BY <1>4 DEF StatementEnds, Request
<1> QED BY <1>1, <1>2, <1>3, <1>4 DEF PoolNext

\* Only the caller whose step it is sees its transaction change.
LEMMA OneTransaction ==
  ASSUME TypeOK, TypeOK', NEW w \in Writers,
         \/ SelectLatest(w) \/ InsertId(w) \/ InsertVersion(w) \/ Commit(w)
         \/ CommitUnacknowledged(w) \/ ConnectionLost(w)
  PROVE  tx[w] # Idle /\ \A o \in Writers \ {w} : tx'[o] = tx[o]
BY DEF SelectLatest, InsertId, InsertVersion, Commit, CommitUnacknowledged, ConnectionLost,
       Fail, TypeOK, Idle

\* A call that has ended is nowhere.
LEMMA ReleaseStep ==
  ASSUME PoolInv, NEW w \in Writers, w \in held, Release(w), queue' = queue,
         tx'[w] = Idle, \A o \in Writers \ {w} : tx'[o] = tx[o]
  PROVE  PoolTypeOK' /\ QueuedOnce' /\ CallsAreSomewhere' /\ OpenOnConnection'
<1>1. /\ call'[w] = NoCall /\ held' = held \ {w}
      /\ \A o \in Writers \ {w} : call'[o] = call[o]
      /\ call' = [o \in Writers |-> call'[o]]
  BY DEF Release, PoolInv, PoolTypeOK
<1>2. PoolTypeOK'
  BY <1>1 DEF PoolInv, PoolTypeOK, IsAppendCall, AppendCall, NoCall, Statement
<1>3. QueuedOnce'
  BY DEF PoolInv, QueuedOnce
<1>4. \A o \in Writers : InLine(o)' <=> InLine(o)
  BY DEF InLine
<1>5. CallsAreSomewhere'
  BY <1>1, <1>4 DEF PoolInv, CallsAreSomewhere
<1>6. OpenOnConnection'
  BY <1>1 DEF PoolInv, OpenOnConnection
<1> QED BY <1>2, <1>3, <1>5, <1>6

\* A step inside a transaction changes nothing about who has a connection.
LEMMA InsideStep ==
  ASSUME PoolInv, NEW w \in Writers, tx[w] # Idle, tx'[w] # Idle,
         UNCHANGED <<call, queue, held>>,
         \A o \in Writers \ {w} : tx'[o] = tx[o]
  PROVE  PoolTypeOK' /\ QueuedOnce' /\ CallsAreSomewhere' /\ OpenOnConnection'
<1>1. PoolTypeOK'
  BY DEF PoolInv, PoolTypeOK, IsAppendCall, AppendCall, NoCall, Statement
<1>2. QueuedOnce' /\ \A o \in Writers : InLine(o)' <=> InLine(o)
  BY DEF PoolInv, QueuedOnce, InLine
<1>3. CallsAreSomewhere'
  BY <1>2 DEF PoolInv, CallsAreSomewhere
<1>4. OpenOnConnection'
  BY DEF PoolInv, OpenOnConnection
<1> QED BY <1>1, <1>2, <1>3, <1>4

\* A new caller stands at the end of the line.
LEMMA RequestStep ==
  ASSUME PoolInv, NEW w \in Writers, NEW c, Request(w, c),
         c = Statement \/ IsAppendCall(c)
  PROVE  PoolTypeOK' /\ QueuedOnce' /\ CallsAreSomewhere' /\ OpenOnConnection'
<1>1. /\ call[w] = NoCall /\ call'[w] = c /\ held' = held /\ tx' = tx
      /\ \A o \in Writers \ {w} : call'[o] = call[o]
      /\ call' = [o \in Writers |-> call'[o]]
  BY DEF Request, PoolInv, PoolTypeOK, vars
<1>2. queue' \in Seq(Writers) /\ queue \in Seq(Writers)
  BY DEF Request, PoolInv, PoolTypeOK
<1>3. /\ Len(queue) \in Nat /\ Len(queue') = Len(queue) + 1
      /\ \A i \in 1 .. Len(queue) : queue'[i] = queue[i]
      /\ queue'[Len(queue) + 1] = w
  BY <1>2 DEF Request
<1>4. /\ ~ InLine(w) /\ w \notin held
      /\ c # NoCall
  <2>1. Statement # NoCall
    BY DEF Statement, NoCall
  <2>2. IsAppendCall(c) => c # NoCall
    BY DEF IsAppendCall, AppendCall, NoCall
  <2> QED BY <1>1, <2>1, <2>2 DEF PoolInv, CallsAreSomewhere
<1>5. \A o \in Writers : InLine(o)' <=> InLine(o) \/ o = w
  <2>1. ASSUME NEW o \in Writers, InLine(o)' PROVE InLine(o) \/ o = w
    BY <1>3, <2>1 DEF InLine
  <2>2. ASSUME NEW o \in Writers, InLine(o) \/ o = w PROVE InLine(o)'
    BY <1>3, <2>2 DEF InLine
  <2> QED BY <2>1, <2>2
<1>6. PoolTypeOK'
  BY <1>1, <1>2 DEF PoolInv, PoolTypeOK, IsAppendCall, AppendCall, NoCall, Statement
<1>7. QueuedOnce'
  <2> SUFFICES ASSUME NEW i \in 1 .. Len(queue'), NEW j \in 1 .. Len(queue'),
                      queue'[i] = queue'[j]
               PROVE  i = j
    BY DEF QueuedOnce
  <2>1. \A k \in 1 .. Len(queue) : queue[k] # w
    BY <1>4 DEF InLine
  <2> QED BY <1>3, <2>1 DEF PoolInv, QueuedOnce
<1>8. CallsAreSomewhere'
  BY <1>1, <1>4, <1>5 DEF PoolInv, CallsAreSomewhere
<1>9. OpenOnConnection'
  BY <1>1, <1>4 DEF PoolInv, OpenOnConnection
<1> QED BY <1>6, <1>7, <1>8, <1>9

\* The first in line leaves it for a connection.
LEMMA ServeStep ==
  ASSUME PoolInv, TypeOK', Serve
  PROVE  PoolTypeOK' /\ QueuedOnce' /\ CallsAreSomewhere' /\ OpenOnConnection'
<1> DEFINE w == Head(queue)
<1>1. /\ queue \in Seq(Writers) /\ queue # <<>> /\ queue' = Tail(queue)
      /\ held' = held \cup {w} /\ call' = call
  BY DEF Serve, PoolInv, PoolTypeOK
<1>2. /\ w \in Writers /\ w = queue[1] /\ queue' \in Seq(Writers)
      /\ Len(queue) \in Nat \ {0} /\ Len(queue') = Len(queue) - 1
      /\ \A i \in 1 .. Len(queue') : queue'[i] = queue[i + 1]
  BY <1>1, HeadTailProperties
<1>3. InLine(w)
  BY <1>2 DEF InLine
<1>4. w \notin held /\ tx[w] = Idle
  BY <1>2, <1>3 DEF PoolInv, CallsAreSomewhere, OpenOnConnection
<1>5. /\ \A o \in Writers \ {w} : tx'[o] = tx[o]
      /\ tx'[w] # Idle <=> call[w].kind = "append"
  <2>1. CASE call[w].kind = "append"
    <3>1. AppendToStream(w, call[w].stream, call[w].batch, call[w].expected)
      BY <2>1 DEF Serve
    <3>2. tx'[w].pc = "select" /\ \A o \in Writers \ {w} : tx'[o] = tx[o]
      BY <1>2, <3>1 DEF AppendToStream, PoolInv, IInv, TypeOK
    <3> QED BY <2>1, <3>2 DEF Idle
  <2>2. CASE call[w].kind # "append"
    BY <1>4, <2>2 DEF Serve, vars
  <2> QED BY <2>1, <2>2
<1>6. QueuedOnce'
  <2> SUFFICES ASSUME NEW i \in 1 .. Len(queue'), NEW j \in 1 .. Len(queue'),
                      queue'[i] = queue'[j]
               PROVE  i = j
    BY DEF QueuedOnce
  <2>1. i + 1 \in 1 .. Len(queue) /\ j + 1 \in 1 .. Len(queue)
    BY <1>2
  <2>2. i + 1 = j + 1
    BY <1>2, <2>1 DEF PoolInv, QueuedOnce
  <2> QED BY <2>2
<1>7. \A o \in Writers : InLine(o)' <=> InLine(o) /\ o # w
  <2>1. ASSUME NEW o \in Writers, InLine(o)' PROVE InLine(o) /\ o # w
    <3>1. PICK i \in 1 .. Len(queue') : queue'[i] = o
      BY <2>1 DEF InLine
    <3>2. i + 1 \in 1 .. Len(queue) /\ i + 1 # 1 /\ 1 \in 1 .. Len(queue)
      BY <1>2
    <3>3. queue[i + 1] = o
      BY <1>2, <3>1
    <3>4. queue[i + 1] # queue[1]
      BY <3>2 DEF PoolInv, QueuedOnce
    <3> QED BY <1>2, <3>2, <3>3, <3>4 DEF InLine
  <2>2. ASSUME NEW o \in Writers, InLine(o), o # w PROVE InLine(o)'
    <3>1. PICK i \in 1 .. Len(queue) : queue[i] = o
      BY <2>2 DEF InLine
    <3>2. i - 1 \in 1 .. Len(queue') /\ (i - 1) + 1 = i
      BY <1>2, <2>2, <3>1
    <3> QED BY <1>2, <3>1, <3>2 DEF InLine
  <2> QED BY <2>1, <2>2
<1>8. PoolTypeOK'
  BY <1>1, <1>2 DEF PoolInv, PoolTypeOK, IsAppendCall, AppendCall, NoCall, Statement
<1>9. CallsAreSomewhere'
  BY <1>1, <1>3, <1>4, <1>7 DEF PoolInv, CallsAreSomewhere
<1>10. OpenOnConnection'
  BY <1>1, <1>4, <1>5 DEF PoolInv, OpenOnConnection
<1> QED BY <1>6, <1>8, <1>9, <1>10

\* The invariant holds before the first call.
LEMMA PoolInvInit == PoolInit => PoolInv
<1> SUFFICES ASSUME PoolInit PROVE PoolInv
  OBVIOUS
<1>1. IInv
  BY InvInit DEF PoolInit
<1>2. /\ \A w \in Writers : call[w] = NoCall /\ tx[w] = Idle
      /\ queue = <<>> /\ held = {}
  BY DEF PoolInit, Init
<1>3. PoolTypeOK /\ QueuedOnce
  BY <1>2 DEF PoolInit, PoolTypeOK, QueuedOnce
<1>4. \A w \in Writers : ~ InLine(w)
  <2>1. 1 .. Len(queue) = {}
    BY <1>2
  <2> QED BY <2>1 DEF InLine
<1> QED BY <1>1, <1>2, <1>3, <1>4 DEF PoolInv, CallsAreSomewhere, OpenOnConnection

\* Every step of the pool keeps it.
LEMMA PoolInvStep == PoolInv /\ [PoolNext]_poolVars => PoolInv'
<1> SUFFICES ASSUME PoolInv, [PoolNext]_poolVars PROVE PoolInv'
  OBVIOUS
<1>1. IInv'
  BY ActsAsStore, InvStep DEF PoolInv
<1>2. TypeOK /\ TypeOK'
  BY <1>1 DEF PoolInv, IInv
<1>3. CASE UNCHANGED poolVars
  BY <1>1, <1>3 DEF PoolInv, poolVars, vars, PoolTypeOK, QueuedOnce,
     CallsAreSomewhere, OpenOnConnection, InLine, IsAppendCall, AppendCall,
     NoCall, Statement
<1>4. CASE Serve
  BY <1>1, <1>2, <1>4, ServeStep DEF PoolInv
<1>5. ASSUME NEW w \in Writers, Request(w, Statement) PROVE PoolInv'
  BY <1>1, <1>5, RequestStep DEF PoolInv
<1>6. ASSUME NEW w \in Writers, NEW s \in Streams, NEW expected \in Revisions,
             NEW batch \in Batches[s], Request(w, AppendCall(s, batch, expected))
      PROVE  PoolInv'
  <2>1. IsAppendCall(AppendCall(s, batch, expected))
    BY DEF IsAppendCall
  <2> QED BY <1>1, <1>6, <2>1, RequestStep DEF PoolInv
<1>7. ASSUME NEW w \in Writers, StatementEnds(w) PROVE PoolInv'
  <2>1. Statement.kind # "append"
    BY DEF Statement
  <2>2. tx[w] = Idle /\ tx' = tx
    BY <1>7, <2>1 DEF StatementEnds, vars, PoolInv, OpenOnConnection
  <2> QED BY <1>1, <1>7, <2>2, ReleaseStep DEF StatementEnds, PoolInv
<1>8. ASSUME NEW w \in Writers, Select(w) \/ Insert(w) \/ End(w) \/ Lost(w)
      PROVE  PoolInv'
  <2>1. /\ tx[w] # Idle /\ \A o \in Writers \ {w} : tx'[o] = tx[o]
        /\ IF tx'[w] = Idle THEN Release(w) ELSE UNCHANGED <<call, held>>
        /\ queue' = queue
    BY <1>2, <1>8, OneTransaction DEF Select, Insert, End, Lost, Transaction
  <2>2. w \in held
    BY <2>1 DEF PoolInv, OpenOnConnection
  <2> QED BY <1>1, <2>1, <2>2, ReleaseStep, InsideStep DEF PoolInv
<1> QED BY <1>3, <1>4, <1>5, <1>6, <1>7, <1>8 DEF PoolNext

\* Who has a connection, stands in line or is in a transaction, at any time.
THEOREM PoolInvariance == PoolSpec => []PoolInv
BY PoolInvInit, PoolInvStep, PTL DEF PoolSpec

-----------------------------------------------------------------------------
\* A transaction that waits for nobody can go on.
LEMMA WhoDoesNotWaitGoesOn ==
  ASSUME PoolInv, NEW w \in Writers, tx[w] # Idle, \A o \in Writers : ~ WaitsFor(w, o)
  PROVE  w \in held /\ CanGoOn(w)
<1>1. w \in held
  BY DEF PoolInv, OpenOnConnection
<1>2. tx[w].pc \in {"select", "id", "version", "commit"}
  BY OpenFacts DEF PoolInv, IInv, Tx
<1> QED BY <1>1, <1>2 DEF CanGoOn, ThroughTx

\* Whoever has a connection can go on, or the chain of waiting that begins with it
\* ends with somebody who can.
LEMMA HoldersGoOn ==
  ASSUME PoolInv, NEW w \in held
  PROVE  \E o \in held : CanGoOn(o)
<1>1. w \in Writers /\ call[w] # NoCall
  BY DEF PoolInv, PoolTypeOK, CallsAreSomewhere
<1>2. CASE call[w] = Statement
  BY <1>2 DEF CanGoOn
<1>3. CASE call[w] # Statement
  <2>1. tx[w] # Idle
    BY <1>1, <1>3, Kinds DEF PoolInv, OpenOnConnection
  <2>2. \A u, v \in Writers : WaitsFor(u, v) => tx[v] # Idle
    BY WaitersHoldNoRow DEF PoolInv
  <2>3. CASE \A o \in Writers : ~ WaitsFor(w, o)
    BY <1>1, <2>1, <2>3, WhoDoesNotWaitGoesOn
  <2>4. ASSUME NEW u \in Writers, WaitsFor(w, u), \A o \in Writers : ~ WaitsFor(u, o)
        PROVE  \E o \in held : CanGoOn(o)
    BY <1>1, <2>2, <2>4, WhoDoesNotWaitGoesOn
  <2>5. ASSUME NEW u \in Writers, WaitsFor(w, u), NEW v \in Writers, WaitsFor(u, v)
        PROVE  \E o \in held : CanGoOn(o)
    <3>1. \A o \in Writers : ~ WaitsFor(v, o)
      BY <1>1, <2>5, NoCircles DEF PoolInv, NoWaitCircles
    <3> QED BY <2>2, <2>5, <3>1, WhoDoesNotWaitGoesOn
  <2> QED BY <2>3, <2>4, <2>5
<1> QED BY <1>2, <1>3

\* With no connection in use, the first in line can have one.
LEMMA FirstIsServed ==
  ASSUME PoolInv, held = {}, NEW w \in Writers, call[w] # NoCall
  PROVE  CanServe
<1>1. PICK i \in 1 .. Len(queue) : queue[i] = w
  BY DEF PoolInv, CallsAreSomewhere, InLine
<1>2. queue \in Seq(Writers) /\ queue # <<>>
  BY <1>1 DEF PoolInv, PoolTypeOK
<1>3. Head(queue) \in Writers
  BY <1>2, HeadTailProperties
<1>4. tx[Head(queue)] = Idle
  BY <1>3 DEF PoolInv, OpenOnConnection
<1>5. Cardinality(held) < Connections
  BY FS_EmptySet, ConnectionsAssumption
<1> QED BY <1>2, <1>4, <1>5 DEF CanServe

\* Neither connections nor rows are ever waited for in a circle: while a call is
\* unanswered, somebody can go on.
THEOREM NeverStuckCorrect == PoolSpec => []NeverStuck
<1>1. PoolInv => NeverStuck
  <2> SUFFICES ASSUME PoolInv, NEW w \in Writers, call[w] # NoCall
               PROVE  CanServe \/ \E o \in held : CanGoOn(o)
    BY DEF NeverStuck
  <2>1. CASE held = {}
    BY <2>1, FirstIsServed
  <2>2. CASE held # {}
    BY <2>2, HoldersGoOn
  <2> QED BY <2>1, <2>2
<1> QED BY <1>1, PoolInvariance, PTL
=============================================================================
