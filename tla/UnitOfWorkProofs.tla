--------------------------- MODULE UnitOfWorkProofs ---------------------------
(***************************************************************************)
(* Safety of UnitOfWork for any number of handlers, commits, streams,      *)
(* events and versions of the program.                                     *)
(*                                                                         *)
(* The version of an aggregate is a number; that it stands for a history   *)
(* is AggSound: the version never exceeds the revision of the stream, and  *)
(* when the two are equal the aggregate has seen the whole stream.  A      *)
(* handler that skipped an event it cannot read has therefore a version    *)
(* that is too low, and can write nothing.  The same is true of an append  *)
(* under way (CallSound), whatever has become of the commit that sent it.  *)
(*                                                                         *)
(* Several commits of one aggregate may be under way.  Until one of them   *)
(* is carried out, all of them hold the first uncommitted event (Shared);  *)
(* once it is, that event is stored, and the others can only be refused.   *)
(***************************************************************************)
EXTENDS UnitOfWork, FiniteSetTheorems, TLAPS

Unstored(q)   == Elements(q) \cap Stored = {}
Distinct(q)   == \A i, j \in 1 .. Len(q) : q[i] = q[j] => i = j
Projecting(c) == com[c].step = "projecting"

\* The version stands for what the aggregate has seen, and events in memory were
\* applied one after another.
AggSound(h) ==
  Has(h) =>
    /\ agg[h].version =< Revision(agg[h].stream)
    /\ agg[h].version = Revision(agg[h].stream) =>
         Elements(log[agg[h].stream]) \subseteq agg[h].seen
    /\ Elements(agg[h].uncommitted) \subseteq agg[h].seen
    /\ Distinct(agg[h].uncommitted)
    /\ agg[h].version = Revision(agg[h].stream) /\ Unstored(agg[h].uncommitted) =>
         \A i \in 1 .. Len(agg[h].uncommitted) :
           Elements(log[agg[h].stream]) \cup Before(agg[h].uncommitted, i)
             \subseteq basis[agg[h].uncommitted[i]]
    /\ \A e \in agg[h].seen : ~ Fresh(e)
    /\ log[agg[h].stream] = <<>> => agg[h].seen \subseteq Elements(agg[h].uncommitted)

\* An append that may take effect was decided upon as well; one that nobody
\* waits for is left over from a fault.
CallSound(c) ==
  Calling(c) =>
    /\ open[c].batch # <<>>
    /\ open[c].expected =< Revision(open[c].stream)
    /\ Accepted(c) =>
         \A i \in 1 .. Len(open[c].batch) :
           Elements(log[open[c].stream]) \cup Before(open[c].batch, i)
             \subseteq basis[open[c].batch[i]]
    /\ \A e \in Elements(open[c].batch) : ~ Fresh(e)
    /\ \E e \in Elements(log[open[c].stream]) \cup Elements(open[c].batch) :
         Type[e] = UserCreated
    /\ com[c].step # "appending" => faults # 0

\* A commit waits for the append of its copy.  Unless some of it is stored, no
\* other commit has changed the version; once all of it is, the uncommitted
\* events still begin with it.
ComSound(c) ==
  com[c] # NoCommit =>
    LET a == agg[com[c].of] IN
    /\ Has(com[c].of)
    /\ Distinct(com[c].copy)
    /\ Elements(com[c].copy) \subseteq a.seen
    /\ com[c].step = "appending" =>
         /\ Calling(c)
         /\ open[c].stream = a.stream /\ open[c].batch = com[c].copy
         /\ Unstored(com[c].copy) => open[c].expected = a.version
    /\ Projecting(c) =>
         /\ log[a.stream] # <<>> /\ Elements(com[c].copy) \subseteq Stored \ Published
         /\ a.uncommitted # <<>> /\ a.uncommitted[1] \in Elements(com[c].copy)

\* A call that may take effect and has events an aggregate knows has the first
\* one that the aggregate has not committed.
Shared(c, h) ==
  Calling(c) /\ Has(h) /\ Unstored(open[c].batch)
    /\ Elements(open[c].batch) \cap agg[h].seen # {} =>
     /\ agg[h].uncommitted # <<>>
     /\ agg[h].uncommitted[1] \in Elements(open[c].batch)

\* Two aggregates know the same event only if it is stored.
Private(h, k) ==
  Has(h) /\ Has(k) /\ h # k => agg[h].seen \cap agg[k].seen \subseteq Stored

\* No two commits publish the same event.
Apart(c, d) ==
  Projecting(c) /\ Projecting(d) /\ c # d =>
    Elements(com[c].copy) \cap Elements(com[d].copy) = {}

\* What is about to be published is in the order of its stream, behind what the
\* handler has published before.
CopyOrdered(c) ==
  Projecting(c) =>
    /\ \A i, j \in 1 .. Len(com[c].copy) : i < j => InOrder(com[c].copy[i], com[c].copy[j])
    /\ \A a \in Elements(bus[com[c].of]), b \in Elements(com[c].copy) : InOrder(a, b)

StoredNotFresh == \A e \in Stored : ~ Fresh(e)

\* A stream holds the creation of its user.
StreamsCreated ==
  \A s \in Streams : log[s] # <<>> => \E e \in Elements(log[s]) : Type[e] = UserCreated

\* What is stored and not published yet is about to be.
StoredIsPublished ==
  faults = 0 => \A e \in Stored \ Published :
    \E c \in Commits : Projecting(c) /\ e \in Elements(com[c].copy)

\* The events of its stream that an aggregate knows are no more than its version
\* counts, unless an event of its own was stored behind its back.
Known(h) ==
  {i \in 1 .. Len(log[agg[h].stream]) : log[agg[h].stream][i] \in agg[h].seen}

HeadUnstored(h) ==
  agg[h].uncommitted = <<>> \/ agg[h].uncommitted[1] \notin Stored

Counted(h) ==
  Has(h) /\ (\/ HeadUnstored(h)
             \/ \E c \in Commits : Projecting(c) /\ com[c].of = h) =>
    Cardinality(Known(h)) =< agg[h].version + 1

IInv ==
  /\ TypeOK
  /\ \A h \in Handlers : AggSound(h) /\ Counted(h)
  /\ \A h, k \in Handlers : Private(h, k)
  /\ \A c \in Commits : CallSound(c) /\ ComSound(c) /\ CopyOrdered(c)
  /\ \A c \in Commits, h \in Handlers : Shared(c, h)
  /\ \A c, d \in Commits : Apart(c, d)
  /\ StoredNotFresh
  /\ StreamsCreated
  /\ StoredIsPublished
  /\ NoBlindWrites
  /\ PublishedInOrder
  /\ RefusalExplained
-----------------------------------------------------------------------------
\* "No aggregate", "no call" and "no commit" are told apart from all others.
LEMMA NoneIsNone ==
  /\ NoAggregate \notin Aggregate
  /\ NoCall \notin Calls
  /\ NoCommit \notin Committing
<1>1. ASSUME NoAggregate \in Aggregate PROVE FALSE
  <2>1. "version" \in DOMAIN NoAggregate
    BY <1>1 DEF Aggregate
  <2> QED
    BY <2>1 DEF NoAggregate
<1>2. ASSUME NoCall \in Calls PROVE FALSE
  <2>1. "stream" \in DOMAIN NoCall
    BY <1>2 DEF Calls
  <2> QED
    BY <2>1 DEF NoCall, Stream!NoCall
<1>3. ASSUME NoCommit \in Committing PROVE FALSE
  BY <1>3 DEF Committing, NoCommit
<1> QED
  BY <1>1, <1>2, <1>3

\* What the fields of the variables are.
LEMMA Fields ==
  ASSUME TypeOK
  PROVE  /\ \A s \in Streams : /\ log[s] \in Seq(Events) /\ Len(log[s]) \in Nat
                               /\ Elements(log[s]) \subseteq Events
         /\ \A h \in Handlers : Has(h) =>
              /\ agg[h] \in Aggregate /\ agg[h].stream \in Streams
              /\ agg[h].version \in Int /\ agg[h].version >= -1
              /\ agg[h].seen \subseteq Events /\ agg[h].uncommitted \in Seq(Events)
         /\ \A c \in Commits : Calling(c) =>
              /\ open[c] \in Calls /\ open[c].stream \in Streams
              /\ open[c].expected \in Int /\ open[c].expected >= -1
              /\ open[c].batch \in Seq(Events)
         /\ \A c \in Commits : com[c] # NoCommit =>
              /\ com[c] \in Committing /\ com[c].of \in Handlers
              /\ com[c].copy \in Seq(Events)
         /\ \A c \in Commits :
              com[c].step \in {"appending", "refused", "projecting"} => com[c] # NoCommit
         /\ \A h \in Handlers : /\ bus[h] \in Seq(Events)
                                /\ Elements(bus[h]) \subseteq Events
<1>1. \A q \in Seq(Events) : Len(q) \in Nat /\ Elements(q) \subseteq Events
  BY DEF Elements
<1>2. \A h \in Handlers : Has(h) =>
        /\ agg[h] \in Aggregate /\ agg[h].stream \in Streams
        /\ agg[h].version \in Versions
        /\ agg[h].seen \subseteq Events /\ agg[h].uncommitted \in Seq(Events)
  BY DEF TypeOK, Has, Aggregate
<1>3. \A c \in Commits : Calling(c) =>
        /\ open[c] \in Calls /\ open[c].stream \in Streams
        /\ open[c].expected \in Versions /\ open[c].batch \in Seq(Events)
  BY DEF TypeOK, Calling, Calls
<1>4. \A c \in Commits : com[c] # NoCommit =>
        com[c] \in Committing /\ com[c].of \in Handlers /\ com[c].copy \in Seq(Events)
  BY DEF TypeOK, Committing
<1>5. \A v \in Versions : v \in Int /\ v >= -1
  BY DEF Versions
<1>6. \A c \in Commits :
        com[c].step \in {"appending", "refused", "projecting"} => com[c] # NoCommit
  BY DEF NoCommit
<1>7. \A s \in Streams : log[s] \in Seq(Events)
  BY DEF TypeOK
<1>8. \A h \in Handlers : bus[h] \in Seq(Events)
  BY DEF TypeOK
<1> QED
  BY <1>1, <1>2, <1>3, <1>4, <1>5, <1>6, <1>7, <1>8

\* The version that is counted on reading is at most the revision, and is the
\* revision only if every row could be read.
LEMMA VersionReadBound ==
  ASSUME TypeOK, NEW h \in Handlers, NEW s \in Streams
  PROVE  /\ Cardinality(ReadStream(h, s)) \in Nat
         /\ VersionRead(h, s) \in Versions
         /\ VersionRead(h, s) =< Revision(s)
         /\ VersionRead(h, s) = Revision(s) => ReadStream(h, s) = 1 .. Len(log[s])
<1>1. PICK n \in Nat : n = Len(log[s])
  BY DEF TypeOK
<1>2. ReadStream(h, s) \subseteq 1 .. n
  BY <1>1 DEF ReadStream
<1>3. IsFiniteSet(1 .. n) /\ Cardinality(1 .. n) = n
  BY FS_Interval
<1>4. /\ Cardinality(ReadStream(h, s)) \in Nat
      /\ Cardinality(ReadStream(h, s)) =< n
      /\ Cardinality(ReadStream(h, s)) = n => ReadStream(h, s) = 1 .. n
  BY <1>2, <1>3, FS_Subset, FS_CardinalityType
<1> QED
  BY <1>1, <1>4 DEF VersionRead, Revision, Versions

\* The elements of two sequences one after the other.
LEMMA Concatenation ==
  ASSUME NEW p \in Seq(Events), NEW q \in Seq(Events)
  PROVE  /\ p \o q \in Seq(Events)
         /\ Len(p \o q) = Len(p) + Len(q)
         /\ \A i \in 1 .. Len(p) : (p \o q)[i] = p[i]
         /\ \A i \in 1 .. Len(q) : (p \o q)[Len(p) + i] = q[i]
         /\ Elements(p \o q) = Elements(p) \cup Elements(q)
<1>1. PICK m \in Nat, n \in Nat : m = Len(p) /\ n = Len(q)
  OBVIOUS
<1>2. /\ p \o q \in Seq(Events)
      /\ Len(p \o q) = m + n
      /\ \A i \in 1 .. m : (p \o q)[i] = p[i]
      /\ \A i \in 1 .. n : (p \o q)[m + i] = q[i]
  BY <1>1
<1>3. \A i \in 1 .. m + n : i \notin 1 .. m => i - m \in 1 .. n /\ m + (i - m) = i
  OBVIOUS
<1>4. \A i \in 1 .. n : m + i \in 1 .. m + n
  OBVIOUS
<1>5. Elements(p \o q) \subseteq Elements(p) \cup Elements(q)
  <2>1. SUFFICES ASSUME NEW i \in 1 .. m + n
                 PROVE  (p \o q)[i] \in Elements(p) \cup Elements(q)
    BY <1>2 DEF Elements
  <2>2. CASE i \in 1 .. m
    BY <1>1, <1>2, <2>2 DEF Elements
  <2>3. CASE i \notin 1 .. m
    <3>1. PICK j \in 1 .. n : m + j = i
      BY <1>3, <2>3
    <3> QED
      BY <1>1, <1>2, <3>1 DEF Elements
  <2> QED
    BY <2>2, <2>3
<1>6. Elements(p) \cup Elements(q) \subseteq Elements(p \o q)
  <2>1. \A i \in 1 .. m : i \in 1 .. m + n
    OBVIOUS
  <2> QED
    BY <1>1, <1>2, <1>4, <2>1 DEF Elements
<1> QED
  BY <1>1, <1>2, <1>5, <1>6

\* A sequence that is not empty has its first element.
LEMMA FirstElement ==
  ASSUME NEW q \in Seq(Events), q # <<>>
  PROVE  q[1] \in Elements(q)
BY DEF Elements

\* The log of a step: every stream keeps its events, and what is new in it was
\* not stored before.
Extends ==
  \A s \in Streams :
    /\ Len(log'[s]) \in Nat /\ Len(log[s]) =< Len(log'[s])
    /\ \A n \in 1 .. Len(log[s]) : log'[s][n] = log[s][n]
    /\ \A n \in 1 .. Len(log'[s]) : n \notin 1 .. Len(log[s]) => log'[s][n] \notin Stored

\* What is known of events that have been applied does not change.
BasisKept == \A e \in Events : ~ Fresh(e) => basis'[e] = basis[e]

\* What follows from the log only growing.
LEMMA ExtendsFacts ==
  ASSUME TypeOK, Extends
  PROVE  /\ Stored \subseteq Stored'
         /\ \A s \in Streams :
              /\ Revision(s) \in Int /\ Revision(s)' \in Int /\ Revision(s) =< Revision(s)'
              /\ log[s] # <<>> => log'[s] # <<>>
              /\ Elements(log[s]) \subseteq Elements(log'[s])
              /\ Revision(s)' = Revision(s) => Elements(log'[s]) = Elements(log[s])
         /\ \A s \in Streams : \A n \in 1 .. Len(log'[s]) :
              log'[s][n] \in Stored => n \in 1 .. Len(log[s]) /\ log'[s][n] = log[s][n]
<1>1. \A s \in Streams : Len(log[s]) \in Nat
  BY Fields
<1>2. \A s \in Streams :
        /\ Revision(s) \in Int /\ Revision(s)' \in Int /\ Revision(s) =< Revision(s)'
        /\ Revision(s)' = Revision(s) => Len(log'[s]) = Len(log[s])
  BY <1>1 DEF Extends, Revision
<1>7. \A s \in Streams : log[s] # <<>> => log'[s] # <<>>
  <2> SUFFICES ASSUME NEW s \in Streams, log[s] # <<>>, log'[s] = <<>> PROVE FALSE
    OBVIOUS
  <2>1. Len(log'[s]) = 0 /\ Len(log[s]) \in Nat \ {0}
    BY Fields
  <2> QED
    BY <2>1 DEF Extends
<1>3. \A s \in Streams : Elements(log[s]) \subseteq Elements(log'[s])
  <2> SUFFICES ASSUME NEW s \in Streams, NEW n \in 1 .. Len(log[s])
               PROVE  log[s][n] \in Elements(log'[s])
    BY DEF Elements
  <2>1. n \in 1 .. Len(log'[s]) /\ log'[s][n] = log[s][n]
    BY <1>1 DEF Extends
  <2> QED
    BY <2>1 DEF Elements
<1>4. \A s \in Streams : Len(log'[s]) = Len(log[s]) => Elements(log'[s]) = Elements(log[s])
  BY DEF Extends, Elements
<1>5. Stored \subseteq Stored'
  BY <1>3 DEF Stored
<1>6. \A s \in Streams : \A n \in 1 .. Len(log'[s]) :
        log'[s][n] \in Stored => n \in 1 .. Len(log[s]) /\ log'[s][n] = log[s][n]
  BY DEF Extends
<1> QED
  BY <1>2, <1>3, <1>4, <1>5, <1>6, <1>7

\* A step that stores nothing.
LEMMA Quiet ==
  ASSUME IInv, log' = log, BasisKept
  PROVE  Extends /\ Stored' = Stored /\ StoredNotFresh' /\ StreamsCreated' /\ NoBlindWrites'
<1>1. Extends
  BY Fields DEF IInv, Extends
<1>2. Stored' = Stored
  BY DEF Stored
<1>3. \A s \in Streams : \A n \in 1 .. Len(log[s]) : log[s][n] \in Stored /\ log[s][n] \in Events
  BY Fields DEF IInv, Stored, Elements
<1>4. \A e \in Stored : e \in Events /\ ~ Fresh(e) /\ basis'[e] = basis[e]
  <2>1. Stored \subseteq Events
    BY Fields DEF IInv, Stored
  <2> QED
    BY <2>1 DEF IInv, StoredNotFresh, BasisKept
<1>5. StoredNotFresh'
  BY <1>2, <1>4 DEF StoredNotFresh, Fresh
<1>6. NoBlindWrites'
  <2> SUFFICES ASSUME NEW s \in Streams, NEW i \in 1 .. Len(log[s])
               PROVE  Before(log[s], i) \subseteq basis'[log[s][i]]
    BY DEF NoBlindWrites
  <2> QED
    BY <1>3, <1>4 DEF IInv, NoBlindWrites
<1>7. StreamsCreated'
  BY DEF IInv, StreamsCreated
<1> QED
  BY <1>1, <1>2, <1>5, <1>6, <1>7

\* An aggregate that is left alone stays sound: if its stream has grown, its
\* version is too low.
LEMMA AggKept ==
  ASSUME IInv, Extends, BasisKept, NEW h \in Handlers, agg'[h] = agg[h]
  PROVE  AggSound(h)'
<1> SUFFICES ASSUME Has(h) PROVE AggSound(h)'
  BY DEF AggSound, Has
<1> DEFINE s == agg[h].stream
           u == agg[h].uncommitted
<1>1. /\ s \in Streams /\ agg[h].version \in Int /\ agg[h].seen \subseteq Events
  BY Fields DEF IInv
<1>2. /\ agg[h].version =< Revision(s)
      /\ agg[h].version = Revision(s) => Elements(log[s]) \subseteq agg[h].seen
      /\ Elements(u) \subseteq agg[h].seen /\ Distinct(u)
      /\ agg[h].version = Revision(s) /\ Unstored(u) =>
           \A i \in 1 .. Len(u) : Elements(log[s]) \cup Before(u, i) \subseteq basis[u[i]]
      /\ \A e \in agg[h].seen : ~ Fresh(e)
      /\ log[s] = <<>> => agg[h].seen \subseteq Elements(u)
  BY DEF IInv, AggSound
<1>3. /\ Revision(s) \in Int /\ Revision(s)' \in Int /\ Revision(s) =< Revision(s)'
      /\ Revision(s)' = Revision(s) => Elements(log'[s]) = Elements(log[s])
      /\ Stored \subseteq Stored' /\ (log[s] # <<>> => log'[s] # <<>>)
  BY <1>1, ExtendsFacts DEF IInv
<1>4. \A e \in agg[h].seen : ~ Fresh(e) /\ basis'[e] = basis[e]
  BY <1>1, <1>2 DEF BasisKept
<1>5. \A i \in 1 .. Len(u) : u[i] \in agg[h].seen
  BY <1>2 DEF Elements
<1>6. s' = s /\ u' = u /\ agg'[h].version = agg[h].version /\ agg'[h].seen = agg[h].seen
  OBVIOUS
<1>7. agg[h].version = Revision(s)' =>
        agg[h].version = Revision(s) /\ Elements(log'[s]) = Elements(log[s])
  BY <1>1, <1>2, <1>3
<1>8. Unstored(u)' => Unstored(u)
  BY <1>3, <1>6 DEF Unstored
<1>9. agg[h].version =< Revision(s)'
  BY <1>1, <1>2, <1>3
<1>10. Distinct(u)'
  BY <1>2 DEF Distinct
<1>11. \A e \in agg[h].seen : (~ Fresh(e))'
  BY <1>4 DEF Fresh
<1>12. agg[h].version = Revision(s)' /\ Unstored(u)' =>
         \A i \in 1 .. Len(u) : Elements(log'[s]) \cup Before(u, i) \subseteq basis'[u[i]]
  BY <1>2, <1>4, <1>5, <1>7, <1>8
<1>13. agg[h].version = Revision(s)' => Elements(log'[s]) \subseteq agg[h].seen
  BY <1>2, <1>7
<1>14. log'[s] = <<>> => agg[h].seen \subseteq Elements(u)
  BY <1>2, <1>3
<1> QED
  BY <1>2, <1>6, <1>9, <1>10, <1>11, <1>12, <1>13, <1>14 DEF AggSound

\* A call stays sound, for the same reason.
LEMMA CallKept ==
  ASSUME IInv, Extends, BasisKept, NEW c \in Commits,
         open'[c] = open[c] \/ open'[c] = NoCall,
         open'[c] = open[c] /\ com'[c].step # "appending" =>
           faults' # 0 \/ (faults' = faults /\ com[c].step # "appending")
  PROVE  CallSound(c)'
<1> SUFFICES ASSUME Calling(c), open'[c] = open[c] PROVE CallSound(c)'
  BY DEF CallSound, Calling
<1> DEFINE s == open[c].stream
           b == open[c].batch
<1>1. s \in Streams /\ open[c].expected \in Int /\ b \in Seq(Events)
  BY Fields DEF IInv
<1>2. /\ b # <<>> /\ open[c].expected =< Revision(s)
      /\ Accepted(c) =>
           \A i \in 1 .. Len(b) : Elements(log[s]) \cup Before(b, i) \subseteq basis[b[i]]
      /\ \A e \in Elements(b) : ~ Fresh(e)
      /\ \E e \in Elements(log[s]) \cup Elements(b) : Type[e] = UserCreated
      /\ com[c].step # "appending" => faults # 0
  BY DEF IInv, CallSound
<1>3. /\ Revision(s) \in Int /\ Revision(s)' \in Int /\ Revision(s) =< Revision(s)'
      /\ Revision(s)' = Revision(s) => Elements(log'[s]) = Elements(log[s])
      /\ Elements(log[s]) \subseteq Elements(log'[s])
      /\ Stored \subseteq Stored'
  BY <1>1, ExtendsFacts DEF IInv
<1>4. \A i \in 1 .. Len(b) : b[i] \in Elements(b) /\ b[i] \in Events
  BY <1>1 DEF Elements
<1>5. \A e \in Elements(b) : ~ Fresh(e) /\ basis'[e] = basis[e]
  BY <1>1, <1>2, <1>4 DEF BasisKept, Elements
<1>6. Accepted(c)' => Accepted(c) /\ Elements(log'[s]) = Elements(log[s])
  <2> SUFFICES ASSUME Accepted(c)' PROVE Accepted(c) /\ Elements(log'[s]) = Elements(log[s])
    OBVIOUS
  <2>1. open[c].expected = Revision(s)' /\ Elements(b) \cap Stored' = {}
    BY DEF Accepted
  <2>2. open[c].expected = Revision(s) /\ Revision(s)' = Revision(s)
    BY <1>1, <1>2, <1>3, <2>1
  <2> QED
    BY <1>3, <2>1, <2>2 DEF Accepted
<1>7. Accepted(c)' =>
        \A i \in 1 .. Len(b) : Elements(log'[s]) \cup Before(b, i) \subseteq basis'[b[i]]
  BY <1>2, <1>4, <1>5, <1>6
<1>8. open[c].expected =< Revision(s)'
  BY <1>1, <1>2, <1>3
<1>9. \A e \in Elements(b) : (~ Fresh(e))'
  BY <1>5 DEF Fresh
<1>10. \E e \in Elements(log'[s]) \cup Elements(b) : Type[e] = UserCreated
  BY <1>2, <1>3
<1>11. com'[c].step # "appending" => faults' # 0
  BY <1>2
<1>12. s' = s /\ b' = b /\ open'[c].expected = open[c].expected
  OBVIOUS
<1> QED
  BY <1>2, <1>7, <1>8, <1>9, <1>10, <1>11, <1>12 DEF CallSound

\* A commit stays sound while others work with its aggregate.
LEMMA ComKept ==
  ASSUME IInv, Extends, NEW c \in Commits, com'[c] = com[c],
         com[c].step = "appending" => open'[c] = open[c],
         com[c] # NoCommit =>
           /\ Has(com[c].of)' /\ agg'[com[c].of].stream = agg[com[c].of].stream
           /\ agg[com[c].of].seen \subseteq agg'[com[c].of].seen
           /\ com[c].step = "appending" =>
                \/ agg'[com[c].of].version = agg[com[c].of].version
                \/ ~ Unstored(com[c].copy)'
           /\ Projecting(c) =>
                /\ Elements(com[c].copy) \cap Published' = {}
                /\ agg'[com[c].of].uncommitted # <<>>
                /\ agg'[com[c].of].uncommitted[1] = agg[com[c].of].uncommitted[1]
  PROVE  ComSound(c)'
<1> SUFFICES ASSUME com[c] # NoCommit PROVE ComSound(c)'
  BY DEF ComSound
<1> DEFINE h == com[c].of
           q == com[c].copy
<1>1. /\ Has(h) /\ Distinct(q) /\ Elements(q) \subseteq agg[h].seen
      /\ com[c].step = "appending" =>
           /\ Calling(c) /\ open[c].stream = agg[h].stream /\ open[c].batch = q
           /\ Unstored(q) => open[c].expected = agg[h].version
      /\ Projecting(c) =>
           /\ log[agg[h].stream] # <<>> /\ Elements(q) \subseteq Stored \ Published
           /\ agg[h].uncommitted # <<>> /\ agg[h].uncommitted[1] \in Elements(q)
  BY DEF IInv, ComSound
<1>2. Stored \subseteq Stored' /\ (log[agg[h].stream] # <<>> => log'[agg[h].stream] # <<>>)
  <2>1. h \in Handlers /\ agg[h].stream \in Streams
    BY <1>1, Fields DEF IInv
  <2> QED
    BY <2>1, ExtendsFacts DEF IInv
<1>3. h' = h /\ q' = q /\ Projecting(c)' = Projecting(c)
  BY DEF Projecting
<1>4. Unstored(q)' => Unstored(q)
  BY <1>2, <1>3 DEF Unstored
<1>5. Distinct(q)'
  BY <1>1, <1>3 DEF Distinct
<1>6. com[c].step = "appending" =>
        /\ Calling(c)' /\ open'[c].stream = agg'[h].stream /\ open'[c].batch = q
        /\ Unstored(q)' => open'[c].expected = agg'[h].version
  BY <1>1, <1>4 DEF Calling
<1>7. Projecting(c) =>
        /\ log'[agg'[h].stream] # <<>> /\ Elements(q) \subseteq Stored' \ Published'
        /\ agg'[h].uncommitted # <<>> /\ agg'[h].uncommitted[1] \in Elements(q)
  BY <1>1, <1>2
<1> QED
  BY <1>1, <1>3, <1>5, <1>6, <1>7 DEF ComSound

\* An append stays the one that has the first uncommitted event.
LEMMA SharedKept ==
  ASSUME IInv, Extends, NEW c \in Commits, NEW h \in Handlers,
         open'[c] = open[c] \/ open'[c] = NoCall,
         Has(h)' =>
           /\ \A e \in agg'[h].seen : Fresh(e) \/ e \in Stored \/ (Has(h) /\ e \in agg[h].seen)
           /\ Has(h) /\ agg[h].uncommitted # <<>> =>
                \/ /\ agg'[h].uncommitted # <<>>
                   /\ agg'[h].uncommitted[1] = agg[h].uncommitted[1]
                \/ agg[h].uncommitted[1] \in Stored
  PROVE  Shared(c, h)'
<1> SUFFICES ASSUME Calling(c)', Has(h)', Unstored(open[c].batch)',
                    Elements(open[c].batch) \cap agg'[h].seen # {}, open'[c] = open[c]
             PROVE  /\ agg'[h].uncommitted # <<>>
                    /\ agg'[h].uncommitted[1] \in Elements(open[c].batch)
  BY DEF Shared, Calling
<1>1. Calling(c)
  BY DEF Calling
<1>2. Unstored(open[c].batch)
  BY ExtendsFacts DEF IInv, Unstored
<1>3. Has(h) /\ Elements(open[c].batch) \cap agg[h].seen # {}
  <2>1. \A e \in Elements(open[c].batch) : ~ Fresh(e)
    BY <1>1 DEF IInv, CallSound
  <2> QED
    BY <1>2, <2>1 DEF Unstored
<1>4. agg[h].uncommitted # <<>> /\ agg[h].uncommitted[1] \in Elements(open[c].batch)
  BY <1>1, <1>2, <1>3 DEF IInv, Shared
<1>5. agg[h].uncommitted[1] \notin Stored
  BY <1>2, <1>4 DEF Unstored
<1> QED
  BY <1>3, <1>4, <1>5

\* Handlers that learn nothing share nothing new.
LEMMA PrivateKept ==
  ASSUME IInv, Extends, NEW h \in Handlers, NEW k \in Handlers,
         agg'[h] = agg[h] \/ agg'[h] = NoAggregate \/ (Has(h) /\ agg'[h].seen = agg[h].seen),
         agg'[k] = agg[k] \/ agg'[k] = NoAggregate \/ (Has(k) /\ agg'[k].seen = agg[k].seen)
  PROVE  Private(h, k)'
<1>1. Stored \subseteq Stored'
  BY ExtendsFacts DEF IInv
<1> QED
  BY <1>1 DEF IInv, Private, Has

\* Stored events keep their order.
LEMMA InOrderKept ==
  ASSUME TypeOK, Extends, NEW a \in Stored, NEW b \in Stored, InOrder(a, b)
  PROVE  InOrder(a, b)'
<1> SUFFICES ASSUME NEW s \in Streams, NEW m \in 1 .. Len(log'[s]), NEW n \in 1 .. Len(log'[s]),
                    log'[s][m] = a, log'[s][n] = b
             PROVE  m < n
  BY DEF InOrder
<1>1. m \in 1 .. Len(log[s]) /\ n \in 1 .. Len(log[s]) /\ log[s][m] = a /\ log[s][n] = b
  BY ExtendsFacts
<1> QED
  BY <1>1 DEF InOrder

\* What is about to be published stays in order.
LEMMA CopyKept ==
  ASSUME IInv, Extends, NEW c \in Commits,
         com'[c] = com[c] \/ ~ Projecting(c)',
         Projecting(c) => bus'[com[c].of] = bus[com[c].of]
  PROVE  CopyOrdered(c)'
<1> SUFFICES ASSUME Projecting(c), com'[c] = com[c] PROVE CopyOrdered(c)'
  BY DEF CopyOrdered, Projecting
<1> DEFINE q == com[c].copy
           p == bus[com[c].of]
<1>1. com[c] # NoCommit /\ com[c].of \in Handlers
  BY Fields DEF IInv, Projecting
<1>2. Elements(q) \subseteq Stored /\ Elements(p) \subseteq Stored
  BY <1>1 DEF IInv, ComSound, PublishedInOrder, Published
<1>3. \A i \in 1 .. Len(q) : q[i] \in Stored
  BY <1>2 DEF Elements
<1>4. /\ \A i, j \in 1 .. Len(q) : i < j => InOrder(q[i], q[j])
      /\ \A a \in Elements(p), b \in Elements(q) : InOrder(a, b)
  BY DEF IInv, CopyOrdered
<1>5. TypeOK
  BY DEF IInv
<1>6. \A i, j \in 1 .. Len(q) : i < j => InOrder(q[i], q[j])'
  BY <1>3, <1>4, <1>5, InOrderKept
<1>7. \A a \in Elements(p), b \in Elements(q) : InOrder(a, b)'
  BY <1>2, <1>4, <1>5, InOrderKept
<1>8. q' = q /\ p' = p
  OBVIOUS
<1> QED
  BY <1>6, <1>7, <1>8 DEF CopyOrdered

\* What is published stays in order.
LEMMA BusKept ==
  ASSUME IInv, Extends, bus' = bus
  PROVE  PublishedInOrder'
<1>1. Published' = Published /\ Stored \subseteq Stored' /\ Published \subseteq Stored
  BY ExtendsFacts DEF IInv, Published, PublishedInOrder
<1>2. \A h \in Handlers : \A i, j \in 1 .. Len(bus[h]) :
        i < j => InOrder(bus[h][i], bus[h][j])'
  <2> SUFFICES ASSUME NEW h \in Handlers, NEW i \in 1 .. Len(bus[h]), NEW j \in 1 .. Len(bus[h]),
                      i < j
               PROVE  InOrder(bus[h][i], bus[h][j])'
    OBVIOUS
  <2>1. bus[h][i] \in Stored /\ bus[h][j] \in Stored
    BY <1>1 DEF Published, Elements
  <2>2. InOrder(bus[h][i], bus[h][j]) /\ TypeOK
    BY DEF IInv, PublishedInOrder
  <2> DEFINE a == bus[h][i]
             b == bus[h][j]
  <2>3. a' = a /\ b' = b
    OBVIOUS
  <2>4. \A x \in Stored, y \in Stored : InOrder(x, y) => InOrder(x, y)'
    BY <2>2, InOrderKept
  <2> QED
    BY <2>1, <2>2, <2>3, <2>4
<1> QED
  BY <1>1, <1>2 DEF IInv, PublishedInOrder

\* The reason of a refusal remains.
LEMMA RefusalKept ==
  ASSUME IInv, Extends, NEW c \in Commits,
         com'[c] = com[c] \/ com'[c].step # "refused",
         com[c].step = "refused" /\ com'[c] = com[c] =>
           /\ agg'[com[c].of].stream = agg[com[c].of].stream
           /\ \A e \in agg'[com[c].of].seen : Fresh(e) \/ e \in agg[com[c].of].seen,
         com'[c].step = "refused"
  PROVE  \/ ~ (Elements(log'[agg'[com'[c].of].stream]) \subseteq agg'[com'[c].of].seen)
         \/ Elements(com'[c].copy) \cap Stored' # {}
<1> DEFINE h == com[c].of
<1>1. com'[c] = com[c] /\ com[c].step = "refused"
  OBVIOUS
<1>2. /\ h \in Handlers /\ agg[h].stream \in Streams
  <2>1. com[c] # NoCommit /\ h \in Handlers
    BY <1>1, Fields DEF IInv
  <2>2. Has(h)
    BY <2>1 DEF IInv, ComSound
  <2> QED
    BY <2>1, <2>2, Fields DEF IInv
<1>3. \/ ~ (Elements(log[agg[h].stream]) \subseteq agg[h].seen)
      \/ Elements(com[c].copy) \cap Stored # {}
  BY <1>1 DEF IInv, RefusalExplained
<1>4. /\ Stored \subseteq Stored'
      /\ Elements(log[agg[h].stream]) \subseteq Elements(log'[agg[h].stream])
      /\ Elements(log[agg[h].stream]) \subseteq Stored
  <2>1. Elements(log[agg[h].stream]) \subseteq Stored
    BY <1>2 DEF Stored
  <2> QED
    BY <1>2, <2>1, ExtendsFacts DEF IInv
<1>5. ASSUME NEW e \in Elements(log[agg[h].stream]), e \notin agg[h].seen
      PROVE  e \in Elements(log'[agg'[h].stream]) /\ e \notin agg'[h].seen
  <2>1. ~ Fresh(e)
    BY <1>4 DEF IInv, StoredNotFresh
  <2> QED
    BY <1>1, <1>4, <1>5, <2>1
<1>6. com'[c].of = h /\ com'[c].copy = com[c].copy
  BY <1>1
<1>7. CASE ~ (Elements(log[agg[h].stream]) \subseteq agg[h].seen)
  <2>1. PICK e \in Elements(log[agg[h].stream]) : e \notin agg[h].seen
    BY <1>7
  <2> QED
    BY <1>5, <1>6, <2>1
<1>8. CASE Elements(com[c].copy) \cap Stored # {}
  BY <1>4, <1>6, <1>8
<1> QED
  BY <1>3, <1>7, <1>8

\* Nothing new of what it knows in the stream of an aggregate.
LEMMA CountedKept ==
  ASSUME IInv, Extends, NEW h \in Handlers,
         Has(h)' =>
           /\ Has(h)
           /\ agg'[h].stream = agg[h].stream /\ agg'[h].version = agg[h].version
           /\ agg[h].seen \subseteq agg'[h].seen
           /\ \A e \in agg'[h].seen : e \in Stored' => e \in agg[h].seen
           /\ \A n \in 1 .. Len(log'[agg[h].stream]) :
                n \notin 1 .. Len(log[agg[h].stream]) =>
                  log'[agg[h].stream][n] \notin agg[h].seen
           /\ \/ ~ HeadUnstored(h)'
              \/ HeadUnstored(h)
              \/ \E c \in Commits : Projecting(c) /\ com[c].of = h
           /\ \A c \in Commits : Projecting(c)' /\ com'[c].of = h =>
                Projecting(c) /\ com[c].of = h
  PROVE  Counted(h)'
<1> SUFFICES ASSUME Has(h)',
                    \/ HeadUnstored(h)'
                    \/ \E c \in Commits : Projecting(c)' /\ com'[c].of = h
             PROVE  Cardinality(Known(h)') =< agg'[h].version + 1
  BY DEF Counted
<1> DEFINE s == agg[h].stream
<1>1. Has(h) /\ s \in Streams
  BY Fields DEF IInv
<1>2. Cardinality(Known(h)) =< agg[h].version + 1
  BY <1>1 DEF IInv, Counted
<1>3. Known(h)' = Known(h)
  <2>1. ASSUME NEW n \in 1 .. Len(log'[s]), log'[s][n] \in agg'[h].seen
        PROVE  n \in 1 .. Len(log[s]) /\ log[s][n] \in agg[h].seen
    <3>1. log'[s][n] \in Stored'
      BY <1>1 DEF Stored, Elements
    <3>2. log'[s][n] \in agg[h].seen
      BY <2>1, <3>1
    <3>3. n \in 1 .. Len(log[s])
      BY <3>2
    <3> QED
      BY <1>1, <3>2, <3>3 DEF Extends
  <2>2. ASSUME NEW n \in 1 .. Len(log[s]), log[s][n] \in agg[h].seen
        PROVE  n \in 1 .. Len(log'[s]) /\ log'[s][n] = log[s][n]
    BY <1>1, Fields DEF IInv, Extends
  <2> QED
    BY <2>1, <2>2 DEF Known
<1> QED
  BY <1>2, <1>3
-----------------------------------------------------------------------------

\* What the database carries out, seen from here.
LEMMA EffectOf ==
  ASSUME IInv, NEW c \in Commits, Stream!TakeEffect(c)
  PROVE  /\ Calling(c) /\ Accepted(c)
         /\ open[c].stream \in Streams /\ open[c].batch \in Seq(Events)
         /\ open[c].batch # <<>>
         /\ log' \in [Streams -> Seq(Events)]
         /\ \A s \in Streams \ {open[c].stream} : log'[s] = log[s]
         /\ log'[open[c].stream] = log[open[c].stream] \o open[c].batch
         /\ open' \in [Commits -> Calls \cup {NoCall}]
         /\ open'[c] = NoCall /\ \A d \in Commits \ {c} : open'[d] = open[d]
<1>1. /\ Calling(c) /\ open[c].expected \in {-2, Revision(open[c].stream)}
      /\ \A i \in 1 .. Len(open[c].batch) : ~ Stream!Stored(open[c].batch[i])
      /\ log' = [log EXCEPT ![open[c].stream] = @ \o open[c].batch]
      /\ open' = [open EXCEPT ![c] = NoCall]
  BY DEF Stream!TakeEffect, Stream!NoCall, Stream!Any, Stream!Revision, NoCall, Calling,
         Revision
<1>2. /\ open[c].stream \in Streams /\ open[c].batch \in Seq(Events)
      /\ open[c].expected >= -1 /\ open[c].batch # <<>>
  BY <1>1, Fields DEF IInv, CallSound
<1>3. Accepted(c)
  <2>1. open[c].expected = Revision(open[c].stream)
    BY <1>1, <1>2
  <2>2. ASSUME NEW e \in Elements(open[c].batch), NEW s \in Streams, e \in Elements(log[s])
        PROVE  FALSE
    BY <1>1, <2>2 DEF Elements, Stream!Stored
  <2> QED
    BY <2>1, <2>2 DEF Accepted, Stored
<1>4. log[open[c].stream] \o open[c].batch \in Seq(Events)
  BY <1>2, Concatenation, Fields DEF IInv
<1> QED
  BY <1>1, <1>2, <1>3, <1>4 DEF IInv, TypeOK

\* A call that ends without an effect.
LEMMA NoEffectOf ==
  ASSUME TypeOK, NEW c \in Commits, Stream!Refuse(c)
  PROVE  /\ Calling(c) /\ log' = log
         /\ open' \in [Commits -> Calls \cup {NoCall}]
         /\ open'[c] = NoCall
         /\ \A d \in Commits \ {c} : open'[d] = open[d]
  BY DEF Stream!Refuse, Stream!NoCall, NoCall, Calling, TypeOK

\* An accepted append stores its events behind those of the stream.
LEMMA AppendExtends ==
  ASSUME IInv, NEW c \in Commits, Stream!TakeEffect(c)
  PROVE  /\ Extends /\ Stored' = Stored \cup Elements(open[c].batch)
         /\ \A s \in Streams : \A n \in 1 .. Len(log'[s]) : n \notin 1 .. Len(log[s]) =>
              /\ s = open[c].stream
              /\ \E i \in 1 .. Len(open[c].batch) :
                   n = Len(log[s]) + i /\ log'[s][n] = open[c].batch[i]
<1> DEFINE s0 == open[c].stream
           u  == open[c].batch
<1>1. /\ Accepted(c) /\ s0 \in Streams /\ u \in Seq(Events)
      /\ \A s \in Streams \ {s0} : log'[s] = log[s]
      /\ log'[s0] = log[s0] \o u
  BY EffectOf
<1>2. \A s \in Streams : log[s] \in Seq(Events) /\ Len(log[s]) \in Nat
  BY Fields DEF IInv
<1> HIDE DEF s0, u
<1>3. /\ Len(log'[s0]) = Len(log[s0]) + Len(u) /\ Len(u) \in Nat
      /\ \A i \in 1 .. Len(log[s0]) : log'[s0][i] = log[s0][i]
      /\ \A i \in 1 .. Len(u) : log'[s0][Len(log[s0]) + i] = u[i]
      /\ Elements(log'[s0]) = Elements(log[s0]) \cup Elements(u)
  BY <1>1, <1>2, Concatenation
<1>4. Elements(u) \cap Stored = {}
  BY <1>1 DEF Accepted, u
<1>5. \A s \in Streams : \A n \in 1 .. Len(log'[s]) : n \notin 1 .. Len(log[s]) =>
        s = s0 /\ \E i \in 1 .. Len(u) : n = Len(log[s]) + i /\ log'[s][n] = u[i]
  <2> SUFFICES ASSUME NEW s \in Streams, NEW n \in 1 .. Len(log'[s]), n \notin 1 .. Len(log[s])
               PROVE  s = s0 /\ \E i \in 1 .. Len(u) : n = Len(log[s]) + i /\ log'[s][n] = u[i]
    OBVIOUS
  <2>1. s = s0
    BY <1>1
  <2>2. n - Len(log[s0]) \in 1 .. Len(u) /\ n = Len(log[s0]) + (n - Len(log[s0]))
    BY <1>2, <1>3, <2>1
  <2> QED
    BY <1>3, <2>1, <2>2
<1>6. Extends
  <2>1. \A s \in Streams : /\ Len(log'[s]) \in Nat /\ Len(log[s]) =< Len(log'[s])
                           /\ \A n \in 1 .. Len(log[s]) : log'[s][n] = log[s][n]
    <3> TAKE s \in Streams
    <3>1. CASE s = s0
      BY <1>1, <1>2, <1>3, <3>1
    <3>2. CASE s # s0
      BY <1>1, <1>2, <3>2
    <3> QED
      BY <3>1, <3>2
  <2>2. \A i \in 1 .. Len(u) : u[i] \notin Stored
    BY <1>4 DEF Elements
  <2> QED
    BY <1>5, <2>1, <2>2 DEF Extends
<1>7. Stored' = Stored \cup Elements(u)
  <2>1. Stored' \subseteq Stored \cup Elements(u)
    BY <1>1, <1>3 DEF Stored
  <2>2. Stored \subseteq Stored'
    BY <1>6, ExtendsFacts DEF IInv
  <2>3. Elements(u) \subseteq Stored'
    BY <1>1, <1>3 DEF Stored
  <2> QED
    BY <2>1, <2>2, <2>3
<1> QED
  BY <1>5, <1>6, <1>7 DEF s0, u

\* An accepted append leaves every event with its whole history.
LEMMA AppendSeesHistory ==
  ASSUME IInv, NEW c \in Commits, Stream!TakeEffect(c), UNCHANGED basis
  PROVE  NoBlindWrites' /\ StoredNotFresh' /\ StreamsCreated'
<1> DEFINE s0 == open[c].stream
           u  == open[c].batch
<1>1. /\ Accepted(c) /\ Calling(c) /\ s0 \in Streams /\ u \in Seq(Events)
      /\ \A s \in Streams \ {s0} : log'[s] = log[s]
      /\ log'[s0] = log[s0] \o u
  BY EffectOf
<1>2. /\ \A i \in 1 .. Len(u) : Elements(log[s0]) \cup Before(u, i) \subseteq basis[u[i]]
      /\ \A e \in Elements(u) : ~ Fresh(e)
      /\ \E e \in Elements(log[s0]) \cup Elements(u) : Type[e] = UserCreated
  BY <1>1 DEF IInv, CallSound
<1>3. Extends /\ Stored' = Stored \cup Elements(u)
  BY AppendExtends
<1>4. \A s \in Streams : \A n \in 1 .. Len(log'[s]) : n \notin 1 .. Len(log[s]) =>
        s = s0 /\ \E i \in 1 .. Len(u) : n = Len(log[s]) + i /\ log'[s][n] = u[i]
  BY AppendExtends
<1>5. \A s \in Streams : Len(log[s]) \in Nat /\ log[s] \in Seq(Events)
  BY Fields DEF IInv
<1>6. Elements(log'[s0]) = Elements(log[s0]) \cup Elements(u)
  BY <1>1, <1>5, Concatenation
<1> HIDE DEF s0, u
<1>7. NoBlindWrites'
  <2> SUFFICES ASSUME NEW s \in Streams, NEW n \in 1 .. Len(log'[s]), NEW m \in 1 .. n - 1
               PROVE  log'[s][m] \in basis[log'[s][n]]
    BY DEF NoBlindWrites, Before
  <2>1. CASE n \in 1 .. Len(log[s])
    <3>1. m \in 1 .. Len(log[s]) /\ log'[s][m] = log[s][m] /\ log'[s][n] = log[s][n]
      BY <1>3, <1>5, <2>1 DEF Extends
    <3> QED
      BY <2>1, <3>1 DEF IInv, NoBlindWrites, Before
  <2>2. CASE n \notin 1 .. Len(log[s])
    <3>1. PICK i \in 1 .. Len(u) : n = Len(log[s]) + i /\ log'[s][n] = u[i] /\ s = s0
      BY <1>4, <2>2
    <3>2. CASE m \in 1 .. Len(log[s])
      <4>1. log'[s][m] \in Elements(log[s0])
        BY <1>3, <3>1, <3>2 DEF Extends, Elements
      <4> QED
        BY <1>2, <3>1, <4>1
    <3>3. CASE m \notin 1 .. Len(log[s])
      <4>1. m \in 1 .. Len(log'[s])
        BY <1>3 DEF Extends
      <4>2. PICK j \in 1 .. Len(u) : m = Len(log[s]) + j /\ log'[s][m] = u[j]
        BY <1>4, <3>3, <4>1
      <4>3. j \in 1 .. i - 1
        BY <1>5, <3>1, <4>2
      <4> QED
        BY <1>2, <3>1, <4>2, <4>3 DEF Before
    <3> QED
      BY <3>2, <3>3
  <2> QED
    BY <2>1, <2>2
<1>8. StoredNotFresh'
  BY <1>2, <1>3 DEF IInv, StoredNotFresh, Fresh
<1>9. StreamsCreated'
  <2> SUFFICES ASSUME NEW s \in Streams, log'[s] # <<>>
               PROVE  \E e \in Elements(log'[s]) : Type[e] = UserCreated
    BY DEF StreamsCreated
  <2>1. CASE s = s0
    BY <1>2, <1>6, <2>1
  <2>2. CASE s # s0
    BY <1>1, <2>2 DEF IInv, StreamsCreated
  <2> QED
    BY <2>1, <2>2
<1> QED
  BY <1>7, <1>8, <1>9
-----------------------------------------------------------------------------
\* The empty event store satisfies the invariant.
THEOREM InitCorrect == Init => IInv
<1> SUFFICES ASSUME Init PROVE IInv
  OBVIOUS
<1>1. \A s \in Streams : log[s] = <<>> /\ Elements(log[s]) = {}
  BY DEF Init, Elements
<1>2. Stored = {}
  BY <1>1 DEF Stored
<1>3. Published = {} /\ \A h \in Handlers : Elements(bus[h]) = {}
  BY DEF Init, Published, Elements
<1>4. TypeOK
  BY UnitOfWorkAssumption DEF Init, TypeOK, Has
<1>5. \A h, k \in Handlers : AggSound(h) /\ Counted(h) /\ Private(h, k)
  BY DEF Init, AggSound, Counted, Private, Has
<1>6. \A c, d \in Commits : /\ CallSound(c) /\ ComSound(c) /\ CopyOrdered(c) /\ Apart(c, d)
                            /\ \A h \in Handlers : Shared(c, h)
  BY DEF Init, CallSound, ComSound, CopyOrdered, Apart, Shared, Calling, Projecting, NoCommit
<1>7. StoredNotFresh /\ NoBlindWrites /\ StreamsCreated /\ StoredIsPublished
  BY <1>1, <1>2 DEF StoredNotFresh, NoBlindWrites, StreamsCreated, StoredIsPublished
<1>8. PublishedInOrder
  BY <1>3 DEF Init, PublishedInOrder
<1>9. RefusalExplained
  BY DEF Init, RefusalExplained, NoCommit
<1> QED
  BY <1>4, <1>5, <1>6, <1>7, <1>8, <1>9 DEF IInv

\* A step of a handler on its aggregate, outside of commits.
LEMMA HandlerStep ==
  ASSUME IInv, NEW h \in Handlers, TypeOK', AggSound(h)', Counted(h)',
         UNCHANGED <<log, open, com, bus, faults>>, BasisKept,
         \A k \in Handlers \ {h} : agg'[k] = agg[k],
         Has(h)' => \A e \in agg'[h].seen :
           Fresh(e) \/ e \in Stored \/ (Has(h) /\ e \in agg[h].seen),
         Has(h) =>
           /\ Has(h)' /\ agg'[h].stream = agg[h].stream /\ agg'[h].version = agg[h].version
           /\ \A e \in agg'[h].seen : Fresh(e) \/ e \in agg[h].seen
           /\ agg[h].seen \subseteq agg'[h].seen
           /\ agg[h].uncommitted # <<>> =>
                /\ agg'[h].uncommitted # <<>>
                /\ agg'[h].uncommitted[1] = agg[h].uncommitted[1]
  PROVE  IInv'
<1>1. Extends /\ Stored' = Stored /\ StoredNotFresh' /\ StreamsCreated' /\ NoBlindWrites'
  BY Quiet
<1>2. \A k \in Handlers : AggSound(k)'
  BY <1>1, AggKept
<1>3. \A k \in Handlers : Counted(k)'
  <2> SUFFICES ASSUME NEW k \in Handlers \ {h} PROVE Counted(k)'
    OBVIOUS
  <2>1. \A n \in 1 .. Len(log'[agg[k].stream]) : n \in 1 .. Len(log[agg[k].stream])
    OBVIOUS
  <2>2. \A c \in Commits : Projecting(c)' = Projecting(c) /\ com'[c].of = com[c].of
    BY DEF Projecting
  <2>3. HeadUnstored(k)' => HeadUnstored(k)
    BY <1>1 DEF HeadUnstored
  <2> QED
    BY <1>1, <2>1, <2>2, <2>3, CountedKept DEF Has
<1>4. \A k, l \in Handlers : Private(k, l)'
  <2> SUFFICES ASSUME NEW k \in Handlers, NEW l \in Handlers, k # l, Has(k)', Has(l)',
                      NEW e \in agg'[k].seen, e \in agg'[l].seen
               PROVE  e \in Stored
    BY <1>1 DEF Private
  <2>1. \A x \in Handlers \ {h} : Has(x)' => /\ Has(x) /\ agg'[x].seen = agg[x].seen
                                             /\ \A y \in agg[x].seen : ~ Fresh(y)
    BY DEF IInv, AggSound, Has
  <2>2. k = h \/ l = h \/ e \in Stored
    BY <2>1 DEF IInv, Private
  <2>3. CASE k = h
    BY <2>1, <2>3 DEF IInv, Private
  <2>4. CASE l = h
    BY <2>1, <2>4 DEF IInv, Private
  <2> QED
    BY <2>2, <2>3, <2>4
<1>5. \A c \in Commits : CallSound(c)'
  BY <1>1, CallKept
<1>6. \A c \in Commits : com[c] # NoCommit =>
        /\ com[c].of \in Handlers /\ Has(com[c].of)
        /\ Projecting(c) => /\ agg[com[c].of].uncommitted # <<>>
                            /\ Elements(com[c].copy) \cap Published = {}
  BY Fields DEF IInv, ComSound
<1>7. Published' = Published
  BY DEF Published
<1>8. \A c \in Commits : ComSound(c)'
  <2> SUFFICES ASSUME NEW c \in Commits PROVE ComSound(c)'
    OBVIOUS
  <2>1. com[c] # NoCommit =>
           /\ Has(com[c].of)' /\ agg'[com[c].of].stream = agg[com[c].of].stream
           /\ agg[com[c].of].seen \subseteq agg'[com[c].of].seen
           /\ agg'[com[c].of].version = agg[com[c].of].version
           /\ Projecting(c) =>
                /\ agg'[com[c].of].uncommitted # <<>>
                /\ agg'[com[c].of].uncommitted[1] = agg[com[c].of].uncommitted[1]
    <3>1. CASE com[c].of = h
      BY <1>6, <3>1
    <3>2. CASE com[c].of # h
      BY <1>6, <3>2 DEF Has
    <3> QED
      BY <3>1, <3>2
  <2> QED
    BY <1>1, <1>6, <1>7, <2>1, ComKept
<1>9. \A c \in Commits : CopyOrdered(c)'
  BY <1>1, CopyKept
<1>10. \A c \in Commits, k \in Handlers : Shared(c, k)'
  <2> SUFFICES ASSUME NEW c \in Commits, NEW k \in Handlers PROVE Shared(c, k)'
    OBVIOUS
  <2>1. CASE k = h
    BY <1>1, <2>1, SharedKept
  <2>2. CASE k # h
    BY <1>1, <2>2, SharedKept DEF Has
  <2> QED
    BY <2>1, <2>2
<1>11. \A c, d \in Commits : Apart(c, d)'
  BY DEF IInv, Apart, Projecting
<1>12. StoredIsPublished'
  BY <1>1, <1>7 DEF IInv, StoredIsPublished, Projecting
<1>13. PublishedInOrder'
  BY <1>1, BusKept
<1>14. RefusalExplained'
  <2> SUFFICES ASSUME NEW c \in Commits, com'[c].step = "refused"
               PROVE  \/ ~ (Elements(log'[agg'[com'[c].of].stream]) \subseteq agg'[com'[c].of].seen)
                      \/ Elements(com'[c].copy) \cap Stored' # {}
    BY DEF RefusalExplained
  <2>1. com[c] # NoCommit
    BY DEF NoCommit
  <2>2. CASE com[c].of = h
    BY <1>1, <1>6, <2>1, <2>2, RefusalKept
  <2>3. CASE com[c].of # h
    BY <1>1, <1>6, <2>1, <2>3, RefusalKept
  <2> QED
    BY <2>2, <2>3
<1> QED
  BY <1>1, <1>2, <1>3, <1>4, <1>5, <1>8, <1>9, <1>10, <1>11, <1>12, <1>13, <1>14 DEF IInv

\* Creating an aggregate keeps the invariant: its stream is empty.
LEMMA CreateCorrect ==
  ASSUME IInv, NEW h \in Handlers, NEW s \in Streams, NEW e \in Events, Create(h, s, e)
  PROVE  IInv'
<1> DEFINE new == [stream |-> s, version |-> -1, seen |-> {e}, uncommitted |-> <<e>>]
<1>1. /\ ~ Has(h) /\ log[s] = <<>> /\ Fresh(e) /\ Type[e] = UserCreated
      /\ agg' = [agg EXCEPT ![h] = new] /\ basis' = [basis EXCEPT ![e] = {}]
      /\ UNCHANGED <<log, open, com, bus, faults>>
  BY DEF Create
<1>2. new \in Aggregate
  BY DEF Aggregate, Versions
<1>3. /\ agg'[h] = new /\ basis'[e] = {} /\ Has(h)'
      /\ \A k \in Handlers \ {h} : agg'[k] = agg[k]
      /\ \A f \in Events \ {e} : basis'[f] = basis[f]
  BY <1>1, <1>2, NoneIsNone DEF IInv, TypeOK, Has
<1>4. TypeOK'
  <2>1. \A k \in Handlers : Has(k)' => \E f \in agg'[k].seen : Type[f] = UserCreated
    BY <1>1, <1>3 DEF IInv, TypeOK, Has
  <2> QED
    BY <1>1, <1>2, <2>1 DEF IInv, TypeOK
<1>5. BasisKept
  BY <1>1, <1>3 DEF BasisKept
<1>6. /\ Elements(<<e>>) = {e} /\ Distinct(<<e>>) /\ Before(<<e>>, 1) = {}
      /\ Elements(log[s]) = {} /\ Len(log[s]) = 0 /\ Revision(s) = -1
  BY <1>1 DEF Elements, Distinct, Before, Revision
<1>7. AggSound(h)'
  <2>1. (~ Fresh(e))'
    BY <1>3 DEF Fresh
  <2>2. Revision(s)' = -1 /\ Elements(log'[s]) = {} /\ Distinct(<<e>>)'
    BY <1>1, <1>6 DEF Revision, Distinct
  <2>3. \A i \in 1 .. Len(<<e>>) : i = 1
    OBVIOUS
  <2> HIDE DEF new
  <2>4. /\ agg'[h].stream = s /\ agg'[h].version = -1 /\ agg'[h].seen = {e}
        /\ agg'[h].uncommitted = <<e>>
    BY <1>3 DEF new
  <2> QED
    BY <1>6, <2>1, <2>2, <2>3, <2>4 DEF AggSound
<1>8. Counted(h)'
  <2>1. Known(h)' = {}
    BY <1>1, <1>3, <1>6 DEF Known
  <2> QED
    BY <1>3, <2>1, FS_EmptySet DEF Counted
<1>9. \A f \in agg'[h].seen : Fresh(f)
  BY <1>1, <1>3
<1> QED
  BY <1>1, <1>3, <1>4, <1>5, <1>7, <1>8, <1>9, HandlerStep

\* An aggregate that is loaded knows what could be read.
LEMMA FindByIdCorrect ==
  ASSUME IInv, NEW h \in Handlers, NEW s \in Streams, FindById(h, s)
  PROVE  IInv'
<1> DEFINE new == Reconstitute(h, s)
<1>1. /\ ~ Has(h) /\ UNCHANGED <<log, open, com, bus, faults, basis>>
      /\ agg' = [agg EXCEPT ![h] = IF ReadStream(h, s) = {} THEN NoAggregate ELSE new]
  BY DEF FindById
<1>2. BasisKept
  BY <1>1 DEF BasisKept
<1>3. \A k \in Handlers \ {h} : agg'[k] = agg[k]
  BY <1>1 DEF IInv, TypeOK
<1>4. CASE ReadStream(h, s) = {}
  <2>1. ~ Has(h)' /\ agg' = agg
    BY <1>1, <1>4 DEF IInv, TypeOK, Has
  <2>2. TypeOK'
    BY <1>1, <2>1 DEF IInv, TypeOK, Has
  <2>3. AggSound(h)' /\ Counted(h)'
    BY <2>1 DEF AggSound, Counted
  <2> QED
    BY <1>1, <1>2, <1>3, <2>1, <2>2, <2>3, HandlerStep
<1>5. CASE ReadStream(h, s) # {}
  <2>1. /\ VersionRead(h, s) \in Versions /\ VersionRead(h, s) =< Revision(s)
        /\ VersionRead(h, s) = Revision(s) => ReadStream(h, s) = 1 .. Len(log[s])
    BY VersionReadBound DEF IInv
  <2>2. ReadStream(h, s) \subseteq 1 .. Len(log[s]) /\ log[s] \in Seq(Events)
    BY Fields DEF IInv, ReadStream
  <2>3. /\ new.stream = s /\ new.version = VersionRead(h, s) /\ new.uncommitted = <<>>
        /\ new.seen = {log[s][i] : i \in ReadStream(h, s)}
    BY DEF Reconstitute
  <2>4. new \in Aggregate /\ new.seen \subseteq Elements(log[s])
    <3>1. \A i \in ReadStream(h, s) : log[s][i] \in Elements(log[s]) /\ log[s][i] \in Events
      BY <2>2 DEF Elements
    <3> QED
      BY <2>1, <2>3, <3>1 DEF Aggregate, Reconstitute
  <2>5. agg'[h] = new /\ Has(h)'
    BY <1>1, <1>5, <2>4, NoneIsNone DEF IInv, TypeOK, Has
  <2> HIDE DEF new
  <2>6. \A e \in new.seen : e \in Stored /\ ~ Fresh(e)
    BY <2>4 DEF Stored, IInv, StoredNotFresh
  <2>7. TypeOK'
    <3>1. \E e \in new.seen : Type[e] = UserCreated
      <4>1. PICK e \in Elements(log[s]) : Type[e] = UserCreated
        BY <1>5, <2>2 DEF IInv, StreamsCreated
      <4>2. PICK i \in 1 .. Len(log[s]) : log[s][i] = e
        BY DEF Elements
      <4>3. i \in ReadStream(h, s)
        BY <4>1, <4>2 DEF ReadStream, Deserializes, Registry
      <4> QED
        BY <2>3, <4>1, <4>2, <4>3
    <3>2. \A k \in Handlers : Has(k)' => \E e \in agg'[k].seen : Type[e] = UserCreated
      BY <1>3, <2>5, <3>1 DEF IInv, TypeOK, Has
    <3>3. agg' \in [Handlers -> Aggregate \cup {NoAggregate}]
      BY <1>1, <2>4 DEF IInv, TypeOK
    <3> QED
      BY <1>1, <3>2, <3>3 DEF IInv, TypeOK
  <2>8. AggSound(h)'
    <3>1. /\ agg'[h].uncommitted = <<>> /\ agg'[h].stream = s
          /\ agg'[h].version = new.version /\ agg'[h].seen = new.seen
          /\ Elements(<<>>) = {} /\ Distinct(agg[h].uncommitted)'
          /\ \A i \in 1 .. Len(<<>>) : FALSE
      BY <2>3, <2>5 DEF Elements, Distinct
    <3>2. Revision(s)' = Revision(s) /\ \A e \in new.seen : (~ Fresh(e))'
      BY <1>1, <2>6 DEF Revision, Fresh
    <3>3. new.version = Revision(s) => Elements(log[s]) \subseteq new.seen
      BY <2>1, <2>3 DEF Elements
    <3>5. log'[s] # <<>>
      BY <1>1, <1>5, <2>2
    <3>4. /\ new.version =< Len(log'[s]) - 1
          /\ new.version = Len(log'[s]) - 1 => Elements(log'[s]) \subseteq new.seen
      BY <1>1, <2>1, <2>3, <3>3 DEF Revision
    <3> QED
      BY <3>1, <3>2, <3>4, <3>5 DEF AggSound, Revision
  <2>9. Counted(h)'
    <3>1. Known(h)' = ReadStream(h, s)
      <4>1. \A i \in 1 .. Len(log[s]) : log[s][i] \in new.seen => i \in ReadStream(h, s)
        BY <2>3 DEF ReadStream, Deserializes
      <4>2. \A i \in ReadStream(h, s) : log[s][i] \in new.seen
        BY <2>3
      <4> QED
        BY <1>1, <2>2, <2>3, <2>5, <4>1, <4>2 DEF Known
    <3>2. Cardinality(ReadStream(h, s)) = new.version + 1 /\ new.version \in Int
      <4>1. Cardinality(ReadStream(h, s)) \in Nat
        BY VersionReadBound DEF IInv
      <4> QED
        BY <2>3, <4>1 DEF VersionRead
    <3> QED
      BY <2>5, <3>1, <3>2 DEF Counted
  <2> QED
    BY <1>1, <1>2, <1>3, <2>5, <2>6, <2>7, <2>8, <2>9, HandlerStep
<1> QED
  BY <1>4, <1>5

\* An event is applied to all that its aggregate knows.
LEMMA ApplyCorrect ==
  ASSUME IInv, NEW h \in Handlers, NEW e \in Events, Apply(h, e)
  PROVE  IInv'
<1> DEFINE a == agg[h]
           u == agg[h].uncommitted
           s == agg[h].stream
<1>1. /\ Has(h) /\ Fresh(e)
      /\ agg' = [agg EXCEPT ![h].seen = @ \cup {e}, ![h].uncommitted = Append(@, e)]
      /\ basis' = [basis EXCEPT ![e] = a.seen]
      /\ UNCHANGED <<log, open, com, bus, faults>>
  BY DEF Apply
<1>2. /\ a \in Aggregate /\ s \in Streams /\ a.version \in Int /\ a.seen \subseteq Events
      /\ u \in Seq(Events)
  BY <1>1, Fields DEF IInv
<1>3. PICK n \in Nat : n = Len(u)
  BY <1>2
<1> DEFINE u1 == Append(u, e)
<1>4. /\ u1 \in Seq(Events) /\ Len(u1) = n + 1 /\ u1[n + 1] = e
      /\ \A i \in 1 .. n : u1[i] = u[i]
  BY <1>2, <1>3
<1>5. /\ agg'[h] \in Aggregate /\ Has(h)'
      /\ agg'[h].stream = s /\ agg'[h].version = a.version
      /\ agg'[h].seen = a.seen \cup {e} /\ agg'[h].uncommitted = u1
      /\ \A k \in Handlers \ {h} : agg'[k] = agg[k]
  <2>1. agg'[h] = [a EXCEPT !.seen = @ \cup {e}, !.uncommitted = Append(@, e)]
    BY <1>1 DEF IInv, TypeOK
  <2>2. agg'[h] \in Aggregate
    BY <1>2, <1>4, <2>1 DEF Aggregate
  <2>3. \A k \in Handlers \ {h} : agg'[k] = agg[k]
    BY <1>1 DEF IInv, TypeOK
  <2> QED
    BY <1>2, <2>1, <2>2, <2>3, NoneIsNone DEF Aggregate, Has
<1>6. basis'[e] = a.seen /\ \A f \in Events \ {e} : basis'[f] = basis[f]
  BY <1>1 DEF IInv, TypeOK
<1>7. BasisKept
  BY <1>1, <1>6 DEF BasisKept
<1>8. TypeOK'
  <2>1. \A k \in Handlers : Has(k)' => \E f \in agg'[k].seen : Type[f] = UserCreated
    BY <1>1, <1>5 DEF IInv, TypeOK, Has
  <2>2. agg' \in [Handlers -> Aggregate \cup {NoAggregate}]
    BY <1>1, <1>5 DEF IInv, TypeOK
  <2>3. basis' \in [Events -> SUBSET Events]
    BY <1>1, <1>2 DEF IInv, TypeOK
  <2> QED
    BY <1>1, <2>1, <2>2, <2>3 DEF IInv, TypeOK
<1> HIDE DEF u1
<1>9. /\ a.version =< Revision(s)
      /\ a.version = Revision(s) => Elements(log[s]) \subseteq a.seen
      /\ Elements(u) \subseteq a.seen /\ Distinct(u)
      /\ a.version = Revision(s) /\ Unstored(u) =>
           \A i \in 1 .. Len(u) : Elements(log[s]) \cup Before(u, i) \subseteq basis[u[i]]
      /\ \A f \in a.seen : ~ Fresh(f)
      /\ log[s] = <<>> => a.seen \subseteq Elements(u)
  BY <1>1 DEF IInv, AggSound
<1>10. \A i \in 1 .. n : u[i] \in a.seen /\ u[i] \in Elements(u) /\ u[i] # e
  BY <1>1, <1>3, <1>9 DEF Elements
<1>11. Elements(u1) = Elements(u) \cup {e}
  <2>1. \A i \in 1 .. n + 1 : i \in 1 .. n \/ i = n + 1
    OBVIOUS
  <2>2. \A i \in 1 .. n : i \in 1 .. n + 1
    OBVIOUS
  <2>3. n + 1 \in 1 .. n + 1
    OBVIOUS
  <2> QED
    BY <1>3, <1>4, <2>1, <2>2, <2>3 DEF Elements
<1>12. AggSound(h)'
  <2>1. Len(log'[s]) = Len(log[s]) /\ Stored' = Stored
    BY <1>1 DEF Stored
  <2>2. Distinct(u1)
    <3> SUFFICES ASSUME NEW i \in 1 .. n + 1, NEW j \in 1 .. n + 1, u1[i] = u1[j] PROVE i = j
      BY <1>4 DEF Distinct
    <3>1. CASE i \in 1 .. n /\ j \in 1 .. n
      BY <1>3, <1>4, <1>9, <3>1 DEF Distinct
    <3>2. CASE i \notin 1 .. n
      <4>1. i = n + 1
        BY <3>2
      <4> QED
        BY <1>4, <1>10, <4>1
    <3>3. CASE j \notin 1 .. n
      <4>1. j = n + 1
        BY <3>3
      <4> QED
        BY <1>4, <1>10, <4>1
    <3> QED
      BY <3>1, <3>2, <3>3
  <2>3. ASSUME a.version = Revision(s), Unstored(u1), NEW i \in 1 .. Len(u1)
        PROVE  Elements(log[s]) \cup Before(u1, i) \subseteq basis'[u1[i]]
    <3>1. Unstored(u)
      BY <1>11, <2>3 DEF Unstored
    <3>2. CASE i \in 1 .. n
      <4>1. Before(u1, i) = Before(u, i)
        <5>1. \A j \in 1 .. i - 1 : j \in 1 .. n /\ u1[j] = u[j]
          BY <1>4, <3>2
        <5> QED
          BY <5>1 DEF Before
      <4>2. basis'[u1[i]] = basis[u[i]]
        <5>1. u[i] \in Events \ {e}
          BY <1>2, <1>10, <3>2
        <5> QED
          BY <1>4, <1>6, <3>2, <5>1
      <4> QED
        BY <1>3, <1>9, <2>3, <3>1, <3>2, <4>1, <4>2
    <3>3. CASE i \notin 1 .. n
      <4>1. i = n + 1
        BY <1>4, <3>3
      <4>2. \A j \in 1 .. n : u1[j] \in a.seen
        BY <1>4, <1>10
      <4>3. Before(u1, i) \subseteq a.seen
        BY <4>1, <4>2 DEF Before
      <4> QED
        BY <1>4, <1>6, <1>9, <2>3, <4>1, <4>3
    <3> QED
      BY <3>2, <3>3
  <2>4. \A f \in a.seen \cup {e} : (~ Fresh(f))'
    BY <1>1, <1>2, <1>6, <1>9 DEF Fresh
  <2>5. Unstored(u1) <=> Elements(u1) \cap Stored' = {}
    BY <2>1 DEF Unstored
  <2> HIDE DEF a, s
  <2>6. /\ agg'[h].version =< Len(log'[s]) - 1
        /\ agg'[h].version = Len(log'[s]) - 1 => Elements(log'[s]) \subseteq agg'[h].seen
        /\ Elements(u1) \subseteq agg'[h].seen
        /\ log'[s] = <<>> => agg'[h].seen \subseteq Elements(u1)
    BY <1>1, <1>5, <1>9, <1>11, <2>1 DEF Revision
  <2>7. agg'[h].version = Len(log'[s]) - 1 /\ Elements(u1) \cap Stored' = {} =>
          \A i \in 1 .. Len(u1) : Elements(log'[s]) \cup Before(u1, i) \subseteq basis'[u1[i]]
    BY <1>1, <1>5, <2>1, <2>3, <2>5 DEF Revision
  <2>8. Distinct(agg[h].uncommitted)' /\ (Unstored(agg[h].uncommitted)' => Elements(u1) \cap Stored' = {})
    BY <1>5, <2>2 DEF Distinct, Unstored
  <2> QED
    BY <1>5, <2>4, <2>6, <2>7, <2>8 DEF AggSound, Revision
<1>13. e \notin Stored
  BY <1>1 DEF IInv, StoredNotFresh
<1>15. u # <<>> => u1 # <<>> /\ u1[1] = u[1]
  BY <1>2, <1>3, <1>4
<1>14. Counted(h)'
  <2>1. Extends /\ Stored' = Stored
    BY <1>1, <1>7, Quiet
  <2>2. HeadUnstored(h)' => HeadUnstored(h)
    BY <1>5, <1>15, <2>1 DEF HeadUnstored
  <2>3. \A c \in Commits : Projecting(c)' = Projecting(c) /\ com'[c].of = com[c].of
    BY <1>1 DEF Projecting
  <2>4. \A n1 \in 1 .. Len(log'[s]) : n1 \in 1 .. Len(log[s])
    BY <1>1
  <2> QED
    BY <1>1, <1>5, <1>13, <2>1, <2>2, <2>3, <2>4, CountedKept
<1> QED
  BY <1>1, <1>5, <1>7, <1>8, <1>12, <1>14, <1>15, HandlerStep

-----------------------------------------------------------------------------
\* A step that stores and publishes nothing and applies no event: calls come and
\* go, and aggregates may be forgotten.
LEMMA CallStep ==
  ASSUME IInv, TypeOK', UNCHANGED <<log, bus, basis>>,
         \A h \in Handlers : agg'[h] = agg[h] \/ agg'[h] = NoAggregate,
         \A c \in Commits : CallSound(c)' /\ ComSound(c)',
         \A c \in Commits, h \in Handlers : Shared(c, h)',
         \A c \in Commits : com'[c] = com[c] \/ ~ Projecting(c)',
         \A c \in Commits : com'[c].step = "refused" =>
           \/ com'[c] = com[c] /\ agg'[com[c].of] = agg[com[c].of]
           \/ ~ (Elements(log[agg'[com'[c].of].stream]) \subseteq agg'[com'[c].of].seen)
           \/ Elements(com'[c].copy) \cap Stored # {},
         faults' = 0 => /\ faults = 0
                        /\ \A c \in Commits : Projecting(c) => com'[c] = com[c]
  PROVE  IInv'
<1>1. BasisKept
  BY DEF BasisKept
<1>2. Extends /\ Stored' = Stored /\ StoredNotFresh' /\ StreamsCreated' /\ NoBlindWrites'
  BY <1>1, Quiet
<1>3. \A c \in Commits : Projecting(c)' => com'[c] = com[c] /\ Projecting(c)
  BY DEF Projecting
<1>4. \A h \in Handlers : AggSound(h)' /\ Counted(h)'
  <2> SUFFICES ASSUME NEW h \in Handlers, agg'[h] = agg[h] PROVE AggSound(h)' /\ Counted(h)'
    BY DEF AggSound, Counted, Has
  <2>1. AggSound(h)'
    BY <1>1, <1>2, AggKept
  <2>2. \A n \in 1 .. Len(log'[agg[h].stream]) : n \in 1 .. Len(log[agg[h].stream])
    OBVIOUS
  <2>3. HeadUnstored(h)' => HeadUnstored(h)
    BY <1>2 DEF HeadUnstored
  <2>4. Counted(h)'
    BY <1>2, <1>3, <2>2, <2>3, CountedKept DEF Has
  <2> QED
    BY <2>1, <2>4
<1>5. \A h, k \in Handlers : Private(h, k)'
  BY <1>2, PrivateKept
<1>6. \A c \in Commits : CopyOrdered(c)'
  BY <1>2, CopyKept
<1>7. \A c, d \in Commits : Apart(c, d)'
  BY <1>3 DEF IInv, Apart
<1>8. Published' = Published
  BY DEF Published
<1>9. StoredIsPublished'
  <2> SUFFICES ASSUME faults' = 0, NEW e \in Stored \ Published
               PROVE  \E c \in Commits : Projecting(c)' /\ e \in Elements(com'[c].copy)
    BY <1>2, <1>8 DEF StoredIsPublished
  <2>1. PICK c \in Commits : Projecting(c) /\ e \in Elements(com[c].copy)
    BY DEF IInv, StoredIsPublished
  <2> QED
    BY <2>1 DEF Projecting
<1>10. PublishedInOrder'
  BY <1>2, BusKept
<1>11. RefusalExplained'
  BY <1>2 DEF IInv, RefusalExplained
<1> QED
  BY <1>2, <1>4, <1>5, <1>6, <1>7, <1>9, <1>10, <1>11 DEF IInv

\* Commits and calls that a step leaves alone, or ends.
LEMMA OthersKept ==
  ASSUME IInv, UNCHANGED <<log, bus, agg, basis>>, NEW c \in Commits, com'[c] = com[c],
         open'[c] = open[c], faults' = 0 => faults = 0, faults \in Nat
  PROVE  /\ CallSound(c)' /\ ComSound(c)' /\ \A h \in Handlers : Shared(c, h)'
<1>1. BasisKept /\ Extends
  BY Quiet DEF BasisKept
<1>2. CallSound(c)'
  <2>1. CASE faults' # 0
    BY <1>1, <2>1, CallKept
  <2>2. CASE faults' = 0
    BY <1>1, <2>2, CallKept DEF IInv, CallSound, Calling
  <2> QED
    BY <2>1, <2>2
<1>3. ComSound(c)'
  <2>1. Published' = Published /\ agg' = agg
    BY DEF Published
  <2>2. com[c] # NoCommit =>
          /\ Has(com[c].of)
          /\ Projecting(c) => /\ agg[com[c].of].uncommitted # <<>>
                              /\ Elements(com[c].copy) \cap Published = {}
    BY DEF IInv, ComSound
  <2>3. Has(com[c].of)' = Has(com[c].of)
    BY DEF Has
  <2> QED
    BY <1>1, <2>1, <2>2, <2>3, ComKept
<1>4. ASSUME NEW h \in Handlers PROVE Shared(c, h)'
  BY <1>1, SharedKept DEF Has
<1> QED
  BY <1>2, <1>3, <1>4

\* The version the append is sent with stands for what the aggregate has seen.
LEMMA CommitCorrect ==
  ASSUME IInv, NEW h \in Handlers, NEW c \in Commits, Commit(h, c)
  PROVE  IInv'
<1> DEFINE s == agg[h].stream
           u == agg[h].uncommitted
           v == agg[h].version
<1>1. /\ Has(h) /\ u # <<>> /\ ~ UnderWay(c)
      /\ ~ Calling(c)
      /\ open' = [open EXCEPT ![c] = [open |-> TRUE, stream |-> s, batch |-> u, expected |-> v]]
      /\ com' = [com EXCEPT ![c] = [step |-> "appending", of |-> h, copy |-> u]]
      /\ UNCHANGED <<log, agg, bus, faults, basis>>
  BY DEF Commit, Stream!Invoke, Calling, NoCall
<1>2. /\ agg[h] \in Aggregate /\ s \in Streams /\ u \in Seq(Events) /\ v \in Versions
      /\ agg[h].seen \subseteq Events
  BY <1>1, Fields DEF IInv, Aggregate
<1>3. /\ open'[c] = [open |-> TRUE, stream |-> s, batch |-> u, expected |-> v]
      /\ open'[c] \in Calls /\ open'[c].stream = s /\ open'[c].batch = u /\ open'[c].expected = v
      /\ com'[c] = [step |-> "appending", of |-> h, copy |-> u]
      /\ com'[c] \in Committing /\ com'[c].step = "appending" /\ com'[c].of = h
      /\ com'[c].copy = u
      /\ \A d \in Commits \ {c} : open'[d] = open[d] /\ com'[d] = com[d]
  BY <1>1, <1>2 DEF IInv, TypeOK, Calls, Committing
<1>4. TypeOK'
  <2>1. open' \in [Commits -> Calls \cup {NoCall}]
    BY <1>1, <1>3 DEF IInv, TypeOK
  <2>2. com' \in [Commits -> Committing \cup {NoCommit}]
    BY <1>1, <1>3 DEF IInv, TypeOK
  <2> QED
    BY <1>1, <2>1, <2>2 DEF IInv, TypeOK, Has
<1>5. /\ v =< Revision(s)
      /\ Elements(u) \subseteq agg[h].seen /\ Distinct(u)
      /\ v = Revision(s) /\ Unstored(u) =>
           \A i \in 1 .. Len(u) : Elements(log[s]) \cup Before(u, i) \subseteq basis[u[i]]
      /\ \A e \in agg[h].seen : ~ Fresh(e)
      /\ log[s] = <<>> => agg[h].seen \subseteq Elements(u)
  BY <1>1 DEF IInv, AggSound
<1> HIDE DEF s, u, v
<1>6. CallSound(c)'
  <2>1. /\ Accepted(c)' => v = Len(log[s]) - 1 /\ Unstored(u)
        /\ v =< Len(log[s]) - 1
    BY <1>1, <1>3, <1>5 DEF Accepted, Revision, Unstored, Stored
  <2>2. \A e \in Elements(u) : (~ Fresh(e))'
    BY <1>1, <1>5 DEF Fresh
  <2>3. \E e \in Elements(log[s]) \cup Elements(u) : Type[e] = UserCreated
    <3>1. CASE log[s] # <<>>
      BY <1>2, <3>1 DEF IInv, StreamsCreated
    <3>2. CASE log[s] = <<>>
      BY <1>1, <1>5, <3>2 DEF IInv, TypeOK
    <3> QED
      BY <3>1, <3>2
  <2>4. v = Len(log[s]) - 1 /\ Unstored(u) =>
          \A i \in 1 .. Len(u) : Elements(log'[s]) \cup Before(u, i) \subseteq basis'[u[i]]
    BY <1>1, <1>5 DEF Revision
  <2> QED
    BY <1>1, <1>3, <2>1, <2>2, <2>3, <2>4 DEF CallSound, Revision
<1>7. ComSound(c)'
  <2>1. Distinct(com[c].copy)' /\ Has(com[c].of)'
    BY <1>1, <1>3, <1>5 DEF Distinct, Has
  <2>2. Calling(c)'
    BY <1>3, NoneIsNone DEF Calling
  <2> QED
    BY <1>1, <1>3, <1>5, <2>1, <2>2 DEF ComSound, Projecting, s, u, v
<1>8. ASSUME NEW k \in Handlers PROVE Shared(c, k)'
  <2> SUFFICES ASSUME Has(k), Elements(u) \cap Stored = {}, NEW e \in Elements(u), e \in agg[k].seen
               PROVE  agg[k].uncommitted # <<>> /\ agg[k].uncommitted[1] \in Elements(u)
    <3>1. Stored' = Stored
      BY <1>1 DEF Stored
    <3> QED
      BY <1>1, <1>3, <3>1 DEF Shared, Has, Unstored
  <2>1. e \notin Stored
    OBVIOUS
  <2>2. k = h
    BY <1>1, <1>5, <2>1 DEF IInv, Private
  <2>3. u[1] \in Elements(u)
    BY <1>1, <1>2 DEF Elements, u
  <2> QED
    BY <1>1, <2>2, <2>3 DEF u
<1>9. ASSUME NEW d \in Commits \ {c}
      PROVE  CallSound(d)' /\ ComSound(d)' /\ \A k \in Handlers : Shared(d, k)'
  BY <1>1, <1>3, OthersKept DEF IInv, TypeOK
<1>10. \A d \in Commits : com'[d] = com[d] \/ ~ Projecting(d)'
  BY <1>3 DEF Projecting
<1>11. \A d \in Commits : Projecting(d) => com'[d] = com[d]
  BY <1>1, <1>3 DEF Projecting, UnderWay
<1>12. \A d \in Commits : com'[d].step = "refused" => com'[d] = com[d]
  BY <1>3
<1> QED
  BY <1>1, <1>4, <1>6, <1>7, <1>8, <1>9, <1>10, <1>11, <1>12, CallStep

\* A call that has ended, and what becomes of its commit.
LEMMA EndedCall ==
  ASSUME IInv, UNCHANGED <<log, bus, agg, basis>>, NEW c \in Commits, open'[c] = NoCall,
         \/ com'[c] = com[c] /\ com[c].step # "appending"
         \/ com'[c] = NoCommit
         \/ com[c].step = "appending" /\ com'[c] = [com[c] EXCEPT !.step = "refused"]
  PROVE  CallSound(c)' /\ ComSound(c)' /\ \A h \in Handlers : Shared(c, h)'
<1>1. BasisKept /\ Extends
  BY Quiet DEF BasisKept
<1>2. CallSound(c)' /\ \A h \in Handlers : Shared(c, h)'
  BY DEF CallSound, Shared, Calling
<1>3. CASE com'[c] = NoCommit
  BY <1>2, <1>3 DEF ComSound
<1>4. com[c] # NoCommit =>
        /\ Has(com[c].of) /\ Distinct(com[c].copy)
        /\ Elements(com[c].copy) \subseteq agg[com[c].of].seen
        /\ Projecting(c) => /\ agg[com[c].of].uncommitted # <<>>
                            /\ Elements(com[c].copy) \cap Published = {}
  BY DEF IInv, ComSound
<1>5. CASE com'[c] = com[c] /\ com[c].step # "appending"
  <2>1. Published' = Published /\ Has(com[c].of)' = Has(com[c].of)
    BY <1>5 DEF Published, Has
  <2>2. ComSound(c)'
    BY <1>1, <1>4, <1>5, <2>1, ComKept
  <2> QED
    BY <1>2, <2>2
<1>6. CASE com[c].step = "appending" /\ com'[c] = [com[c] EXCEPT !.step = "refused"]
  <2>1. com[c] \in Committing
    BY <1>6, Fields DEF IInv
  <2>2. com'[c].step = "refused" /\ com'[c].of = com[c].of /\ com'[c].copy = com[c].copy
    BY <1>6, <2>1 DEF Committing
  <2>3. com[c] # NoCommit
    BY <2>1, NoneIsNone
  <2>4. Has(com[c].of)' /\ Distinct(com[c].copy)'
    BY <1>4, <2>2, <2>3 DEF Has, Distinct
  <2>5. Elements(com'[c].copy) \subseteq agg'[com'[c].of].seen
    BY <1>4, <2>2, <2>3
  <2> QED
    BY <1>2, <2>2, <2>4, <2>5 DEF ComSound, Projecting
<1> QED
  BY <1>3, <1>5, <1>6

\* A refusal has its reason: if no event of the commit is stored, its append was
\* sent with the version of the aggregate, which counts all that it knows of the
\* stream.
LEMMA RefusedCorrect ==
  ASSUME IInv, NEW c \in Commits, CommitRefused(c)
  PROVE  IInv'
<1> DEFINE h == com[c].of
           s == agg[h].stream
<1>1. /\ com[c].step = "appending" /\ ~ Accepted(c) /\ Stream!Refuse(c)
      /\ com' = [com EXCEPT ![c].step = "refused"]
      /\ UNCHANGED <<agg, bus, faults, basis>>
  BY DEF CommitRefused, AfterRefusal
<1>2. /\ UNCHANGED log /\ open' \in [Commits -> Calls \cup {NoCall}]
      /\ open'[c] = NoCall /\ \A d \in Commits \ {c} : open'[d] = open[d]
  BY <1>1, NoEffectOf DEF IInv
<1>3. /\ com[c] \in Committing /\ com[c] # NoCommit /\ h \in Handlers
      /\ com'[c] = [com[c] EXCEPT !.step = "refused"]
      /\ com'[c] \in Committing /\ com'[c].of = h /\ com'[c].copy = com[c].copy
      /\ com'[c].step = "refused"
      /\ \A d \in Commits \ {c} : com'[d] = com[d]
  <2>1. com[c] \in Committing /\ com[c] # NoCommit /\ h \in Handlers
    BY <1>1, Fields DEF IInv
  <2> QED
    BY <1>1, <2>1 DEF IInv, TypeOK, Committing
<1>4. TypeOK'
  <2>1. com' \in [Commits -> Committing \cup {NoCommit}]
    BY <1>1, <1>3 DEF IInv, TypeOK
  <2> QED
    BY <1>1, <1>2, <2>1 DEF IInv, TypeOK, Has
<1>5. \/ ~ (Elements(log[s]) \subseteq agg[h].seen)
      \/ Elements(com[c].copy) \cap Stored # {}
  <2> SUFFICES ASSUME Unstored(com[c].copy), Elements(log[s]) \subseteq agg[h].seen
               PROVE  FALSE
    BY DEF Unstored
  <2>1. /\ Has(h) /\ Calling(c) /\ open[c].stream = s /\ open[c].batch = com[c].copy
        /\ open[c].expected = agg[h].version
        /\ Elements(com[c].copy) \subseteq agg[h].seen
    BY <1>1, <1>3 DEF IInv, ComSound
  <2>2. s \in Streams /\ agg[h].version \in Int /\ Len(log[s]) \in Nat
    BY <1>3, <2>1, Fields DEF IInv
  <2>3. agg[h].version # Revision(s)
    BY <1>1, <2>1 DEF Accepted, Unstored
  <2>4. agg[h].version < Len(log[s]) - 1
    BY <1>3, <2>1, <2>2, <2>3 DEF IInv, AggSound, Revision
  <2>5. HeadUnstored(h) => Cardinality(Known(h)) =< agg[h].version + 1
    BY <1>3, <2>1 DEF IInv, Counted
  <2>6. HeadUnstored(h)
    <3>1. com[c].copy # <<>>
      BY <2>1 DEF IInv, CallSound
    <3>2. com[c].copy[1] \in Elements(com[c].copy)
      BY <1>3, <3>1 DEF Committing, Elements
    <3>3. agg[h].uncommitted[1] \in Elements(com[c].copy)
      BY <1>3, <2>1, <3>2 DEF IInv, Shared
    <3> QED
      BY <3>3 DEF HeadUnstored, Unstored
  <2>7. Known(h) = 1 .. Len(log[s])
    BY DEF Known, Elements
  <2>8. Cardinality(1 .. Len(log[s])) = Len(log[s])
    BY <2>2, FS_Interval
  <2> QED
    BY <2>2, <2>4, <2>5, <2>6, <2>7, <2>8
<1>6. \A d \in Commits : CallSound(d)' /\ ComSound(d)' /\ \A k \in Handlers : Shared(d, k)'
  <2>1. CallSound(c)' /\ ComSound(c)' /\ \A k \in Handlers : Shared(c, k)'
    BY <1>1, <1>2, <1>3, EndedCall
  <2>2. ASSUME NEW d \in Commits \ {c}
        PROVE  CallSound(d)' /\ ComSound(d)' /\ \A k \in Handlers : Shared(d, k)'
    BY <1>1, <1>2, <1>3, OthersKept DEF IInv, TypeOK
  <2> QED
    BY <2>1, <2>2
<1>7. \A d \in Commits : /\ com'[d] = com[d] \/ ~ Projecting(d)'
                         /\ Projecting(d) => com'[d] = com[d]
  BY <1>1, <1>3 DEF Projecting
<1> QED
  BY <1>1, <1>2, <1>3, <1>4, <1>5, <1>6, <1>7, CallStep

\* A handler that is gone leaves its calls behind only after a fault.
LEMMA ForgetCorrect ==
  ASSUME IInv, NEW h \in Handlers, Forget(h), faults' \in 0 .. MaxFaults,
         \/ faults' # 0
         \/ faults' = faults /\ \A c \in CommitsOf(h) : ~ UnderWay(c)
  PROVE  IInv'
<1>1. /\ UNCHANGED <<log, open, bus, basis>>
      /\ agg'[h] = NoAggregate /\ \A k \in Handlers \ {h} : agg'[k] = agg[k]
      /\ agg' \in [Handlers -> Aggregate \cup {NoAggregate}]
      /\ com' \in [Commits -> Committing \cup {NoCommit}]
      /\ \A c \in Commits : com'[c] = IF c \in CommitsOf(h) THEN NoCommit ELSE com[c]
  BY DEF Forget, IInv, TypeOK
<1>2. TypeOK'
  <2>1. \A k \in Handlers : Has(k)' => \E f \in agg'[k].seen : Type[f] = UserCreated
    BY <1>1 DEF IInv, TypeOK, Has
  <2> QED
    BY <1>1, <2>1 DEF IInv, TypeOK
<1>3. BasisKept /\ Extends
  BY <1>1, Quiet DEF BasisKept
<1>4. \A c \in Commits : CallSound(c)'
  <2> SUFFICES ASSUME NEW c \in Commits PROVE CallSound(c)'
    OBVIOUS
  <2>1. \/ faults' # 0
        \/ faults' = faults /\ (com'[c].step # "appending" => com[c].step # "appending")
    BY <1>1 DEF UnderWay
  <2> QED
    BY <1>1, <1>3, <2>1, CallKept
<1>5. ASSUME NEW c \in Commits PROVE ComSound(c)'
  <2>1. CASE c \in CommitsOf(h)
    BY <1>1, <2>1 DEF ComSound
  <2>2. CASE c \notin CommitsOf(h)
    <3>1. com[c] # NoCommit =>
            /\ com[c].of \in Handlers \ {h} /\ Has(com[c].of)
            /\ Projecting(c) => /\ agg[com[c].of].uncommitted # <<>>
                                /\ Elements(com[c].copy) \cap Published = {}
      BY <2>2, Fields DEF CommitsOf, IInv, ComSound
    <3>2. Published' = Published /\ com'[c] = com[c]
      BY <1>1, <2>2 DEF Published
    <3>3. com[c] # NoCommit => Has(com[c].of)'
      BY <1>1, <3>1, <3>2 DEF Has
    <3> QED
      BY <1>1, <1>3, <3>1, <3>2, <3>3, ComKept
  <2> QED
    BY <2>1, <2>2
<1>6. ASSUME NEW c \in Commits, NEW k \in Handlers PROVE Shared(c, k)'
  <2>1. CASE k = h
    BY <1>1, <2>1 DEF Shared, Has
  <2>2. CASE k # h
    BY <1>1, <1>3, <2>2, SharedKept DEF Has
  <2> QED
    BY <2>1, <2>2
<1>7. \A c \in Commits : /\ com'[c] = com[c] \/ ~ Projecting(c)'
                         /\ com'[c].step = "refused" => com'[c] = com[c] /\ agg'[com[c].of] = agg[com[c].of]
  <2> SUFFICES ASSUME NEW c \in Commits
               PROVE  /\ com'[c] = com[c] \/ ~ Projecting(c)'
                      /\ com'[c].step = "refused" =>
                           com'[c] = com[c] /\ agg'[com[c].of] = agg[com[c].of]
    OBVIOUS
  <2>1. com'[c] = com[c] \/ (com'[c] = NoCommit /\ NoCommit.step = "none")
    BY <1>1 DEF NoCommit
  <2>2. com[c].step = "refused" => com[c] # NoCommit /\ com[c].of \in Handlers
    BY Fields DEF IInv
  <2>3. com'[c].step = "refused" => c \notin CommitsOf(h)
    BY <1>1 DEF NoCommit
  <2> QED
    BY <1>1, <2>1, <2>2, <2>3 DEF Projecting, CommitsOf
<1>8. faults' = 0 => faults = 0 /\ \A c \in Commits : Projecting(c) => com'[c] = com[c]
  BY <1>1 DEF UnderWay, Projecting
<1> QED
  BY <1>1, <1>2, <1>4, <1>5, <1>6, <1>7, <1>8, CallStep

\* A lost connection leaves the call behind.
LEMMA FailedCorrect ==
  ASSUME IInv, NEW c \in Commits, CommitFailed(c)
  PROVE  IInv'
<1>1. /\ com[c].step = "appending" /\ com' = [com EXCEPT ![c] = NoCommit]
      /\ UNCHANGED <<log, open, agg, bus, basis>>
      /\ faults' = faults + 1 /\ faults < MaxFaults
  BY DEF CommitFailed, Fault
<1>2. com'[c] = NoCommit /\ \A d \in Commits \ {c} : com'[d] = com[d]
  BY <1>1 DEF IInv, TypeOK
<1>3. faults' \in 0 .. MaxFaults /\ faults' # 0 /\ faults \in Nat
  BY <1>1, UnitOfWorkAssumption DEF IInv, TypeOK
<1>4. TypeOK'
  BY <1>1, <1>3 DEF IInv, TypeOK, Has
<1>5. BasisKept /\ Extends
  BY <1>1, Quiet DEF BasisKept
<1>6. CallSound(c)' /\ ComSound(c)'
  <2>1. CallSound(c)'
    BY <1>1, <1>3, <1>5, CallKept
  <2> QED
    BY <1>2, <2>1 DEF ComSound
<1>7. \A h \in Handlers : Shared(c, h)'
  BY <1>1, <1>5, SharedKept DEF Has
<1>8. \A d \in Commits \ {c} : CallSound(d)' /\ ComSound(d)' /\ \A h \in Handlers : Shared(d, h)'
  BY <1>1, <1>2, <1>3, OthersKept
<1>9. \A d \in Commits : /\ com'[d] = com[d] \/ ~ Projecting(d)'
                         /\ com'[d].step = "refused" => com'[d] = com[d]
  BY <1>2 DEF NoCommit, Projecting
<1> QED
  BY <1>1, <1>3, <1>4, <1>6, <1>7, <1>8, <1>9, CallStep

\* A refusal that nobody hears of.
LEMMA LateRefusedCorrect ==
  ASSUME IInv, NEW c \in Commits, com[c].step # "appending", Stream!Refuse(c),
         UNCHANGED <<agg, com, bus, faults, basis>>
  PROVE  IInv'
<1>1. /\ UNCHANGED log /\ open' \in [Commits -> Calls \cup {NoCall}]
      /\ open'[c] = NoCall /\ \A d \in Commits \ {c} : open'[d] = open[d]
  BY NoEffectOf DEF IInv
<1>2. TypeOK'
  BY <1>1 DEF IInv, TypeOK, Has
<1>3. CallSound(c)' /\ ComSound(c)' /\ \A h \in Handlers : Shared(c, h)'
  BY <1>1, EndedCall
<1>4. \A d \in Commits \ {c} : CallSound(d)' /\ ComSound(d)' /\ \A h \in Handlers : Shared(d, h)'
  BY <1>1, OthersKept DEF IInv, TypeOK
<1> QED
  BY <1>1, <1>2, <1>3, <1>4, CallStep
-----------------------------------------------------------------------------
\* What an append leaves as it was, whoever waits for it.
LEMMA AppendKept ==
  ASSUME IInv, NEW c \in Commits, Stream!TakeEffect(c), UNCHANGED <<bus, faults, basis>>,
         \A d \in Commits \ {c} : com'[d] = com[d],
         com[c].step # "appending" => com'[c] = com[c],
         \A k \in Handlers :
           \/ agg'[k] = agg[k]
           \/ /\ com[c].step = "appending" /\ com[c].of = k /\ Has(k) /\ Has(k)'
              /\ agg'[k].stream = agg[k].stream /\ agg'[k].seen = agg[k].seen
              /\ agg'[k].uncommitted = agg[k].uncommitted
  PROVE  /\ \A d \in Commits : CallSound(d)' /\ \A k \in Handlers : Shared(d, k)'
         /\ \A d \in Commits \ {c} : ComSound(d)' /\ CopyOrdered(d)'
         /\ \A h, k \in Handlers : Private(h, k)'
         /\ \A k \in Handlers : agg'[k] = agg[k] => AggSound(k)'
         /\ \A k \in Handlers :
              agg'[k] = agg[k] /\ (com'[c] = com[c] \/ com'[c].of # k) => Counted(k)'
         /\ NoBlindWrites' /\ StoredNotFresh' /\ StreamsCreated' /\ PublishedInOrder'
         /\ com'[c].step # "refused" \/ com'[c] = com[c] => RefusalExplained'
<1> DEFINE b == open[c].batch
<1>1. /\ Calling(c) /\ Unstored(b) /\ b # <<>>
      /\ open'[c] = NoCall /\ \A d \in Commits \ {c} : open'[d] = open[d]
  BY EffectOf DEF Accepted, Unstored
<1>2. /\ Extends /\ Stored' = Stored \cup Elements(b)
      /\ \A s \in Streams : \A n \in 1 .. Len(log'[s]) : n \notin 1 .. Len(log[s]) =>
           \E i \in 1 .. Len(b) : log'[s][n] = b[i]
  BY AppendExtends
<1>3. BasisKept
  BY DEF BasisKept
<1>4. NoBlindWrites' /\ StoredNotFresh' /\ StreamsCreated'
  BY AppendSeesHistory
<1>5. PublishedInOrder' /\ Published' = Published
  <2>1. PublishedInOrder'
    BY <1>2, BusKept
  <2>2. Published' = Published
    BY DEF Published
  <2> QED
    BY <2>1, <2>2
<1>6. ASSUME NEW d \in Commits PROVE CallSound(d)'
  <2>1. CASE d = c
    BY <1>1, <2>1 DEF CallSound, Calling
  <2>2. CASE d # c
    BY <1>1, <1>2, <1>3, <2>2, CallKept
  <2> QED
    BY <2>1, <2>2
<1>7. \A k \in Handlers : /\ Has(k)' = Has(k)
                          /\ Has(k) => /\ agg'[k].stream = agg[k].stream
                                       /\ agg'[k].seen = agg[k].seen
                                       /\ agg'[k].uncommitted = agg[k].uncommitted
  BY DEF Has
<1>8. \A d \in Commits, k \in Handlers : Shared(d, k)'
  BY <1>1, <1>2, <1>7, SharedKept
\* Whoever knows an event of the batch has stored its first one now.
<1>9. ASSUME NEW k \in Handlers, Has(k), Elements(b) \cap agg[k].seen # {}
      PROVE  /\ agg[k].uncommitted # <<>> /\ agg[k].uncommitted[1] \in Elements(b)
             /\ ~ HeadUnstored(k)'
             /\ \A d \in Commits : Projecting(d) => com[d].of # k
  <2>1. agg[k].uncommitted # <<>> /\ agg[k].uncommitted[1] \in Elements(b)
    BY <1>1, <1>9 DEF IInv, Shared
  <2>2. ~ HeadUnstored(k)'
    BY <1>2, <1>7, <1>9, <2>1 DEF HeadUnstored
  <2>3. ASSUME NEW d \in Commits, Projecting(d), com[d].of = k PROVE FALSE
    <3>1. com[d] # NoCommit
      BY <2>3, Fields DEF IInv, Projecting
    <3>2. agg[k].uncommitted[1] \in Stored
      BY <2>3, <3>1 DEF IInv, ComSound
    <3> QED
      BY <1>1, <2>1, <3>2 DEF Unstored
  <2> QED
    BY <2>1, <2>2, <2>3
<1>10. ASSUME NEW d \in Commits \ {c} PROVE ComSound(d)'
  <2>1. com[d] # NoCommit =>
          /\ com[d].of \in Handlers /\ Has(com[d].of)
          /\ Projecting(d) => /\ agg[com[d].of].uncommitted # <<>>
                              /\ Elements(com[d].copy) \cap Published = {}
    BY Fields DEF IInv, ComSound
  <2>2. ASSUME com[d].step = "appending",
               agg'[com[d].of] # agg[com[d].of]
        PROVE  ~ Unstored(com[d].copy)'
    <3>1. com[d] # NoCommit /\ com[c] # NoCommit /\ com[d].of = com[c].of
          /\ com[c].step = "appending"
      <4>1. com[d] # NoCommit
        BY <2>2, Fields DEF IInv
      <4> QED
        BY <2>1, <2>2, <4>1, Fields DEF IInv
    <3> DEFINE k == com[c].of
    <3>2. /\ k \in Handlers /\ Has(k)
          /\ open[c].batch = com[c].copy /\ Elements(com[c].copy) \subseteq agg[k].seen
          /\ Calling(d) /\ open[d].batch = com[d].copy /\ Elements(com[d].copy) \subseteq agg[k].seen
      BY <2>1, <2>2, <3>1 DEF IInv, ComSound
    <3>3. com[d].copy # <<>> /\ com[d].copy \in Seq(Events) /\ b \in Seq(Events)
      BY <1>1, <3>1, <3>2, Fields DEF IInv, CallSound
    <3>4. com[d].copy[1] \in Elements(com[d].copy) /\ b[1] \in Elements(b)
      BY <1>1, <3>3 DEF Elements
    <3>5. agg[k].uncommitted[1] \in Elements(b)
      BY <1>9, <3>2, <3>4
    <3>6. CASE Unstored(com[d].copy)
      <4>1. agg[k].uncommitted[1] \in Elements(com[d].copy)
        BY <3>2, <3>4, <3>6 DEF IInv, Shared
      <4> QED
        BY <1>2, <3>5, <4>1 DEF Unstored
    <3>7. CASE ~ Unstored(com[d].copy)
      BY <1>2, <3>7 DEF Unstored
    <3> QED
      BY <3>6, <3>7
  <2>3. com[d] # NoCommit => Has(com[d].of)'
    BY <1>7, <2>1 DEF Has
  <2> QED
    BY <1>1, <1>2, <1>5, <1>7, <2>1, <2>2, <2>3, ComKept
<1>11. \A d \in Commits \ {c} : CopyOrdered(d)'
  BY <1>2, CopyKept
<1>12. \A h, k \in Handlers : Private(h, k)'
  BY <1>2, <1>7, PrivateKept
<1>13. \A k \in Handlers : agg'[k] = agg[k] => AggSound(k)'
  BY <1>2, <1>3, AggKept
<1>14. ASSUME NEW k \in Handlers, agg'[k] = agg[k], com'[c] = com[c] \/ com'[c].of # k
       PROVE  Counted(k)'
  <2>1. \A d \in Commits : Projecting(d)' /\ com'[d].of = k => Projecting(d) /\ com[d].of = k
    BY <1>14 DEF Projecting
  <2>2. CASE ~ Has(k)
    BY <1>7, <2>2 DEF Counted
  <2>3. CASE Has(k) /\ Elements(b) \cap agg[k].seen # {}
    BY <1>9, <2>1, <2>3 DEF Counted
  <2>4. CASE Has(k) /\ Elements(b) \cap agg[k].seen = {}
    <3>1. agg[k].stream \in Streams
      BY <2>4, Fields DEF IInv
    <3>2. \A i \in 1 .. Len(b) : b[i] \notin agg[k].seen
      BY <2>4 DEF Elements
    <3>3. \A n \in 1 .. Len(log'[agg[k].stream]) : n \notin 1 .. Len(log[agg[k].stream]) =>
            log'[agg[k].stream][n] \notin agg[k].seen
      BY <1>2, <3>1, <3>2
    <3>4. HeadUnstored(k)' => HeadUnstored(k)
      BY <1>2, <1>14 DEF HeadUnstored
    <3> QED
      BY <1>2, <1>14, <2>1, <2>4, <3>3, <3>4, CountedKept
  <2> QED
    BY <2>2, <2>3, <2>4
<1>15. ASSUME com'[c].step # "refused" \/ com'[c] = com[c] PROVE RefusalExplained'
  <2> SUFFICES ASSUME NEW d \in Commits, com'[d].step = "refused"
               PROVE  \/ ~ (Elements(log'[agg'[com'[d].of].stream]) \subseteq agg'[com'[d].of].seen)
                      \/ Elements(com'[d].copy) \cap Stored' # {}
    BY DEF RefusalExplained
  <2>1. com'[d] = com[d]
    BY <1>15
  <2>2. com[d] # NoCommit /\ com[d].of \in Handlers /\ Has(com[d].of)
    BY <2>1, Fields DEF IInv, ComSound
  <2> QED
    BY <1>2, <1>7, <2>1, <2>2, RefusalKept
<1> QED
  BY <1>4, <1>5, <1>6, <1>8, <1>10, <1>11, <1>12, <1>13, <1>14, <1>15

\* An append that nobody waits for is left over from a fault.
LEMMA LateAppendCorrect ==
  ASSUME IInv, NEW c \in Commits, com[c].step # "appending", Stream!TakeEffect(c),
         UNCHANGED <<agg, com, bus, faults, basis>>
  PROVE  IInv'
<1>1. Calling(c) /\ log' \in [Streams -> Seq(Events)]
      /\ open' \in [Commits -> Calls \cup {NoCall}]
  BY EffectOf
<1>2. /\ \A d \in Commits : CallSound(d)' /\ \A k \in Handlers : Shared(d, k)'
      /\ \A d \in Commits \ {c} : ComSound(d)' /\ CopyOrdered(d)'
      /\ \A h, k \in Handlers : Private(h, k)'
      /\ \A k \in Handlers : AggSound(k)' /\ Counted(k)'
      /\ NoBlindWrites' /\ StoredNotFresh' /\ StreamsCreated' /\ PublishedInOrder'
      /\ RefusalExplained'
  BY AppendKept
<1>3. TypeOK'
  BY <1>1 DEF IInv, TypeOK, Has
<1>4. Extends
  BY AppendExtends
<1>5. ComSound(c)'
  <2>1. com[c] # NoCommit =>
          /\ Has(com[c].of)
          /\ Projecting(c) => /\ agg[com[c].of].uncommitted # <<>>
                              /\ Elements(com[c].copy) \cap Published = {}
    BY DEF IInv, ComSound
  <2>2. Published' = Published /\ Has(com[c].of)' = Has(com[c].of)
    BY DEF Published, Has
  <2> QED
    BY <1>4, <2>1, <2>2, ComKept
<1>6. CopyOrdered(c)'
  BY <1>4, CopyKept
<1>7. \A d, e \in Commits : Apart(d, e)'
  BY DEF IInv, Apart, Projecting
<1>8. StoredIsPublished'
  BY <1>1 DEF IInv, CallSound, StoredIsPublished
<1> QED
  BY <1>2, <1>3, <1>5, <1>6, <1>7, <1>8 DEF IInv

\* The version taken over is that of the stream as the append has left it.
LEMMA AppendCorrect ==
  ASSUME IInv, NEW c \in Commits, CommitAppend(c), NEW h \in Handlers, com[c].of = h
  PROVE  IInv'
<1> DEFINE s == agg[h].stream
           q == com[c].copy
           v == VersionAfter(c)
<1>1. /\ com[c].step = "appending" /\ Stream!TakeEffect(c)
      /\ agg' = [agg EXCEPT ![h].version = v]
      /\ com' = [com EXCEPT ![c].step = "projecting"]
      /\ UNCHANGED <<bus, faults, basis>>
  BY DEF CommitAppend
<1>2. /\ com[c] \in Committing /\ com[c] # NoCommit /\ h \in Handlers /\ q \in Seq(Events)
  BY <1>1, Fields DEF IInv
<1>3. /\ com'[c] \in Committing /\ com'[c].of = h /\ com'[c].copy = q
      /\ com'[c].step = "projecting" /\ com'[c] # NoCommit
      /\ \A d \in Commits \ {c} : com'[d] = com[d]
  <2>1. com'[c] = [com[c] EXCEPT !.step = "projecting"]
    BY <1>1, <1>2 DEF IInv, TypeOK
  <2>2. com'[c] \in Committing /\ com'[c].of = h /\ com'[c].copy = q
        /\ com'[c].step = "projecting"
    BY <1>2, <2>1 DEF Committing
  <2>3. \A d \in Commits \ {c} : com'[d] = com[d]
    BY <1>1 DEF IInv, TypeOK
  <2> QED
    BY <2>2, <2>3, NoneIsNone
<1>4. /\ Calling(c) /\ Accepted(c) /\ log' \in [Streams -> Seq(Events)]
      /\ open' \in [Commits -> Calls \cup {NoCall}]
      /\ open[c].batch # <<>> /\ log'[open[c].stream] = log[open[c].stream] \o open[c].batch
  BY <1>1, EffectOf
<1>5. /\ Has(h) /\ Distinct(q) /\ Elements(q) \subseteq agg[h].seen
      /\ open[c].stream = s /\ open[c].batch = q
      /\ Unstored(q) => open[c].expected = agg[h].version
  BY <1>1, <1>2 DEF IInv, ComSound
<1>6. /\ Unstored(q) /\ open[c].expected = Revision(s) /\ agg[h].version = Revision(s)
      /\ q # <<>> /\ log'[s] = log[s] \o q
  BY <1>4, <1>5 DEF Accepted, Unstored
<1>7. /\ s \in Streams /\ log[s] \in Seq(Events) /\ agg[h] \in Aggregate
  BY <1>2, <1>5, Fields DEF IInv
<1> HIDE DEF s, q
<1>8. PICK m \in Nat, n \in Nat : m = Len(log[s]) /\ n = Len(q)
  BY <1>2, <1>7
<1>9. /\ Len(log'[s]) = m + n /\ v = m + n - 1 /\ n > 0
      /\ Elements(log'[s]) = Elements(log[s]) \cup Elements(q)
      /\ log'[s] # <<>> /\ v \in Versions
  <2>1. Len(log'[s]) = m + n /\ Elements(log'[s]) = Elements(log[s]) \cup Elements(q)
    BY <1>2, <1>6, <1>7, <1>8, Concatenation
  <2>2. v = m - 1 + n
    BY <1>5, <1>6, <1>8 DEF VersionAfter, Revision
  <2>3. n > 0
    BY <1>2, <1>6, <1>8
  <2>4. v = m + n - 1 /\ v \in Versions
    BY <2>2, <2>3 DEF Versions
  <2>5. log'[s] # <<>>
    BY <2>1, <2>3
  <2> QED
    BY <2>1, <2>3, <2>4, <2>5
<1> HIDE DEF v
<1>10. /\ agg'[h] \in Aggregate /\ Has(h)' /\ agg'[h].stream = s /\ agg'[h].version = v
       /\ agg'[h].seen = agg[h].seen /\ agg'[h].uncommitted = agg[h].uncommitted
       /\ \A k \in Handlers \ {h} : agg'[k] = agg[k]
  <2>1. agg'[h] = [agg[h] EXCEPT !.version = v] /\ \A k \in Handlers \ {h} : agg'[k] = agg[k]
    BY <1>1, <1>2 DEF IInv, TypeOK
  <2>2. agg'[h] \in Aggregate
    BY <1>7, <1>9, <2>1 DEF Aggregate
  <2>3. /\ agg'[h].stream = s /\ agg'[h].version = v
        /\ agg'[h].seen = agg[h].seen /\ agg'[h].uncommitted = agg[h].uncommitted
    BY <1>7, <2>1 DEF Aggregate, s
  <2>4. Has(h)'
    BY <2>2, NoneIsNone DEF Has
  <2> QED
    BY <2>1, <2>2, <2>3, <2>4
<1>11. TypeOK'
  <2>1. agg' \in [Handlers -> Aggregate \cup {NoAggregate}]
    BY <1>1, <1>2, <1>10 DEF IInv, TypeOK
  <2>2. \A k \in Handlers : Has(k)' => \E f \in agg'[k].seen : Type[f] = UserCreated
    BY <1>5, <1>10 DEF IInv, TypeOK, Has
  <2>3. com' \in [Commits -> Committing \cup {NoCommit}]
    BY <1>1, <1>3 DEF IInv, TypeOK
  <2> QED
    BY <1>1, <1>4, <2>1, <2>2, <2>3 DEF IInv, TypeOK
<1>12. /\ Extends /\ Stored' = Stored \cup Elements(q)
       /\ \A t \in Streams : \A i \in 1 .. Len(log'[t]) : i \notin 1 .. Len(log[t]) =>
            /\ t = s /\ \E j \in 1 .. Len(q) : i = Len(log[t]) + j /\ log'[t][i] = q[j]
       /\ \A t \in Streams : \A i \in 1 .. Len(log'[t]) :
              log'[t][i] \in Stored => i \in 1 .. Len(log[t]) /\ log'[t][i] = log[t][i]
  <2> DEFINE b == open[c].batch
  <2>1. /\ Extends /\ Stored' = Stored \cup Elements(b)
        /\ \A t \in Streams : \A i \in 1 .. Len(log'[t]) : i \notin 1 .. Len(log[t]) =>
             /\ t = open[c].stream
             /\ \E j \in 1 .. Len(b) : i = Len(log[t]) + j /\ log'[t][i] = b[j]
    BY <1>1, AppendExtends
  <2>2. open[c].stream = s /\ b = q
    BY <1>5
  <2> QED
    BY <2>1, <2>2, ExtendsFacts DEF IInv
<1>13. /\ \A d \in Commits : CallSound(d)' /\ \A k \in Handlers : Shared(d, k)'
       /\ \A d \in Commits \ {c} : ComSound(d)' /\ CopyOrdered(d)'
       /\ \A j, k \in Handlers : Private(j, k)'
       /\ \A k \in Handlers \ {h} : AggSound(k)' /\ Counted(k)'
       /\ NoBlindWrites' /\ StoredNotFresh' /\ StreamsCreated' /\ PublishedInOrder'
       /\ RefusalExplained'
  BY <1>1, <1>3, <1>5, <1>10, AppendKept DEF s
<1>14. agg[h].uncommitted # <<>> /\ agg[h].uncommitted[1] \in Elements(q)
  <2>1. q[1] \in Elements(q)
    BY <1>2, <1>6 DEF Elements
  <2> QED
    BY <1>2, <1>4, <1>5, <1>6, <2>1 DEF IInv, Shared, Unstored
<1>15. AggSound(h)'
  <2>1. /\ Elements(log[s]) \subseteq agg[h].seen
        /\ Elements(agg[h].uncommitted) \subseteq agg[h].seen
        /\ Distinct(agg[h].uncommitted) /\ \A e \in agg[h].seen : ~ Fresh(e)
    BY <1>2, <1>5, <1>6 DEF IInv, AggSound, s
  <2>2. Distinct(agg[h].uncommitted)' /\ \A e \in agg[h].seen : (~ Fresh(e))'
    BY <1>1, <1>10, <2>1 DEF Distinct, Fresh
  <2>3. ~ Unstored(agg[h].uncommitted)'
    <3>1. agg[h].uncommitted \in Seq(Events)
      BY <1>7 DEF Aggregate
    <3>2. agg[h].uncommitted[1] \in Elements(agg[h].uncommitted)
      BY <1>14, <3>1, FirstElement
    <3>3. Elements(agg'[h].uncommitted) \cap Stored' # {}
      BY <1>10, <1>12, <1>14, <3>2
    <3> QED
      BY <3>3 DEF Unstored
  <2>4. agg'[h].version =< Len(log'[s]) - 1
    BY <1>8, <1>9, <1>10
  <2>5. Elements(log'[s]) \subseteq agg[h].seen
    BY <1>5, <1>9, <2>1
  <2> QED
    BY <1>9, <1>10, <2>1, <2>2, <2>3, <2>4, <2>5 DEF AggSound, Revision
<1>16. Counted(h)'
  <2>1. PICK k \in Nat : k = m + n
    OBVIOUS
  <2>2. Known(h)' \subseteq 1 .. k
    BY <1>9, <1>10, <2>1 DEF Known
  <2>3. IsFiniteSet(1 .. k) /\ Cardinality(1 .. k) = k
    BY FS_Interval
  <2>4. Cardinality(Known(h)') =< k
    BY <2>2, <2>3, FS_Subset
  <2>5. agg'[h].version + 1 = k
    BY <1>9, <1>10, <2>1
  <2> QED
    BY <2>4, <2>5 DEF Counted
<1>17. Published' = Published /\ Published \subseteq Stored
  BY <1>1 DEF Published, IInv, PublishedInOrder
<1>18. ComSound(c)'
  <2>1. Distinct(com[c].copy)' /\ Has(com[c].of)'
    BY <1>3, <1>5, <1>10 DEF Distinct, Has
  <2>2. Elements(q) \subseteq Stored' \ Published'
    BY <1>6, <1>12, <1>17 DEF Unstored
  <2> QED
    BY <1>3, <1>5, <1>9, <1>10, <1>14, <2>1, <2>2 DEF ComSound, Projecting
<1>19. CopyOrdered(c)'
  <2>1. \A i \in 1 .. Len(q) : q[i] \notin Stored
    BY <1>6 DEF Unstored, Elements
  <2>2. ASSUME NEW i \in 1 .. Len(q), NEW t \in Streams, NEW k \in 1 .. Len(log'[t]),
               log'[t][k] = q[i]
        PROVE  t = s /\ k = m + i
    <3>1. k \notin 1 .. Len(log[t])
      <4> SUFFICES ASSUME k \in 1 .. Len(log[t]) PROVE FALSE
        OBVIOUS
      <4>1. log[t][k] \in Stored
        BY DEF Stored, Elements
      <4> QED
        BY <1>12, <2>1, <2>2, <4>1 DEF Extends
    <3>2. t = s
      BY <1>12, <3>1
    <3>3. PICK j \in 1 .. Len(q) : k = Len(log[t]) + j /\ log'[t][k] = q[j]
      BY <1>12, <3>1
    <3>4. j = i
      BY <1>5, <2>2, <3>3 DEF Distinct
    <3> QED
      BY <1>8, <3>2, <3>3, <3>4
  <2>3. ASSUME NEW i \in 1 .. Len(q), NEW j \in 1 .. Len(q), i < j
        PROVE  \A t \in Streams : \A k, l \in 1 .. Len(log'[t]) :
                 log'[t][k] = q[i] /\ log'[t][l] = q[j] => k < l
    BY <1>8, <2>2, <2>3
  <2>4. ASSUME NEW a \in Elements(bus[h]), NEW b \in Elements(q)
        PROVE  \A t \in Streams : \A k, l \in 1 .. Len(log'[t]) :
                 log'[t][k] = a /\ log'[t][l] = b => k < l
    <3> SUFFICES ASSUME NEW t \in Streams, NEW k \in 1 .. Len(log'[t]),
                        NEW l \in 1 .. Len(log'[t]), log'[t][k] = a, log'[t][l] = b
                 PROVE  k < l
      OBVIOUS
    <3>1. PICK j \in 1 .. Len(q) : b = q[j]
      BY DEF Elements
    <3>2. t = s /\ l = m + j
      BY <2>2, <3>1
    <3>3. a \in Stored
      BY <1>2, <1>17 DEF Published
    <3>4. k \in 1 .. m
      BY <1>8, <1>12, <3>2, <3>3
    <3> QED
      BY <1>8, <3>2, <3>4
  <2>5. bus'[com'[c].of] = bus[h]
    BY <1>1, <1>3
  <2> QED
    BY <1>3, <2>3, <2>4, <2>5 DEF CopyOrdered, InOrder
<1>20. ASSUME NEW d \in Commits \ {c}, Projecting(d)
       PROVE  com'[d] = com[d] /\ Elements(com[d].copy) \cap Elements(q) = {}
  <2>1. com[d] # NoCommit
    BY <1>20, Fields DEF IInv, Projecting
  <2> QED
    BY <1>3, <1>6, <1>20, <2>1 DEF IInv, ComSound, Unstored
<1>21. \A d \in Commits \ {c} : Projecting(d)' <=> Projecting(d)
  BY <1>3 DEF Projecting
<1>22. \A d, e \in Commits : Apart(d, e)'
  BY <1>3, <1>20, <1>21 DEF IInv, Apart
<1>23. StoredIsPublished'
  <2> SUFFICES ASSUME faults' = 0, NEW e \in Stored' \ Published'
               PROVE  \E d \in Commits : Projecting(d)' /\ e \in Elements(com'[d].copy)
    BY DEF StoredIsPublished
  <2>1. CASE e \in Elements(q)
    BY <1>3, <2>1 DEF Projecting
  <2>2. CASE e \in Stored
    <3>1. PICK d \in Commits : Projecting(d) /\ e \in Elements(com[d].copy)
      BY <1>1, <1>17, <2>2 DEF IInv, StoredIsPublished
    <3>2. d # c
      BY <1>1, <3>1 DEF Projecting
    <3> QED
      BY <1>20, <1>21, <3>1, <3>2
  <2> QED
    BY <1>12, <2>1, <2>2
<1> QED
  BY <1>11, <1>13, <1>15, <1>16, <1>18, <1>19, <1>22, <1>23 DEF IInv

\* What a commit publishes is stored, in its order, and published by nobody else.
LEMMA FinishCorrect ==
  ASSUME IInv, NEW c \in Commits, CommitFinish(c), NEW h \in Handlers, com[c].of = h
  PROVE  IInv'
<1> DEFINE s == agg[h].stream
           q == com[c].copy
           p == bus[h]
<1>1. /\ Projecting(c)
      /\ agg' = [agg EXCEPT ![h].uncommitted = <<>>]
      /\ bus' = [bus EXCEPT ![h] = @ \o q]
      /\ com' = [com EXCEPT ![c] = NoCommit]
      /\ UNCHANGED <<log, open, faults, basis>>
  BY DEF CommitFinish, Publish, Projecting
<1>2. com[c] # NoCommit /\ q \in Seq(Events) /\ p \in Seq(Events)
  BY <1>1, Fields DEF IInv, Projecting
<1>3. /\ Has(h) /\ log[s] # <<>> /\ Elements(q) \subseteq Stored \ Published
      /\ agg[h].uncommitted # <<>> /\ agg[h].uncommitted[1] \in Elements(q)
  BY <1>1, <1>2 DEF IInv, ComSound
<1>4. agg[h] \in Aggregate /\ s \in Streams
  BY <1>3, Fields DEF IInv
<1>5. BasisKept
  BY <1>1 DEF BasisKept
<1>6. Extends /\ Stored' = Stored /\ StoredNotFresh' /\ StreamsCreated' /\ NoBlindWrites'
  BY <1>1, <1>5, Quiet
<1>7. /\ agg'[h] \in Aggregate /\ Has(h)' /\ agg'[h].stream = s
      /\ agg'[h].version = agg[h].version /\ agg'[h].seen = agg[h].seen
      /\ agg'[h].uncommitted = <<>> /\ \A k \in Handlers \ {h} : agg'[k] = agg[k]
  <2>1. agg'[h] = [agg[h] EXCEPT !.uncommitted = <<>>]
        /\ \A k \in Handlers \ {h} : agg'[k] = agg[k]
    BY <1>1 DEF IInv, TypeOK
  <2>2. agg'[h] \in Aggregate
    <3>1. <<>> \in Seq(Events)
      OBVIOUS
    <3> QED
      BY <1>4, <2>1, <3>1 DEF Aggregate
  <2>3. /\ agg'[h].stream = s /\ agg'[h].version = agg[h].version
        /\ agg'[h].seen = agg[h].seen /\ agg'[h].uncommitted = <<>>
    BY <1>4, <2>1 DEF Aggregate
  <2>4. Has(h)'
    BY <2>2, NoneIsNone DEF Has
  <2> QED
    BY <2>1, <2>2, <2>3, <2>4
<1>8. /\ com'[c] = NoCommit /\ ~ Projecting(c)'
      /\ \A d \in Commits \ {c} : com'[d] = com[d] /\ (Projecting(d)' <=> Projecting(d))
  BY <1>1 DEF IInv, TypeOK, Projecting, NoCommit
<1>9. bus'[h] = p \o q /\ \A k \in Handlers \ {h} : bus'[k] = bus[k]
  BY <1>1 DEF IInv, TypeOK
<1> HIDE DEF s, q, p
<1>10. /\ Len(p \o q) = Len(p) + Len(q) /\ p \o q \in Seq(Events)
       /\ \A i \in 1 .. Len(p) : (p \o q)[i] = p[i]
       /\ \A i \in 1 .. Len(q) : (p \o q)[Len(p) + i] = q[i]
       /\ Elements(p \o q) = Elements(p) \cup Elements(q)
  BY <1>2, Concatenation
<1>11. Published' = Published \cup Elements(q)
  <2>1. /\ Elements(bus'[h]) = Elements(bus[h]) \cup Elements(q)
        /\ \A k \in Handlers \ {h} : Elements(bus'[k]) = Elements(bus[k])
    BY <1>9, <1>10 DEF p
  <2>2. Published' \subseteq Published \cup Elements(q)
    BY <2>1 DEF Published
  <2>3. Published \cup Elements(q) \subseteq Published'
    <3>1. \A k \in Handlers : Elements(bus[k]) \subseteq Elements(bus'[k])
      BY <2>1
    <3> QED
      BY <2>1, <3>1 DEF Published
  <2> QED
    BY <2>2, <2>3
<1>12. TypeOK'
  <2>1. agg' \in [Handlers -> Aggregate \cup {NoAggregate}]
    BY <1>1, <1>7 DEF IInv, TypeOK
  <2>2. \A k \in Handlers : Has(k)' => \E f \in agg'[k].seen : Type[f] = UserCreated
    BY <1>3, <1>7 DEF IInv, TypeOK, Has
  <2>3. com' \in [Commits -> Committing \cup {NoCommit}]
    BY <1>1 DEF IInv, TypeOK
  <2>4. bus' \in [Handlers -> Seq(Events)]
    BY <1>1, <1>9, <1>10 DEF IInv, TypeOK
  <2> QED
    BY <1>1, <2>1, <2>2, <2>3, <2>4 DEF IInv, TypeOK
\* No other commit of this aggregate is projecting.
<1>13. ASSUME NEW d \in Commits \ {c}, Projecting(d)
       PROVE  /\ com[d].of \in Handlers \ {h} /\ Has(com[d].of)
              /\ agg[com[d].of].uncommitted # <<>>
              /\ Elements(com[d].copy) \cap Published' = {}
  <2>1. com[d] # NoCommit /\ com[d].of \in Handlers
    BY <1>13, Fields DEF IInv, Projecting
  <2>2. /\ Has(com[d].of) /\ agg[com[d].of].uncommitted # <<>>
        /\ agg[com[d].of].uncommitted[1] \in Elements(com[d].copy)
        /\ Elements(com[d].copy) \cap Published = {}
    BY <1>13, <2>1 DEF IInv, ComSound
  <2>3. Elements(com[d].copy) \cap Elements(q) = {}
    BY <1>1, <1>13 DEF IInv, Apart, q
  <2> QED
    BY <1>3, <1>11, <2>1, <2>2, <2>3
<1>14. AggSound(h)'
  <2>1. /\ agg[h].version =< Revision(s)
        /\ agg[h].version = Revision(s) => Elements(log[s]) \subseteq agg[h].seen
        /\ \A e \in agg[h].seen : ~ Fresh(e)
    BY <1>3 DEF IInv, AggSound, s
  <2>2. /\ agg'[h].version =< Len(log'[s]) - 1
        /\ agg'[h].version = Len(log'[s]) - 1 => Elements(log'[s]) \subseteq agg'[h].seen
        /\ \A e \in agg'[h].seen : (~ Fresh(e))'
    BY <1>1, <1>7, <2>1 DEF Revision, Fresh
  <2>3. Elements(<<>>) = {} /\ Distinct(agg[h].uncommitted)' /\ Len(<<>>) = 0
    BY <1>7 DEF Elements, Distinct
  <2>4. log'[s] # <<>>
    BY <1>1, <1>3
  <2> QED
    BY <1>7, <2>2, <2>3, <2>4 DEF AggSound, Revision
<1>15. Counted(h)'
  <2>1. Cardinality(Known(h)) =< agg[h].version + 1
    BY <1>1, <1>3 DEF IInv, Counted
  <2>2. Known(h)' = Known(h)
    BY <1>1, <1>7 DEF Known, s
  <2> QED
    BY <1>7, <2>1, <2>2 DEF Counted
<1>16. ASSUME NEW k \in Handlers \ {h} PROVE AggSound(k)' /\ Counted(k)'
  <2>1. AggSound(k)'
    BY <1>5, <1>6, <1>7, AggKept
  <2>2. HeadUnstored(k)' => HeadUnstored(k)
    BY <1>6, <1>7 DEF HeadUnstored
  <2>3. \A d \in Commits : Projecting(d)' /\ com'[d].of = k => Projecting(d) /\ com[d].of = k
    BY <1>8
  <2>4. \A n \in 1 .. Len(log'[agg[k].stream]) : n \in 1 .. Len(log[agg[k].stream])
    BY <1>1
  <2>5. Counted(k)'
    BY <1>6, <1>7, <2>2, <2>3, <2>4, CountedKept DEF Has
  <2> QED
    BY <2>1, <2>5
<1>17. \A k, l \in Handlers : Private(k, l)'
  <2>1. \A k \in Handlers :
          agg'[k] = agg[k] \/ agg'[k] = NoAggregate \/ (Has(k) /\ agg'[k].seen = agg[k].seen)
    BY <1>3, <1>7
  <2> QED
    BY <1>6, <2>1, PrivateKept
<1>18. ASSUME NEW d \in Commits PROVE CallSound(d)'
  <2>1. com'[d].step # "appending" => com[d].step # "appending"
    BY <1>1, <1>8 DEF Projecting
  <2> QED
    BY <1>1, <1>5, <1>6, <2>1, CallKept
<1>19. ASSUME NEW d \in Commits PROVE ComSound(d)'
  <2>1. CASE d = c
    BY <1>8, <2>1 DEF ComSound
  <2>2. CASE d # c
    <3>1. com[d] # NoCommit => com[d].of \in Handlers /\ Has(com[d].of)
      BY Fields DEF IInv, ComSound
    <3>2. com[d] # NoCommit =>
            /\ agg'[com[d].of] # NoAggregate /\ agg'[com[d].of].stream = agg[com[d].of].stream
            /\ agg'[com[d].of].seen = agg[com[d].of].seen
            /\ agg'[com[d].of].version = agg[com[d].of].version
      BY <1>7, <3>1 DEF Has, s
    <3>3. com[d] # NoCommit => Has(com[d].of)'
      BY <1>8, <2>2, <3>2 DEF Has
    <3>4. Projecting(d) => /\ agg'[com[d].of].uncommitted # <<>>
                           /\ agg'[com[d].of].uncommitted[1] = agg[com[d].of].uncommitted[1]
                           /\ Elements(com[d].copy) \cap Published' = {}
      BY <1>7, <1>13, <2>2
    <3> QED
      BY <1>1, <1>6, <1>8, <2>2, <3>2, <3>3, <3>4, ComKept
  <2> QED
    BY <2>1, <2>2
<1>20. ASSUME NEW d \in Commits, NEW k \in Handlers PROVE Shared(d, k)'
  <2>1. agg[h].uncommitted[1] \in Stored
    BY <1>3
  <2>2. CASE k = h
    BY <1>1, <1>3, <1>6, <1>7, <2>1, <2>2, SharedKept
  <2>3. CASE k # h
    BY <1>1, <1>6, <1>7, <2>3, SharedKept DEF Has
  <2> QED
    BY <2>2, <2>3
<1>21. ASSUME NEW d \in Commits PROVE CopyOrdered(d)'
  <2>1. CASE d = c
    BY <1>8, <2>1 DEF CopyOrdered
  <2>2. CASE d # c
    <3>1. Projecting(d) => bus'[com[d].of] = bus[com[d].of]
      BY <1>9, <1>13, <2>2
    <3> QED
      BY <1>6, <1>8, <2>2, <3>1, CopyKept
  <2> QED
    BY <2>1, <2>2
<1>22. \A d, e \in Commits : Apart(d, e)'
  BY <1>8 DEF IInv, Apart
<1>23. StoredIsPublished'
  <2> SUFFICES ASSUME faults' = 0, NEW e \in Stored \ Published, e \notin Elements(q)
               PROVE  \E d \in Commits : Projecting(d)' /\ e \in Elements(com'[d].copy)
    BY <1>6, <1>11 DEF StoredIsPublished
  <2>1. PICK d \in Commits : Projecting(d) /\ e \in Elements(com[d].copy)
    BY <1>1 DEF IInv, StoredIsPublished
  <2>2. d # c
    BY <2>1 DEF q
  <2> QED
    BY <1>8, <2>1, <2>2
<1>24. PublishedInOrder'
  <2>1. /\ Published \subseteq Stored
        /\ \A k, l \in Handlers : k # l => Elements(bus[k]) \cap Elements(bus[l]) = {}
        /\ \A k \in Handlers : \A i, j \in 1 .. Len(bus[k]) :
             i < j => InOrder(bus[k][i], bus[k][j])
    BY DEF IInv, PublishedInOrder
  <2>3. Published' \subseteq Stored'
    BY <1>3, <1>6, <1>11, <2>1
  <2>4. \A k \in Handlers \ {h} : Elements(bus[k]) \cap Elements(q) = {}
    BY <1>3 DEF Published
  <2>5. \A k, l \in Handlers : k # l => Elements(bus'[k]) \cap Elements(bus'[l]) = {}
    <3>1. /\ Elements(bus'[h]) = Elements(bus[h]) \cup Elements(q)
          /\ \A k \in Handlers \ {h} : Elements(bus'[k]) = Elements(bus[k])
      BY <1>9, <1>10 DEF p
    <3> QED
      BY <2>1, <2>4, <3>1
  <2>6. ASSUME NEW i \in 1 .. Len(p \o q), NEW j \in 1 .. Len(p \o q), i < j
        PROVE  InOrder((p \o q)[i], (p \o q)[j])
    <3>1. /\ \A k, l \in 1 .. Len(p) : k < l => InOrder(p[k], p[l])
          /\ \A k, l \in 1 .. Len(q) : k < l => InOrder(q[k], q[l])
          /\ \A a \in Elements(p), b \in Elements(q) : InOrder(a, b)
      BY <1>1, <2>1 DEF IInv, CopyOrdered, p, q
    <3>2. PICK m \in Nat, n \in Nat : m = Len(p) /\ n = Len(q)
      BY <1>2
    <3>3. CASE j \in 1 .. m
      <4>1. i \in 1 .. m
        BY <2>6, <3>3
      <4> QED
        BY <1>10, <2>6, <3>1, <3>2, <3>3, <4>1
    <3>4. CASE i \in 1 .. m /\ j \notin 1 .. m
      <4>1. PICK l \in 1 .. n : j = m + l
        <5>1. j - m \in 1 .. n /\ j = m + (j - m)
          BY <1>10, <3>2, <3>4
        <5> QED
          BY <5>1
      <4>2. (p \o q)[i] \in Elements(p) /\ (p \o q)[j] \in Elements(q)
        BY <1>10, <3>2, <3>4, <4>1 DEF Elements
      <4> QED
        BY <3>1, <4>2
    <3>5. CASE i \notin 1 .. m /\ j \notin 1 .. m
      <4>1. PICK k \in 1 .. n, l \in 1 .. n : i = m + k /\ j = m + l
        <5>1. /\ j - m \in 1 .. n /\ j = m + (j - m)
              /\ i - m \in 1 .. n /\ i = m + (i - m)
          BY <1>10, <3>2, <3>5
        <5> QED
          BY <5>1
      <4>2. k < l
        BY <2>6, <4>1
      <4> QED
        BY <1>10, <3>1, <3>2, <4>1, <4>2
    <3> QED
      BY <3>3, <3>4, <3>5
  <2>7. ASSUME NEW k \in Handlers, NEW i \in 1 .. Len(bus'[k]), NEW j \in 1 .. Len(bus'[k]), i < j
        PROVE  InOrder(bus'[k][i], bus'[k][j])
    BY <1>9, <2>1, <2>6, <2>7
  <2>8. \A k \in Handlers : \A i, j \in 1 .. Len(bus'[k]) : i < j =>
          \A t \in Streams : \A m, n \in 1 .. Len(log'[t]) :
            log'[t][m] = bus'[k][i] /\ log'[t][n] = bus'[k][j] => m < n
    <3> SUFFICES ASSUME NEW k \in Handlers, NEW i \in 1 .. Len(bus'[k]),
                        NEW j \in 1 .. Len(bus'[k]), i < j
                 PROVE  \A t \in Streams : \A m, n \in 1 .. Len(log'[t]) :
                          log'[t][m] = bus'[k][i] /\ log'[t][n] = bus'[k][j] => m < n
      OBVIOUS
    <3>1. InOrder(bus'[k][i], bus'[k][j])
      BY <2>7
    <3> QED
      BY <1>1, <3>1 DEF InOrder
  <2> QED
    BY <2>3, <2>5, <2>8 DEF PublishedInOrder, InOrder
<1>25. RefusalExplained'
  <2> SUFFICES ASSUME NEW d \in Commits, com'[d].step = "refused"
               PROVE  \/ ~ (Elements(log'[agg'[com'[d].of].stream]) \subseteq agg'[com'[d].of].seen)
                      \/ Elements(com'[d].copy) \cap Stored' # {}
    BY DEF RefusalExplained
  <2>1. com'[d] = com[d] /\ com[d] # NoCommit
    BY <1>8 DEF NoCommit
  <2>2. com[d].of \in Handlers
    BY <2>1, Fields DEF IInv
  <2>3. /\ agg'[com[d].of].stream = agg[com[d].of].stream
        /\ agg'[com[d].of].seen = agg[com[d].of].seen
    BY <1>7, <2>2 DEF s
  <2> QED
    BY <1>6, <2>1, <2>3, RefusalKept
<1> QED
  BY <1>6, <1>12, <1>14, <1>15, <1>16, <1>17, <1>18, <1>19, <1>20, <1>21, <1>22, <1>23,
     <1>24, <1>25 DEF IInv
-----------------------------------------------------------------------------
\* A step that changes nothing keeps the invariant.
LEMMA StutterCorrect == IInv /\ UNCHANGED vars => IInv'
<1> SUFFICES ASSUME IInv, UNCHANGED vars PROVE IInv'
  OBVIOUS
<1>1. UNCHANGED <<log, open, agg, com, bus, faults, basis>>
  BY DEF vars
<1>2. TypeOK'
  BY <1>1 DEF IInv, TypeOK, Has
<1>3. \A c \in Commits : CallSound(c)' /\ ComSound(c)' /\ \A h \in Handlers : Shared(c, h)'
  BY <1>1, OthersKept DEF IInv, TypeOK
<1> QED
  BY <1>1, <1>2, <1>3, CallStep

\* Every step keeps the invariant.
THEOREM NextCorrect == IInv /\ [Next]_vars => IInv'
<1> SUFFICES ASSUME IInv, [Next]_vars PROVE IInv'
  OBVIOUS
<1>1. ASSUME NEW h \in Handlers, NEW s \in Streams, NEW e \in Events, Create(h, s, e)
      PROVE  IInv'
  BY <1>1, CreateCorrect
<1>2. ASSUME NEW h \in Handlers, NEW s \in Streams, FindById(h, s)
      PROVE  IInv'
  BY <1>2, FindByIdCorrect
<1>3. ASSUME NEW h \in Handlers, NEW e \in Events, Apply(h, e)
      PROVE  IInv'
  BY <1>3, ApplyCorrect
<1>4. ASSUME NEW h \in Handlers, NEW c \in Commits, Commit(h, c)
      PROVE  IInv'
  BY <1>4, CommitCorrect
<1>5. ASSUME NEW h \in Handlers, Return(h)
      PROVE  IInv'
  BY <1>5, ForgetCorrect DEF Return, IInv, TypeOK
<1>6. ASSUME NEW h \in Handlers, Crash(h)
      PROVE  IInv'
  <2>1. Forget(h) /\ faults' = faults + 1 /\ faults < MaxFaults
    BY <1>6 DEF Crash, Fault
  <2>2. faults' \in 0 .. MaxFaults /\ faults' # 0
    BY <2>1, UnitOfWorkAssumption DEF IInv, TypeOK
  <2> QED
    BY <2>1, <2>2, ForgetCorrect
<1>7. ASSUME NEW c \in Commits, CommitAppend(c)
      PROVE  IInv'
  <2>1. com[c].of \in Handlers
    BY <1>7, Fields DEF IInv, CommitAppend
  <2> QED
    BY <1>7, <2>1, AppendCorrect
<1>8. ASSUME NEW c \in Commits, CommitRefused(c)
      PROVE  IInv'
  BY <1>8, RefusedCorrect
<1>9. ASSUME NEW c \in Commits, CommitFinish(c)
      PROVE  IInv'
  <2>1. com[c].of \in Handlers
    BY <1>9, Fields DEF IInv, CommitFinish
  <2> QED
    BY <1>9, <2>1, FinishCorrect
<1>10. ASSUME NEW c \in Commits, CommitFailed(c)
       PROVE  IInv'
  BY <1>10, FailedCorrect
<1>11. ASSUME NEW c \in Commits, LateAppend(c)
       PROVE  IInv'
  BY <1>11, LateAppendCorrect, LateRefusedCorrect DEF LateAppend
<1>12. CASE UNCHANGED vars
  BY <1>12, StutterCorrect
<1> QED
  BY <1>1, <1>2, <1>3, <1>4, <1>5, <1>6, <1>7, <1>8, <1>9, <1>10, <1>11, <1>12 DEF Next

\* The invariant holds in every state.
LEMMA Invariance == Spec => []IInv
<1>1. Init => IInv
  BY InitCorrect
<1>2. IInv /\ [Next]_vars => IInv'
  BY NextCorrect
<1> QED
  BY <1>1, <1>2, PTL DEF Spec
-----------------------------------------------------------------------------
\* The variables hold what the code keeps in them, and every aggregate has the
\* identity that its UserCreated event gave it (user-aggregate.ts:42-49).
THEOREM TypeCorrect == Spec => []TypeOK
<1>1. IInv => TypeOK
  BY DEF IInv
<1> QED
  BY <1>1, Invariance, PTL

\* No event is stored whose aggregate did not know all that is before it in the
\* stream (user-unit-of-work.ts:30-34, event-store.service.ts:133-137).
THEOREM BlindWritesCorrect == Spec => []NoBlindWrites
<1>1. IInv => NoBlindWrites
  BY DEF IInv
<1> QED
  BY <1>1, Invariance, PTL

\* Events are published after they are stored, once, and by one handler in the
\* order of their stream, also if several commits of an aggregate overlap
\* (user-unit-of-work.ts:36-71).
THEOREM PublishedCorrect == Spec => []PublishedInOrder
<1>1. IInv => PublishedInOrder
  BY DEF IInv
<1> QED
  BY <1>1, Invariance, PTL

\* A commit that is refused had a reason: an event its aggregate does not know,
\* or one of its own that is stored already (user-unit-of-work.ts:47-48).
THEOREM RefusalCorrect == Spec => []RefusalExplained
<1>1. IInv => RefusalExplained
  BY DEF IInv
<1> QED
  BY <1>1, Invariance, PTL

\* Without a fault nothing that is stored stays unpublished when no commit is
\* under way (user-unit-of-work.ts:50-71).
THEOREM SettledCorrect == Spec => []SettledIsPublished
<1>1. IInv => SettledIsPublished
  BY DEF IInv, StoredIsPublished, SettledIsPublished, Projecting
<1> QED
  BY <1>1, Invariance, PTL
===============================================================================
