---------------------------- MODULE EventStream ----------------------------
(***************************************************************************)
(* What the event store promises its callers: every stream is one log, and *)
(* an append takes effect at a single instant, whole or not at all.  It    *)
(* takes effect only if the stream then ends at the revision the caller    *)
(* expected, and it never stores an event that is already stored.          *)
(*                                                                         *)
(* This is the contract of appendToStream(streamId, events,                *)
(* expectedRevision) in event-store.service.ts; EventStore.tla describes   *)
(* the SQL transaction behind it and is checked to implement this.         *)
(***************************************************************************)
EXTENDS Integers, Sequences

CONSTANTS
  Writers,    \* concurrent callers of appendToStream
  Streams,    \* stream ids ("user-<uuid>")
  Events,     \* domain events, identified by eventId
  Batches,    \* Batches[s]: the event batches a caller may append to s
  Revisions   \* the expectedRevision arguments callers pass

VARIABLES
  log,        \* log[s]: the sequence of events of stream s
  open        \* open[w]: the call w has not been answered yet, or NoCall

vars == <<log, open>>

\* expectedRevision 'any'; 'no_stream' is the revision of an empty log
Any    == -2
NoCall == [open |-> FALSE]

Revision(s) == Len(log[s]) - 1
Stored(e)   == \E s \in Streams : \E i \in 1 .. Len(log[s]) : log[s][i] = e

Init ==
  /\ log  = [s \in Streams |-> <<>>]
  /\ open = [w \in Writers |-> NoCall]

Invoke(w, s, batch, expected) ==
  /\ open[w] = NoCall
  /\ open' = [open EXCEPT ![w] = [open |-> TRUE, stream |-> s,
                                  batch |-> batch, expected |-> expected]]
  /\ UNCHANGED log

\* The append takes effect.  Its caller may still see an error (a lost
\* acknowledgement), so success is not part of the contract.
TakeEffect(w) ==
  LET call == open[w] IN
  /\ open[w] # NoCall
  /\ call.expected \in {Any, Revision(call.stream)}
  /\ \A i \in 1 .. Len(call.batch) : ~ Stored(call.batch[i])
  /\ log'  = [log EXCEPT ![call.stream] = @ \o call.batch]
  /\ open' = [open EXCEPT ![w] = NoCall]

\* The call ends with an error and has no effect.
Refuse(w) ==
  /\ open[w] # NoCall
  /\ open' = [open EXCEPT ![w] = NoCall]
  /\ UNCHANGED log

Next ==
  \E w \in Writers :
    \/ \E s \in Streams, expected \in Revisions :
         \E batch \in Batches[s] : Invoke(w, s, batch, expected)
    \/ TakeEffect(w)
    \/ Refuse(w)

Spec == Init /\ [][Next]_vars
=============================================================================
