---------------------------- MODULE MCEventStore ----------------------------
(***************************************************************************)
(* Constants of EventStore for TLC.  The batches of the stream compete for *)
(* the same versions: an event, the same event with another one put behind *)
(* it, and an event of its own.  Every batch may be appended by every      *)
(* writer, any number of times.                                            *)
(***************************************************************************)
EXTENDS EventStore

CONSTANTS w1, w2, w3, s1, e1, e2, e3

MCWriters == {w1, w2, w3}
MCStreams == {s1}
MCEvents  == {e1, e2, e3}
MCBatches == [s \in MCStreams |-> {<<e1>>, <<e1, e2>>, <<e3>>}]
\* What the unit of work passes: 'no_stream', and the revisions of the first two
\* rows.  'any', which has no caller, is in MCConnectionPool.
MCRevisions == {-1, 0, 1}
=============================================================================
