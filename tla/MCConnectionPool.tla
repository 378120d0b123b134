-------------------------- MODULE MCConnectionPool --------------------------
(***************************************************************************)
(* Constants of ConnectionPool for TLC: three callers and two connections, *)
(* so that all connections can be held by transactions that compete for    *)
(* the rows of one stream while a third caller waits in line.              *)
(***************************************************************************)
EXTENDS ConnectionPool

CONSTANTS w1, w2, w3, s1, e1, e2, e3

MCWriters   == {w1, w2, w3}
MCStreams   == {s1}
MCEvents    == {e1, e2, e3}
MCBatches   == [s \in MCStreams |-> {<<e1, e2>>, <<e3>>}]
MCRevisions == {-2, -1}
=============================================================================
