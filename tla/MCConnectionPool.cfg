\* Three callers share two connections; one fault.
SPECIFICATION FairPoolSpec
CONSTANTS
  w1 = w1  w2 = w2  w3 = w3
  s1 = s1
  e1 = e1  e2 = e2  e3 = e3
  Writers   <- MCWriters
  Streams   <- MCStreams
  Events    <- MCEvents
  Batches   <- MCBatches
  Revisions <- MCRevisions
  MaxFaults = 1
  Connections = 2
INVARIANTS
  NeverStuck
PROPERTIES
  CallsAnswered
