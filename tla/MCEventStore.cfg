\* Three callers compete for one stream; one fault.
SPECIFICATION FairSpec
CONSTANTS
  w1 = w1  w2 = w2  w3 = w3
  s1 = s1
  e1 = e1  e2 = e2  e3 = e3
  Writers   <- MCWriters
  Streams   <- MCStreams
  Events    <- MCEvents
  Batches   <- MCBatches
  Revisions <- MCRevisions
  MaxFaults = 1
INVARIANTS
  StreamsAreLogs
  EventsStoredOnce
  NoWaitCircles
PROPERTIES
  ExpectedRevisionHonoured
  AckedRevisionCurrent
  ImplementsEventStream
  CallsEnd
