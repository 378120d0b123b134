SPECIFICATION Spec
SYMMETRY MCSymmetry
CONSTANTS
  c1 = c1  c2 = c2
  h1 = h1  h2 = h2  s1 = s1  s2 = s2
  e1 = e1  e2 = e2  e3 = e3  e4 = e4
  Handlers <- MCHandlers
  Commits  <- MCCommits
  Streams  = {s1, s2}
  Events   <- MCEvents
  Type     <- MCType
  Later    <- MCLater
  MaxPending = 2
  MaxFaults  = 2
INVARIANTS
  TypeOK
  NoBlindWrites
  RefusalExplained
  PublishedInOrder
  SettledIsPublished
