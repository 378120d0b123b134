\* Two contexts at a time, one row, one lost result.
SPECIFICATION Spec
CONSTANTS
  c1 = c1  c2 = c2  alice = alice  bob = bob  i1 = i1
  Contexts  <- MCContexts
  Users     <- MCUsers
  Ids       = {i1}
  MaxFaults = 1
SYMMETRY Symmetry
INVARIANTS
  AuditNamesWriters
