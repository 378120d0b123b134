\* Three requests, every interleaving, two faults.
SPECIFICATION Spec
CONSTANTS
  r1 = r1  r2 = r2  r3 = r3
  Requests       <- MCRequests3
  Commands       <- MCCommands
  Texts          <- MCTexts
  Lower          <- MCLower
  Trim           <- MCTrim
  EmailDto       <- MCEmail
  UsernameDto    <- MCTexts
  EmailRegex     <- MCEmail
  UsernameRegex  <- MCUsername
  Passwords      = {"long enough", "short"}
  ShortPasswords = {"short"}
  MaxFaults      = 2
SYMMETRY Symmetry
INVARIANTS
  CredentialsAreBacked
  IdentifierUnambiguous
  RejectedLeavesNoTrace
  CreatedCanLogIn
  OrphansExplained
  RefusedForAnAccount
  ProjectionComplete
  LateDuplicateNotWritten
\* Every request may have been handled.
CHECK_DEADLOCK FALSE
