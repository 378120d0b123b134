\* A username only the value object refuses.
SPECIFICATION Spec
CONSTANTS
  r1 = r1  r2 = r2  r3 = r3
  Requests       <- MCRequests2
  Commands       <- MCInvalidUser
  Texts          <- MCTexts
  Lower          <- MCLower
  Trim           <- MCTrim
  EmailDto       <- MCEmail
  UsernameDto    <- MCTexts
  EmailRegex     <- MCEmail
  UsernameRegex  <- MCUsername
  Passwords      = {"long enough", "short"}
  ShortPasswords = {"short"}
  MaxFaults      = 0
INVARIANTS
  InvalidUserGets400
\* Every request may have been handled.
CHECK_DEADLOCK FALSE
