\* Two registrations and a login, one fault each.
SPECIFICATION FairSpec
CONSTANTS
  r1 = r1  r2 = r2  l1 = l1 
  Requests       = {r1, r2}
  Logins         = {l1}
  Switched       = {r1}
  Erasable       = {r1}
  Commands       <- MCCommands
  Texts          <- MCTexts
  Lower          <- MCLower
  Trim           <- MCTrim
  EmailDto       <- MCEmail
  UsernameDto    <- MCTexts
  EmailRegex     <- MCEmail
  UsernameRegex  <- MCUsername
  Passwords      <- MCPasswords
  ShortPasswords = {"short"}
  Hash           <- MCHash
  Bodies         <- MCLoginDto
  LoginDto       <- MCLoginDto
  MaxTime            = 0
  RegistrationFaults = 1
  LoginFaults        = 1
INVARIANTS
  TokensForRegisteredUsers
PROPERTIES
  CreatedNotRefused
  ImplementsLogin
  ImplementsAccountRegistry
  RequestsAnswered
\* Every request may have been handled.
CHECK_DEADLOCK FALSE
