\* Two logins, two accounts and a third after a deletion, two faults.
SPECIFICATION FairSpec
CONSTANTS
  l1 = l1  l2 = l2
  Logins    = {l1, l2}
  Users     <- MCUsers
  Texts     <- MCTexts
  Lower     <- MCLower
  Trim      <- MCLower
  Passwords <- MCPasswords
  Hash      <- MCHash
  Bodies    <- MCBodies
  LoginDto  <- MCLoginDto
  Accounts  <- MCAccounts
  Switched  <- MCSwitched
  Erasable  <- MCErasable
  MaxTime   = 1
  MaxFaults = 2
INVARIANTS
  TypeOK
  TokensForTheNamedAccount
  NoTokensWhileBarred
  LastLoginIsALogin
  AcceptedIsRecorded
  LastLoginNotOvertaken
PROPERTIES
  LoginsAnswered
\* Every login may have been handled.
CHECK_DEADLOCK FALSE
