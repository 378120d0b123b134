\* Two logins to one account, four moments, one fault.
SPECIFICATION TokensSpec
CONSTANTS
  l1 = l1  l2 = l2
  Logins    = {l1, l2}
  Users     <- MCUsers
  Texts     <- MCTexts
  Lower     <- MCLower
  Trim      <- MCLower
  Passwords = {"p1"}
  Hash      <- MCHash
  Bodies    <- MCBodies
  LoginDto  <- MCBodies
  Accounts  <- MCAccounts
  Switched  <- MCUsers
  Erasable  <- MCUsers
  Configs   <- MCConfigs
  Secrets   = {"a1", "r1"}
  Unset     = "unset"
  Ttl       <- MCTtl
  MaxTime   = 3
  MaxFaults = 1
INVARIANTS
  StaleAccessEnds
CHECK_DEADLOCK FALSE
