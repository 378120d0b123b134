--------------------------- MODULE MCRegistration ---------------------------
(***************************************************************************)
(* Constants of Registration for TLC.  The bodies clash in every way two   *)
(* bodies can: the same e-mail in another case, the same username, a       *)
(* username in another case (which is another username), and a username    *)
(* that is the e-mail of somebody else.                                    *)
(***************************************************************************)
EXTENDS Registration, TLC

CONSTANTS r1, r2, r3

MCRequests2 == {r1, r2}
MCRequests3 == {r1, r2, r3}
Symmetry    == Permutations(MCRequests3)

MCTexts == {"alice@x.io", "Alice@x.io", "bob@x.io", " bob@x.io", "ann", "Ann", "bob", "a-b"}
MCLower == [t \in MCTexts |-> CASE t = "Alice@x.io" -> "alice@x.io"
                                [] t = "Ann" -> "ann"
                                [] OTHER -> t]
MCTrim  == [t \in MCTexts |-> IF t = " bob@x.io" THEN "bob@x.io" ELSE t]
MCEmail    == {"alice@x.io", "Alice@x.io", "bob@x.io"}
MCUsername == {"ann", "Ann", "bob"}

Body(email, username, password) ==
  [email |-> email, username |-> username, password |-> password]
MCCommands ==
  { Body("alice@x.io", "ann", "long enough"),
    Body("Alice@x.io", "bob", "long enough"),
    Body("bob@x.io",   "ann", "long enough"),
    Body("bob@x.io",   "Ann", "long enough"),
    Body("bob@x.io",   "Alice@x.io", "long enough"),
    Body("bob@x.io",   "ann", "short"),
    Body(" bob@x.io",  "bob", "long enough"),
    Body("bob@x.io",   "a-b", "long enough") }
\* "a-b" is a username RegisterRequestDto lets pass and Username.create does not.
MCInvalidUser == { Body("bob@x.io", "a-b", "long enough"),
                   Body("alice@x.io", "ann", "long enough") }
=============================================================================
