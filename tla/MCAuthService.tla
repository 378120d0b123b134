---------------------------- MODULE MCAuthService ----------------------------
(***************************************************************************)
(* Constants of AuthService for TLC: registrations that clash in the       *)
(* e-mail (in another case) or in the username, one whose username is the  *)
(* e-mail of another, and logins with either identifier and either         *)
(* password.                                                               *)
(***************************************************************************)
EXTENDS AuthService

CONSTANTS r1, r2, l1

MCTexts    == {"alice@x.io", "Alice@x.io", "bob@x.io", "ann", "bob"}
MCLower    == [t \in MCTexts |-> IF t = "Alice@x.io" THEN "alice@x.io" ELSE t]
MCTrim     == [t \in MCTexts |-> t]
MCEmail    == {"alice@x.io", "Alice@x.io", "bob@x.io"}
MCUsername == {"ann", "bob"}
MCPasswords == {"p1", "p2", "short"}
MCHash      == [p \in MCPasswords |-> p]

MCCommands == { [email |-> "Alice@x.io", username |-> "ann", password |-> "p1"],
                [email |-> "alice@x.io", username |-> "bob", password |-> "p2"],
                [email |-> "bob@x.io",   username |-> "ann", password |-> "p2"],
                [email |-> "bob@x.io",   username |-> "alice@x.io", password |-> "p2"] }
MCLoginDto == { [identifier |-> "Alice@x.io", password |-> "p1"],
                [identifier |-> "ann",        password |-> "p2"] }
=============================================================================
