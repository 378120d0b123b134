------------------------------- MODULE MCLogin -------------------------------
(***************************************************************************)
(* Constants of Login for TLC: two accounts and one that takes over their  *)
(* names after a deletion, logins by e-mail in any case and by username, a *)
(* wrong password, and a body the DTO refuses.                             *)
(***************************************************************************)
EXTENDS Login

CONSTANTS l1, l2

MCUsers   == {"u1", "u2", "u3"}
MCSwitched == {"u1"}
MCErasable == {"u1"}
MCTexts   == {"alice@x.io", "Alice@x.io", "bob@x.io", "ann", "bob", ""}
MCLower   == [t \in MCTexts |-> IF t = "Alice@x.io" THEN "alice@x.io" ELSE t]

Account(u, email, username, password) ==
  [userId |-> u, email |-> email, username |-> username, password |-> password]
MCAccounts == { Account("u1", "alice@x.io", "ann", "p1"),
                Account("u2", "bob@x.io", "bob", "p2"),
                Account("u3", "alice@x.io", "bob", "p2") }

MCPasswords == {"p1", "p2"}
MCHash      == [p \in MCPasswords |-> p]

LoginBody(identifier, password) ==
  [identifier |-> identifier, password |-> password]
MCLoginDto == { LoginBody("Alice@x.io", "p1"),
                LoginBody("ann", "p2"),
                LoginBody("bob@x.io", "p2") }
MCBodies   == MCLoginDto \cup { LoginBody("", "p1") }
=============================================================================
