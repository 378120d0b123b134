---------------------------- MODULE MCAccessTokens ----------------------------
(***************************************************************************)
(* Constants of AccessTokens for TLC: one account that is switched, deleted*)
(* and logged in to twice, and three environments, one of them incomplete  *)
(* and one with a single secret for both guards, which is also the refresh *)
(* secret of the others.                                                   *)
(***************************************************************************)
EXTENDS AccessTokens

CONSTANTS l1, l2

MCUsers    == {"u1"}
MCTexts    == {"alice@x.io", "ann"}
MCLower    == [t \in MCTexts |-> t]
MCAccounts == { [userId |-> "u1", email |-> "alice@x.io", username |-> "ann",
                 password |-> "p1"] }
MCHash     == [p \in {"p1"} |-> p]
MCBodies   == { [identifier |-> "ann", password |-> "p1"] }

Env(access, refresh) == [g \in Guards |-> IF g = "access" THEN access ELSE refresh]
MCConfigs == { Env("a1", "r1"), Env("r1", "r1"), Env("a1", "unset") }
MCTtl     == [g \in Guards |-> IF g = "access" THEN 1 ELSE 2]
=============================================================================
