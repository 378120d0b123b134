-------------------------- MODULE MCAuditableTable --------------------------
(***************************************************************************)
(* Constants of AuditableTable for TLC.                                    *)
(***************************************************************************)
EXTENDS AuditableTable, TLC

CONSTANTS c1, c2, alice, bob, i1

MCUsers    == {alice, bob}
MCContexts == {c1, c2}
Symmetry   == Permutations(MCUsers) \cup Permutations(MCContexts)
=============================================================================
