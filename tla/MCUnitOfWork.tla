---------------------------- MODULE MCUnitOfWork ----------------------------
(***************************************************************************)
(* Constants of UnitOfWork for TLC: two users' streams, and handlers of    *)
(* two later versions of which h2 does not know the event type "Renamed".  *)
(***************************************************************************)
EXTENDS UnitOfWork, TLC

CONSTANTS h1, h2, c1, c2, s1, s2, e1, e2, e3, e4

MCHandlers == {h1, h2}
MCCommits  == {c1, c2}
MCSymmetry == Permutations(MCCommits) \cup Permutations({s1, s2})
MCEvents   == {e1, e2, e3, e4}
MCType     == [e \in MCEvents |-> IF e \in {e1, e2} THEN UserCreated
                                  ELSE IF e = e3 THEN "Renamed" ELSE "Closed"]
MCLater    == [h \in MCHandlers |-> IF h = h1 THEN {"Renamed", "Closed"} ELSE {"Closed"}]
=============================================================================
