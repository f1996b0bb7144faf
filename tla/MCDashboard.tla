---------------------------- MODULE MCDashboard ----------------------------
(* Instances of Dashboard for TLC. *)
EXTENDS Dashboard, TLC

CONSTANTS i1, i2

(* The feed polls every 3 s and may wait for longer than that; the other   *)
(* panel polls every 10 s, twice the deadline of the API.                  *)
FeedOverlaps == [p \in Panels |-> IF p = "feed" THEN 2 ELSE 1]
=============================================================================
