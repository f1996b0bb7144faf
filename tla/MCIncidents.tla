----------------------------- MODULE MCIncidents -----------------------------
(* Instances of Incidents for TLC. *)
EXTENDS Incidents, TLC

CONSTANTS i1, i2, r1, r2, p1, n1

(* Requests of the same kind are interchangeable, and so are incidents. *)
IncidentSymmetry == Permutations(Incidents) \cup Permutations(Requests)
=============================================================================
