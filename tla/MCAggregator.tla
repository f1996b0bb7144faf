---------------------------- MODULE MCAggregator ----------------------------
(* Instances of Aggregator, and with it of Incidents, for TLC. *)
EXTENDS Aggregator, TLC

CONSTANTS i1, i2, r1, r2, p1, n1, ca

OneComponent == [i \in Incidents |-> ca]

(* Requests are interchangeable, and so are incidents of one component. *)
IncidentSymmetry == Permutations(Incidents) \cup Permutations(Requests)
=============================================================================
