----------------------------- MODULE MCDebouncer -----------------------------
(* Instances of Debouncer for TLC. *)
EXTENDS Debouncer, TLC

CONSTANTS a1, a2, a3, b1, ca, cb, w1, w2

(* One component whose window is opened, slid and reopened. *)
OneComponent == [s \in Signals |-> ca]

(* Two components that share the workers and both flushers. *)
TwoComponents == [s \in Signals |-> IF s = b1 THEN cb ELSE ca]

(* Signals of the same component, and workers, are interchangeable. *)
OneComponentSymmetry == Permutations(Signals) \cup Permutations(Workers)
TwoComponentSymmetry == Permutations({a1, a2}) \cup Permutations(Workers)
=============================================================================
