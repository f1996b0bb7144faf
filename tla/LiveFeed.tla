------------------------------ MODULE LiveFeed ------------------------------
(***************************************************************************)
(* What the live feed promises to whoever polls it, and nothing of how:    *)
(* an incident is stored before it is listed, is listed during at most one *)
(* stretch of time, and not for the first time after it was closed.        *)
(* Incidents implements it.                                                *)
(*                                                                         *)
(* Not promised, because the code does not keep it: that a stored incident *)
(* is ever listed, and that a closed one leaves.                           *)
(***************************************************************************)
EXTENDS Naturals

CONSTANT Incidents

VARIABLES
    stored,  \* the incidents that have a row
    closed,  \* those that have been closed
    listed,  \* those in the feed
    left     \* those that are never listed again

feed == <<stored, closed, listed, left>>

Init ==
    /\ stored = {}
    /\ closed = {}
    /\ listed = {}
    /\ left = {}

(* The hot path may not be written after the row. *)
Store(i) ==
    /\ i \notin stored
    /\ stored' = stored \cup {i}
    /\ left' \in {left, left \cup {i}}
    /\ UNCHANGED <<closed, listed>>

List(i) ==
    /\ i \in stored \ (closed \cup listed \cup left)
    /\ listed' = listed \cup {i}
    /\ UNCHANGED <<stored, closed, left>>

(* Only what has been listed can be closed: the id is known from the feed. *)
Close(i) ==
    /\ i \in listed \cup left
    /\ closed' = closed \cup {i}
    /\ UNCHANGED <<stored, listed, left>>

(* A purge, or a fault that keeps incidents out of the feed. *)
Leave(S) ==
    /\ S \subseteq stored
    /\ listed' = listed \ S
    /\ left' = left \cup S
    /\ UNCHANGED <<stored, closed>>

Next ==
    \/ \E i \in Incidents : Store(i) \/ List(i) \/ Close(i)
    \/ \E S \in SUBSET Incidents : Leave(S)

Spec == Init /\ [][Next]_feed
=============================================================================
