---------------------------- MODULE SignalLedger ----------------------------
(***************************************************************************)
(* What the processor promises about the records it leaves, and nothing of *)
(* how: the outcome of each signal, the audit trail in MongoDB, the work   *)
(* items in PostgreSQL and the live feed.  Debouncer implements it.        *)
(*                                                                         *)
(* Two things are not promised, because the code does not keep them: that  *)
(* every opened window becomes a row, and that a signal is audited under   *)
(* the row that counts it.                                                 *)
(***************************************************************************)
EXTENDS Naturals, FiniteSets

CONSTANTS Signals, Components, ComponentOf, None

VARIABLES
    fate,     \* outcome of each signal's ProcessSignal
    audits,   \* signal_audits
    rows,     \* work_items
    live,     \* ids in the live feed
    recounted \* the signals that may have been counted more than once

ledger == <<fate, audits, rows, live, recounted>>

Init ==
    /\ fate = [s \in Signals |-> "new"]
    /\ audits = {}
    /\ rows = {}
    /\ live = {}
    /\ recounted = {}

Ids == {r.id : r \in rows}

(* Somebody has used the id of the work item that s opened. *)
Referenced(s) == s \in Ids \/ \E a \in audits : a.wid = s

(* An audit that may be left for s under work item w: the first one of s, in *)
(* the same component, and under its own work item if that one is in use.  *)
(* A work item whose opener is done has the opener's audit, or it failed.  *)
MayAudit(s, w) ==
    /\ \A a \in audits : a.sig # s
    /\ ComponentOf[w] = ComponentOf[s]
    /\ Referenced(s) => w = s
    /\ w # s => fate[w] # "new"
    /\ fate[w] = "ok" => [sig |-> w, wid |-> w] \in audits

Begin(s) ==
    /\ fate[s] = "new"
    /\ fate' = [fate EXCEPT ![s] = "busy"]
    /\ UNCHANGED <<audits, rows, live, recounted>>

Succeed(s, w) ==
    /\ fate[s] = "busy"
    /\ MayAudit(s, w)
    /\ fate' = [fate EXCEPT ![s] = "ok"]
    /\ audits' = audits \cup {[sig |-> s, wid |-> w]}
    /\ UNCHANGED <<rows, live, recounted>>

(* A failed call may have left its audit behind. *)
Fail(s) ==
    /\ fate[s] = "busy"
    /\ fate' = [fate EXCEPT ![s] = "failed"]
    /\ \/ UNCHANGED audits
       \/ \E w \in Signals : MayAudit(s, w) /\ audits' = audits \cup {[sig |-> s, wid |-> w]}
    /\ UNCHANGED <<rows, live, recounted>>

(* The end of the processor fails every call in progress. *)
FailAll ==
    /\ fate' = [s \in Signals |-> IF fate[s] = "busy" THEN "failed" ELSE fate[s]]
    /\ UNCHANGED <<audits, rows, live, recounted>>

(* The command that counts the signal of a call in progress is sent again. *)
Recount(s) ==
    /\ fate[s] = "busy"
    /\ recounted' = recounted \cup {s}
    /\ UNCHANGED <<fate, audits, rows, live>>

(* A new row counts signals of one component, its opener among them, and   *)
(* none that another row counts unless it was sent again.                  *)
Persist(id, comp, sigs) ==
    /\ id \notin Ids
    /\ \A r \in rows : r.sigs \cap sigs \subseteq recounted
    /\ \A s \in sigs : fate[s] # "new" /\ comp \in {None, ComponentOf[s]}
    /\ id # None => id \in sigs
    /\ id # None /\ fate[id] = "ok" => [sig |-> id, wid |-> id] \in audits
    /\ rows' = rows \cup {[id |-> id, comp |-> comp, sigs |-> sigs]}
    /\ UNCHANGED <<fate, audits, live, recounted>>

Publish(id) ==
    /\ id \in Ids
    /\ live' = live \cup {id}
    /\ UNCHANGED <<fate, audits, rows, recounted>>

(* Redis is not persistent: the live feed may be emptied. *)
Forget ==
    /\ live' = {}
    /\ UNCHANGED <<fate, audits, rows, recounted>>

Next ==
    \/ \E s \in Signals : Begin(s) \/ Fail(s) \/ Recount(s)
    \/ \E s, w \in Signals : Succeed(s, w)
    \/ \E id \in Signals \cup {None}, comp \in Components \cup {None},
          sigs \in SUBSET Signals : Persist(id, comp, sigs)
    \/ \E id \in Ids : Publish(id)
    \/ FailAll \/ Forget

Spec == Init /\ [][Next]_ledger
=============================================================================
