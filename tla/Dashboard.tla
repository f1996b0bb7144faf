------------------------------ MODULE Dashboard ------------------------------
(***************************************************************************)
(* One open dashboard (frontend/src): the live feed and the analytics      *)
(* panel poll, the detail pane fetches the signals of the incident that is *)
(* selected, and the RCA modal closes it.  No request is ever cancelled    *)
(* and none carries a number, so answers may come in any order.            *)
(*                                                                         *)
(* The API is the environment, reduced to what its answers depend on; the  *)
(* module Incidents has its commands one by one.                           *)
(***************************************************************************)
EXTENDS Naturals, FiniteSets, Sequences, SequencesExt

CONSTANTS
    Incidents,    \* the ids of the work items
    Early,        \* those that are listed when the dashboard is opened
    Panels,       \* the panels that are open: "feed", "analytics"
    Overlap,      \* Overlap[p]: polls of panel p under way at once (bound)
    MaxInFlight,  \* fetches and closures under way at once (bound)
    FaultKinds,   \* "http": a request fails, "redis": a purge fails
    MaxFaults,    \* how many faults in one behaviour (bound)
    None

ASSUME FeedIsOpen == "feed" \in Panels /\ Panels \subseteq {"feed", "analytics"}
ASSUME EarlyAreIncidents == Early \subseteq Incidents
ASSUME NoneIsNoIncident == None \notin Incidents
ASSUME BoundsAreNat == Overlap \in [Panels -> Nat] /\ {MaxInFlight, MaxFaults} \subseteq Nat

VARIABLES
    listed,     \* the incidents GET /incidents/live answers with
    closed,     \* the incidents whose row is closed
    appeared,   \* the incidents that have been listed
    shown,      \* shown[p]: the incidents panel p shows
    polls,      \* polls[p]: answers on their way to p, in the order of their requests
    selected,   \* selectedIncident
    signals,    \* the incident whose signals the pane holds
    loading,    \* the pane says that it is loading
    fetches,    \* incidents whose signals are asked for, in that order
    inOrder,    \* no fetch has failed or been overtaken since the pane was last quiet
    rca,        \* rcaIncident: the incident of the modal
    submitting, \* the modal's button is disabled
    closes,     \* POST /close requests: id, mounted (its modal is still there), reply
    gone,       \* incidents this dashboard was told were closed and purged
    faults      \* faults so far

serverVars == <<listed, closed, appeared>>
panelVars == <<shown, polls>>
paneVars == <<selected, signals, loading, fetches, inOrder>>
modalVars == <<rca, submitting, closes>>
vars == <<serverVars, panelVars, paneVars, modalVars, gone, faults>>

Closure == [id : Incidents, mounted : BOOLEAN,
            reply : {"none", "closed", "kept", "refused"}]

TypeOK ==
    /\ listed \subseteq appeared /\ appeared \subseteq Incidents
    /\ closed \subseteq appeared
    /\ shown \in [Panels -> SUBSET Incidents]
    /\ polls \in [Panels -> Seq(SUBSET Incidents)]
    /\ \A p \in Panels : Len(polls[p]) <= Overlap[p]
    /\ {selected, signals, rca} \subseteq Incidents \cup {None}
    /\ loading \in BOOLEAN /\ inOrder \in BOOLEAN /\ submitting \in BOOLEAN
    /\ fetches \in Seq(Incidents)
    /\ closes \in Seq(Closure)
    /\ Len(fetches) + Len(closes) <= MaxInFlight
    /\ gone \subseteq closed
    /\ faults \in 0 .. MaxFaults

Init ==
    /\ listed = Early /\ appeared = Early /\ closed = {}
    /\ shown = [p \in Panels |-> {}]
    /\ polls = [p \in Panels |-> <<>>]
    /\ selected = None /\ signals = None
    /\ loading = FALSE
    /\ fetches = <<>>
    /\ inOrder = TRUE
    /\ rca = None
    /\ submitting = FALSE
    /\ closes = <<>>
    /\ gone = {}
    /\ faults = 0

Fault(kind) ==
    /\ kind \in FaultKinds
    /\ faults < MaxFaults
    /\ faults' = faults + 1

NoFault == UNCHANGED faults

RoomForOne == Len(fetches) + Len(closes) < MaxInFlight

-----------------------------------------------------------------------------
(* The API.                                                                *)

Appear(i) ==
    /\ i \notin appeared
    /\ listed' = listed \cup {i}
    /\ appeared' = appeared \cup {i}
    /\ UNCHANGED <<closed, panelVars, paneVars, modalVars, gone, faults>>

(* The row is closed; the purge that follows may fail. *)
CloseRow(i) ==
    /\ i \in appeared \ closed
    /\ closed' = closed \cup {i}
    /\ \/ listed' = listed \ {i} /\ NoFault
       \/ listed' = listed /\ Fault("redis")
    /\ UNCHANGED appeared

(* Somebody else closes the incident. *)
CloseElsewhere(i) ==
    /\ CloseRow(i)
    /\ UNCHANGED <<panelVars, paneVars, modalVars, gone>>

Replied(k, reply) == closes' = [closes EXCEPT ![k].reply = reply]

(* 200, with a warning if the purge failed; 409 if it was closed before;   *)
(* an error, whether or not the API had done it by then.                   *)
Serve(k) ==
    /\ closes[k].reply = "none"
    /\ \/ /\ CloseRow(closes[k].id)
          /\ Replied(k, IF closes[k].id \in listed' THEN "kept" ELSE "closed")
       \/ /\ closes[k].id \in closed
          /\ Replied(k, "refused")
          /\ UNCHANGED <<serverVars, faults>>
       \/ /\ Fault("http")
          /\ Replied(k, "refused")
          /\ \/ /\ closes[k].id \notin closed
                /\ closed' = closed \cup {closes[k].id}
                /\ listed' = listed \ {closes[k].id}
                /\ UNCHANGED appeared
             \/ UNCHANGED serverVars
    /\ UNCHANGED <<panelVars, paneVars, rca, submitting, gone>>

-----------------------------------------------------------------------------
(* The panels.                                                             *)

(* Bug: a panel that shows something does not ask again. *)
PollWhenEmpty(p) ==
    /\ Len(polls[p]) < Overlap[p]
    /\ shown[p] = {}
    /\ polls' = [polls EXCEPT ![p] = Append(@, listed)]
    /\ UNCHANGED <<serverVars, shown, paneVars, modalVars, gone, faults>>

(* The timer goes off, whether or not the last answer is there. *)
Poll(p) ==
    /\ Len(polls[p]) < Overlap[p]
    /\ polls' = [polls EXCEPT ![p] = Append(@, listed)]
    /\ UNCHANGED <<serverVars, shown, paneVars, modalVars, gone, faults>>

(* Bug: the whole answer is stored, not its incidents. *)
DeliverRaw(p, k) ==
    /\ polls' = [polls EXCEPT ![p] = RemoveAt(@, k)]
    /\ shown' = [shown EXCEPT ![p] = {polls[p][k]}]
    /\ UNCHANGED <<serverVars, paneVars, modalVars, gone, faults>>

(* An error leaves what the panel shows. *)
Deliver(p, k) ==
    /\ polls' = [polls EXCEPT ![p] = RemoveAt(@, k)]
    /\ \/ shown' = [shown EXCEPT ![p] = polls[p][k]] /\ NoFault
       \/ shown' = shown /\ Fault("http")
    /\ UNCHANGED <<serverVars, paneVars, modalVars, gone>>

-----------------------------------------------------------------------------
(* The detail pane.                                                        *)

(* A click on a row; the modal's backdrop covers the rows.  The effect     *)
(* depends on the id alone: the same id again fetches nothing.             *)
Select(i) ==
    /\ rca = None
    /\ i \in shown["feed"] \ {selected}
    /\ RoomForOne
    /\ selected' = i
    /\ loading' = TRUE
    /\ fetches' = Append(fetches, i)
    /\ inOrder' = (inOrder \/ fetches = <<>>)
    /\ UNCHANGED <<serverVars, panelVars, signals, modalVars, gone, faults>>

Unselect ==
    /\ selected # None
    /\ selected' = None
    /\ UNCHANGED <<serverVars, panelVars, signals, loading, fetches, inOrder,
                   modalVars, gone, faults>>

(* Bug: only an answer for the incident that is still selected is taken. *)
FetchedIfSelected(k) ==
    /\ fetches' = RemoveAt(fetches, k)
    /\ IF fetches[k] = selected
       THEN signals' = selected /\ loading' = FALSE
       ELSE UNCHANGED <<signals, loading>>
    /\ inOrder' = (inOrder /\ k = 1)
    /\ UNCHANGED <<serverVars, panelVars, selected, modalVars, gone, faults>>

(* The signals of the incident that was asked for, closed or not. *)
SignalsArrive(k) ==
    /\ signals' = fetches[k]
    /\ inOrder' = (inOrder /\ k = 1)
    /\ NoFault

SignalsFail ==
    /\ Fault("http")
    /\ inOrder' = FALSE
    /\ UNCHANGED signals

(* An answer is taken whatever is selected by then; an error ends the      *)
(* loading too and leaves the signals that were there.                     *)
Fetched(k) ==
    /\ fetches' = RemoveAt(fetches, k)
    /\ loading' = FALSE
    /\ SignalsArrive(k) \/ SignalsFail
    /\ UNCHANGED <<serverVars, panelVars, selected, modalVars, gone>>

-----------------------------------------------------------------------------
(* The modal.                                                              *)

OpenRCA ==
    /\ rca = None /\ selected # None
    /\ rca' = selected
    /\ UNCHANGED <<serverVars, panelVars, paneVars, submitting, closes, gone, faults>>

Unmounted(cs) == [k \in DOMAIN cs |-> [cs[k] EXCEPT !.mounted = FALSE]]

(* Cancel, or the cross: a request under way goes on without its modal. *)
Cancel ==
    /\ rca # None
    /\ rca' = None
    /\ submitting' = FALSE
    /\ closes' = Unmounted(closes)
    /\ UNCHANGED <<serverVars, panelVars, paneVars, gone, faults>>

Post == closes' = Append(closes, [id |-> rca, mounted |-> TRUE, reply |-> "none"])

(* Bug: the button is not disabled. *)
SubmitAgain ==
    /\ rca # None
    /\ RoomForOne
    /\ submitting' = TRUE
    /\ Post
    /\ UNCHANGED <<serverVars, panelVars, paneVars, rca, gone, faults>>

(* With notes; without, the modal only says so. *)
Submit ==
    /\ rca # None /\ ~submitting
    /\ RoomForOne
    /\ submitting' = TRUE
    /\ Post
    /\ UNCHANGED <<serverVars, panelVars, paneVars, rca, gone, faults>>

(* Bug: the feed is not mounted anew. *)
HandleIncidentClosedNoRefresh(others) ==
    /\ rca' = None /\ selected' = None /\ submitting' = FALSE
    /\ closes' = Unmounted(others)
    /\ UNCHANGED panelVars

(* Bug: the modal stays. *)
HandleIncidentClosedKeepsModal(others) ==
    /\ selected' = None
    /\ submitting' = \E k \in DOMAIN others : others[k].mounted
    /\ closes' = others
    /\ shown' = [shown EXCEPT !["feed"] = {}]
    /\ polls' = [polls EXCEPT !["feed"] = <<>>]
    /\ UNCHANGED rca

(* Whatever modal is there by now is unmounted; the new key mounts a new   *)
(* feed, which starts empty, and answers to the old one's polls are lost.  *)
HandleIncidentClosed(others) ==
    /\ rca' = None /\ selected' = None /\ submitting' = FALSE
    /\ closes' = Unmounted(others)
    /\ shown' = [shown EXCEPT !["feed"] = {}]
    /\ polls' = [polls EXCEPT !["feed"] = <<>>]

(* The request of a modal that was cancelled still calls onClosed; its     *)
(* error and its end of the submission reach nobody.                       *)
Answer(k) ==
    LET c == closes[k]
        others == RemoveAt(closes, k)
    IN  /\ \/ /\ c.reply \in {"closed", "kept"}
              /\ HandleIncidentClosed(others)
              /\ gone' = gone \cup (IF c.reply = "closed" THEN {c.id} ELSE {})
           \/ /\ c.reply = "refused"
              /\ closes' = others
              /\ submitting' = (submitting /\ ~c.mounted)
              /\ UNCHANGED <<selected, rca, panelVars, gone>>
        /\ UNCHANGED <<serverVars, signals, loading, fetches, inOrder, faults>>

-----------------------------------------------------------------------------
Next ==
    \/ \E i \in Incidents : Appear(i) \/ CloseElsewhere(i) \/ Select(i)
    \/ \E p \in Panels : Poll(p) \/ \E k \in DOMAIN polls[p] : Deliver(p, k)
    \/ \E k \in DOMAIN fetches : Fetched(k)
    \/ \E k \in DOMAIN closes : Serve(k) \/ Answer(k)
    \/ Unselect \/ OpenRCA \/ Submit \/ Cancel

Spec == Init /\ [][Next]_vars

(* The timers go on, and every answer comes: each is the oldest some day. *)
FairSpec ==
    /\ Spec
    /\ \A p \in Panels : WF_vars(Poll(p)) /\ WF_vars(1 \in DOMAIN polls[p] /\ Deliver(p, 1))

-----------------------------------------------------------------------------
(* Properties.                                                             *)

(* An incident this dashboard was told is closed never shows up in its     *)
(* feed again, although a poll sent before may be answered after           *)
(* (App.jsx:13-17, LiveFeed.jsx:20-29).                                    *)
ClosedStaysAway == gone \cap shown["feed"] = {}

(* Once nothing is asked for, the pane has stopped loading, and it shows   *)
(* the signals of the incident it is headed by, unless a fetch failed or   *)
(* one answer overtook another (IncidentDetail.jsx:11-20).                 *)
PaneSettles ==
    fetches = <<>> =>
        /\ ~loading
        /\ (inOrder /\ selected # None) => signals = selected

(* A modal has at most one closure under way, and its button is disabled   *)
(* exactly then, whatever came of requests of modals before it             *)
(* (RCAModal.jsx:11-19).                                                   *)
OneSubmissionAtATime ==
    LET own == {k \in DOMAIN closes : closes[k].mounted}
    IN  Cardinality(own) = (IF submitting THEN 1 ELSE 0)

(* Nobody is led to close an incident a second time: one this dashboard    *)
(* was told is closed is neither in the pane nor in the modal, however     *)
(* late that answer was and whatever was opened meanwhile                  *)
(* (App.jsx:13-17, 42-64).                                                 *)
ClosedIsPutAway == {selected, rca} \cap gone = {}

(* An incident that is closed and purged, by whomever, is off every panel  *)
(* in the end and stays off, whatever order the answers come in            *)
(* (LiveFeed.jsx:20-29, Analytics.jsx:13-28).                              *)
PanelsCatchUp ==
    \A i \in Incidents : \A p \in Panels :
        (i \in closed \ listed) ~> [](i \notin shown[p])
=============================================================================
