----------------------------- MODULE Aggregator -----------------------------
(***************************************************************************)
(* The metrics aggregator, backend/cmd/aggregator/main.go: a process of    *)
(* its own that every so often counts the incidents closed in the current  *)
(* hour, per component, and upserts hourly_component_metrics, while        *)
(* operators close and reopen incidents.  Every step of Incidents is a     *)
(* step here.  The average that goes with a count is over the same         *)
(* incidents, so a figure is kept as the set of them.                      *)
(***************************************************************************)
EXTENDS Incidents

CONSTANTS
    Components,   \* the component_ids
    ComponentOf   \* the component_id of each work item

ASSUME ItemsHaveComponents == ComponentOf \in [Incidents -> Components]

VARIABLES
    hourly,    \* hourly[h][c]: the incidents the row counts, {} without a row
    step,      \* what the run of the aggregator does next
    current,   \* currentHour of the run
    groups,    \* the rows of its query that are still to be upserted
    closures,  \* <<i, h>>: incident i was closed in hour h (history)
    due        \* what the run has to count: closed before it, left alone since,
               \* and no command for it has failed (history)

aggVars == <<hourly, step, current, groups, closures, due>>
allVars == <<vars, aggVars>>

AggTypeOK ==
    /\ TypeOK
    /\ hourly \in [Hours -> [Components -> SUBSET Incidents]]
    /\ step \in {"idle", "query", "upsert"}
    /\ current \in Hours
    /\ groups \in [Components -> SUBSET Incidents]
    /\ closures \subseteq Incidents \X Hours
    /\ due \subseteq Incidents

NoGroups == [c \in Components |-> {}]

AggInit ==
    /\ Init
    /\ hourly = [h \in Hours |-> NoGroups]
    /\ step = "idle"
    /\ current = 0
    /\ groups = NoGroups
    /\ closures = {}
    /\ due = {}

ClosedIn(c, hs) ==
    {i \in Persisted : /\ ComponentOf[i] = c
                       /\ row[i].status = "closed" /\ row[i].resolved \in hs}

(* Bug: the run is for the hour that is about to begin. *)
TickNextHour ==
    /\ step = "idle"
    /\ step' = "query"
    /\ current' = hour + 1
    /\ UNCHANGED <<hourly, groups, closures, due, vars>>

(* A tick, or the start of the process: the hour is read first. *)
Tick ==
    /\ step = "idle"
    /\ step' = "query"
    /\ current' = hour
    /\ due' = UNION {ClosedIn(c, {hour}) : c \in Components}
    /\ UNCHANGED <<hourly, groups, closures, vars>>

(* Bug: the query has no upper bound. *)
QueryNoBound ==
    /\ step = "query"
    /\ groups' = [c \in Components |-> ClosedIn(c, {h \in Hours : h >= current})]
    /\ step' = "upsert"
    /\ UNCHANGED <<hourly, current, closures, due, vars>>

(* Bug: the query reads the clock again. *)
QueryNow ==
    /\ step = "query"
    /\ groups' = [c \in Components |-> ClosedIn(c, {hour})]
    /\ step' = "upsert"
    /\ UNCHANGED <<hourly, current, closures, due, vars>>

(* The query by component; a component without a closed incident has no    *)
(* group, and an error ends the run.                                       *)
Query ==
    /\ step = "query"
    /\ \/ /\ groups' = [c \in Components |-> ClosedIn(c, {current})]
          /\ step' = "upsert" /\ NoFault
          /\ UNCHANGED due
       \/ /\ Fault("postgres")
          /\ step' = "idle"
          /\ due' = {}
          /\ UNCHANGED groups
    /\ UNCHANGED <<hourly, current, closures>>
    /\ UNCHANGED <<row, zset, card, pub, feedVars, requestVars, hour>>

(* UpsertHourlyMetric for one group; after an error the loop goes on. *)
Upsert(c) ==
    /\ step = "upsert" /\ groups[c] # {}
    /\ groups' = [groups EXCEPT ![c] = {}]
    /\ \/ /\ hourly' = [hourly EXCEPT ![current][c] = groups[c]]
          /\ NoFault
          /\ UNCHANGED due
       \/ /\ Fault("postgres")
          /\ due' = {i \in due : ComponentOf[i] # c}
          /\ UNCHANGED hourly
    /\ UNCHANGED <<step, current, closures>>
    /\ UNCHANGED <<row, zset, card, pub, feedVars, requestVars, hour>>

(* The all-time query that follows is only logged. *)
EndRun ==
    /\ step = "upsert" /\ groups = NoGroups
    /\ step' = "idle"
    /\ due' = {}
    /\ UNCHANGED <<hourly, current, groups, closures, vars>>

AggregatorCrash ==
    /\ Fault("aggregator")
    /\ step' = "idle"
    /\ groups' = NoGroups
    /\ due' = {}
    /\ UNCHANGED <<hourly, current, closures>>
    /\ UNCHANGED <<row, zset, card, pub, feedVars, requestVars, hour>>

(* A step of the rest of the system; the histories are kept up to date. *)
IncidentStep ==
    /\ Next
    /\ closures' = closures \cup
          {<<i, row'[i].resolved>> : i \in
              {j \in Incidents : row'[j] \notin {row[j], None} /\ row'[j].status = "closed"}}
    /\ due' = {i \in due : row'[i] = row[i]}
    /\ UNCHANGED <<hourly, step, current, groups>>

AggNext ==
    \/ IncidentStep
    \/ Tick \/ Query \/ EndRun \/ AggregatorCrash
    \/ \E c \in Components : Upsert(c)

AggSpec == AggInit /\ [][AggNext]_allVars

-----------------------------------------------------------------------------
(* A figure counts only incidents of its component that were closed in its *)
(* hour, though the hour may turn and incidents be closed again or         *)
(* reopened between the clock, the query and the upsert (aggregator        *)
(* main.go:58-97).                                                         *)
HourlyIsReal ==
    \A h \in Hours, c \in Components : \A i \in hourly[h][c] :
        ComponentOf[i] = c /\ <<i, h>> \in closures

(* A run that comes to its end counts every incident that was closed in    *)
(* its hour before it began and that nobody has touched since, though the  *)
(* hour may have turned meanwhile: only an incident closed after the last  *)
(* run of its hour is missing for good (aggregator main.go:58-97).         *)
ClosedBeforeRunIsCounted ==
    step = "upsert" /\ groups = NoGroups =>
        \A i \in due : i \in hourly[current][ComponentOf[i]]
=============================================================================
