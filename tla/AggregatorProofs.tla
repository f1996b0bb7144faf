-------------------------- MODULE AggregatorProofs --------------------------
(***************************************************************************)
(* The aggregator's figures are right, for any components, incidents and   *)
(* requests.  What it reads of the incidents is what IncInv says of them.  *)
(***************************************************************************)
EXTENDS Aggregator, IncidentsProofs

(* The run in progress: what its query found was closed in its hour, and   *)
(* whatever is due is found, and is still to be upserted or has been.      *)
RunInOrder ==
    /\ step \in {"idle", "query"} => groups = NoGroups
    /\ \A c \in Components : \A i \in groups[c] :
          ComponentOf[i] = c /\ <<i, current>> \in closures
    /\ \A i \in due :
          /\ step = "query" => row[i] # None /\ row[i].status = "closed"
                                 /\ row[i].resolved = current
          /\ step = "upsert" =>
                LET c == ComponentOf[i]
                IN  i \in groups[c] \/ (groups[c] = {} /\ i \in hourly[current][c])

(* A closed row was closed when it says so. *)
ClosuresAreRecorded ==
    \A i \in Persisted : row[i].status = "closed" => <<i, row[i].resolved>> \in closures

AggInv ==
    /\ IncInv
    /\ AggTypeOK
    /\ RunInOrder
    /\ ClosuresAreRecorded
    /\ HourlyIsReal

-----------------------------------------------------------------------------
(* A step of the aggregator is none of Incidents', but for the faults. *)
LEMMA AggStepIsStep == TypeOK /\ [AggNext]_allVars => Step
<1> SUFFICES ASSUME TypeOK, [AggNext]_allVars PROVE Step
  OBVIOUS
<1>1. ASSUME Fault("postgres") \/ Fault("aggregator"),
             UNCHANGED <<row, zset, card, pub, feedVars, requestVars, hour>>
      PROVE  OtherFault
  BY <1>1 DEF Fault, OtherFault, TypeOK
<1>2. ASSUME NoFault, UNCHANGED <<row, zset, card, pub, feedVars, requestVars, hour>>
      PROVE  UNCHANGED vars
  BY <1>2 DEF NoFault, vars, feedVars, requestVars
<1>3. CASE IncidentStep
  BY <1>3 DEF IncidentStep, Step
<1>4. CASE Tick \/ EndRun \/ UNCHANGED allVars
  <2>1. UNCHANGED vars
    BY <1>4 DEF Tick, EndRun, allVars
  <2>2. QED
    BY <2>1 DEF Step
<1>5. CASE Query
  BY <1>1, <1>2, <1>5 DEF Query, Step
<1>6. ASSUME NEW c \in Components, Upsert(c) PROVE Step
  BY <1>1, <1>2, <1>6 DEF Upsert, Step
<1>7. CASE AggregatorCrash
  BY <1>1, <1>7 DEF AggregatorCrash, Step
<1>8. QED
  BY <1>3, <1>4, <1>5, <1>6, <1>7 DEF AggNext

(* What the steps of the aggregator leave alone. *)
LEMMA AggLeavesRows ==
    ASSUME Tick \/ Query \/ EndRun \/ AggregatorCrash \/ \E c \in Components : Upsert(c)
    PROVE  UNCHANGED <<row, closures>>
  BY DEF Tick, Query, EndRun, AggregatorCrash, Upsert, vars

(* A closed row tells a real hour, after a step as before it. *)
LEMMA ClosedHasHourNext ==
    IncInv' => \A i \in Incidents :
                row'[i] # None /\ row'[i].status = "closed" => row'[i].resolved \in Hours
<1> SUFFICES ASSUME IncInv', NEW i \in Incidents, row'[i] # None, row'[i].status = "closed"
             PROVE  row'[i].resolved \in Hours
  OBVIOUS
<1>1. row'[i] \in WorkItem
  BY DEF IncInv, TypeOK
<1>2. row'[i].resolved # None
  BY DEF IncInv, ClosureNeedsRCA, Persisted
<1>3. QED
  BY <1>1, <1>2 DEF WorkItem

(* The types of the aggregator's own state (aggregator main.go:58-97). *)
LEMMA StepAggTypes ==
    ASSUME AggInv, AggNext, IncInv'
    PROVE  AggTypeOK'
<1> USE DEF AggInv, AggTypeOK
<1>0. \A c \in Components, hs \in SUBSET Hours : ClosedIn(c, hs) \subseteq Incidents
  BY DEF ClosedIn, Persisted
<1>a. TypeOK'
  BY DEF IncInv
<1>1. CASE IncidentStep
  <2>1. closures' \subseteq Incidents \X Hours
    BY <1>1, ClosedHasHourNext DEF IncidentStep
  <2>2. QED
    BY <1>a, <1>1, <2>1 DEF IncidentStep
<1>2. CASE Tick
  <2>1. hour \in Hours /\ due' \subseteq Incidents
    BY <1>2 DEF Tick, TypeOK, ClosedIn, Persisted
  <2>2. QED
    BY <1>a, <1>2, <2>1 DEF Tick
<1>3. CASE Query
  <2>1. groups' \in [Components -> SUBSET Incidents]
    BY <1>0, <1>3 DEF Query
  <2>2. QED
    BY <1>a, <1>3, <2>1 DEF Query
<1>4. CASE EndRun
  BY <1>a, <1>4 DEF EndRun
<1>5. CASE AggregatorCrash
  BY <1>a, <1>5 DEF AggregatorCrash, NoGroups
<1>6. ASSUME NEW c \in Components, Upsert(c) PROVE AggTypeOK'
  <2>1. hourly' \in [Hours -> [Components -> SUBSET Incidents]]
    <3>1. CASE UNCHANGED hourly
      BY <3>1
    <3>2. CASE hourly' = [hourly EXCEPT ![current][c] = groups[c]]
      BY <3>2
    <3>3. QED
      BY <1>6, <3>1, <3>2 DEF Upsert
  <2>2. due' \subseteq Incidents
    BY <1>6 DEF Upsert
  <2>3. QED
    BY <1>a, <1>6, <2>1, <2>2 DEF Upsert
<1>7. QED
  BY <1>1, <1>2, <1>3, <1>4, <1>5, <1>6 DEF AggNext

(* Every closure is recorded with its hour. *)
LEMMA StepClosures ==
    ASSUME AggInv, AggNext, IncInv'
    PROVE  ClosuresAreRecorded'
<1> SUFFICES ASSUME NEW i \in Incidents, row'[i] # None, row'[i].status = "closed"
             PROVE  <<i, row'[i].resolved>> \in closures'
  BY DEF ClosuresAreRecorded, Persisted
<1>1. row'[i].resolved \in Hours
  BY ClosedHasHourNext
<1>2. CASE IncidentStep
  <2>1. CASE row'[i] = row[i]
    BY <1>2, <2>1 DEF IncidentStep, AggInv, ClosuresAreRecorded, Persisted
  <2>2. CASE row'[i] # row[i]
    BY <1>1, <1>2, <2>2 DEF IncidentStep
  <2>3. QED
    BY <2>1, <2>2
<1>3. CASE UNCHANGED <<row, closures>>
  BY <1>3 DEF AggInv, ClosuresAreRecorded, Persisted
<1>4. QED
  BY <1>2, <1>3, AggLeavesRows DEF AggNext

(* What the query finds was closed in the hour it asks for, and nothing of *)
(* it is lost on the way to the upserts (aggregator main.go:65-97).        *)
LEMMA StepRun ==
    ASSUME AggInv, AggNext, AggTypeOK'
    PROVE  RunInOrder'
<1> USE DEF AggInv, AggTypeOK, RunInOrder
<1>1. CASE IncidentStep
  <2>1. closures \subseteq closures'
    BY <1>1 DEF IncidentStep
  <2>2. due' \subseteq due /\ \A i \in due' : row'[i] = row[i]
    BY <1>1 DEF IncidentStep
  <2>3. UNCHANGED <<hourly, step, current, groups>>
    BY <1>1 DEF IncidentStep
  <2>4. QED
    BY <2>1, <2>2, <2>3
<1>2. CASE Tick
  <2>1. step = "idle" /\ step' = "query" /\ current' = hour
        /\ UNCHANGED <<groups, closures, row>>
    BY <1>2 DEF Tick, vars
  <2>2. \A i \in due' : row[i] # None /\ row[i].status = "closed" /\ row[i].resolved = hour
    BY <1>2 DEF Tick, ClosedIn, Persisted
  <2>3. \A c \in Components : groups'[c] = {}
    BY <2>1 DEF NoGroups
  <2>4. QED
    BY <2>1, <2>2, <2>3
<1>3. CASE Query
  <2>0. step = "query" /\ UNCHANGED <<hourly, current, closures, row>>
    BY <1>3 DEF Query
  <2>1. CASE step' = "idle" /\ due' = {} /\ UNCHANGED groups
    BY <2>0, <2>1
  <2>2. CASE /\ groups' = [c \in Components |-> ClosedIn(c, {current})]
             /\ step' = "upsert" /\ UNCHANGED due
    <3>1. \A c \in Components : groups'[c] = ClosedIn(c, {current})
      BY <2>2
    <3>2. \A c \in Components : \A i \in ClosedIn(c, {current}) :
             ComponentOf[i] = c /\ <<i, current>> \in closures
      BY DEF ClosedIn, ClosuresAreRecorded
    <3>3. \A i \in due : i \in ClosedIn(ComponentOf[i], {current}) /\ ComponentOf[i] \in Components
      BY <2>0, ItemsHaveComponents DEF ClosedIn, Persisted
    <3>4. QED
      BY <2>0, <2>2, <3>1, <3>2, <3>3
  <2>3. QED
    BY <1>3, <2>1, <2>2 DEF Query
<1>4. CASE EndRun
  BY <1>4 DEF EndRun
<1>5. CASE AggregatorCrash
  BY <1>5 DEF AggregatorCrash, NoGroups
<1>6. ASSUME NEW c \in Components, Upsert(c) PROVE RunInOrder'
  <2>1. /\ step = "upsert" /\ groups[c] # {} /\ UNCHANGED <<step, current, closures>>
        /\ groups' = [groups EXCEPT ![c] = {}] /\ due' \subseteq due
    BY <1>6 DEF Upsert
  <2>2. groups'[c] = {} /\ \A d \in Components : d # c => groups'[d] = groups[d]
    BY <2>1
  <2>3. ASSUME NEW i \in due', NEW d \in Components, d = ComponentOf[i]
        PROVE  i \in groups'[d] \/ (groups'[d] = {} /\ i \in hourly'[current'][d])
    <3>1. i \in groups[d] \/ (groups[d] = {} /\ i \in hourly[current][d])
      BY <2>1, <2>3
    <3>2. CASE d = c
      <4>1. i \in groups[c]
        BY <2>1, <3>1, <3>2
      <4>2. hourly' = [hourly EXCEPT ![current][c] = groups[c]]
        <5>1. \/ hourly' = [hourly EXCEPT ![current][c] = groups[c]]
              \/ \A j \in due' : ComponentOf[j] # c
          BY <1>6 DEF Upsert
        <5>2. QED
          BY <2>3, <3>2, <5>1
      <4>3. QED
        BY <2>1, <2>2, <3>2, <4>1, <4>2
    <3>3. CASE d # c
      <4>1. hourly'[current][d] = hourly[current][d]
        BY <1>6, <3>3 DEF Upsert
      <4>2. QED
        BY <2>1, <2>2, <3>1, <3>3, <4>1
    <3>4. QED
      BY <3>2, <3>3
  <2>4. \A i \in due' : ComponentOf[i] \in Components
    BY ItemsHaveComponents
  <2>5. \A d \in Components : \A i \in groups'[d] :
          ComponentOf[i] = d /\ <<i, current'>> \in closures'
    BY <2>1, <2>2
  <2>6. QED
    BY <2>1, <2>3, <2>4, <2>5
<1>7. QED
  BY <1>1, <1>2, <1>3, <1>4, <1>5, <1>6 DEF AggNext

(* What is upserted was found by the query (aggregator main.go:83-93). *)
LEMMA StepHourly ==
    ASSUME AggInv, AggNext
    PROVE  HourlyIsReal'
<1> USE DEF AggInv, AggTypeOK, HourlyIsReal
<1>1. closures \subseteq closures'
  BY AggLeavesRows DEF AggNext, IncidentStep
<1>2. ASSUME NEW c \in Components, Upsert(c) PROVE HourlyIsReal'
  <2>1. \A i \in groups[c] : ComponentOf[i] = c /\ <<i, current>> \in closures
    BY DEF RunInOrder
  <2>2. UNCHANGED hourly \/ hourly' = [hourly EXCEPT ![current][c] = groups[c]]
    BY <1>2 DEF Upsert
  <2>3. ASSUME NEW h \in Hours, NEW d \in Components, NEW i \in hourly'[h][d]
        PROVE  ComponentOf[i] = d /\ <<i, h>> \in closures
    <3>1. hourly'[h][d] = hourly[h][d] \/ (h = current /\ d = c /\ hourly'[h][d] = groups[c])
      BY <2>2
    <3>2. QED
      BY <2>1, <2>3, <3>1
  <2>4. QED
    BY <1>1, <2>3
<1>3. CASE IncidentStep \/ Tick \/ Query \/ EndRun \/ AggregatorCrash
  <2>1. UNCHANGED hourly
    BY <1>3 DEF IncidentStep, Tick, Query, EndRun, AggregatorCrash
  <2>2. QED
    BY <1>1, <2>1
<1>4. QED
  BY <1>2, <1>3 DEF AggNext

(* The invariant holds at the start. *)
LEMMA InitAgg == AggInit => AggInv
<1> SUFFICES ASSUME AggInit PROVE AggInv
  OBVIOUS
<1>1. IncInv
  BY InitInc DEF AggInit
<1>2. AggTypeOK
  BY <1>1, HoursAreNat DEF AggInit, AggTypeOK, IncInv, NoGroups, Hours
<1>3. RunInOrder
  BY DEF AggInit, RunInOrder, NoGroups
<1>4. ClosuresAreRecorded
  BY DEF AggInit, Init, ClosuresAreRecorded, Persisted
<1>5. HourlyIsReal
  BY DEF AggInit, HourlyIsReal, NoGroups
<1>6. QED
  BY <1>1, <1>2, <1>3, <1>4, <1>5 DEF AggInv

(* Every step keeps it. *)
LEMMA StepAgg == AggInv /\ [AggNext]_allVars => AggInv'
<1> SUFFICES ASSUME AggInv, [AggNext]_allVars PROVE AggInv'
  OBVIOUS
<1>1. IncInv'
  BY AggStepIsStep, StepInc DEF AggInv, IncInv
<1>2. CASE AggNext
  <2>1. AggTypeOK' /\ ClosuresAreRecorded' /\ HourlyIsReal'
    BY <1>1, <1>2, StepAggTypes, StepClosures, StepHourly
  <2>2. RunInOrder'
    BY <1>2, <2>1, StepRun
  <2>3. QED
    BY <1>1, <2>1, <2>2 DEF AggInv
<1>3. CASE UNCHANGED allVars
  <2>1. UNCHANGED <<row, hourly, step, current, groups, closures, due>>
    BY <1>3 DEF allVars, vars, aggVars
  <2>2. TypeOK'
    BY <1>1 DEF IncInv
  <2>3. AggTypeOK'
    BY <2>1, <2>2 DEF AggInv, AggTypeOK
  <2>4. RunInOrder'
    BY <2>1 DEF AggInv, RunInOrder
  <2>5. ClosuresAreRecorded' /\ HourlyIsReal'
    BY <2>1 DEF AggInv, ClosuresAreRecorded, HourlyIsReal, Persisted
  <2>6. QED
    BY <1>1, <2>3, <2>4, <2>5 DEF AggInv
<1>4. QED
  BY <1>2, <1>3

-----------------------------------------------------------------------------
(* The invariant of the aggregator and the incidents it counts. *)
THEOREM AggregatorInductiveInvariant == AggSpec => []AggInv
  BY InitAgg, StepAgg, PTL DEF AggSpec

(* The state of the aggregator and of the incidents is well typed          *)
(* (aggregator main.go:58-97).                                             *)
THEOREM AggregatorTypeCorrect == AggSpec => []AggTypeOK
<1>1. AggInv => AggTypeOK
  BY DEF AggInv
<1>2. QED
  BY <1>1, AggregatorInductiveInvariant, PTL

(* An hourly figure counts only incidents of its component that were       *)
(* closed in its hour, however the run interleaves with closures and with  *)
(* the turn of the hour (aggregator main.go:58-97).                        *)
THEOREM HourlyFiguresAreReal == AggSpec => []HourlyIsReal
<1>1. AggInv => HourlyIsReal
  BY DEF AggInv
<1>2. QED
  BY <1>1, AggregatorInductiveInvariant, PTL

(* A run that comes to its end has counted whatever was closed in its hour *)
(* before it began and was left alone since (aggregator main.go:58-97).    *)
THEOREM RunsCountTheirHour == AggSpec => []ClosedBeforeRunIsCounted
<1>1. AggInv => ClosedBeforeRunIsCounted
  <2> SUFFICES ASSUME AggInv, step = "upsert", groups = NoGroups, NEW i \in due
               PROVE  i \in hourly[current][ComponentOf[i]]
    BY DEF ClosedBeforeRunIsCounted
  <2>1. ComponentOf[i] \in Components /\ i \in Incidents
    BY ItemsHaveComponents DEF AggInv, AggTypeOK
  <2>2. QED
    BY <2>1 DEF AggInv, RunInOrder, NoGroups
<1>2. QED
  BY <1>1, AggregatorInductiveInvariant, PTL

(* What holds of the incidents holds with the aggregator beside them, and  *)
(* the live feed keeps its promise there too (cmd/aggregator/main.go reads *)
(* work_items and writes a table of its own).                              *)
THEOREM AggregatorLeavesFeedAlone ==
    AggSpec => [](ClosureNeedsRCA /\ FeedIsPersisted /\ ClosedLeavesFeed /\ FeedAgrees)
                 /\ FollowsLiveFeed
<1>1. AggInit => Feed!Init
  BY DEF AggInit, Init, Feed!Init, Persisted
<1>2. AggInv => ClosureNeedsRCA /\ FeedIsPersisted /\ ClosedLeavesFeed /\ FeedAgrees
  BY IncInvImplies DEF AggInv
<1>3. AggInv /\ [AggNext]_allVars => [Feed!Next]_(Feed!feed)
  BY AggStepIsStep, StepFollowsFeed DEF AggInv, IncInv
<1>4. QED
  BY <1>1, <1>2, <1>3, AggregatorInductiveInvariant, PTL
     DEF AggSpec, FollowsLiveFeed, Feed!Spec
=============================================================================
