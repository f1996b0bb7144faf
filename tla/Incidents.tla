------------------------------ MODULE Incidents ------------------------------
(***************************************************************************)
(* The life of an incident after its window has closed: the processor      *)
(* publishes the work item (PostgreSQL first, then the Redis hot path),    *)
(* dashboards poll the live feed, and concurrent HTTP requests change the  *)
(* status or close it (backend/internal/api/handlers/incidents.go,         *)
(* internal/redis/hotpath.go, internal/db/postgres.go).                    *)
(*                                                                         *)
(* Each command to PostgreSQL or Redis is one step.  A request may stop    *)
(* between two of them (error, 5 s deadline, end of the API process).      *)
(***************************************************************************)
EXTENDS Naturals, FiniteSets

CONSTANTS
    Incidents,    \* the ids of the work items that get flushed
    Requests,     \* the concurrent POST /close and PATCH requests
    Pollers,      \* the concurrent GET /incidents/live requests
    Notes,        \* non-empty RCA notes
    LastHour,     \* the clock stops there (bound)
    FaultKinds,   \* the faults that may happen, each at most once
    MaxFaults,    \* how many of them in one behaviour
    None

ASSUME HoursAreNat == LastHour \in Nat
ASSUME BudgetIsNat == MaxFaults \in Nat

Hours == 0 .. LastHour
Statuses == {"open", "investigating", "resolved", "closed"}

(* A row of work_items; notes is rca_notes, resolved the hour of resolved_at. *)
WorkItem == [status : Statuses, notes : Notes \cup {None},
             resolved : Hours \cup {None}]

(* The hash ims:incident:<id>.  Only UpdateHotPath writes the whole of it:  *)
(* a hash that a PATCH brought into being has a status and nothing else.   *)
Card == [status : Statuses, whole : BOOLEAN]

ASSUME NoneIsNothing == None \notin Incidents \cup Notes \cup Hours \cup WorkItem \cup Card

VARIABLES
    row,      \* work_items
    zset,     \* the sorted set ims:live_incidents
    card,     \* the hashes ims:incident:<id>
    pub,      \* pub[i]: how far the processor is with i
    poll,     \* poll[p]: ids of the feed request p whose hash is still to be read
    seen,     \* ids that a response of the live feed has shown
    pc,       \* pc[r]: the command request r issues next
    target,   \* target[r]: its :id
    arg,      \* arg[r]: its rca_notes or its new status
    since,    \* since[r]: the hour in which a close has passed its test of the status
    raced,    \* incidents that two requests were changing at once (history)
    hour,     \* the hour the clock shows
    faults    \* the kinds of faults that have happened

requestVars == <<pc, target, arg, since, raced>>
feedVars == <<poll, seen>>
vars == <<row, zset, card, pub, feedVars, requestVars, hour, faults>>

TypeOK ==
    /\ row \in [Incidents -> WorkItem \cup {None}]
    /\ zset \subseteq Incidents
    /\ card \in [Incidents -> Card \cup {None}]
    /\ pub \in [Incidents -> {"insert", "zadd", "hset", "end"}]
    /\ poll \in [Pollers -> SUBSET Incidents]
    /\ seen \subseteq Incidents
    /\ pc \in [Requests -> {"idle", "get", "close", "zrem", "del", "update", "hset"}]
    /\ target \in [Requests -> Incidents \cup {None}]
    /\ arg \in [Requests -> Notes \cup Statuses \cup {None}]
    /\ since \in [Requests -> Hours]
    /\ raced \subseteq Incidents
    /\ hour \in Hours
    /\ faults \subseteq FaultKinds

Init ==
    /\ row = [i \in Incidents |-> None]
    /\ zset = {}
    /\ card = [i \in Incidents |-> None]
    /\ pub = [i \in Incidents |-> "insert"]
    /\ poll = [p \in Pollers |-> {}]
    /\ seen = {}
    /\ pc = [r \in Requests |-> "idle"]
    /\ target = [r \in Requests |-> None]
    /\ arg = [r \in Requests |-> None]
    /\ since = [r \in Requests |-> 0]
    /\ raced = {}
    /\ hour = 0
    /\ faults = {}

(* "postgres", "redis": an answer is an error; "processor", "api": the     *)
(* process ends; "restart": Redis ends, and it keeps nothing on disk.      *)
Fault(kind) ==
    /\ kind \in FaultKinds \ faults
    /\ Cardinality(faults) < MaxFaults
    /\ faults' = faults \cup {kind}

NoFault == UNCHANGED faults

Persisted == {i \in Incidents : row[i] # None}

-----------------------------------------------------------------------------
(* The processor: InsertWorkItem, then ZADD and HSET of UpdateHotPath.     *)

PublishGoes(i, label) == pub' = [pub EXCEPT ![i] = label]

NewRow == [status |-> "open", notes |-> None, resolved |-> None]

(* Bug: the feed is updated before the row is inserted. *)
PublishInsertLate(i) ==
    /\ pub[i] = "insert"
    /\ \/ /\ i \notin zset
          /\ zset' = zset \cup {i}
          /\ UNCHANGED <<row, pub>>
       \/ /\ i \in zset
          /\ row' = [row EXCEPT ![i] = NewRow]
          /\ PublishGoes(i, "hset")
          /\ UNCHANGED zset
    /\ UNCHANGED <<card, feedVars, requestVars, hour, faults>>

(* An error without a commit leaves the window for the scanner to try      *)
(* again; after a commit every later attempt ends at the primary key.      *)
PublishInsert(i) ==
    /\ pub[i] = "insert"
    /\ \/ /\ row' = [row EXCEPT ![i] = NewRow]
          /\ PublishGoes(i, "zadd") /\ NoFault
       \/ /\ Fault("postgres")
          /\ row' = [row EXCEPT ![i] = NewRow]
          /\ PublishGoes(i, "end")
       \/ /\ Fault("postgres")
          /\ UNCHANGED <<row, pub>>
    /\ UNCHANGED <<zset, card, feedVars, requestVars, hour>>

PublishZAdd(i) ==
    /\ pub[i] = "zadd"
    /\ \/ /\ zset' = zset \cup {i}
          /\ PublishGoes(i, "hset") /\ NoFault
       \/ /\ Fault("redis")
          /\ PublishGoes(i, "end")
          /\ UNCHANGED zset
    /\ UNCHANGED <<row, card, feedVars, requestVars, hour>>

PublishCard(i) ==
    /\ pub[i] = "hset"
    /\ \/ /\ card' = [card EXCEPT ![i] = [status |-> "open", whole |-> TRUE]]
          /\ NoFault
       \/ /\ Fault("redis")
          /\ UNCHANGED card
    /\ PublishGoes(i, "end")
    /\ UNCHANGED <<row, zset, feedVars, requestVars, hour>>

(* After its restart the processor finds the row there, and never gets to  *)
(* the hot path.                                                           *)
ProcessorCrash ==
    /\ Fault("processor")
    /\ pub' = [i \in Incidents |-> IF pub[i] = "insert" THEN "insert" ELSE "end"]
    /\ UNCHANGED <<row, zset, card, feedVars, requestVars, hour>>

-----------------------------------------------------------------------------
(* GetLiveIncidents: ZREVRANGE (up to 100 ids), then HGETALL one by one.   *)

PollStart(p) ==
    /\ poll[p] = {} /\ zset # {}
    /\ poll' = [poll EXCEPT ![p] = zset]
    /\ UNCHANGED <<row, zset, card, pub, seen, requestVars, hour, faults>>

(* An id without a hash, or whose HGETALL fails, is left out; an entry     *)
(* takes its id from the hash, and has none if only a PATCH wrote to it.   *)
PollCard(p, i) ==
    /\ i \in poll[p]
    /\ poll' = [poll EXCEPT ![p] = @ \ {i}]
    /\ seen' = IF card[i] # None /\ card[i].whole THEN seen \cup {i} ELSE seen
    /\ UNCHANGED <<row, zset, card, pub, requestVars, hour, faults>>

-----------------------------------------------------------------------------
(* CloseIncident and UpdateIncidentStatus.                                 *)

Goto(r, label) == pc' = [pc EXCEPT ![r] = label] /\ UNCHANGED <<target, arg, since, raced>>

Respond(r) ==
    /\ pc' = [pc EXCEPT ![r] = "idle"]
    /\ target' = [target EXCEPT ![r] = None]
    /\ arg' = [arg EXCEPT ![r] = None]
    /\ since' = [since EXCEPT ![r] = 0]
    /\ UNCHANGED raced

Request(r, label, i, a) ==
    /\ pc[r] = "idle"
    /\ pc' = [pc EXCEPT ![r] = label]
    /\ target' = [target EXCEPT ![r] = i]
    /\ arg' = [arg EXCEPT ![r] = a]
    /\ raced' = IF \E q \in Requests : target[q] = i THEN raced \cup {i} ELSE raced
    /\ UNCHANGED <<row, zset, card, pub, feedVars, since, hour, faults>>

(* A client knows an id from the feed.  (A wrong one gets 404 from /close,  *)
(* and PATCH leaves a hash under it that nobody reads.)  A request without *)
(* rca_notes is refused with 400.                                          *)
BeginClose(r, i, n) == i \in seen /\ Request(r, "get", i, n)

(* Bug: the map of allowed statuses is that of the schema. *)
AnyStatus == Statuses

AllowedStatuses == {"open", "investigating", "resolved"}

(* "closed", and a status that is not in the map, are refused with 400. *)
BeginPatch(r, i, s) ==
    /\ i \in seen
    /\ s \in AllowedStatuses
    /\ Request(r, "update", i, s)

(* GetWorkItem and the test of the status: 409 or on to the update; an     *)
(* error is answered 404.                                                  *)
CloseGet(r) ==
    /\ pc[r] = "get"
    /\ \/ /\ row[target[r]].status = "closed"
          /\ Respond(r) /\ NoFault
       \/ /\ row[target[r]].status # "closed"
          /\ pc' = [pc EXCEPT ![r] = "close"]
          /\ since' = [since EXCEPT ![r] = hour]
          /\ UNCHANGED <<target, arg, raced>> /\ NoFault
       \/ /\ Fault("postgres")
          /\ Respond(r)
    /\ UNCHANGED <<row, zset, card, pub, feedVars, hour>>

(* The row after CloseWorkItem, with resolved_at in hour h. *)
Closed(r, h) == [status |-> "closed", notes |-> arg[r], resolved |-> h]

(* The clock is read between the test of the status and the UPDATE, which  *)
(* may be executed in a later hour.                                        *)
ClosedRows(r) == {[row EXCEPT ![target[r]] = Closed(r, h)] : h \in since[r] .. hour}

(* Bug: the purge removes the hash and forgets the sorted set. *)
CloseRowNoZRem(r) ==
    /\ pc[r] = "close"
    /\ row' \in ClosedRows(r)
    /\ Goto(r, "del")
    /\ UNCHANGED <<zset, card, pub, feedVars, hour, faults>>

(* CloseWorkItem: the status is not tested again. *)
CloseRow(r) ==
    /\ pc[r] = "close"
    /\ \/ /\ row' \in ClosedRows(r)
          /\ Goto(r, "zrem") /\ NoFault
       \/ /\ Fault("postgres")
          /\ row' \in ClosedRows(r) \cup {row}
          /\ Respond(r)
    /\ UNCHANGED <<zset, card, pub, feedVars, hour>>

(* PurgeFromHotPath: ZREM then DEL; an error turns into a warning. *)
PurgeZRem(r) ==
    /\ pc[r] = "zrem"
    /\ \/ /\ zset' = zset \ {target[r]}
          /\ Goto(r, "del") /\ NoFault
       \/ /\ Fault("redis")
          /\ Respond(r)
          /\ UNCHANGED zset
    /\ UNCHANGED <<row, card, pub, feedVars, hour>>

PurgeDel(r) ==
    /\ pc[r] = "del"
    /\ \/ /\ card' = [card EXCEPT ![target[r]] = None]
          /\ NoFault
       \/ /\ Fault("redis")
          /\ UNCHANGED card
    /\ Respond(r)
    /\ UNCHANGED <<row, zset, pub, feedVars, hour>>

(* Bug: a status that reopens the incident takes its closure back. *)
PatchedReopens(r) ==
    [row EXCEPT ![target[r]] = [status |-> arg[r], notes |-> None, resolved |-> None]]

Patched(r) == [row EXCEPT ![target[r]].status = arg[r]]

(* Bug: the UPDATE passes over resolved rows, and nobody asks whether it   *)
(* found one.                                                              *)
PatchRowUnlessResolved(r) ==
    /\ pc[r] = "update"
    /\ row' = IF row[target[r]].status = "resolved" THEN row ELSE Patched(r)
    /\ Goto(r, "hset")
    /\ UNCHANGED <<zset, card, pub, feedVars, hour, faults>>

(* UpdateWorkItemStatus: the old status is not tested. *)
PatchRow(r) ==
    /\ pc[r] = "update"
    /\ \/ /\ row' = Patched(r)
          /\ Goto(r, "hset") /\ NoFault
       \/ /\ Fault("postgres")
          /\ row' \in {row, Patched(r)}
          /\ Respond(r)
    /\ UNCHANGED <<zset, card, pub, feedVars, hour>>

(* Bug: the status goes to the hot path with UpdateHotPath. *)
PatchHotPath(r) ==
    /\ pc[r] = "hset"
    /\ zset' = zset \cup {target[r]}
    /\ card' = [card EXCEPT ![target[r]] = [status |-> arg[r], whole |-> TRUE]]
    /\ Respond(r)
    /\ UNCHANGED <<row, pub, feedVars, hour, faults>>

(* HSET of the status, error ignored: it creates the hash if it is gone. *)
PatchCard(r) ==
    /\ pc[r] = "hset"
    /\ \/ /\ card' = [card EXCEPT ![target[r]] =
                        [status |-> arg[r], whole |-> @ # None /\ @.whole]]
          /\ NoFault
       \/ /\ Fault("redis")
          /\ UNCHANGED card
    /\ Respond(r)
    /\ UNCHANGED <<row, zset, pub, feedVars, hour>>

(* The API process ends: no request goes on. *)
ApiCrash ==
    /\ Fault("api")
    /\ poll' = [p \in Pollers |-> {}]
    /\ pc' = [r \in Requests |-> "idle"]
    /\ target' = [r \in Requests |-> None]
    /\ arg' = [r \in Requests |-> None]
    /\ since' = [r \in Requests |-> 0]
    /\ UNCHANGED <<row, zset, card, pub, seen, raced, hour>>

RedisRestart ==
    /\ Fault("restart")
    /\ zset' = {}
    /\ card' = [i \in Incidents |-> None]
    /\ UNCHANGED <<row, pub, feedVars, requestVars, hour>>

NextHour ==
    /\ hour < LastHour
    /\ hour' = hour + 1
    /\ UNCHANGED <<row, zset, card, pub, feedVars, requestVars, faults>>

-----------------------------------------------------------------------------
PublishStep(i) == PublishInsert(i) \/ PublishZAdd(i) \/ PublishCard(i)

RequestStep(r) ==
    \/ CloseGet(r) \/ CloseRow(r) \/ PurgeZRem(r) \/ PurgeDel(r)
    \/ PatchRow(r) \/ PatchCard(r)

Next ==
    \/ \E i \in Incidents : PublishStep(i)
    \/ \E p \in Pollers : PollStart(p) \/ \E i \in Incidents : PollCard(p, i)
    \/ \E r \in Requests, i \in Incidents :
          \/ \E n \in Notes : BeginClose(r, i, n)
          \/ \E s \in Statuses : BeginPatch(r, i, s)
    \/ \E r \in Requests : RequestStep(r)
    \/ ProcessorCrash \/ ApiCrash \/ RedisRestart \/ NextHour

Spec == Init /\ [][Next]_vars

(* The handlers run; nobody has to send a request or to poll. *)
Fairness ==
    /\ \A i \in Incidents : WF_vars(PublishStep(i))
    /\ \A r \in Requests : WF_vars(RequestStep(r))

FairSpec == Spec /\ Fairness

-----------------------------------------------------------------------------
(* Properties.                                                             *)

(* Whatever requests overlap, a closed incident has its RCA notes and the  *)
(* time of its closure, and has both or neither (incidents.go:66-97,       *)
(* 134-145, postgres.go:125-136).                                          *)
ClosureNeedsRCA ==
    \A i \in Persisted :
        /\ row[i].status = "closed" => row[i].notes # None
        /\ row[i].notes = None <=> row[i].resolved = None

(* What a closure has written is never taken back, by a PATCH or by        *)
(* another close: the notes stay (perhaps others), and so does a time,     *)
(* which is never that of the future.  The time goes back to an earlier    *)
(* one only where requests for the incident overlap: a close reads the     *)
(* clock before its UPDATE is sent, and the status is not tested again     *)
(* (incidents.go:82-97, 134-156, postgres.go:125-136).                     *)
ClosureIsKept ==
    [][\A i \in Persisted : row[i].resolved # None =>
          /\ row'[i].notes # None
          /\ row'[i].resolved \in Hours
          /\ row'[i].resolved <= hour
          /\ i \notin raced => row[i].resolved <= row'[i].resolved]_vars

(* The hot path never shows what PostgreSQL does not have, whatever fails  *)
(* between the two stores (debouncer.go:262-277, hotpath.go:31-53).        *)
FeedIsPersisted ==
    zset \cup seen \cup {i \in Incidents : card[i] # None} \subseteq Persisted

(* A closed incident is still in the feed only while the request that      *)
(* closed it has not come to its ZREM, or after a failure cut it short     *)
(* (incidents.go:94-107).                                                  *)
ClosedLeavesFeed ==
    \A i \in zset : row[i].status = "closed" =>
        \/ \E r \in Requests : pc[r] = "zrem" /\ target[r] = i
        \/ faults \cap {"postgres", "redis", "api"} # {}

(* The feed keeps its promise, whatever requests overlap with it and       *)
(* whatever fails: no late publication, no PATCH of a stale dashboard and  *)
(* no restart lists an incident a second time, or one that was closed      *)
(* (incidents.go:156, hotpath.go:31-53, 95-101).                           *)
Feed == INSTANCE LiveFeed WITH
            stored <- Persisted,
            closed <- {i \in Persisted : row[i].resolved # None},
            listed <- zset,
            left   <- {i \in Incidents : pub[i] \in {"hset", "end"} /\ i \notin zset}

FollowsLiveFeed == Feed!Spec

(* Row and live feed show the same status while nobody changes it, as long *)
(* as no two requests were ever changing it at once and none was cut short *)
(* (incidents.go:150-156, postgres.go:125-129).                            *)
FeedAgrees ==
    \A i \in zset :
        \/ card[i] = None
        \/ card[i].status = row[i].status
        \/ i \in raced \/ \E r \in Requests : target[r] = i
        \/ faults \cap {"postgres", "redis", "api"} # {}

-----------------------------------------------------------------------------
(* Two claims that the code does not keep.                                 *)

(* "Strict state machine: OPEN, INVESTIGATING, RESOLVED, CLOSED"           *)
(* (README.md:156): the status never goes but to the next one.             *)
Follows(s, t) ==
    \/ s = t
    \/ <<s, t>> \in {<<"open", "investigating">>, <<"investigating", "resolved">>,
                     <<"resolved", "closed">>}

StrictStateMachine ==
    [][\A i \in Persisted : Follows(row[i].status, row'[i].status)]_vars

(* "hot-path purge failed, will be cleaned up by scanner"                  *)
(* (incidents.go:104): a closed incident leaves the feed in the end.       *)
PurgedInTheEnd ==
    \A i \in Incidents :
        row[i] # None /\ row[i].status = "closed" ~> i \notin zset \/ row[i].status # "closed"
=============================================================================
