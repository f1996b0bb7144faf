-------------------------- MODULE IncidentsProofs --------------------------
(***************************************************************************)
(* The inductive invariant of Incidents, what follows from it, and that    *)
(* Incidents implements LiveFeed, for any number of incidents, requests    *)
(* and polls and whatever faults happen.                                   *)
(***************************************************************************)
EXTENDS Incidents, TLAPS

(* A step of Incidents, or a fault of a neighbour that counts as one.      *)
(* (The aggregator spends the same budget of faults.)                      *)
OtherFault ==
    /\ faults' \in SUBSET FaultKinds /\ faults \subseteq faults'
    /\ UNCHANGED <<row, zset, card, pub, feedVars, requestVars, hour>>

Step == [Next]_vars \/ OtherFault

(* How far the processor is with an incident, and what is there by then:   *)
(* nobody knows an id before the whole hash is written.                    *)
PublishedInOrder ==
    \A i \in Incidents :
        /\ pub[i] = "insert" <=> row[i] = None
        /\ i \notin seen => row[i] \in {None, NewRow}
        /\ i \in seen \/ card[i] # None => pub[i] = "end"
        /\ i \in zset => pub[i] \in {"hset", "end"}

(* A request in progress has its arguments, and an incident somebody saw.  *)
RequestsInOrder ==
    \A r \in Requests :
        /\ pc[r] = "idle" <=> target[r] = None
        /\ pc[r] # "idle" => target[r] \in seen
        /\ pc[r] \in {"get", "close"} => arg[r] \in Notes
        /\ pc[r] \in {"update", "hset"} => arg[r] \in AllowedStatuses
        /\ pc[r] = "del" => target[r] \notin zset

(* Two requests about one incident are in raced, and a PATCH that nobody   *)
(* raced finds the row as it left it.                                      *)
RacesAreRecorded ==
    \A r \in Requests :
        /\ \A q \in Requests : q # r /\ target[q] = target[r] /\ target[r] # None
                                  => target[r] \in raced
        /\ pc[r] = "hset" => target[r] \in raced \/ row[target[r]].status = arg[r]

Excused == faults \cap {"postgres", "redis", "api"} # {}

(* FeedAgrees, with the requests that may make it untrue for a while. *)
FeedCatchesUp ==
    \A i \in zset :
        \/ card[i] = None
        \/ card[i].status = row[i].status
        \/ i \in raced \/ Excused
        \/ \E r \in Requests : target[r] = i /\ pc[r] \in {"hset", "zrem"}

IncInv ==
    /\ TypeOK
    /\ PublishedInOrder
    /\ RequestsInOrder
    /\ RacesAreRecorded
    /\ ClosureNeedsRCA
    /\ ClosedLeavesFeed
    /\ FeedCatchesUp

-----------------------------------------------------------------------------
(* What a request in progress has in hand. *)
LEMMA RequestKnows ==
    ASSUME TypeOK, PublishedInOrder, RequestsInOrder, NEW r \in Requests, pc[r] # "idle"
    PROVE  /\ target[r] \in Incidents /\ target[r] # None
           /\ target[r] \in seen /\ pub[target[r]] = "end"
           /\ row[target[r]] \in WorkItem /\ row[target[r]] # None
<1>1. target[r] \in seen /\ target[r] \in Incidents
  BY DEF RequestsInOrder, TypeOK
<1>2. pub[target[r]] = "end"
  BY <1>1 DEF PublishedInOrder
<1>3. row[target[r]] # None
  BY <1>1, <1>2 DEF PublishedInOrder
<1>4. QED
  BY <1>1, <1>2, <1>3, NoneIsNothing DEF TypeOK

(* The row a PATCH leaves: another status (postgres.go:125-129). *)
LEMMA PatchedRow ==
    ASSUME TypeOK, PublishedInOrder, RequestsInOrder, NEW r \in Requests, pc[r] = "update"
    PROVE  /\ Patched(r) \in [Incidents -> WorkItem \cup {None}]
           /\ \A i \in Incidents : i # target[r] => Patched(r)[i] = row[i]
           /\ Patched(r)[target[r]] \in WorkItem
           /\ Patched(r)[target[r]].status = arg[r]
           /\ Patched(r)[target[r]].notes = row[target[r]].notes
           /\ Patched(r)[target[r]].resolved = row[target[r]].resolved
           /\ arg[r] \in AllowedStatuses
<1>1. target[r] \in Incidents /\ row[target[r]] \in WorkItem
  BY RequestKnows
<1>2. arg[r] \in AllowedStatuses /\ arg[r] \in Statuses
  BY DEF RequestsInOrder, AllowedStatuses, Statuses
<1>3. row \in [Incidents -> WorkItem \cup {None}]
  BY DEF TypeOK
<1>4. PICK item \in WorkItem : item = [row[target[r]] EXCEPT !.status = arg[r]]
  BY <1>1, <1>2 DEF WorkItem
<1>5. Patched(r) = [row EXCEPT ![target[r]] = item]
  BY <1>4 DEF Patched
<1>6. item.status = arg[r] /\ item.notes = row[target[r]].notes
         /\ item.resolved = row[target[r]].resolved
  BY <1>1, <1>4 DEF WorkItem
<1>7. QED
  BY <1>1, <1>2, <1>3, <1>5, <1>6

(* The row a closure leaves (postgres.go:131-136). *)
LEMMA ClosedRow ==
    ASSUME TypeOK, PublishedInOrder, RequestsInOrder, NEW r \in Requests, pc[r] = "close",
           NEW h \in since[r] .. hour
    PROVE  /\ Closed(r, h) \in WorkItem
           /\ Closed(r, h).status = "closed"
           /\ Closed(r, h).notes # None /\ Closed(r, h).resolved # None
           /\ Closed(r, h).resolved = h
<1>1. arg[r] \in Notes /\ hour \in Hours /\ since[r] \in Hours
  BY DEF RequestsInOrder, TypeOK
<1>2. h \in Hours
  BY <1>1, HoursAreNat DEF Hours
<1>3. QED
  BY <1>1, <1>2, NoneIsNothing DEF Closed, WorkItem, Statuses

(* A closure writes the row of its target, and no other. *)
LEMMA CloseWrites ==
    ASSUME TypeOK, NEW r \in Requests, CloseRow(r)
    PROVE  \/ UNCHANGED row
           \/ \E h \in since[r] .. hour : row' = [row EXCEPT ![target[r]] = Closed(r, h)]
BY DEF CloseRow, ClosedRows

(* No step of a request writes the row of another incident. *)
LEMMA OtherRows ==
    ASSUME TypeOK, PublishedInOrder, RequestsInOrder, NEW r \in Requests, RequestStep(r),
           NEW i \in Incidents, i # target[r]
    PROVE  row'[i] = row[i]
<1>1. CASE PatchRow(r)
  BY <1>1, PatchedRow DEF PatchRow
<1>2. CASE CloseRow(r)
  BY <1>2, CloseWrites DEF TypeOK
<1>3. QED
  BY <1>1, <1>2 DEF RequestStep, CloseGet, PurgeZRem, PurgeDel, PatchCard

-----------------------------------------------------------------------------
(* Types. *)

(* Every step of the processor and of the feed keeps the types. *)
LEMMA PublishTypes ==
    ASSUME TypeOK, NEW i \in Incidents, PublishStep(i)
    PROVE  TypeOK'
<1> USE DEF TypeOK, feedVars, requestVars, PublishGoes, NoFault, Fault
<1>1. CASE PublishInsert(i)
  <2>1. NewRow \in WorkItem
    BY DEF NewRow, WorkItem, Statuses
  <2>2. QED
    BY <1>1, <2>1 DEF PublishInsert
<1>2. CASE PublishZAdd(i)
  BY <1>2 DEF PublishZAdd
<1>3. CASE PublishCard(i)
  <2>1. [status |-> "open", whole |-> TRUE] \in Card
    BY DEF Card, Statuses
  <2>2. QED
    BY <1>3, <2>1 DEF PublishCard
<1>4. QED
  BY <1>1, <1>2, <1>3 DEF PublishStep

(* Every step of a request keeps the types. *)
LEMMA RequestTypes ==
    ASSUME TypeOK, PublishedInOrder, RequestsInOrder, NEW r \in Requests, RequestStep(r)
    PROVE  TypeOK'
<1>0. 0 \in Hours
  BY HoursAreNat DEF Hours
<1> USE DEF TypeOK, feedVars, Goto, Respond, NoFault, Fault
<1>1. CASE CloseGet(r)
  BY <1>0, <1>1 DEF CloseGet
<1>2. CASE CloseRow(r)
  <2>1. row' \in [Incidents -> WorkItem \cup {None}]
    <3>1. ASSUME NEW h \in since[r] .. hour, row' = [row EXCEPT ![target[r]] = Closed(r, h)]
          PROVE  row' \in [Incidents -> WorkItem \cup {None}]
      BY <1>2, <3>1, ClosedRow DEF CloseRow
    <3>2. QED
      BY <1>2, <3>1, CloseWrites
  <2>2. since' \in [Requests -> Hours]
    BY <1>0, <1>2 DEF CloseRow
  <2>3. QED
    BY <1>2, <2>1, <2>2 DEF CloseRow
<1>3. CASE PurgeZRem(r)
  BY <1>0, <1>3 DEF PurgeZRem
<1>4. CASE PurgeDel(r)
  BY <1>0, <1>4 DEF PurgeDel
<1>5. CASE PatchRow(r)
  BY <1>0, <1>5, PatchedRow DEF PatchRow
<1>6. CASE PatchCard(r)
  <2>1. target[r] \in Incidents /\ arg[r] \in Statuses
    BY <1>6, RequestKnows DEF PatchCard, RequestsInOrder, AllowedStatuses, Statuses
  <2>2. PICK b \in BOOLEAN : b = (card[target[r]] # None /\ card[target[r]].whole)
    OBVIOUS
  <2>3. [status |-> arg[r], whole |-> b] \in Card
    BY <2>1 DEF Card
  <2>4. card' \in [Incidents -> Card \cup {None}]
    BY <1>6, <2>1, <2>2, <2>3 DEF PatchCard
  <2>5. QED
    BY <1>0, <1>6, <2>4 DEF PatchCard
<1>7. QED
  BY <1>1, <1>2, <1>3, <1>4, <1>5, <1>6 DEF RequestStep

(* Every step keeps the types. *)
LEMMA StepTypes ==
    ASSUME TypeOK, PublishedInOrder, RequestsInOrder, Step
    PROVE  TypeOK'
<1> USE DEF feedVars, requestVars
<1>1. CASE \E i \in Incidents : PublishStep(i)
  BY <1>1, PublishTypes
<1>2. ASSUME NEW p \in Pollers, PollStart(p) \/ \E i \in Incidents : PollCard(p, i)
      PROVE  TypeOK'
  BY <1>2 DEF TypeOK, PollStart, PollCard
<1>3. ASSUME NEW r \in Requests, NEW i \in Incidents,
             \/ \E n \in Notes : BeginClose(r, i, n)
             \/ \E s \in Statuses : BeginPatch(r, i, s)
      PROVE  TypeOK'
  BY <1>3 DEF TypeOK, BeginClose, BeginPatch, Request
<1>4. CASE \E r \in Requests : RequestStep(r)
  BY <1>4, RequestTypes
<1>5. CASE ProcessorCrash
  BY <1>5 DEF TypeOK, ProcessorCrash, Fault
<1>6. CASE ApiCrash
  BY <1>6, HoursAreNat DEF TypeOK, ApiCrash, Fault, Hours
<1>7. CASE RedisRestart
  BY <1>7 DEF TypeOK, RedisRestart, Fault
<1>8. CASE NextHour
  BY <1>8, HoursAreNat DEF TypeOK, NextHour, Hours
<1>9. CASE UNCHANGED vars
  BY <1>9 DEF TypeOK, vars
<1>10. CASE OtherFault
  BY <1>10 DEF TypeOK, OtherFault
<1>11. QED
  BY <1>1, <1>2, <1>3, <1>4, <1>5, <1>6, <1>7, <1>8, <1>9, <1>10 DEF Step, Next

-----------------------------------------------------------------------------
(* The inductive steps of the other parts. *)

(* A row is "open" until somebody knows its id, and nobody does before the *)
(* whole hash is there (hotpath.go:31-53, debouncer.go:262-277).           *)
LEMMA StepPublished ==
    ASSUME TypeOK, PublishedInOrder, RequestsInOrder, Step
    PROVE  PublishedInOrder'
<1> USE DEF PublishedInOrder, feedVars, requestVars
<1>1. ASSUME NEW i \in Incidents, PublishStep(i) PROVE PublishedInOrder'
  <2> USE DEF TypeOK, PublishGoes
  <2>1. CASE PublishInsert(i)
    <3>1. NewRow # None
      BY NoneIsNothing DEF NewRow, WorkItem, Statuses
    <3>2. QED
      BY <2>1, <3>1 DEF PublishInsert
  <2>2. CASE PublishZAdd(i)
    BY <2>2 DEF PublishZAdd
  <2>3. CASE PublishCard(i)
    BY <2>3 DEF PublishCard
  <2>4. QED
    BY <1>1, <2>1, <2>2, <2>3 DEF PublishStep
<1>2. ASSUME NEW p \in Pollers, PollStart(p) \/ \E i \in Incidents : PollCard(p, i)
      PROVE  PublishedInOrder'
  BY <1>2 DEF PollStart, PollCard
<1>3. ASSUME NEW r \in Requests, NEW i \in Incidents,
             \/ \E n \in Notes : BeginClose(r, i, n)
             \/ \E s \in Statuses : BeginPatch(r, i, s)
      PROVE  PublishedInOrder'
  BY <1>3 DEF BeginClose, BeginPatch, Request
<1>4. ASSUME NEW r \in Requests, RequestStep(r) PROVE PublishedInOrder'
  <2>1. CASE CloseGet(r)
    BY <2>1 DEF CloseGet
  <2>2. CASE CloseRow(r)
    <3>1. pc[r] = "close" /\ \A h \in since[r] .. hour : Closed(r, h) # None
      BY <2>2, ClosedRow, NoneIsNothing DEF CloseRow
    <3>2. target[r] \in seen /\ row[target[r]] # None
      BY <3>1, RequestKnows
    <3>3. \/ UNCHANGED row
          \/ \E item : item # None /\ row' = [row EXCEPT ![target[r]] = item]
      BY <2>2, <3>1, CloseWrites
    <3>4. QED
      BY <2>2, <3>2, <3>3 DEF CloseRow, TypeOK
  <2>3. CASE PurgeZRem(r)
    BY <2>3 DEF PurgeZRem
  <2>4. CASE PurgeDel(r)
    BY <2>4 DEF PurgeDel, TypeOK
  <2>5. CASE PatchRow(r)
    <3>1. pc[r] = "update" /\ (row' = row \/ row' = Patched(r))
      BY <2>5 DEF PatchRow
    <3>2. /\ \A i \in Incidents : i # target[r] => row'[i] = row[i]
          /\ row[target[r]] # None /\ row'[target[r]] # None
          /\ target[r] \in seen
      BY <3>1, PatchedRow, RequestKnows, NoneIsNothing
    <3>3. QED
      BY <2>5, <3>2 DEF PatchRow
  <2>6. CASE PatchCard(r)
    BY <2>6, RequestKnows DEF PatchCard, TypeOK
  <2>7. QED
    BY <1>4, <2>1, <2>2, <2>3, <2>4, <2>5, <2>6 DEF RequestStep
<1>5. CASE ProcessorCrash
  BY <1>5 DEF ProcessorCrash
<1>6. CASE ApiCrash
  BY <1>6 DEF ApiCrash
<1>7. CASE RedisRestart
  BY <1>7 DEF RedisRestart
<1>8. CASE NextHour \/ OtherFault \/ UNCHANGED vars
  BY <1>8 DEF NextHour, OtherFault, vars
<1>9. QED
  BY <1>1, <1>2, <1>3, <1>4, <1>5, <1>6, <1>7, <1>8 DEF Step, Next

(* A request works on an incident somebody saw, with the arguments its     *)
(* handler let through; what was removed from the sorted set stays out     *)
(* (incidents.go:66-85, 134-148).                                          *)
LEMMA StepRequests ==
    ASSUME TypeOK, PublishedInOrder, RequestsInOrder, Step
    PROVE  RequestsInOrder'
<1> USE DEF RequestsInOrder, feedVars, requestVars
<1>1. ASSUME NEW i \in Incidents, PublishStep(i) PROVE RequestsInOrder'
  <2>1. \A r \in Requests : pc[r] = "del" => target[r] # i \/ pub[i] = "end"
    BY DEF PublishedInOrder
  <2>2. QED
    BY <1>1, <2>1 DEF PublishStep, PublishInsert, PublishZAdd, PublishCard
<1>2. ASSUME NEW p \in Pollers, PollStart(p) \/ \E i \in Incidents : PollCard(p, i)
      PROVE  RequestsInOrder'
  BY <1>2 DEF PollStart, PollCard
<1>3. ASSUME NEW r \in Requests, NEW i \in Incidents,
             \/ \E n \in Notes : BeginClose(r, i, n)
             \/ \E s \in Statuses : BeginPatch(r, i, s)
      PROVE  RequestsInOrder'
  BY <1>3, NoneIsNothing DEF BeginClose, BeginPatch, Request, TypeOK
<1>4. ASSUME NEW r \in Requests, RequestStep(r) PROVE RequestsInOrder'
  BY <1>4, NoneIsNothing
     DEF RequestStep, CloseGet, CloseRow, PurgeZRem, PurgeDel, PatchRow, PatchCard,
         Goto, Respond, TypeOK
<1>5. CASE ProcessorCrash
  BY <1>5 DEF ProcessorCrash
<1>6. CASE ApiCrash
  BY <1>6 DEF ApiCrash
<1>7. CASE RedisRestart
  BY <1>7 DEF RedisRestart
<1>8. CASE NextHour \/ OtherFault \/ UNCHANGED vars
  BY <1>8 DEF NextHour, OtherFault, vars
<1>9. QED
  BY <1>1, <1>2, <1>3, <1>4, <1>5, <1>6, <1>7, <1>8 DEF Step, Next

(* A PATCH nobody raced finds its status in the row (incidents.go:150-156). *)
LEMMA StepRaces ==
    ASSUME TypeOK, PublishedInOrder, RequestsInOrder, RacesAreRecorded, Step
    PROVE  RacesAreRecorded'
<1> USE DEF RacesAreRecorded, feedVars, requestVars
<1>1. ASSUME NEW i \in Incidents, PublishStep(i) PROVE RacesAreRecorded'
  <2>1. \A r \in Requests : pc[r] = "hset" => target[r] # i \/ pub[i] = "end"
    BY DEF PublishedInOrder, RequestsInOrder
  <2>2. \A r \in Requests : pc[r] = "hset" => row'[target[r]] = row[target[r]]
    BY <1>1, <2>1, RequestKnows
       DEF PublishStep, PublishInsert, PublishZAdd, PublishCard, TypeOK
  <2>3. UNCHANGED requestVars
    BY <1>1 DEF PublishStep, PublishInsert, PublishZAdd, PublishCard
  <2>4. QED
    BY <2>2, <2>3
<1>2. ASSUME NEW p \in Pollers, PollStart(p) \/ \E i \in Incidents : PollCard(p, i)
      PROVE  RacesAreRecorded'
  BY <1>2 DEF PollStart, PollCard
<1>3. ASSUME NEW r \in Requests, NEW i \in Incidents,
             \/ \E n \in Notes : BeginClose(r, i, n)
             \/ \E s \in Statuses : BeginPatch(r, i, s)
      PROVE  RacesAreRecorded'
  BY <1>3, NoneIsNothing DEF BeginClose, BeginPatch, Request, TypeOK, RequestsInOrder
<1>4. ASSUME NEW r \in Requests, RequestStep(r) PROVE RacesAreRecorded'
  <2>1. UNCHANGED raced /\ \A q \in Requests : q # r => pc'[q] = pc[q]
                               /\ target'[q] = target[q] /\ arg'[q] = arg[q]
    BY <1>4 DEF RequestStep, CloseGet, CloseRow, PurgeZRem, PurgeDel, PatchRow,
                PatchCard, Goto, Respond, TypeOK
  <2>2. target'[r] \in {target[r], None}
    BY <1>4 DEF RequestStep, CloseGet, CloseRow, PurgeZRem, PurgeDel, PatchRow,
                PatchCard, Goto, Respond, TypeOK
  <2>3. pc[r] # "idle"
    BY <1>4 DEF RequestStep, CloseGet, CloseRow, PurgeZRem, PurgeDel, PatchRow, PatchCard
  <2>4. \A i \in Incidents : i # target[r] => row'[i] = row[i]
    BY <1>4, OtherRows
  <2>5. pc'[r] = "hset" => row'[target[r]].status = arg[r] /\ UNCHANGED <<target, arg>>
    <3>1. pc'[r] = "hset" => PatchRow(r) /\ row' = Patched(r) /\ UNCHANGED <<target, arg>>
      BY <1>4 DEF RequestStep, CloseGet, CloseRow, PurgeZRem, PurgeDel, PatchRow,
                  PatchCard, Goto, Respond, TypeOK
    <3>2. QED
      BY <3>1, PatchedRow DEF PatchRow
  <2>6. ASSUME NEW q \in Requests, q # r, pc[q] = "hset"
        PROVE  target[q] \in raced \/ row'[target[q]].status = arg[q]
    <3>1. target[q] \in Incidents /\ target[q] # None
      BY <2>6, RequestKnows
    <3>2. CASE target[q] = target[r]
      BY <2>6, <3>1, <3>2
    <3>3. CASE target[q] # target[r]
      BY <2>4, <2>6, <3>1, <3>3
    <3>4. QED
      BY <3>2, <3>3
  <2>7. ASSUME NEW q \in Requests, NEW p \in Requests, p # q,
               target'[p] = target'[q], target'[q] # None
        PROVE  target'[q] \in raced
    BY <2>1, <2>2, <2>7
  <2>8. QED
    BY <2>1, <2>5, <2>6, <2>7
<1>5. CASE ProcessorCrash
  BY <1>5 DEF ProcessorCrash
<1>6. CASE ApiCrash
  BY <1>6 DEF ApiCrash
<1>7. CASE RedisRestart
  BY <1>7 DEF RedisRestart
<1>8. CASE NextHour \/ OtherFault \/ UNCHANGED vars
  BY <1>8 DEF NextHour, OtherFault, vars
<1>9. QED
  BY <1>1, <1>2, <1>3, <1>4, <1>5, <1>6, <1>7, <1>8 DEF Step, Next

-----------------------------------------------------------------------------
(* What a step does to a row: nothing, a first row, a closure or another   *)
(* status (postgres.go:100-136).                                           *)
LEMMA RowChanges ==
    ASSUME TypeOK, PublishedInOrder, RequestsInOrder, Step, NEW i \in Incidents
    PROVE  \/ row'[i] = row[i]
           \/ pub[i] = "insert" /\ row'[i] = NewRow
           \/ \E r \in Requests :
                 /\ pc[r] = "close" /\ target[r] = i
                 /\ \E h \in since[r] .. hour : row'[i] = Closed(r, h)
                 /\ \/ pc'[r] = "zrem" /\ target'[r] = i
                    \/ "postgres" \in faults'
           \/ \E r \in Requests :
                 /\ pc[r] = "update" /\ target[r] = i
                 /\ row[i] \in WorkItem /\ row'[i] \in WorkItem
                 /\ row'[i].status \in AllowedStatuses
                 /\ row'[i].notes = row[i].notes /\ row'[i].resolved = row[i].resolved
<1> USE DEF feedVars, requestVars
<1>1. ASSUME NEW j \in Incidents, PublishStep(j)
      PROVE  row'[i] = row[i] \/ (pub[i] = "insert" /\ row'[i] = NewRow)
  BY <1>1 DEF PublishStep, PublishInsert, PublishZAdd, PublishCard, TypeOK
<1>2. ASSUME NEW r \in Requests, CloseRow(r)
      PROVE  \/ row'[i] = row[i]
             \/ /\ pc[r] = "close" /\ target[r] = i
                /\ \E h \in since[r] .. hour : row'[i] = Closed(r, h)
                /\ \/ pc'[r] = "zrem" /\ target'[r] = i
                   \/ "postgres" \in faults'
  <2>1. pc[r] = "close"
    BY <1>2 DEF CloseRow
  <2>2. \/ row'[i] = row[i]
        \/ target[r] = i /\ \E h \in since[r] .. hour : row'[i] = Closed(r, h)
    BY <1>2, CloseWrites DEF TypeOK
  <2>3. (pc'[r] = "zrem" /\ target'[r] = target[r]) \/ "postgres" \in faults'
    BY <1>2 DEF CloseRow, Goto, Fault, TypeOK
  <2>4. QED
    BY <2>1, <2>2, <2>3
<1>3. ASSUME NEW r \in Requests, PatchRow(r)
      PROVE  \/ row'[i] = row[i]
             \/ /\ pc[r] = "update" /\ target[r] = i
                /\ row[i] \in WorkItem /\ row'[i] \in WorkItem
                /\ row'[i].status \in AllowedStatuses
                /\ row'[i].notes = row[i].notes /\ row'[i].resolved = row[i].resolved
  <2>1. pc[r] = "update" /\ row' \in {row, Patched(r)}
    BY <1>3 DEF PatchRow
  <2>2. QED
    BY <2>1, PatchedRow, RequestKnows
<1>4. CASE \/ \E p \in Pollers : PollStart(p) \/ \E j \in Incidents : PollCard(p, j)
           \/ \E r \in Requests, j \in Incidents :
                 \/ \E n \in Notes : BeginClose(r, j, n)
                 \/ \E s \in Statuses : BeginPatch(r, j, s)
           \/ \E r \in Requests : CloseGet(r) \/ PurgeZRem(r) \/ PurgeDel(r) \/ PatchCard(r)
           \/ ProcessorCrash \/ ApiCrash \/ RedisRestart \/ NextHour
           \/ OtherFault \/ UNCHANGED vars
  <2>1. UNCHANGED row
    BY <1>4 DEF PollStart, PollCard, BeginClose, BeginPatch, Request, CloseGet, PurgeZRem,
                PurgeDel, PatchCard, ProcessorCrash, ApiCrash, RedisRestart, NextHour,
                OtherFault, vars
  <2>2. QED
    BY <2>1
<1>5. QED
  BY <1>1, <1>2, <1>3, <1>4 DEF Step, Next, RequestStep

(* Notes and closing time come together, with every closure, and stay      *)
(* (incidents.go:66-97, postgres.go:125-136).                              *)
LEMMA StepClosure ==
    ASSUME TypeOK, PublishedInOrder, RequestsInOrder, ClosureNeedsRCA, Step
    PROVE  ClosureNeedsRCA'
<1> SUFFICES ASSUME NEW i \in Incidents, row'[i] # None
             PROVE  /\ row'[i].status = "closed" => row'[i].notes # None
                    /\ row'[i].notes = None <=> row'[i].resolved = None
  BY DEF ClosureNeedsRCA, Persisted
<1>1. CASE row'[i] = row[i]
  BY <1>1 DEF ClosureNeedsRCA, Persisted
<1>2. CASE row'[i] = NewRow
  BY <1>2 DEF NewRow
<1>3. ASSUME NEW r \in Requests, pc[r] = "close", NEW h \in since[r] .. hour,
             row'[i] = Closed(r, h)
      PROVE  /\ row'[i].status = "closed" => row'[i].notes # None
             /\ row'[i].notes = None <=> row'[i].resolved = None
  BY <1>3, ClosedRow
<1>4. CASE /\ row[i] \in WorkItem
           /\ row'[i].status \in AllowedStatuses
           /\ row'[i].notes = row[i].notes /\ row'[i].resolved = row[i].resolved
  <2>1. row[i].notes = None <=> row[i].resolved = None
    BY <1>4, NoneIsNothing DEF ClosureNeedsRCA, Persisted
  <2>2. QED
    BY <1>4, <2>1 DEF AllowedStatuses
<1>5. QED
  BY <1>1, <1>2, <1>3, <1>4, RowChanges

(* The faults that happened stay happened. *)
LEMMA FaultsStay == ASSUME TypeOK, Step PROVE faults \subseteq faults'
<1> USE DEF NoFault, Fault, feedVars, requestVars
<1>1. ASSUME NEW i \in Incidents, PublishStep(i) PROVE faults \subseteq faults'
  BY <1>1 DEF PublishStep, PublishInsert, PublishZAdd, PublishCard
<1>2. ASSUME NEW r \in Requests, RequestStep(r) PROVE faults \subseteq faults'
  BY <1>2 DEF RequestStep, CloseGet, CloseRow, PurgeZRem, PurgeDel, PatchRow, PatchCard
<1>3. QED
  BY <1>1, <1>2 DEF Step, Next, PollStart, PollCard, BeginClose, BeginPatch, Request,
     ProcessorCrash, ApiCrash, RedisRestart, NextHour, OtherFault, vars

(* A closed incident is listed until its request comes to the ZREM, or for *)
(* good if that failed (incidents.go:94-107).                              *)
LEMMA StepClosedLeaves ==
    ASSUME TypeOK, PublishedInOrder, RequestsInOrder, ClosedLeavesFeed, Step
    PROVE  ClosedLeavesFeed'
<1> SUFFICES ASSUME NEW i \in Incidents, i \in zset', row'[i].status = "closed",
                    ~Excused'
             PROVE  \E r \in Requests : pc'[r] = "zrem" /\ target'[r] = i
  BY StepTypes DEF ClosedLeavesFeed, Excused, TypeOK
<1>0. ~Excused
  BY FaultsStay DEF Excused
<1>1. CASE i \notin zset
  <2>1. pub[i] = "zadd"
    BY <1>1 DEF Step, Next, PublishStep, PublishInsert, PublishZAdd, PublishCard,
       PollStart, PollCard, BeginClose, BeginPatch, Request, RequestStep, CloseGet, CloseRow,
       PurgeZRem, PurgeDel, PatchRow, PatchCard, ProcessorCrash, ApiCrash, RedisRestart,
       NextHour, OtherFault, vars
  <2>2. row[i] = NewRow /\ \A r \in Requests : target[r] # i
    BY <2>1, NoneIsNothing DEF PublishedInOrder, RequestsInOrder
  <2>3. row'[i] = NewRow
    BY <2>1, <2>2, RowChanges
  <2>4. QED
    BY <2>3 DEF NewRow
<1>2. CASE i \in zset /\ row'[i] # row[i]
  BY <1>2, RowChanges DEF NewRow, AllowedStatuses, Excused
<1>3. CASE i \in zset /\ row'[i] = row[i]
  <2>1. PICK r \in Requests : pc[r] = "zrem" /\ target[r] = i
    BY <1>0, <1>3 DEF ClosedLeavesFeed, Excused
  <2>2. ~PurgeZRem(r)
    BY <2>1 DEF PurgeZRem, Fault, Excused
  <2>3. ~ApiCrash
    BY DEF ApiCrash, Fault, Excused
  <2> DEFINE Stays == pc'[r] = pc[r] /\ target'[r] = target[r]
  <2>4. PurgeZRem(r) \/ ApiCrash \/ Stays
    <3>1. ASSUME NEW q \in Requests, RequestStep(q) PROVE PurgeZRem(r) \/ Stays
      <4>1. CASE q = r
        BY <2>1, <3>1, <4>1 DEF RequestStep, CloseGet, CloseRow, PurgeDel, PatchRow, PatchCard
      <4>2. CASE q # r
        BY <3>1, <4>2 DEF RequestStep, CloseGet, CloseRow, PurgeZRem, PurgeDel, PatchRow,
                          PatchCard, Goto, Respond, TypeOK
      <4>3. QED
        BY <4>1, <4>2
    <3>2. CASE UNCHANGED requestVars
      BY <2>1, <3>2 DEF requestVars
    <3>3. ASSUME NEW q \in Requests, NEW j \in Incidents,
                 \/ \E n \in Notes : BeginClose(q, j, n)
                 \/ \E s \in Statuses : BeginPatch(q, j, s)
          PROVE  Stays
      BY <2>1, <3>3 DEF BeginClose, BeginPatch, Request, TypeOK
    <3>4. UNCHANGED requestVars \/ ApiCrash \/ (\E q \in Requests : RequestStep(q))
            \/ \E q \in Requests, j \in Incidents :
                  \/ \E n \in Notes : BeginClose(q, j, n)
                  \/ \E s \in Statuses : BeginPatch(q, j, s)
      BY DEF Step, Next, PublishStep, PublishInsert, PublishZAdd, PublishCard, PollStart,
         PollCard, ProcessorCrash, RedisRestart, NextHour, OtherFault, vars, requestVars
    <3>5. QED
      BY <3>1, <3>2, <3>3, <3>4
  <2>5. QED
    BY <2>1, <2>2, <2>3, <2>4
<1>4. QED
  BY <1>1, <1>2, <1>3

(* Row and hash of a listed incident differ only while some request is     *)
(* between the two, unless two of them were at it or one was cut short     *)
(* (incidents.go:94-107, 150-156).                                         *)
LEMMA StepCatchesUp ==
    ASSUME TypeOK, PublishedInOrder, RequestsInOrder, RacesAreRecorded, FeedCatchesUp, Step
    PROVE  FeedCatchesUp'
<1> DEFINE Between(r, i) == target[r] = i /\ pc[r] \in {"hset", "zrem"}
<1> SUFFICES ASSUME NEW i \in Incidents, i \in zset', card'[i] # None,
                    card'[i].status # row'[i].status, i \notin raced', ~Excused'
             PROVE  \E r \in Requests : Between(r, i)'
  BY StepTypes DEF FeedCatchesUp, TypeOK
<1> USE DEF feedVars, requestVars
<1>0. ~Excused
  BY FaultsStay DEF Excused
<1>a. ASSUME UNCHANGED requestVars, row'[i] = row[i], card'[i] = card[i], i \in zset
      PROVE  \E r \in Requests : Between(r, i)'
  BY <1>0, <1>a DEF FeedCatchesUp
<1>1. ASSUME NEW j \in Incidents, PublishStep(j) PROVE \E r \in Requests : Between(r, i)'
  <2>0. UNCHANGED requestVars
    BY <1>1 DEF PublishStep, PublishInsert, PublishZAdd, PublishCard
  <2>1. CASE i # j
    <3>1. row'[i] = row[i] /\ card'[i] = card[i] /\ i \in zset
      BY <1>1, <2>1 DEF PublishStep, PublishInsert, PublishZAdd, PublishCard, TypeOK
    <3>2. QED
      BY <1>a, <2>0, <3>1
  <2>2. CASE i = j /\ PublishInsert(j)
    BY <2>2 DEF PublishInsert, PublishedInOrder
  <2>3. CASE i = j /\ PublishZAdd(j)
    BY <2>3 DEF PublishZAdd, PublishedInOrder
  <2>4. CASE i = j /\ PublishCard(j)
    <3>1. row[i] = NewRow /\ UNCHANGED row
      BY <2>4 DEF PublishCard, PublishedInOrder
    <3>2. card'[i] = [status |-> "open", whole |-> TRUE]
      BY <2>4 DEF PublishCard, PublishedInOrder, TypeOK
    <3>3. QED
      BY <3>1, <3>2 DEF NewRow
  <2>5. QED
    BY <1>1, <2>1, <2>2, <2>3, <2>4 DEF PublishStep
<1>2. ASSUME NEW p \in Pollers, PollStart(p) \/ \E j \in Incidents : PollCard(p, j)
      PROVE  \E r \in Requests : Between(r, i)'
  BY <1>2, <1>a DEF PollStart, PollCard
<1>3. ASSUME NEW r \in Requests, NEW j \in Incidents,
             \/ \E n \in Notes : BeginClose(r, j, n)
             \/ \E s \in Statuses : BeginPatch(r, j, s)
      PROVE  \E q \in Requests : Between(q, i)'
  <2>1. UNCHANGED <<row, card, zset>> /\ pc[r] = "idle" /\ i \notin raced
    BY <1>3 DEF BeginClose, BeginPatch, Request
  <2>2. PICK q \in Requests : Between(q, i)
    BY <1>0, <2>1 DEF FeedCatchesUp
  <2>3. q # r
    BY <2>1, <2>2
  <2>4. Between(q, i)'
    BY <1>3, <2>2, <2>3 DEF BeginClose, BeginPatch, Request, TypeOK
  <2>5. QED
    BY <2>4
<1>4. ASSUME NEW r \in Requests, RequestStep(r) PROVE \E q \in Requests : Between(q, i)'
  <2>1. UNCHANGED raced /\ \A q \in Requests : q # r => pc'[q] = pc[q] /\ target'[q] = target[q]
    BY <1>4 DEF RequestStep, CloseGet, CloseRow, PurgeZRem, PurgeDel, PatchRow,
                PatchCard, Goto, Respond, TypeOK
  <2>2. i \in zset /\ pc[r] # "idle"
    BY <1>4 DEF RequestStep, CloseGet, CloseRow, PurgeZRem, PurgeDel, PatchRow, PatchCard
  <2>3. CASE i # target[r]
    <3>1. row'[i] = row[i]
      BY <1>4, <2>3, OtherRows
    <3>2. card'[i] = card[i]
      BY <1>4, <2>3 DEF RequestStep, CloseGet, CloseRow, PurgeZRem, PurgeDel, PatchRow,
                        PatchCard, TypeOK
    <3>3. PICK q \in Requests : Between(q, i)
      BY <1>0, <2>1, <2>2, <3>1, <3>2 DEF FeedCatchesUp
    <3>4. Between(q, i)'
      BY <2>1, <2>3, <3>3
    <3>5. QED
      BY <3>4
  <2>4. CASE i = target[r] /\ CloseGet(r)
    <3>1. UNCHANGED <<row, card>> /\ pc[r] = "get"
      BY <2>4 DEF CloseGet
    <3>2. PICK q \in Requests : Between(q, i)
      BY <1>0, <2>1, <2>2, <3>1 DEF FeedCatchesUp
    <3>3. q # r
      BY <3>1, <3>2
    <3>4. QED
      BY <2>1, <2>4, <3>2, <3>3 DEF RacesAreRecorded
  <2>5. CASE i = target[r] /\ CloseRow(r)
    BY <2>5 DEF CloseRow, Goto, Fault, Excused, TypeOK
  <2>6. CASE i = target[r] /\ PurgeZRem(r)
    BY <2>6 DEF PurgeZRem, Fault, Excused
  <2>7. CASE i = target[r] /\ PurgeDel(r)
    BY <2>2, <2>7 DEF PurgeDel, RequestsInOrder
  <2>8. CASE i = target[r] /\ PatchRow(r)
    BY <2>8 DEF PatchRow, Goto, Fault, Excused, TypeOK
  <2>9. CASE i = target[r] /\ PatchCard(r)
    <3>1. row'[i].status = arg[r]
      BY <2>1, <2>9 DEF PatchCard, RacesAreRecorded
    <3>2. card'[i].status = arg[r]
      BY <2>9 DEF PatchCard, Fault, Excused, TypeOK
    <3>3. QED
      BY <3>1, <3>2
  <2>10. QED
    BY <1>4, <2>3, <2>4, <2>5, <2>6, <2>7, <2>8, <2>9 DEF RequestStep
<1>5. CASE ApiCrash
  BY <1>5 DEF ApiCrash, Fault, Excused
<1>6. CASE RedisRestart
  BY <1>6 DEF RedisRestart
<1>7. CASE ProcessorCrash \/ NextHour \/ OtherFault \/ UNCHANGED vars
  BY <1>7, <1>a DEF ProcessorCrash, NextHour, OtherFault, vars
<1>8. QED
  BY <1>1, <1>2, <1>3, <1>4, <1>5, <1>6, <1>7 DEF Step, Next

-----------------------------------------------------------------------------
(* Theorems. *)

(* The invariant holds at the start. *)
LEMMA InitInc == Init => IncInv
<1> SUFFICES ASSUME Init PROVE IncInv
  OBVIOUS
<1>1. TypeOK
  BY HoursAreNat DEF Init, TypeOK, Hours
<1>2. PublishedInOrder /\ RequestsInOrder /\ RacesAreRecorded
  BY DEF Init, PublishedInOrder, RequestsInOrder, RacesAreRecorded
<1>3. ClosureNeedsRCA /\ ClosedLeavesFeed /\ FeedCatchesUp
  BY DEF Init, ClosureNeedsRCA, ClosedLeavesFeed, FeedCatchesUp, Persisted
<1>4. QED
  BY <1>1, <1>2, <1>3 DEF IncInv

(* Every step keeps it, a fault of a neighbour included. *)
LEMMA StepInc == IncInv /\ Step => IncInv'
  BY StepTypes, StepPublished, StepRequests, StepRaces, StepClosure, StepClosedLeaves,
     StepCatchesUp DEF IncInv

(* What the invariant says of the rows and the feed. *)
LEMMA IncInvImplies ==
    IncInv => TypeOK /\ ClosureNeedsRCA /\ FeedIsPersisted /\ ClosedLeavesFeed /\ FeedAgrees
<1> SUFFICES ASSUME IncInv PROVE FeedIsPersisted /\ FeedAgrees
  BY DEF IncInv
<1>1. ASSUME NEW i \in Incidents, i \in zset \cup seen \/ card[i] # None PROVE i \in Persisted
  BY <1>1 DEF IncInv, PublishedInOrder, Persisted
<1>2. FeedIsPersisted
  BY <1>1 DEF FeedIsPersisted, IncInv, TypeOK
<1>3. FeedAgrees
  BY DEF FeedAgrees, IncInv, FeedCatchesUp, Excused
<1>4. QED
  BY <1>2, <1>3

(* The invariant of the life of an incident, from the first publication on *)
(* (hotpath.go, incidents.go, postgres.go).                                *)
THEOREM IncidentsInductiveInvariant == Spec => []IncInv
<1>1. IncInv /\ [Next]_vars => IncInv'
  BY StepInc DEF Step
<1>2. QED
  BY <1>1, InitInc, PTL DEF Spec

(* Rows, hashes and requests are well typed (models/workitem.go,           *)
(* hotpath.go:31-53).                                                      *)
THEOREM IncidentsTypeCorrect == Spec => []TypeOK
  BY IncidentsInductiveInvariant, IncInvImplies, PTL

(* However many requests overlap, a closed incident has its RCA and the    *)
(* time of its closure (incidents.go:66-97).                               *)
THEOREM ClosedWithRCA == Spec => []ClosureNeedsRCA
  BY IncidentsInductiveInvariant, IncInvImplies, PTL

(* The hot path shows nothing that PostgreSQL does not have                *)
(* (debouncer.go:262-277).                                                 *)
THEOREM FeedShowsPersisted == Spec => []FeedIsPersisted
  BY IncidentsInductiveInvariant, IncInvImplies, PTL

(* A closed incident stays listed only on the way to its ZREM, or after a  *)
(* failure (incidents.go:94-107).                                          *)
THEOREM ClosedIsUnlisted == Spec => []ClosedLeavesFeed
  BY IncidentsInductiveInvariant, IncInvImplies, PTL

(* Where no two requests were at it and none was cut short, the feed shows *)
(* the status of the row (incidents.go:150-156).                           *)
THEOREM FeedAgreesWithRow == Spec => []FeedAgrees
  BY IncidentsInductiveInvariant, IncInvImplies, PTL

-----------------------------------------------------------------------------
(* Incidents implements LiveFeed. *)

IsClosed == {i \in Persisted : row[i].resolved # None}
IsLeft == {i \in Incidents : pub[i] \in {"hset", "end"} /\ i \notin zset}

(* A step that touches neither the rows, nor the sorted set, nor the       *)
(* processor's progress is none of the feed's.                             *)
LEMMA FeedStutters ==
    ASSUME UNCHANGED <<row, zset, pub>>
    PROVE  UNCHANGED Feed!feed
  BY DEF Feed!feed, Persisted

(* The processor's steps are Store, List or Leave (debouncer.go:262-277). *)
LEMMA PublishFollowsFeed ==
    ASSUME IncInv, NEW i \in Incidents, PublishStep(i)
    PROVE  [Feed!Next]_(Feed!feed)
<1> USE DEF IncInv, PublishedInOrder, TypeOK, PublishGoes
<1>1. CASE PublishInsert(i)
  <2>1. CASE UNCHANGED <<row, pub>>
    BY <1>1, <2>1, FeedStutters DEF PublishInsert
  <2>2. CASE /\ row' = [row EXCEPT ![i] = NewRow] /\ pub' \in {[pub EXCEPT ![i] = "zadd"],
                                                            [pub EXCEPT ![i] = "end"]}
    <3>1. NewRow # None /\ NewRow.resolved = None
      BY NoneIsNothing DEF NewRow, WorkItem, Statuses
    <3>2. row[i] = None /\ i \notin zset /\ zset' = zset
      BY <1>1 DEF PublishInsert
    <3>3. i \notin Persisted /\ Persisted' = Persisted \cup {i}
      BY <2>2, <3>1, <3>2 DEF Persisted
    <3>4. IsClosed' = IsClosed
      BY <2>2, <3>1, <3>2 DEF Persisted, IsClosed
    <3>5. IsLeft' \in {IsLeft, IsLeft \cup {i}}
      <4>1. CASE pub' = [pub EXCEPT ![i] = "zadd"]
        <5>1. IsLeft' = IsLeft
          BY <1>1, <3>2, <4>1 DEF IsLeft, PublishInsert
        <5>2. QED
          BY <5>1
      <4>2. CASE pub' = [pub EXCEPT ![i] = "end"]
        <5>1. IsLeft' = IsLeft \cup {i}
          BY <3>2, <4>2 DEF IsLeft
        <5>2. QED
          BY <5>1
      <4>3. QED
        BY <2>2, <4>1, <4>2
    <3>6. Feed!Store(i)
      BY <3>2, <3>3, <3>4, <3>5 DEF Feed!Store, IsClosed, IsLeft
    <3>7. QED
      BY <3>6 DEF Feed!Next
  <2>3. QED
    BY <1>1, <2>1, <2>2 DEF PublishInsert
<1>2. CASE PublishZAdd(i)
  <2>0. /\ pub[i] = "zadd" /\ i \notin zset /\ row[i] = NewRow /\ row[i] # None
        /\ UNCHANGED row
    BY <1>2 DEF PublishZAdd
  <2>a. Persisted' = Persisted /\ IsClosed' = IsClosed /\ i \in Persisted /\ i \notin IsClosed
    BY <2>0 DEF Persisted, IsClosed, NewRow
  <2>1. CASE zset' = zset \cup {i} /\ pub' = [pub EXCEPT ![i] = "hset"]
    <3>1. IsLeft' = IsLeft /\ i \notin IsLeft
      BY <2>0, <2>1 DEF IsLeft
    <3>2. Feed!List(i)
      BY <2>0, <2>a, <2>1, <3>1 DEF Feed!List, IsClosed, IsLeft
    <3>3. QED
      BY <3>2 DEF Feed!Next
  <2>2. CASE zset' = zset /\ pub' = [pub EXCEPT ![i] = "end"]
    <3>1. IsLeft' = IsLeft \cup {i}
      BY <2>0, <2>2 DEF IsLeft
    <3>2. Feed!Leave({i})
      BY <2>0, <2>a, <2>2, <3>1 DEF Feed!Leave, IsClosed, IsLeft
    <3>3. QED
      BY <3>2 DEF Feed!Next
  <2>3. QED
    BY <1>2, <2>1, <2>2 DEF PublishZAdd
<1>3. CASE PublishCard(i)
  <2>1. UNCHANGED <<row, zset>> /\ IsLeft' = IsLeft
    BY <1>3 DEF PublishCard, IsLeft
  <2>2. UNCHANGED Feed!feed
    BY <2>1 DEF Feed!feed, Persisted, IsLeft
  <2>3. QED
    BY <2>2
<1>4. QED
  BY <1>1, <1>2, <1>3 DEF PublishStep

(* The steps of a request are Close or Leave, or change nothing of it      *)
(* (incidents.go:94-107, 134-156).                                         *)
LEMMA RequestFollowsFeed ==
    ASSUME IncInv, NEW r \in Requests, RequestStep(r)
    PROVE  [Feed!Next]_(Feed!feed)
<1> USE DEF IncInv, TypeOK
<1>0. pc[r] # "idle"
  BY DEF RequestStep, CloseGet, CloseRow, PurgeZRem, PurgeDel, PatchRow, PatchCard
<1>a. PICK i \in Incidents : i = target[r] /\ pub[i] = "end" /\ i \in Persisted
  BY <1>0, RequestKnows DEF Persisted
<1>1. CASE CloseGet(r) \/ PurgeDel(r) \/ PatchCard(r)
  BY <1>1, FeedStutters DEF CloseGet, PurgeDel, PatchCard
<1>2. CASE CloseRow(r)
  <2>0. pc[r] = "close" /\ UNCHANGED <<zset, pub>>
    BY <1>2 DEF CloseRow
  <2>1. CASE row' = row
    BY <2>0, <2>1, FeedStutters
  <2>2. ASSUME NEW h \in since[r] .. hour, row' = [row EXCEPT ![i] = Closed(r, h)]
        PROVE  [Feed!Next]_(Feed!feed)
    <3>1. Closed(r, h) # None /\ Closed(r, h).resolved # None
      BY <2>0, ClosedRow, NoneIsNothing
    <3>2. Persisted' = Persisted /\ IsClosed' = IsClosed \cup {i} /\ IsLeft' = IsLeft
      BY <1>a, <2>0, <2>2, <3>1 DEF Persisted, IsClosed, IsLeft
    <3>3. i \in zset \cup IsLeft
      BY <1>a DEF IsLeft
    <3>4. Feed!Close(i)
      BY <2>0, <3>2, <3>3 DEF Feed!Close, IsClosed, IsLeft
    <3>5. QED
      BY <3>4 DEF Feed!Next
  <2>3. QED
    BY <1>a, <1>2, <2>1, <2>2, CloseWrites
<1>3. CASE PurgeZRem(r)
  <2>0. UNCHANGED <<row, pub>> /\ (zset' = zset \/ zset' = zset \ {i})
    BY <1>a, <1>3 DEF PurgeZRem
  <2>1. CASE zset' = zset
    BY <2>0, <2>1, FeedStutters
  <2>2. CASE zset' = zset \ {i}
    <3>1. IsLeft' = IsLeft \cup {i} /\ IsClosed' = IsClosed /\ Persisted' = Persisted
      BY <1>a, <2>0, <2>2 DEF IsLeft, IsClosed, Persisted
    <3>2. Feed!Leave({i})
      BY <1>a, <2>2, <3>1 DEF Feed!Leave, IsLeft, IsClosed
    <3>3. QED
      BY <3>2 DEF Feed!Next
  <2>3. QED
    BY <2>0, <2>1, <2>2
<1>4. CASE PatchRow(r)
  <2>1. pc[r] = "update" /\ (row' = row \/ row' = Patched(r)) /\ UNCHANGED <<zset, pub>>
    BY <1>4 DEF PatchRow
  <2>2. \A j \in Incidents : j # i => row'[j] = row[j]
    BY <1>a, <2>1, PatchedRow
  <2>3. row[i] # None /\ row'[i] # None /\ row'[i].resolved = row[i].resolved
    BY <1>a, <2>1, PatchedRow, NoneIsNothing DEF Persisted
  <2>4. Persisted' = Persisted /\ IsClosed' = IsClosed /\ IsLeft' = IsLeft
    BY <2>1, <2>2, <2>3 DEF Persisted, IsClosed, IsLeft
  <2>5. UNCHANGED Feed!feed
    BY <2>1, <2>4 DEF Feed!feed, IsClosed, IsLeft
  <2>6. QED
    BY <2>5
<1>5. QED
  BY <1>1, <1>2, <1>3, <1>4 DEF RequestStep

(* Every step is a step of the live feed or leaves it unchanged. *)
LEMMA StepFollowsFeed == IncInv /\ Step => [Feed!Next]_(Feed!feed)
<1> SUFFICES ASSUME IncInv, Step PROVE [Feed!Next]_(Feed!feed)
  OBVIOUS
<1> USE DEF IncInv, TypeOK
<1>1. CASE \E i \in Incidents : PublishStep(i)
  BY <1>1, PublishFollowsFeed
<1>2. CASE \E r \in Requests : RequestStep(r)
  BY <1>2, RequestFollowsFeed
<1>3. CASE ProcessorCrash
  <2>0. PICK S \in SUBSET Incidents : S = {i \in Incidents : pub[i] = "zadd"}
    OBVIOUS
  <2>1. S \subseteq Persisted /\ S \cap zset = {}
    BY <2>0 DEF PublishedInOrder, Persisted
  <2>2. UNCHANGED <<row, zset>> /\ IsLeft' = IsLeft \cup S
    BY <1>3, <2>0, <2>1 DEF ProcessorCrash, IsLeft
  <2>3. Feed!Leave(S)
    BY <2>1, <2>2 DEF Feed!Leave, IsLeft, Persisted
  <2>4. QED
    BY <2>3 DEF Feed!Next
<1>4. CASE RedisRestart
  <2>1. UNCHANGED <<row, pub>> /\ zset' = {}
    BY <1>4 DEF RedisRestart
  <2>2. PICK S \in SUBSET Incidents : S = zset
    OBVIOUS
  <2>3. S \subseteq Persisted /\ IsLeft' = IsLeft \cup S
    BY <2>1, <2>2 DEF PublishedInOrder, Persisted, IsLeft
  <2>4. Feed!Leave(S)
    BY <2>1, <2>2, <2>3 DEF Feed!Leave, IsLeft, Persisted
  <2>5. QED
    BY <2>4 DEF Feed!Next
<1>5. CASE \/ \E p \in Pollers : PollStart(p) \/ \E i \in Incidents : PollCard(p, i)
           \/ \E r \in Requests, i \in Incidents :
                 \/ \E n \in Notes : BeginClose(r, i, n)
                 \/ \E s \in Statuses : BeginPatch(r, i, s)
           \/ ApiCrash \/ NextHour \/ OtherFault \/ UNCHANGED vars
  BY <1>5, FeedStutters
     DEF PollStart, PollCard, BeginClose, BeginPatch, Request, ApiCrash, NextHour,
         OtherFault, vars
<1>6. QED
  BY <1>1, <1>2, <1>3, <1>4, <1>5 DEF Step, Next

(* The live feed keeps its promise: an incident is stored before it is     *)
(* listed, is listed during one stretch of time at most, and not for the   *)
(* first time after it was closed (hotpath.go:31-53, 95-101,               *)
(* incidents.go:94-107, 156).                                              *)
THEOREM IncidentsFollowLiveFeed == Spec => FollowsLiveFeed
<1>1. Init => Feed!Init
  BY DEF Init, Feed!Init, Persisted
<1>2. IncInv /\ [Next]_vars => [Feed!Next]_(Feed!feed)
  BY StepFollowsFeed DEF Step
<1>3. QED
  BY <1>1, <1>2, IncidentsInductiveInvariant, PTL DEF Spec, FollowsLiveFeed, Feed!Spec

-----------------------------------------------------------------------------
(* What can never be undone.                                               *)

(* Whoever keeps the feed's promise lists nothing again that has left.     *)
LEMMA LeftIsForGood ==
    ASSUME NEW i \in Incidents
    PROVE  FollowsLiveFeed => [](i \in IsLeft => [](i \in IsLeft))
<1>1. [Feed!Next]_(Feed!feed) /\ i \in IsLeft => (i \in IsLeft)'
  BY DEF Feed!Next, Feed!Store, Feed!List, Feed!Close, Feed!Leave, Feed!feed, IsLeft
<1>2. QED
  BY <1>1, PTL DEF FollowsLiveFeed, Feed!Spec

(* An incident that was purged, or that a failed ZADD, a crash or the end  *)
(* of Redis kept out of the feed, is never listed again; nor is a closed   *)
(* one that is not listed: no repair and no PATCH of an old page brings it *)
(* back (hotpath.go:31-53, 95-101, incidents.go:94-107, 156).              *)
THEOREM NeverRelisted ==
    ASSUME NEW i \in Incidents
    PROVE  Spec => []((i \in IsLeft \/ i \in IsClosed \ zset) => [](i \notin zset))
<1>1. IncInv => (i \in IsClosed \ zset => i \in IsLeft)
  <2> SUFFICES ASSUME IncInv, i \in IsClosed, i \notin zset PROVE i \in IsLeft
    OBVIOUS
  <2>1. row[i] # None /\ row[i].resolved # None
    BY DEF IsClosed, Persisted
  <2>2. i \in seen
    BY <2>1 DEF IncInv, PublishedInOrder, NewRow
  <2>3. QED
    BY <2>2 DEF IncInv, PublishedInOrder, IsLeft
<1>2. i \in IsLeft => i \notin zset
  BY DEF IsLeft
<1>3. QED
  BY <1>1, <1>2, LeftIsForGood, IncidentsFollowLiveFeed, IncidentsInductiveInvariant, PTL

(* The row is there, the feed does not list it, and nobody has seen it.    *)
Invisible(i) ==
    /\ i \in IsLeft /\ i \notin seen
    /\ \A p \in Pollers : i \notin poll[p]

(* A work item whose ZADD failed, or whose publication or feed was cut     *)
(* short, stays out of every response: its row is open for good, and no    *)
(* operator comes to investigate or to close it (debouncer.go:262-277,     *)
(* hotpath.go:31-53).                                                      *)
THEOREM InvisibleForGood ==
    ASSUME NEW i \in Incidents
    PROVE  Spec => [](Invisible(i) => [](Invisible(i) /\ row[i] = NewRow))
<1>1. IncInv /\ [Next]_vars /\ Invisible(i) => Invisible(i)'
  <2> SUFFICES ASSUME IncInv, [Next]_vars, Invisible(i) PROVE Invisible(i)'
    OBVIOUS
  <2>1. (i \in IsLeft)'
    <3>1. [Feed!Next]_(Feed!feed) /\ i \in IsLeft
      BY StepFollowsFeed DEF Step, Invisible
    <3>2. QED
      BY <3>1 DEF Feed!Next, Feed!Store, Feed!List, Feed!Close, Feed!Leave, Feed!feed, IsLeft
  <2>2. i \notin zset
    BY DEF Invisible, IsLeft
  <2>3. poll \in [Pollers -> SUBSET Incidents]
    BY DEF IncInv, TypeOK
  <2>4. ASSUME NEW p \in Pollers, PollStart(p)
        PROVE  i \notin seen' /\ \A q \in Pollers : i \notin poll'[q]
    BY <2>2, <2>3, <2>4 DEF PollStart, Invisible
  <2>5. ASSUME NEW p \in Pollers, NEW j \in Incidents, PollCard(p, j)
        PROVE  i \notin seen' /\ \A q \in Pollers : i \notin poll'[q]
    <3>1. j # i
      BY <2>5 DEF PollCard, Invisible
    <3>2. QED
      BY <2>3, <2>5, <3>1 DEF PollCard, Invisible
  <2>6. CASE ApiCrash
    BY <2>1, <2>6 DEF ApiCrash, Invisible
  <2>7. CASE UNCHANGED feedVars
    BY <2>1, <2>7 DEF feedVars, Invisible
  <2>8. (i \notin seen /\ \A q \in Pollers : i \notin poll[q])' => Invisible(i)'
    BY <2>1 DEF Invisible
  <2>9. QED
    BY <2>4, <2>5, <2>6, <2>7, <2>8
       DEF Next, PublishStep, PublishInsert, PublishZAdd, PublishCard, BeginClose, BeginPatch,
           Request, RequestStep, CloseGet, CloseRow, PurgeZRem, PurgeDel, PatchRow, PatchCard,
           ProcessorCrash, RedisRestart, NextHour, vars
<1>2. IncInv /\ Invisible(i) => row[i] = NewRow
  BY DEF IncInv, PublishedInOrder, Invisible, IsLeft
<1>3. QED
  BY <1>1, <1>2, IncidentsInductiveInvariant, PTL DEF Spec

(* The incident is closed and listed, and no request is about to close or  *)
(* to purge it.                                                            *)
Lingers(i) ==
    /\ i \in zset /\ row[i].status = "closed"
    /\ \A r \in Requests : target[r] = i => pc[r] \notin {"close", "zrem"}

(* Only the end of Redis, or a PATCH that opens it again, ends that.       *)
ClosedStaysListed ==
    [][\A i \in Incidents : Lingers(i) /\ ~Lingers(i)' =>
          RedisRestart \/ \E r \in Requests : target[r] = i /\ PatchRow(r)]_vars

(* A closed incident whose purge failed is not cleaned up, neither by the  *)
(* processor nor by another POST /close: each of those is refused with 409 *)
(* before it gets to the purge (incidents.go:82-107).                      *)
THEOREM FailedPurgeStays == Spec => ClosedStaysListed
<1>1. IncInv /\ [Next]_vars
        => [\A i \in Incidents : Lingers(i) /\ ~Lingers(i)' =>
              RedisRestart \/ \E r \in Requests : target[r] = i /\ PatchRow(r)]_vars
  <2> SUFFICES ASSUME IncInv, [Next]_vars, NEW i \in Incidents, Lingers(i), ~RedisRestart,
                      \A r \in Requests : target[r] = i => ~PatchRow(r)
               PROVE  Lingers(i)'
    OBVIOUS
  <2> USE DEF IncInv
  <2>0. /\ pc \in [Requests -> {"idle", "get", "close", "zrem", "del", "update", "hset"}]
        /\ target \in [Requests -> Incidents \cup {None}]
        /\ None \notin Incidents
    BY NoneIsNothing DEF TypeOK
  <2>1. CASE UNCHANGED <<zset, row, pc, target>>
    BY <2>1 DEF Lingers
  <2>2. ASSUME NEW j \in Incidents, PublishStep(j) PROVE Lingers(i)'
    <3>1. j # i \/ (pub[j] # "insert" /\ row' = row)
      BY <2>2 DEF PublishStep, PublishInsert, PublishZAdd, PublishCard, PublishedInOrder, Lingers
    <3>2. row'[i] = row[i] /\ zset \subseteq zset' /\ UNCHANGED <<pc, target>>
      BY <2>2, <3>1
         DEF PublishStep, PublishInsert, PublishZAdd, PublishCard, TypeOK, requestVars
    <3>3. QED
      BY <3>2 DEF Lingers
  <2>3. ASSUME NEW r \in Requests, NEW j \in Incidents,
               \/ \E n \in Notes : BeginClose(r, j, n)
               \/ \E s \in Statuses : BeginPatch(r, j, s)
        PROVE  Lingers(i)'
    <3>1. /\ UNCHANGED <<row, zset>>
          /\ \E label \in {"get", "update"} : pc' = [pc EXCEPT ![r] = label]
          /\ target' = [target EXCEPT ![r] = j]
      BY <2>3 DEF BeginClose, BeginPatch, Request
    <3>2. QED
      BY <2>0, <3>1 DEF Lingers
  <2>4. ASSUME NEW r \in Requests, RequestStep(r) PROVE Lingers(i)'
    <3>1. /\ \A q \in Requests : q # r => pc'[q] = pc[q] /\ target'[q] = target[q]
          /\ target'[r] \in {target[r], None}
      BY <2>0, <2>4 DEF RequestStep, CloseGet, CloseRow, PurgeZRem, PurgeDel, PatchRow,
                        PatchCard, Goto, Respond
    <3>2. CASE target[r] = i
      <4>1. pc[r] \notin {"close", "zrem"}
        BY <3>2 DEF Lingers
      <4>2. UNCHANGED <<row, zset>> /\ pc'[r] \notin {"close", "zrem"}
        BY <2>0, <2>4, <3>2, <4>1 DEF RequestStep, CloseGet, CloseRow, PurgeZRem, PurgeDel,
                        PatchCard, Goto, Respond, Lingers
      <4>3. QED
        BY <3>1, <4>2 DEF Lingers
    <3>3. CASE target[r] # i
      <4>1. row'[i] = row[i]
        BY <2>4, <3>3, OtherRows
      <4>2. i \in zset'
        BY <2>4, <3>3 DEF RequestStep, CloseGet, CloseRow, PurgeZRem, PurgeDel, PatchRow,
                          PatchCard, Lingers
      <4>3. target'[r] # i
        BY <2>0, <3>1, <3>3
      <4>4. QED
        BY <3>1, <4>1, <4>2, <4>3 DEF Lingers
    <3>4. QED
      BY <3>2, <3>3
  <2>5. CASE ApiCrash
    BY <2>0, <2>5 DEF ApiCrash, Lingers
  <2>6. QED
    BY <2>1, <2>2, <2>3, <2>4, <2>5
       DEF Next, PollStart, PollCard, ProcessorCrash, NextHour, vars, requestVars
<1>2. QED
  BY <1>1, IncidentsInductiveInvariant, PTL DEF Spec, ClosedStaysListed

-----------------------------------------------------------------------------
(* The record of a closure.                                                *)

(* The closure that request r writes to incident i. *)
ClosedBy(r, i) ==
    /\ CloseRow(r) /\ pc[r] = "close" /\ target[r] = i
    /\ row'[i].notes # None
    /\ \E h \in since[r] .. hour : row'[i].resolved = h

(* What a step does to the row of an incident that is there: nothing, it   *)
(* sets another status, or it closes the incident (postgres.go:125-136).   *)
LEMMA StepRow ==
    ASSUME IncInv, [Next]_vars, NEW i \in Incidents, row[i] # None
    PROVE  \/ row'[i] = row[i]
           \/ row'[i].notes = row[i].notes /\ row'[i].resolved = row[i].resolved
           \/ \E r \in Requests : ClosedBy(r, i)
<1> USE DEF IncInv
<1>1. CASE UNCHANGED row
  BY <1>1
<1>2. ASSUME NEW j \in Incidents, PublishStep(j) PROVE row'[i] = row[i]
  BY <1>2 DEF PublishStep, PublishInsert, PublishZAdd, PublishCard, PublishedInOrder, TypeOK
<1>3. ASSUME NEW r \in Requests, CloseRow(r) PROVE row'[i] = row[i] \/ ClosedBy(r, i)
  <2>1. pc[r] = "close"
    BY <1>3 DEF CloseRow
  <2>2. \A h \in since[r] .. hour : Closed(r, h).notes # None /\ Closed(r, h).resolved = h
    BY <2>1, ClosedRow
  <2>3. \/ row'[i] = row[i]
        \/ target[r] = i /\ \E h \in since[r] .. hour : row'[i] = Closed(r, h)
    BY <1>3, CloseWrites DEF TypeOK
  <2>4. QED
    BY <1>3, <2>1, <2>2, <2>3 DEF ClosedBy
<1>4. ASSUME NEW r \in Requests, PatchRow(r)
      PROVE  \/ row'[i] = row[i]
             \/ row'[i].notes = row[i].notes /\ row'[i].resolved = row[i].resolved
  <2>1. pc[r] = "update" /\ row' \in {row, Patched(r)}
    BY <1>4 DEF PatchRow
  <2>2. QED
    BY <2>1, PatchedRow
<1>5. QED
  BY <1>1, <1>2, <1>3, <1>4
     DEF Next, PollStart, PollCard, BeginClose, BeginPatch, Request, RequestStep, CloseGet,
         PurgeZRem, PurgeDel, PatchCard, ProcessorCrash, ApiCrash, RedisRestart, NextHour, vars

(* An incident that has no row gets one that is not closed. *)
LEMMA StepNoRow ==
    ASSUME IncInv, [Next]_vars, NEW i \in Incidents, row[i] = None
    PROVE  row'[i] = None \/ row'[i].resolved = None
<1>1. pub[i] = "insert" /\ \A r \in Requests : target[r] # i
  BY NoneIsNothing DEF IncInv, PublishedInOrder, RequestsInOrder, TypeOK
<1>2. row'[i] = row[i] \/ row'[i] = NewRow
  BY <1>1, RowChanges DEF Step, IncInv
<1>3. QED
  BY <1>2 DEF NewRow

(* The clock does not go back. *)
LEMMA HoursGoOn == ASSUME TypeOK, [Next]_vars PROVE hour \in Nat /\ hour' \in {hour, hour + 1}
<1>1. hour \in Nat
  BY HoursAreNat DEF TypeOK, Hours
<1>2. hour' \in {hour, hour + 1}
  BY DEF Next, PublishStep, PublishInsert, PublishZAdd, PublishCard, PollStart, PollCard,
         BeginClose, BeginPatch, Request, RequestStep, CloseGet, CloseRow, PurgeZRem, PurgeDel,
         PatchRow, PatchCard, ProcessorCrash, ApiCrash, RedisRestart, NextHour, vars
<1>3. QED
  BY <1>1, <1>2

(* No closure is in the future.                                            *)
ClosedInThePast ==
    \A i \in Persisted : row[i].resolved # None => row[i].resolved <= hour

(* A close that is about to be written reads, or has read, the clock after *)
(* the last closure of its incident, unless another request overlaps.      *)
ClosesAreLater ==
    \A r \in Requests :
        pc[r] = "close" /\ row[target[r]].resolved # None /\ target[r] \notin raced
            => row[target[r]].resolved <= since[r]

(* A time of closure, in a row that is there. *)
LEMMA ResolvedIsNat ==
    ASSUME TypeOK, NEW i \in Incidents, row[i] # None, row[i].resolved # None
    PROVE  row[i].resolved \in Hours /\ row[i].resolved \in Nat
BY NoneIsNothing, HoursAreNat DEF TypeOK, WorkItem, Hours

LEMMA StepInThePast ==
    ASSUME IncInv, ClosedInThePast, [Next]_vars
    PROVE  ClosedInThePast'
<1> SUFFICES ASSUME NEW i \in Incidents, row'[i] # None, row'[i].resolved # None
             PROVE  row'[i].resolved <= hour'
  BY DEF ClosedInThePast, Persisted
<1>1. hour \in Nat /\ hour' \in {hour, hour + 1} /\ \A r \in Requests : since[r] \in Nat
  BY HoursGoOn, HoursAreNat DEF IncInv, TypeOK, Hours
<1>2. row[i] # None
  BY StepNoRow
<1>3. PICK h \in Nat : h = row'[i].resolved /\ h <= hour
  <2>1. CASE \E r \in Requests : ClosedBy(r, i)
    BY <1>1, <2>1 DEF ClosedBy
  <2>2. CASE row'[i].resolved = row[i].resolved
    <3>1. row[i].resolved \in Nat /\ row[i].resolved <= hour
      BY <1>2, <2>2, ResolvedIsNat DEF ClosedInThePast, Persisted, IncInv
    <3>2. QED
      BY <2>2, <3>1
  <2>3. QED
    BY <1>2, <2>1, <2>2, StepRow
<1>4. h <= hour'
  BY <1>1, <1>3
<1>5. QED
  BY <1>3, <1>4

(* What a step leaves of a close that is about to be written. *)
LEMMA StepClosing ==
    ASSUME IncInv, [Next]_vars, NEW r \in Requests, pc'[r] = "close"
    PROVE  /\ target'[r] = target[r] /\ raced \subseteq raced' /\ ~CloseRow(r)
           /\ \/ pc[r] = "close" /\ since'[r] = since[r]
              \/ pc[r] = "get" /\ since'[r] = hour /\ UNCHANGED row
<1>0. /\ pc \in [Requests -> {"idle", "get", "close", "zrem", "del", "update", "hset"}]
      /\ since \in [Requests -> Hours] /\ target \in [Requests -> Incidents \cup {None}]
  BY DEF IncInv, TypeOK
<1>1. ASSUME NEW q \in Requests, NEW i \in Incidents,
             \/ \E n \in Notes : BeginClose(q, i, n)
             \/ \E s \in Statuses : BeginPatch(q, i, s)
      PROVE  /\ target'[r] = target[r] /\ raced \subseteq raced' /\ ~CloseRow(r)
             /\ pc[r] = "close" /\ since'[r] = since[r]
  BY <1>0, <1>1 DEF BeginClose, BeginPatch, Request, CloseRow, Goto, Respond
<1>2. ASSUME NEW q \in Requests, RequestStep(q), q # r
      PROVE  /\ target'[r] = target[r] /\ raced \subseteq raced'
             /\ pc[r] = "close" /\ since'[r] = since[r]
  BY <1>0, <1>2 DEF RequestStep, CloseGet, CloseRow, PurgeZRem, PurgeDel, PatchRow, PatchCard,
                    Goto, Respond
<1>3. CASE RequestStep(r)
  <2>1. CloseGet(r)
    BY <1>0, <1>3 DEF RequestStep, CloseRow, PurgeZRem, PurgeDel, PatchRow, PatchCard,
                      Goto, Respond
  <2>2. QED
    BY <1>0, <2>1 DEF CloseGet, Respond, CloseRow
<1>4. ~CloseRow(r)
  BY <1>0 DEF CloseRow, Goto, Respond
<1>5. CASE UNCHANGED <<pc, target, since, raced>>
  BY <1>4, <1>5
<1>6. CASE ApiCrash
  BY <1>6 DEF ApiCrash
<1>7. QED
  BY <1>1, <1>2, <1>3, <1>4, <1>5, <1>6
     DEF Next, PublishStep, PublishInsert, PublishZAdd, PublishCard, PollStart, PollCard,
         ProcessorCrash, RedisRestart, NextHour, vars, requestVars

LEMMA StepLater ==
    ASSUME IncInv, ClosedInThePast, ClosesAreLater, [Next]_vars
    PROVE  ClosesAreLater'
<1> SUFFICES ASSUME NEW r \in Requests, pc'[r] = "close", row'[target'[r]].resolved # None,
                    target'[r] \notin raced'
             PROVE  row'[target'[r]].resolved <= since'[r]
  BY DEF ClosesAreLater
<1>1. /\ target'[r] = target[r] /\ target[r] \notin raced
      /\ \/ pc[r] = "close" /\ since'[r] = since[r]
         \/ pc[r] = "get" /\ since'[r] = hour /\ UNCHANGED row
  BY StepClosing
<1>2. PICK i \in Incidents : i = target[r] /\ row[i] # None
  BY <1>1, RequestKnows DEF IncInv
<1>3. CASE pc[r] = "get" /\ since'[r] = hour /\ UNCHANGED row
  BY <1>1, <1>2, <1>3 DEF ClosedInThePast, Persisted
<1>4. CASE pc[r] = "close" /\ since'[r] = since[r]
  <2>1. ASSUME NEW q \in Requests, ClosedBy(q, i) PROVE FALSE
    <3>1. q = r
      BY <1>1, <1>2, <2>1, NoneIsNothing DEF ClosedBy, IncInv, RacesAreRecorded
    <3>2. QED
      BY <2>1, <3>1, StepClosing DEF ClosedBy
  <2>2. row'[i].resolved = row[i].resolved
    BY <1>2, <2>1, StepRow
  <2>3. QED
    BY <1>1, <1>2, <1>4, <2>2 DEF ClosesAreLater
<1>5. QED
  BY <1>1, <1>3, <1>4

(* What the store knows of a closure survives whatever comes later: notes  *)
(* and time are there for good, no time is that of the future, and an      *)
(* earlier time replaces a later one only where requests for the incident  *)
(* overlap, since the clock is read before the UPDATE is sent              *)
(* (postgres.go:125-136, incidents.go:83-97, 150-156).                     *)
THEOREM ClosuresAreKept == Spec => ClosureIsKept
<1>1. Init => ClosedInThePast /\ ClosesAreLater
  BY DEF Init, Persisted, ClosedInThePast, ClosesAreLater
<1>2. IncInv /\ ClosedInThePast /\ ClosesAreLater /\ [Next]_vars
        => ClosedInThePast' /\ ClosesAreLater'
  BY StepInThePast, StepLater
<1>3. IncInv /\ ClosedInThePast /\ ClosesAreLater /\ [Next]_vars
        => [\A i \in Persisted : row[i].resolved # None =>
              /\ row'[i].notes # None
              /\ row'[i].resolved \in Hours
              /\ row'[i].resolved <= hour
              /\ i \notin raced => row[i].resolved <= row'[i].resolved]_vars
  <2> SUFFICES ASSUME IncInv, ClosedInThePast, ClosesAreLater, [Next]_vars,
                      NEW i \in Persisted, row[i].resolved # None
               PROVE  /\ row'[i].notes # None
                      /\ row'[i].resolved \in Hours
                      /\ row'[i].resolved <= hour
                      /\ i \notin raced => row[i].resolved <= row'[i].resolved
    OBVIOUS
  <2>1. i \in Incidents /\ row[i] # None /\ row[i].notes # None
    BY DEF Persisted, IncInv, ClosureNeedsRCA
  <2>2. row[i].resolved \in Hours /\ row[i].resolved \in Nat /\ row[i].resolved <= hour
    BY <2>1, ResolvedIsNat DEF IncInv, ClosedInThePast
  <2>3. CASE row'[i].notes = row[i].notes /\ row'[i].resolved = row[i].resolved
    BY <2>1, <2>2, <2>3
  <2>4. ASSUME NEW r \in Requests, ClosedBy(r, i)
        PROVE  /\ row'[i].notes # None
               /\ row'[i].resolved \in Hours
               /\ row'[i].resolved <= hour
               /\ i \notin raced => row[i].resolved <= row'[i].resolved
    <3>1. PICK h \in since[r] .. hour : row'[i].resolved = h
      BY <2>4 DEF ClosedBy
    <3>2. since[r] \in Hours /\ hour \in Hours
      BY DEF IncInv, TypeOK
    <3>3. h \in Hours /\ h <= hour /\ since[r] <= h /\ since[r] \in Nat /\ h \in Nat
      BY <3>1, <3>2, HoursAreNat DEF Hours
    <3>4. i \notin raced => row[i].resolved <= since[r]
      BY <2>4 DEF ClosedBy, ClosesAreLater
    <3>5. i \notin raced => row[i].resolved <= h
      BY <2>2, <3>3, <3>4
    <3>6. QED
      BY <2>4, <3>1, <3>3, <3>5 DEF ClosedBy
  <2>5. QED
    BY <2>1, <2>3, <2>4, StepRow
<1>4. QED
  BY <1>1, <1>2, <1>3, IncidentsInductiveInvariant, PTL DEF Spec, ClosureIsKept
=============================================================================
