------------------------------ MODULE Debouncer ------------------------------
(***************************************************************************)
(* The sliding-window debouncer of backend/internal/processor/debouncer.go. *)
(*                                                                         *)
(* Worker goroutines call ProcessSignal; two more goroutines, the keyspace *)
(* listener and the fallback scanner, flush expired windows to PostgreSQL. *)
(* All of them share, per component, two Redis keys: the lock (a marker    *)
(* with a TTL) and the data hash (the accumulated work item).  Every Redis, *)
(* MongoDB or PostgreSQL command is one atomic step, and any other         *)
(* goroutine may run between two of them: pipelines here are not MULTI.    *)
(*                                                                         *)
(* A signal stands for the stream entry that carries it, and the uuid of a *)
(* work item for the signal whose call created it (debouncer.go:95), which *)
(* is as fresh as the uuid since an entry is processed once.  The counter  *)
(* signal_count is kept as the set of signals that were counted.           *)
(*                                                                         *)
(* The Redis client sends a command or a pipeline again when the connection *)
(* breaks before the answer (client.go:20 leaves MaxRetries at its default), *)
(* also when the first sending was executed.                               *)
(***************************************************************************)
EXTENDS Naturals, Sequences, FiniteSets

CONSTANTS
    Signals,      \* the signals that arrive
    Components,   \* the component_ids they are about
    ComponentOf,  \* the component_id of each signal
    Workers,      \* the goroutines that call ProcessSignal
    Window,       \* debounce window, in units of time (DEBOUNCE_WINDOW_SEC)
    FaultKinds,   \* which of the faults below may be injected
    MaxFaults,    \* how many of them in one behaviour
    None          \* no id, no component, no hash

Flushers == {"listener", "scanner"}

(* The data hash.  wid is None for a hash that HINCRBY or HSET last_seen_at *)
(* brought into being: it lacks work_item_id and component_id.             *)
Hash == [wid : Signals \cup {None}, sigs : SUBSET Signals]

(* The fields of a key that may hold no hash: HGET of a missing field. *)
WidOf(h) == IF h = None THEN None ELSE h.wid
SigsOf(h) == IF h = None THEN {} ELSE h.sigs

(* A row of work_items. *)
Row == [id : Signals \cup {None}, comp : Components \cup {None},
        sigs : SUBSET Signals]

ASSUME SignalsHaveComponents == ComponentOf \in [Signals -> Components]
ASSUME WindowIsPositive == Window \in Nat \ {0}
ASSUME FaultsAreBounded == MaxFaults \in Nat
ASSUME NoneIsNoValue == None \notin Signals \cup Components \cup Hash

VARIABLES
    (* Redis *)
    ttl,      \* ttl[c]: time left to debounce:lock:c, 0 when there is no key
    data,     \* data[c]: the hash debounce:data:c, None when there is no key
    expired,  \* expiry notifications on their way to the listener
    live,     \* the ids in the sorted set ims:live_incidents
    (* PostgreSQL and MongoDB *)
    rows,     \* work_items
    audits,   \* signal_audits, as [sig, wid]
    (* the calls of ProcessSignal *)
    cpc,      \* cpc[w]: the command worker w issues next, "idle" outside a call
    csig,     \* csig[w]: the signal of the call
    cwid,     \* cwid[w]: the local workItemID
    fate,     \* fate[s]: "new", "busy", then what the call returned
    recounted, \* the signals whose executed HINCRBY was sent again (history)
    (* the flushing goroutines *)
    fpc,      \* fpc[f]: the command flusher f issues next
    fcomp,    \* fcomp[f]: the component whose window it flushes
    fsnap,    \* fsnap[f]: the local copy of the hash
    todo,     \* the keys of the SCAN page the scanner has still to look at
    (* the environment *)
    up,       \* is the processor running?
    faults    \* the number of faults injected so far

redisVars == <<ttl, data, expired, live>>
storeVars == <<rows, audits>>
callVars  == <<cpc, csig, cwid, fate, recounted>>
flushVars == <<fpc, fcomp, fsnap, todo>>
vars == <<redisVars, storeVars, callVars, flushVars, up, faults>>

RedisTypes ==
    /\ ttl \in [Components -> 0 .. Window]
    /\ data \in [Components -> Hash \cup {None}]
    /\ expired \in Seq(Components)
    /\ live \subseteq Signals \cup {None}

StoreTypes ==
    /\ rows \subseteq Row
    /\ audits \subseteq [sig : Signals, wid : Signals]

CallTypes ==
    /\ cpc \in [Workers -> {"idle", "setnx", "init", "slide", "incr",
                            "touch", "read", "audit"}]
    /\ csig \in [Workers -> Signals \cup {None}]
    /\ cwid \in [Workers -> Signals \cup {None}]
    /\ fate \in [Signals -> {"new", "busy", "ok", "failed"}]
    /\ recounted \subseteq Signals

FlushTypes ==
    /\ fpc \in [Flushers -> {"idle", "read", "insert", "hot", "del"}]
    /\ fcomp \in [Flushers -> Components \cup {None}]
    /\ fsnap \in [Flushers -> Hash \cup {None}]
    /\ todo \subseteq Components

EnvTypes == up \in BOOLEAN /\ faults \in 0 .. MaxFaults

TypeOK == RedisTypes /\ StoreTypes /\ CallTypes /\ FlushTypes /\ EnvTypes

Init ==
    /\ ttl = [c \in Components |-> 0]
    /\ data = [c \in Components |-> None]
    /\ expired = <<>>
    /\ live = {}
    /\ rows = {}
    /\ audits = {}
    /\ cpc = [w \in Workers |-> "idle"]
    /\ csig = [w \in Workers |-> None]
    /\ cwid = [w \in Workers |-> None]
    /\ fate = [s \in Signals |-> "new"]
    /\ recounted = {}
    /\ fpc = [f \in Flushers |-> "idle"]
    /\ fcomp = [f \in Flushers |-> None]
    /\ fsnap = [f \in Flushers |-> None]
    /\ todo = {}
    /\ up = TRUE
    /\ faults = 0

-----------------------------------------------------------------------------
(* Faults: a command whose effect or whose answer is lost ("redis",        *)
(* "mongo", "postgres"), a Redis command that was executed and that the    *)
(* client sends again ("resend"), a notification that is not delivered     *)
(* ("pubsub"), the end of the processor ("crash") and of Redis ("restart"). *)

Fault(kind) ==
    /\ kind \in FaultKinds
    /\ faults < MaxFaults
    /\ faults' = faults + 1

-----------------------------------------------------------------------------
(* ProcessSignal, one action per command.                                  *)

Comp(w) == ComponentOf[csig[w]]

At(w, label) == up /\ cpc[w] = label

Goto(w, label) ==
    cpc' = [cpc EXCEPT ![w] = label] /\ UNCHANGED <<csig, fate, recounted>>

(* ProcessSignal returns nil ("ok") or an error ("failed"). *)
Return(w, outcome) ==
    /\ fate' = [fate EXCEPT ![csig[w]] = outcome]
    /\ cpc' = [cpc EXCEPT ![w] = "idle"]
    /\ csig' = [csig EXCEPT ![w] = None]
    /\ cwid' = [cwid EXCEPT ![w] = None]
    /\ UNCHANGED recounted

(* What each command does to the keys of the component. *)
LockIfAbsent(w) == ttl' = [ttl EXCEPT ![Comp(w)] = IF @ = 0 THEN Window ELSE @]

(* Bug: the new window takes over the count of the one before it. *)
HashInitKeepsCount(w) ==
    data' = [data EXCEPT ![Comp(w)] =
                [wid |-> csig[w], sigs |-> SigsOf(@) \cup {csig[w]}]]

(* Bug: signal_count starts at 0, and only duplicates are counted. *)
HashInitAtZero(w) ==
    data' = [data EXCEPT ![Comp(w)] = [wid |-> csig[w], sigs |-> {}]]

HashInit(w) ==
    data' = [data EXCEPT ![Comp(w)] = [wid |-> csig[w], sigs |-> {csig[w]}]]

HashIncr(w) ==
    data' = [data EXCEPT ![Comp(w)] =
                [wid |-> WidOf(@), sigs |-> SigsOf(@) \cup {csig[w]}]]

HashTouch(w) ==
    data' = [data EXCEPT ![Comp(w)] = [wid |-> WidOf(@), sigs |-> SigsOf(@)]]

Call(w, s) ==
    /\ At(w, "idle")
    /\ fate[s] = "new"
    /\ fate' = [fate EXCEPT ![s] = "busy"]
    /\ cpc' = [cpc EXCEPT ![w] = "setnx"]
    /\ csig' = [csig EXCEPT ![w] = s]
    /\ UNCHANGED <<redisVars, storeVars, cwid, recounted, flushVars, up, faults>>

(* SETNX: the caller that sets the lock opens the window, the others slide it. *)
SetNX(w) ==
    /\ At(w, "setnx")
    /\ LockIfAbsent(w)
    /\ IF ttl[Comp(w)] = 0
       THEN /\ Goto(w, "init")
            /\ cwid' = [cwid EXCEPT ![w] = csig[w]]
       ELSE /\ Goto(w, "slide")
            /\ UNCHANGED cwid
    /\ UNCHANGED <<data, expired, live, storeVars, flushVars, up, faults>>

(* The connection breaks after the SETNX was executed, and the client sends *)
(* it again: the second answer is that the lock is there, so the window is *)
(* open and nobody initialises it.                                         *)
SetNXResent(w) ==
    /\ At(w, "setnx")
    /\ ttl[Comp(w)] = 0
    /\ Fault("resend")
    /\ LockIfAbsent(w)
    /\ Goto(w, "slide")
    /\ UNCHANGED <<data, expired, live, storeVars, cwid, flushVars, up>>

(* Bug: the opener goes on like the others and reads the id back. *)
InitHashThenRead(w) ==
    /\ At(w, "init")
    /\ HashInit(w)
    /\ Goto(w, "read")
    /\ UNCHANGED <<ttl, expired, live, storeVars, cwid, flushVars, up, faults>>

(* HSET of the five fields: whatever the key held is overwritten. *)
InitHash(w) ==
    /\ At(w, "init")
    /\ HashInit(w)
    /\ Goto(w, "audit")
    /\ UNCHANGED <<ttl, expired, live, storeVars, cwid, flushVars, up, faults>>

(* Bug: the window is added to what is left of it. *)
SlideAdds(w) ==
    /\ At(w, "slide")
    /\ \/ /\ ttl' = [ttl EXCEPT ![Comp(w)] = IF @ > 0 THEN @ + Window ELSE 0]
          /\ UNCHANGED faults
       \/ /\ Fault("redis")
          /\ UNCHANGED ttl
    /\ Goto(w, "incr")
    /\ UNCHANGED <<data, expired, live, storeVars, cwid, flushVars, up>>

(* EXPIRE: no effect on a lock that is gone; its error is ignored. *)
Slide(w) ==
    /\ At(w, "slide")
    /\ \/ /\ ttl' = [ttl EXCEPT ![Comp(w)] = IF @ > 0 THEN Window ELSE 0]
          /\ UNCHANGED faults
       \/ /\ Fault("redis")
          /\ UNCHANGED ttl
    /\ Goto(w, "incr")
    /\ UNCHANGED <<data, expired, live, storeVars, cwid, flushVars, up>>

(* HINCRBY signal_count: creates the hash if it is not there. *)
Incr(w) ==
    /\ At(w, "incr")
    /\ HashIncr(w)
    /\ Goto(w, "touch")
    /\ UNCHANGED <<ttl, expired, live, storeVars, cwid, flushVars, up, faults>>

(* HSET last_seen_at, the second command of the pipeline. *)
Touch(w) ==
    /\ At(w, "touch")
    /\ HashTouch(w)
    /\ Goto(w, "read")
    /\ UNCHANGED <<ttl, expired, live, storeVars, cwid, flushVars, up, faults>>

(* The HSET of the opener is executed and sent again: until the second     *)
(* sending anybody may read, flush, delete or replace the hash.  (An EXPIRE *)
(* or an HGET that is sent again does no more than one that is late.)      *)
InitHashResent(w) ==
    /\ At(w, "init")
    /\ Fault("resend")
    /\ HashInit(w)
    /\ UNCHANGED <<ttl, expired, live, storeVars, callVars, flushVars, up>>

(* The connection breaks when the pipeline, or its HINCRBY, was executed,  *)
(* and the client sends the pipeline again: the signal is counted once     *)
(* more, in whatever hash the key holds by then.                           *)
PipelineResent(w) ==
    /\ At(w, "touch")
    /\ Fault("resend")
    /\ HashTouch(w) \/ UNCHANGED data
    /\ cpc' = [cpc EXCEPT ![w] = "incr"]
    /\ recounted' = recounted \cup {csig[w]}
    /\ UNCHANGED <<ttl, expired, live, storeVars, csig, cwid, fate, flushVars, up>>

(* HGET work_item_id: redis.Nil, an error, when hash or field is missing. *)
ReadId(w) ==
    /\ At(w, "read")
    /\ LET wid == WidOf(data[Comp(w)])
       IN  IF wid = None
           THEN Return(w, "failed")
           ELSE Goto(w, "audit") /\ cwid' = [cwid EXCEPT ![w] = wid]
    /\ UNCHANGED <<redisVars, storeVars, flushVars, up, faults>>

(* InsertOne into signal_audits. *)
InsertSignalAudit(w) == audits' = audits \cup {[sig |-> csig[w], wid |-> cwid[w]]}

(* The insert of the audit, then the return of nil. *)
Audit(w) ==
    /\ At(w, "audit")
    /\ InsertSignalAudit(w)
    /\ Return(w, "ok")
    /\ UNCHANGED <<redisVars, rows, flushVars, up, faults>>

(* A Redis command answers an error or the 5 s context ends: the call       *)
(* returns the error, and the command may have been executed all the same.  *)
RedisError(w) ==
    /\ up
    /\ cpc[w] \in {"setnx", "init", "incr", "touch", "read"}
    /\ Fault("redis")
    /\ \/ UNCHANGED <<ttl, data>>
       \/ cpc[w] = "setnx" /\ LockIfAbsent(w) /\ UNCHANGED data
       \/ cpc[w] = "init"  /\ HashInit(w)  /\ UNCHANGED ttl
       \/ cpc[w] = "incr"  /\ HashIncr(w)  /\ UNCHANGED ttl
       \/ cpc[w] = "touch" /\ HashTouch(w) /\ UNCHANGED ttl
    /\ Return(w, "failed")
    /\ UNCHANGED <<expired, live, storeVars, flushVars, up>>

(* Bug: the error of the audit insert is logged and not returned. *)
MongoErrorIgnored(w) ==
    /\ At(w, "audit")
    /\ Fault("mongo")
    /\ \/ UNCHANGED audits
       \/ InsertSignalAudit(w)
    /\ Return(w, "ok")
    /\ UNCHANGED <<redisVars, rows, flushVars, up>>

(* The same for the insert into MongoDB. *)
MongoError(w) ==
    /\ At(w, "audit")
    /\ Fault("mongo")
    /\ \/ UNCHANGED audits
       \/ InsertSignalAudit(w)
    /\ Return(w, "failed")
    /\ UNCHANGED <<redisVars, rows, flushVars, up>>

-----------------------------------------------------------------------------
(* Expiry, the listener and the scanner.                                   *)

(* One unit of time passes for a lock.  When it lapses Redis publishes one *)
(* notification, which nobody gets while the processor is down.            *)
Age(c) ==
    /\ ttl[c] > 0
    /\ ttl' = [ttl EXCEPT ![c] = @ - 1]
    /\ \/ /\ ttl[c] = 1 /\ up
          /\ expired' = Append(expired, c)
          /\ UNCHANGED faults
       \/ /\ ttl[c] > 1 \/ ~up
          /\ UNCHANGED <<expired, faults>>
       \/ /\ ttl[c] = 1 /\ up
          /\ Fault("pubsub")
          /\ UNCHANGED expired
    /\ UNCHANGED <<data, live, storeVars, callVars, flushVars, up>>

StartFlush(f, c) ==
    /\ fpc' = [fpc EXCEPT ![f] = "read"]
    /\ fcomp' = [fcomp EXCEPT ![f] = c]
    /\ UNCHANGED fsnap

Hear ==
    /\ up /\ fpc["listener"] = "idle" /\ expired # <<>>
    /\ StartFlush("listener", Head(expired))
    /\ expired' = Tail(expired)
    /\ UNCHANGED <<ttl, data, live, storeVars, callVars, todo, up, faults>>

(* SCAN: the page of data keys.  The model's components fit in one page. *)
Scan ==
    /\ up /\ fpc["scanner"] = "idle" /\ todo = {}
    /\ todo' = {c \in Components : data[c] # None}
    /\ todo' # {}
    /\ UNCHANGED <<redisVars, storeVars, callVars, fpc, fcomp, fsnap, up, faults>>

(* Bug: the test of EXISTS is the wrong way round. *)
CheckLockInverted(c) ==
    /\ up /\ fpc["scanner"] = "idle" /\ c \in todo
    /\ todo' = todo \ {c}
    /\ \/ /\ ttl[c] > 0
          /\ StartFlush("scanner", c)
          /\ UNCHANGED faults
       \/ /\ ttl[c] = 0
          /\ UNCHANGED <<fpc, fcomp, fsnap, faults>>
       \/ /\ Fault("redis")
          /\ UNCHANGED <<fpc, fcomp, fsnap>>
    /\ UNCHANGED <<redisVars, storeVars, callVars, up>>

(* EXISTS on the lock of the next key of the page: the key is skipped when *)
(* the lock is there or the command fails.                                 *)
CheckLock(c) ==
    /\ up /\ fpc["scanner"] = "idle" /\ c \in todo
    /\ todo' = todo \ {c}
    /\ \/ /\ ttl[c] = 0
          /\ StartFlush("scanner", c)
          /\ UNCHANGED faults
       \/ /\ ttl[c] > 0
          /\ UNCHANGED <<fpc, fcomp, fsnap, faults>>
       \/ /\ Fault("redis")
          /\ UNCHANGED <<fpc, fcomp, fsnap>>
    /\ UNCHANGED <<redisVars, storeVars, callVars, up>>

-----------------------------------------------------------------------------
(* flushWorkItem, one action per command.                                  *)

FlushAt(f, label) == up /\ fpc[f] = label

FlushNext(f, label) ==
    /\ fpc' = [fpc EXCEPT ![f] = label]
    /\ UNCHANGED <<fcomp, fsnap, todo>>

EndFlush(f) ==
    /\ fpc' = [fpc EXCEPT ![f] = "idle"]
    /\ fcomp' = [fcomp EXCEPT ![f] = None]
    /\ fsnap' = [fsnap EXCEPT ![f] = None]
    /\ UNCHANGED todo

Ids == {r.id : r \in rows}

(* The row a hash is flushed to: component_id comes from the hash too. *)
RowOf(h, c) == [id |-> h.wid, comp |-> IF h.wid = None THEN None ELSE c,
                sigs |-> h.sigs]

(* HGETALL: no hash, or an error, ends the flush. *)
FlushRead(f) ==
    /\ FlushAt(f, "read")
    /\ \/ /\ data[fcomp[f]] # None
          /\ fsnap' = [fsnap EXCEPT ![f] = data[fcomp[f]]]
          /\ fpc' = [fpc EXCEPT ![f] = "insert"]
          /\ UNCHANGED <<fcomp, todo, faults>>
       \/ /\ data[fcomp[f]] = None
          /\ EndFlush(f)
          /\ UNCHANGED faults
       \/ /\ Fault("redis")
          /\ EndFlush(f)
    /\ UNCHANGED <<redisVars, storeVars, callVars, up>>

(* Bug: the insert is an upsert, ON CONFLICT (id) DO UPDATE. *)
FlushUpsert(f) ==
    /\ FlushAt(f, "insert")
    /\ LET row == RowOf(fsnap[f], fcomp[f])
       IN  rows' = {r \in rows : r.id # row.id} \cup {row}
    /\ FlushNext(f, "hot")
    /\ UNCHANGED <<redisVars, audits, callVars, up, faults>>

(* Bug: an error of the insert does not end the flush. *)
FlushInsertErrorIgnored(f) ==
    /\ FlushAt(f, "insert")
    /\ LET row == RowOf(fsnap[f], fcomp[f])
       IN  \/ /\ row.id \notin Ids
              /\ rows' = rows \cup {row}
              /\ UNCHANGED faults
           \/ /\ row.id \in Ids
              /\ UNCHANGED <<rows, faults>>
           \/ /\ Fault("postgres")
              /\ UNCHANGED rows
    /\ FlushNext(f, "hot")
    /\ UNCHANGED <<redisVars, audits, callVars, up>>

(* INSERT INTO work_items: id is the primary key, and a conflict, like any *)
(* other error, ends the flush with the data key left in place.  An error  *)
(* may also be reported for an insert that was committed.                  *)
FlushInsert(f) ==
    /\ FlushAt(f, "insert")
    /\ LET row == RowOf(fsnap[f], fcomp[f])
       IN  \/ /\ row.id \notin Ids
              /\ rows' = rows \cup {row}
              /\ FlushNext(f, "hot")
              /\ UNCHANGED faults
           \/ /\ row.id \in Ids
              /\ EndFlush(f)
              /\ UNCHANGED <<rows, faults>>
           \/ /\ Fault("postgres")
              /\ EndFlush(f)
              /\ UNCHANGED rows
           \/ /\ Fault("postgres")
              /\ row.id \notin Ids
              /\ rows' = rows \cup {row}
              /\ EndFlush(f)
    /\ UNCHANGED <<redisVars, audits, callVars, up>>

(* UpdateHotPath: an error is logged and the flush goes on. *)
FlushHot(f) ==
    /\ FlushAt(f, "hot")
    /\ \/ /\ live' = live \cup {fsnap[f].wid}
          /\ UNCHANGED faults
       \/ /\ Fault("redis")
          /\ UNCHANGED live
    /\ FlushNext(f, "del")
    /\ UNCHANGED <<ttl, data, expired, storeVars, callVars, up>>

(* DEL of the data key; its error is ignored. *)
FlushDel(f) ==
    /\ FlushAt(f, "del")
    /\ \/ /\ data' = [data EXCEPT ![fcomp[f]] = None]
          /\ UNCHANGED faults
       \/ /\ Fault("redis")
          /\ UNCHANGED data
    /\ EndFlush(f)
    /\ UNCHANGED <<ttl, expired, live, storeVars, callVars, up>>

(* The DEL is executed and sent again, and may then find the hash of a     *)
(* later opener.                                                           *)
FlushDelResent(f) ==
    /\ FlushAt(f, "del")
    /\ Fault("resend")
    /\ data' = [data EXCEPT ![fcomp[f]] = None]
    /\ UNCHANGED <<ttl, expired, live, storeVars, callVars, flushVars, up>>

-----------------------------------------------------------------------------
(* The process and the Redis server end.                                   *)

(* SIGTERM or a crash: main returns without waiting for any goroutine, so  *)
(* both cut every call where it stands.                                    *)
Crash ==
    /\ up /\ Fault("crash")
    /\ up' = FALSE
    /\ fate' = [s \in Signals |-> IF fate[s] = "busy" THEN "failed" ELSE fate[s]]
    /\ cpc' = [w \in Workers |-> "idle"]
    /\ csig' = [w \in Workers |-> None]
    /\ cwid' = [w \in Workers |-> None]
    /\ fpc' = [f \in Flushers |-> "idle"]
    /\ fcomp' = [f \in Flushers |-> None]
    /\ fsnap' = [f \in Flushers |-> None]
    /\ todo' = {}
    /\ expired' = <<>>
    /\ UNCHANGED <<ttl, data, live, storeVars, recounted>>

Restart ==
    /\ ~up
    /\ up' = TRUE
    /\ UNCHANGED <<redisVars, storeVars, callVars, flushVars, faults>>

(* Redis runs without persistence: its restart empties it.  Notifications  *)
(* the client has already received survive.                                *)
RedisRestart ==
    /\ Fault("restart")
    /\ ttl' = [c \in Components |-> 0]
    /\ data' = [c \in Components |-> None]
    /\ live' = {}
    /\ expired' \in {expired, <<>>}
    /\ UNCHANGED <<storeVars, callVars, flushVars, up>>

-----------------------------------------------------------------------------
CallStep(w) ==
    \/ SetNX(w) \/ InitHash(w) \/ Slide(w) \/ Incr(w) \/ Touch(w)
    \/ SetNXResent(w) \/ InitHashResent(w) \/ PipelineResent(w)
    \/ ReadId(w) \/ Audit(w) \/ RedisError(w) \/ MongoError(w)

FlushStep(f) ==
    FlushRead(f) \/ FlushInsert(f) \/ FlushHot(f) \/ FlushDel(f) \/ FlushDelResent(f)

ServerStep ==
    \/ \E f \in Flushers : FlushStep(f)
    \/ \E c \in Components : Age(c) \/ CheckLock(c)
    \/ Hear \/ Scan \/ Restart

Next ==
    \/ \E w \in Workers, s \in Signals : Call(w, s)
    \/ \E w \in Workers : CallStep(w)
    \/ ServerStep
    \/ Crash
    \/ RedisRestart

Spec == Init /\ [][Next]_vars

(* The clock runs, the container is restarted (restart: unless-stopped),   *)
(* and the scanner's goroutine is scheduled.                               *)
ScannerFairness ==
    /\ \A c \in Components : WF_vars(Age(c))
    /\ WF_vars(Restart)
    /\ WF_vars(Scan)
    /\ WF_vars(\E c \in Components : CheckLock(c))
    /\ WF_vars(FlushStep("scanner"))

ScannerSpec == Spec /\ ScannerFairness

(* So are the listener's and the workers'. *)
Fairness ==
    /\ ScannerFairness
    /\ WF_vars(Hear)
    /\ WF_vars(FlushStep("listener"))
    /\ \A w \in Workers : WF_vars(CallStep(w))

FairSpec == Spec /\ Fairness

-----------------------------------------------------------------------------
(* Properties.                                                             *)

(* A signal is counted by at most one work item, however the calls, the    *)
(* two flushers, late notifications and crashes interleave: flushWorkItem  *)
(* copies the hash, and only InsertWorkItem's key keeps a second copy out. *)
(* The one exception: the client sent the signal's HINCRBY again after it  *)
(* was executed, and the window was flushed in between                     *)
(* (debouncer.go:99-103, 118-121, 242, 262; client.go:20).                 *)
CountedOnce ==
    \A r1, r2 \in rows :
        r1 # r2 => r1.id # r2.id /\ r1.sigs \cap r2.sigs \subseteq recounted

(* A work item that has an id counts the signal that opened it, and only   *)
(* signals of its own component (debouncer.go:99-105, 253-260).            *)
RowsTraceable ==
    \A r \in rows :
        /\ r.id # None => r.id \in r.sigs
        /\ \A s \in r.sigs : r.comp \in {None, ComponentOf[s]}

(* The audit trail: a call that succeeds leaves exactly one audit, under a *)
(* work item of the signal's component, and a work item somebody is        *)
(* audited under has its opener's own audit unless the opener's call       *)
(* failed (debouncer.go:126-144).                                          *)
AuditTrail ==
    /\ \A s \in Signals : fate[s] = "ok" => \E a \in audits : a.sig = s
    /\ \A a, b \in audits : a.sig = b.sig => a = b
    /\ \A a \in audits : ComponentOf[a.wid] = ComponentOf[a.sig]
    /\ \A a \in audits :
          fate[a.wid] = "ok" => [sig |-> a.wid, wid |-> a.wid] \in audits

(* GetSignalsByWorkItemID: what the incident view shows for a work item. *)
SignalsByWorkItem(wid) == {s \in Signals : [sig |-> s, wid |-> wid] \in audits}

(* A persisted work item whose opener succeeded has a forensic record: the *)
(* incident view is not empty (debouncer.go:95-144, mongo.go:51).          *)
RowsHaveForensics ==
    \A r \in rows : r.id # None /\ fate[r.id] = "ok"
        => r.id \in SignalsByWorkItem(r.id)

(* The live feed shows only persisted work items: UpdateHotPath comes      *)
(* after the insert, and only if it succeeded (debouncer.go:262-277).      *)
LiveIsPersisted == live \subseteq Ids

(* The scanner's promise: a window in Redis reaches PostgreSQL even if its *)
(* notification is lost or the processor stops, unless it has left the key *)
(* before: another window has taken it, or a late DEL for an older window  *)
(* removed it, losses this property excuses and NoWindowDropped does not   *)
(* (debouncer.go:38-39, 195-233).                                          *)
OrphansAreFlushed ==
    \A c \in Components : \A s \in Signals :
        WidOf(data[c]) = s ~> (s \in Ids \/ WidOf(data[c]) # s)

-----------------------------------------------------------------------------
(* The inductive invariant behind CountedOnce, RowsTraceable, AuditTrail,  *)
(* RowsHaveForensics and LiveIsPersisted.                                  *)

(* Every copy of a window: in Redis, in a flusher's memory, in PostgreSQL. *)
Windows ==
    {h \in Hash :
        \/ \E c \in Components : data[c] = h
        \/ \E f \in Flushers : fsnap[f] = h
        \/ \E r \in rows : r.id = h.wid /\ r.sigs = h.sigs}

(* The call of signal s has sent no command that counts it; at "init" it   *)
(* may have, see the third part of WindowsDisjoint.                        *)
Uncounted(s) ==
    \/ fate[s] = "new"
    \/ \E w \in Workers : csig[w] = s /\ cpc[w] \in {"setnx", "slide"}
    \/ \E w \in Workers : csig[w] = s /\ cpc[w] = "incr" /\ s \notin recounted

(* The call of s has opened a window, or is about to, and ends with the    *)
(* audit of s under that window, unless it fails.                          *)
Opened(s) ==
    \/ fate[s] = "failed"
    \/ [sig |-> s, wid |-> s] \in audits
    \/ \E w \in Workers : csig[w] = s /\ cwid[w] = s /\ cpc[w] \in {"init", "audit"}

(* A worker in a call has its signal for itself. *)
CallsInOrder ==
    /\ \A w \in Workers :
          /\ cpc[w] = "idle" => csig[w] = None
          /\ cpc[w] # "idle" => csig[w] \in Signals /\ fate[csig[w]] = "busy"
          /\ cpc[w] = "init" => cwid[w] = csig[w]
          /\ cpc[w] = "audit" => cwid[w] \in Signals
    /\ \A w, v \in Workers : csig[w] = csig[v] /\ csig[w] # None => w = v

(* A flusher past its HGETALL has a copy of the hash, and past its insert  *)
(* the row is there.                                                       *)
FlushesInOrder ==
    \A f \in Flushers :
        /\ fpc[f] # "idle" => fcomp[f] \in Components
        /\ fpc[f] \in {"idle", "read"} => fsnap[f] = None
        /\ fpc[f] \in {"insert", "hot", "del"} => fsnap[f] \in Hash
        /\ fpc[f] \in {"hot", "del"} => fsnap[f].wid \in Ids

(* Copies of different windows share no signal but those that were sent    *)
(* again, no copy holds a signal that is still to be counted, none but its *)
(* own window a signal about to open one, and each holds its opener.       *)
WindowsDisjoint ==
    /\ \A h, k \in Windows : \A s \in Signals :
          s \in h.sigs /\ s \in k.sigs => h.wid = k.wid \/ s \in recounted
    /\ \A h \in Windows : \A s \in h.sigs : ~Uncounted(s)
    /\ \A h \in Windows : \A w \in Workers :
          cpc[w] = "init" /\ csig[w] \in h.sigs => h.wid = csig[w]
    /\ \A h \in Windows : h.wid # None => h.wid \in h.sigs
    /\ \A q, r \in rows : q.id = r.id => q = r

(* A copy holds signals of one component only. *)
WindowsOfComponent ==
    /\ \A c \in Components : data[c] # None =>
          \A s \in data[c].sigs : ComponentOf[s] = c
    /\ \A f \in Flushers : fsnap[f] # None =>
          \A s \in fsnap[f].sigs : ComponentOf[s] = fcomp[f]
    /\ \A r \in rows : \A s \in r.sigs : r.comp \in {None, ComponentOf[s]}

(* Whatever names a work item names one that was opened; an audit is left  *)
(* by a finished call only, and by every successful one.                   *)
AuditsInOrder ==
    /\ \A h \in Windows : h.wid # None => Opened(h.wid)
    /\ \A w \in Workers : cpc[w] = "audit" =>
          Opened(cwid[w]) /\ ComponentOf[cwid[w]] = ComponentOf[csig[w]]
    /\ \A a \in audits :
          /\ Opened(a.wid)
          /\ ComponentOf[a.wid] = ComponentOf[a.sig]
          /\ fate[a.sig] \in {"ok", "failed"}
    /\ \A a, b \in audits : a.sig = b.sig => a = b
    /\ \A s \in Signals : fate[s] = "ok" => \E a \in audits : a.sig = s

IInv ==
    /\ TypeOK
    /\ CallsInOrder
    /\ FlushesInOrder
    /\ WindowsDisjoint
    /\ WindowsOfComponent
    /\ AuditsInOrder
    /\ LiveIsPersisted

-----------------------------------------------------------------------------
(* The records of every behaviour are those of a SignalLedger: outcomes    *)
(* are final, audits and rows are only ever added, one audit per signal,   *)
(* rows over disjoint signals unless one was sent again                    *)
(* (debouncer.go:79-148, 237-284).                                         *)
Ledger == INSTANCE SignalLedger

KeepsLedger == Ledger!Spec

-----------------------------------------------------------------------------
(* Two claims of the comments that the code does not keep.                 *)

(* What debouncer.go:34-36 says of the data key: it is flushed when the    *)
(* lock expires.  No window's id may leave the data key unless its row is  *)
(* in PostgreSQL; without faults nothing else could remove it.             *)
NoWindowDropped ==
    [][\A c \in Components :
          WidOf(data[c]) \in {None, WidOf(data'[c])} \/ WidOf(data[c]) \in Ids']_vars

(* debouncer.go:264 keeps the data key "so the fallback scanner can        *)
(* retry": the hash of a window does not stay for ever.                    *)
FlushEventuallyCleans ==
    \A c \in Components : \A s \in Signals :
        WidOf(data[c]) = s ~> WidOf(data[c]) # s
=============================================================================
