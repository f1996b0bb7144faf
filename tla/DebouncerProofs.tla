--------------------------- MODULE DebouncerProofs ---------------------------
(***************************************************************************)
(* The inductive invariant of Debouncer, part by part, and what follows    *)
(* from it, for all constants that satisfy the module's assumptions.       *)
(***************************************************************************)
EXTENDS Debouncer, TLAPS

-----------------------------------------------------------------------------
(* Calls and flushes: who is where, with what in hand.                     *)

(* The initial state has the types. *)
LEMMA InitTypes == Init => TypeOK
  BY SignalsHaveComponents, WindowIsPositive, FaultsAreBounded
     DEF Init, TypeOK, RedisTypes, StoreTypes, CallTypes, FlushTypes, EnvTypes

(* Every step keeps the types of the Redis keys (debouncer.go:86-129, 280). *)
LEMMA StepRedisTypes ==
    TypeOK /\ CallsInOrder /\ FlushesInOrder /\ [Next]_vars => RedisTypes'
<1> SUFFICES ASSUME TypeOK, CallsInOrder, FlushesInOrder, [Next]_vars
             PROVE  RedisTypes'
  OBVIOUS
<1> USE DEF TypeOK, RedisTypes
<1>a. \A w \in Workers : cpc[w] # "idle" => csig[w] \in Signals /\ Comp(w) \in Components
  BY SignalsHaveComponents DEF CallsInOrder, Comp
<1>1. ASSUME NEW w \in Workers, NEW s \in Signals, Call(w, s) PROVE RedisTypes'
  BY <1>1 DEF Call, redisVars
<1>2. ASSUME NEW w \in Workers, SetNX(w) \/ SetNXResent(w) PROVE RedisTypes'
  BY <1>2, <1>a, WindowIsPositive DEF SetNX, SetNXResent, At, LockIfAbsent
<1>3. ASSUME NEW w \in Workers, InitHash(w) \/ InitHashResent(w) PROVE RedisTypes'
  BY <1>3, <1>a DEF InitHash, InitHashResent, At, HashInit, Hash
<1>4. ASSUME NEW w \in Workers, Slide(w) PROVE RedisTypes'
  BY <1>4, <1>a, WindowIsPositive DEF Slide, At
<1>5. ASSUME NEW w \in Workers, Incr(w) PROVE RedisTypes'
  BY <1>5, <1>a DEF Incr, At, HashIncr, Hash, WidOf, SigsOf
<1>6. ASSUME NEW w \in Workers, Touch(w) \/ PipelineResent(w) PROVE RedisTypes'
  BY <1>6, <1>a DEF Touch, PipelineResent, At, HashTouch, Hash, WidOf, SigsOf
<1>7. ASSUME NEW w \in Workers, ReadId(w) \/ Audit(w) \/ MongoError(w) PROVE RedisTypes'
  BY <1>7 DEF ReadId, Audit, MongoError, InsertSignalAudit, redisVars
<1>9. ASSUME NEW w \in Workers, RedisError(w) PROVE RedisTypes'
  <2>1. UNCHANGED <<expired, live>> /\ cpc[w] # "idle"
    BY <1>9 DEF RedisError
  <2>2. CASE UNCHANGED <<ttl, data>>
    BY <2>1, <2>2
  <2>3. CASE LockIfAbsent(w) /\ UNCHANGED data
    BY <2>1, <2>3, <1>a, WindowIsPositive DEF LockIfAbsent
  <2>4. CASE HashInit(w) /\ UNCHANGED ttl
    BY <2>1, <2>4, <1>a DEF HashInit, Hash
  <2>5. CASE HashIncr(w) /\ UNCHANGED ttl
    BY <2>1, <2>5, <1>a DEF HashIncr, Hash, WidOf, SigsOf
  <2>6. CASE HashTouch(w) /\ UNCHANGED ttl
    BY <2>1, <2>6, <1>a DEF HashTouch, Hash, WidOf, SigsOf
  <2>7. QED
    BY <1>9, <2>2, <2>3, <2>4, <2>5, <2>6 DEF RedisError
<1>10. ASSUME NEW f \in Flushers, FlushRead(f) \/ FlushInsert(f) PROVE RedisTypes'
  BY <1>10 DEF FlushRead, FlushInsert, redisVars
<1>11. ASSUME NEW f \in Flushers, FlushHot(f) PROVE RedisTypes'
  BY <1>11 DEF FlushHot, FlushAt, FlushesInOrder, Hash
<1>12. ASSUME NEW f \in Flushers, FlushDel(f) \/ FlushDelResent(f) PROVE RedisTypes'
  BY <1>12 DEF FlushDel, FlushDelResent
<1>13. ASSUME NEW c \in Components, Age(c) PROVE RedisTypes'
  <2>1. ttl' \in [Components -> 0 .. Window]
    BY <1>13, WindowIsPositive DEF Age
  <2>2. expired' \in Seq(Components)
    <3>1. Append(expired, c) \in Seq(Components)
      OBVIOUS
    <3>2. QED
      BY <1>13, <3>1 DEF Age
  <2>3. QED
    BY <1>13, <2>1, <2>2 DEF Age
<1>14. ASSUME NEW c \in Components, CheckLock(c) PROVE RedisTypes'
  BY <1>14 DEF CheckLock, redisVars
<1>15. CASE Hear
  BY <1>15 DEF Hear
<1>16. CASE Scan \/ Restart \/ UNCHANGED vars
  BY <1>16 DEF Scan, Restart, vars, redisVars
<1>17. CASE Crash
  BY <1>17 DEF Crash
<1>18. CASE RedisRestart
  <2>1. ttl' \in [Components -> 0 .. Window]
    BY <1>18, WindowIsPositive DEF RedisRestart
  <2>2. <<>> \in Seq(Components)
    OBVIOUS
  <2>3. QED
    BY <1>18, <2>1, <2>2 DEF RedisRestart
<1>19. QED
  BY <1>1, <1>2, <1>3, <1>4, <1>5, <1>6, <1>7, <1>9, <1>10, <1>11, <1>12,
     <1>13, <1>14, <1>15, <1>16, <1>17, <1>18
     DEF Next, CallStep, FlushStep, ServerStep

(* Every step keeps the types of both stores (postgres.go:88, mongo.go:44). *)
LEMMA StepStoreTypes ==
    TypeOK /\ CallsInOrder /\ FlushesInOrder /\ [Next]_vars => StoreTypes'
<1> SUFFICES ASSUME TypeOK, CallsInOrder, FlushesInOrder, [Next]_vars
             PROVE  StoreTypes'
  OBVIOUS
<1> USE DEF TypeOK, StoreTypes
<1>1. ASSUME NEW w \in Workers, Audit(w) \/ MongoError(w) PROVE StoreTypes'
  <2>1. csig[w] \in Signals /\ cwid[w] \in Signals
    BY <1>1 DEF Audit, MongoError, InsertSignalAudit, At, CallsInOrder
  <2>2. QED
    BY <1>1, <2>1 DEF Audit, MongoError, InsertSignalAudit
<1>2. ASSUME NEW f \in Flushers, FlushInsert(f) PROVE StoreTypes'
  <2>1. fsnap[f] \in Hash /\ fcomp[f] \in Components
    BY <1>2 DEF FlushInsert, FlushAt, FlushesInOrder
  <2>2. RowOf(fsnap[f], fcomp[f]) \in Row
    BY <2>1 DEF RowOf, Row, Hash
  <2>3. QED
    BY <1>2, <2>2 DEF FlushInsert
<1>3. ASSUME UNCHANGED storeVars PROVE StoreTypes'
  BY <1>3 DEF storeVars
<1>4. QED
  BY <1>1, <1>2, <1>3
     DEF Next, CallStep, FlushStep, ServerStep, Call, SetNX, SetNXResent, InitHash,
         InitHashResent, PipelineResent, Slide, Incr, Touch, ReadId, RedisError, FlushRead,
         FlushHot, FlushDel, FlushDelResent, Age, CheckLock, Hear, Scan, Crash, Restart,
         RedisRestart, vars

(* The fault budget is kept. *)
LEMMA StepEnvTypes == TypeOK /\ [Next]_vars => EnvTypes'
<1> SUFFICES ASSUME TypeOK, [Next]_vars PROVE EnvTypes'
  OBVIOUS
<1> USE FaultsAreBounded DEF TypeOK, EnvTypes
<1>1. faults' = faults \/ (faults < MaxFaults /\ faults' = faults + 1)
  BY DEF Fault, Next, CallStep, FlushStep, ServerStep, Call, SetNX, SetNXResent, InitHash,
         InitHashResent, PipelineResent, Slide, Incr, Touch, ReadId, Audit, RedisError,
         MongoError, InsertSignalAudit, FlushRead, FlushInsert, FlushHot, FlushDel,
         FlushDelResent, Age, CheckLock, Hear, Scan, Crash, Restart, RedisRestart, vars
<1>2. up' \in BOOLEAN
  BY DEF Next, CallStep, FlushStep, ServerStep, Call, SetNX, SetNXResent, InitHash,
         InitHashResent, PipelineResent, Slide, Incr, Touch, ReadId, Audit, RedisError,
         MongoError, InsertSignalAudit, FlushRead, FlushInsert, FlushHot, FlushDel,
         FlushDelResent, Age, CheckLock, Hear, Scan, Crash, Restart, RedisRestart, vars
<1>3. QED
  BY <1>1, <1>2

(* A step of a call keeps every call in order: each worker in a call has a *)
(* busy signal that no other worker has (debouncer.go:79-148).             *)
LEMMA StepCalls ==
    TypeOK /\ CallsInOrder /\ [Next]_vars => CallTypes' /\ CallsInOrder'
<1> SUFFICES ASSUME TypeOK, CallsInOrder, [Next]_vars
             PROVE  CallTypes' /\ CallsInOrder'
  OBVIOUS
<1> USE DEF TypeOK, CallTypes, CallsInOrder
<1>n. None \notin Signals
  BY NoneIsNoValue
<1>1. ASSUME NEW w \in Workers, NEW s \in Signals, Call(w, s)
      PROVE  CallTypes' /\ CallsInOrder'
  BY <1>1, <1>n DEF Call, At
<1>2. ASSUME NEW w \in Workers, Return(w, "ok") \/ Return(w, "failed"),
             cpc[w] # "idle"
      PROVE  CallTypes' /\ CallsInOrder'
  BY <1>2, <1>n DEF Return
<1>3. ASSUME NEW w \in Workers, NEW l \in {"slide", "incr", "touch", "read"},
             cpc[w] # "idle", Goto(w, l), UNCHANGED cwid
      PROVE  CallTypes' /\ CallsInOrder'
  BY <1>3 DEF Goto
<1>4. ASSUME NEW w \in Workers, SetNX(w) \/ SetNXResent(w) PROVE CallTypes' /\ CallsInOrder'
  <2>1. CASE Goto(w, "init") /\ cwid' = [cwid EXCEPT ![w] = csig[w]]
    BY <1>4, <2>1 DEF SetNX, SetNXResent, At, Goto
  <2>2. CASE Goto(w, "slide") /\ UNCHANGED cwid
    BY <1>3, <1>4, <2>2 DEF SetNX, SetNXResent, At
  <2>3. QED
    BY <1>4, <2>1, <2>2 DEF SetNX, SetNXResent
<1>5. ASSUME NEW w \in Workers, InitHash(w) PROVE CallTypes' /\ CallsInOrder'
  BY <1>5 DEF InitHash, At, Goto
<1>6. ASSUME NEW w \in Workers, Slide(w) \/ Incr(w) \/ Touch(w)
      PROVE  CallTypes' /\ CallsInOrder'
  BY <1>3, <1>6 DEF Slide, Incr, Touch, At
<1>7. ASSUME NEW w \in Workers, ReadId(w) PROVE CallTypes' /\ CallsInOrder'
  <2> DEFINE wid == WidOf(data[Comp(w)])
  <2>1. CASE wid = None
    BY <1>2, <1>7, <2>1 DEF ReadId, At
  <2>2. CASE wid # None
    <3>1. csig[w] \in Signals /\ Comp(w) \in Components
      BY <1>7, SignalsHaveComponents DEF ReadId, At, Comp
    <3>2. wid \in Signals
      BY <2>2, <3>1 DEF WidOf, RedisTypes, Hash
    <3>3. QED
      BY <1>7, <2>2, <3>2 DEF ReadId, At, Goto
  <2>3. QED
    BY <2>1, <2>2
<1>8. ASSUME NEW w \in Workers, Audit(w) \/ RedisError(w) \/ MongoError(w)
      PROVE  CallTypes' /\ CallsInOrder'
  BY <1>2, <1>8 DEF Audit, RedisError, MongoError, InsertSignalAudit, At
<1>9. CASE Crash
  BY <1>9 DEF Crash
<1>10. CASE UNCHANGED callVars
  BY <1>10 DEF callVars
<1>11. ASSUME NEW w \in Workers, PipelineResent(w) PROVE CallTypes' /\ CallsInOrder'
  BY <1>11 DEF PipelineResent, At
<1>12. QED
  BY <1>1, <1>4, <1>5, <1>6, <1>7, <1>8, <1>9, <1>10, <1>11
     DEF Next, CallStep, FlushStep, ServerStep, InitHashResent, FlushRead, FlushInsert,
         FlushHot, FlushDel, FlushDelResent, Age, CheckLock, Hear, Scan, Restart,
         RedisRestart, vars

(* A step of a flush keeps the flushes in order: past its insert the row   *)
(* is in PostgreSQL, and nobody removes rows (debouncer.go:237-284).       *)
LEMMA StepFlushes ==
    TypeOK /\ FlushesInOrder /\ [Next]_vars => FlushTypes' /\ FlushesInOrder'
<1> SUFFICES ASSUME TypeOK, FlushesInOrder, [Next]_vars
             PROVE  FlushTypes' /\ FlushesInOrder'
  OBVIOUS
<1> USE DEF TypeOK, FlushTypes, FlushesInOrder
<1>1. rows \subseteq rows'
  BY DEF Next, CallStep, FlushStep, ServerStep, Call, SetNX, SetNXResent, InitHash,
         InitHashResent, PipelineResent, Slide, Incr, Touch, ReadId, Audit, RedisError,
         MongoError, InsertSignalAudit, FlushRead, FlushInsert, FlushHot, FlushDel,
         FlushDelResent, Age, CheckLock, Hear, Scan, Crash, Restart, RedisRestart, vars,
         storeVars
<1>2. Ids \subseteq Ids'
  BY <1>1 DEF Ids
<1>3. ASSUME NEW f \in Flushers, EndFlush(f)
      PROVE  FlushTypes' /\ FlushesInOrder'
  BY <1>2, <1>3 DEF EndFlush
<1>4. ASSUME NEW f \in Flushers, FlushRead(f)
      PROVE  FlushTypes' /\ FlushesInOrder'
  <2>1. CASE /\ data[fcomp[f]] # None
             /\ fsnap' = [fsnap EXCEPT ![f] = data[fcomp[f]]]
             /\ fpc' = [fpc EXCEPT ![f] = "insert"]
             /\ UNCHANGED <<fcomp, todo, faults>>
    <3>1. data[fcomp[f]] \in Hash
      BY <1>4, <2>1 DEF FlushRead, FlushAt, RedisTypes
    <3>2. fcomp[f] \in Components
      BY <1>4 DEF FlushRead, FlushAt
    <3>3. QED
      BY <1>2, <2>1, <3>1, <3>2
  <2>2. QED
    BY <1>3, <1>4, <2>1 DEF FlushRead
<1>5. ASSUME NEW f \in Flushers, FlushInsert(f)
      PROVE  FlushTypes' /\ FlushesInOrder'
  <2> DEFINE row == RowOf(fsnap[f], fcomp[f])
  <2>1. CASE rows' = rows \cup {row} /\ FlushNext(f, "hot")
    <3>a. row \in rows' /\ row.id = fsnap[f].wid
      BY <2>1 DEF RowOf
    <3>1. fsnap[f].wid \in Ids'
      BY <3>a DEF Ids
    <3>2. fsnap[f] \in Hash /\ fcomp[f] \in Components
      BY <1>5 DEF FlushInsert, FlushAt
    <3>3. QED
      BY <1>2, <2>1, <3>1, <3>2 DEF FlushNext
  <2>2. QED
    BY <1>3, <1>5, <2>1 DEF FlushInsert
<1>6. ASSUME NEW f \in Flushers, FlushHot(f)
      PROVE  FlushTypes' /\ FlushesInOrder'
  BY <1>2, <1>6 DEF FlushHot, FlushAt, FlushNext
<1>7. ASSUME NEW f \in Flushers, FlushDel(f)
      PROVE  FlushTypes' /\ FlushesInOrder'
  BY <1>3, <1>7 DEF FlushDel
<1>8. ASSUME NEW f \in Flushers, NEW c \in Components, StartFlush(f, c),
             fpc[f] = "idle", todo' \subseteq Components
      PROVE  FlushTypes' /\ FlushesInOrder'
  BY <1>2, <1>8 DEF StartFlush
<1>9. ASSUME UNCHANGED <<fpc, fcomp, fsnap>>, todo' \subseteq Components
      PROVE  FlushTypes' /\ FlushesInOrder'
  BY <1>2, <1>9
<1>10. ASSUME NEW c \in Components, CheckLock(c)
       PROVE  FlushTypes' /\ FlushesInOrder'
  BY <1>8, <1>9, <1>10 DEF CheckLock, Flushers
<1>11. CASE Hear
  <2>1. Head(expired) \in Components
    BY <1>11 DEF Hear, RedisTypes
  <2>2. QED
    BY <1>8, <1>11, <2>1 DEF Hear, Flushers
<1>12. CASE Scan
  BY <1>9, <1>12 DEF Scan
<1>13. CASE Crash
  BY <1>13 DEF Crash
<1>14. CASE UNCHANGED flushVars
  BY <1>9, <1>14 DEF flushVars
<1>15. QED
  BY <1>4, <1>5, <1>6, <1>7, <1>10, <1>11, <1>12, <1>13, <1>14
     DEF Next, CallStep, FlushStep, FlushDelResent, ServerStep, Call, SetNX, SetNXResent,
         InitHash, InitHashResent, PipelineResent, Slide, Incr, Touch, ReadId, Audit,
         RedisError, MongoError, InsertSignalAudit, Age, Restart, RedisRestart, vars

-----------------------------------------------------------------------------
(* Copies of windows: where they come from and what they count.            *)

(* A signal that has been counted, or whose call is over, is not counted   *)
(* later: an entry is processed once.                                      *)
LEMMA StepUncounted ==
    TypeOK /\ CallsInOrder /\ [Next]_vars
        => \A s \in Signals : Uncounted(s)' => Uncounted(s)
<1> SUFFICES ASSUME TypeOK, CallsInOrder, [Next]_vars, NEW s \in Signals, Uncounted(s)'
             PROVE  Uncounted(s)
  OBVIOUS
<1> USE DEF TypeOK, CallTypes, Uncounted
<1>1. ASSUME NEW w \in Workers, NEW t \in Signals, Call(w, t) PROVE Uncounted(s)
  BY <1>1 DEF Call, At
<1>2. ASSUME NEW w \in Workers, NEW o \in {"ok", "failed"}, Return(w, o)
      PROVE  Uncounted(s)
  <2>1. fate'[s] = "new" => fate[s] = "new"
    BY <1>2 DEF Return
  <2>2. /\ \A v \in Workers : csig'[v] = s /\ cpc'[v] \in {"setnx", "slide", "incr"}
                              => csig[v] = s /\ cpc[v] = cpc'[v]
        /\ UNCHANGED recounted
    BY <1>2 DEF Return
  <2>3. QED
    BY <2>1, <2>2
<1>3. ASSUME NEW w \in Workers, NEW l, Goto(w, l),
             cpc[w] \in {"setnx", "slide"} \/ l \notin {"setnx", "slide", "incr"}
      PROVE  Uncounted(s)
  BY <1>3 DEF Goto
<1>4. ASSUME NEW w \in Workers, SetNX(w) \/ SetNXResent(w) \/ InitHash(w) \/ Slide(w) \/ Incr(w) \/ Touch(w)
      PROVE  Uncounted(s)
  BY <1>3, <1>4 DEF SetNX, SetNXResent, InitHash, Slide, Incr, Touch, At
<1>5. ASSUME NEW w \in Workers, ReadId(w) PROVE Uncounted(s)
  BY <1>2, <1>3, <1>5 DEF ReadId
<1>6. ASSUME NEW w \in Workers, Audit(w) \/ RedisError(w) \/ MongoError(w)
      PROVE  Uncounted(s)
  BY <1>2, <1>6 DEF Audit, RedisError, MongoError, InsertSignalAudit
<1>7. CASE Crash
  BY <1>7 DEF Crash
<1>8. CASE UNCHANGED callVars
  BY <1>8 DEF callVars
<1>9. ASSUME NEW w \in Workers, PipelineResent(w) PROVE Uncounted(s)
  BY <1>9 DEF PipelineResent, At
<1>10. QED
  BY <1>1, <1>4, <1>5, <1>6, <1>7, <1>8, <1>9
     DEF Next, CallStep, FlushStep, ServerStep, InitHashResent, FlushRead, FlushInsert,
         FlushHot, FlushDel, FlushDelResent, Age, CheckLock, Hear, Scan, Restart,
         RedisRestart, vars

(* The command by which a worker changes the hash of its component.        *)
Writes(w) ==
    /\ UNCHANGED <<rows, fsnap>>
    /\ \/ cpc[w] = "init" /\ HashInit(w)
       \/ cpc[w] = "incr" /\ HashIncr(w)
       \/ cpc[w] = "touch" /\ HashTouch(w)
    /\ \/ Return(w, "failed")
       \/ cpc[w] = "init" /\ (Goto(w, "audit") \/ UNCHANGED callVars) /\ UNCHANGED cwid
       \/ cpc[w] # "init" /\ \E l \in {"touch", "read"} : Goto(w, l) /\ UNCHANGED cwid
       \/ PipelineResent(w)

(* A hash is its two fields. *)
LEMMA HashEquality ==
    ASSUME NEW g \in Hash, NEW h \in Hash, g.wid = h.wid, g.sigs = h.sigs
    PROVE  g = h
<1>1. g = [wid |-> g.wid, sigs |-> g.sigs] /\ h = [wid |-> h.wid, sigs |-> h.sigs]
  BY DEF Hash
<1>2. QED
  BY <1>1

(* A row is a copy of a window. *)
LEMMA RowIsCopy ==
    ASSUME TypeOK, NEW r \in rows
    PROVE  \E h \in Windows : h.wid = r.id /\ h.sigs = r.sigs /\ h.sigs \subseteq Signals
<1>1. r.id \in Signals \cup {None} /\ r.sigs \subseteq Signals
  BY DEF TypeOK, StoreTypes, Row
<1>2. [wid |-> r.id, sigs |-> r.sigs] \in Hash
  BY <1>1 DEF Hash
<1>3. PICK h \in Hash : h.wid = r.id /\ h.sigs = r.sigs
  BY <1>2
<1>4. h \in Windows
  BY <1>3 DEF Windows
<1>5. QED
  BY <1>1, <1>3, <1>4

(* Only three commands make a new copy of a window; every other step       *)
(* copies a copy or drops one.                                             *)
LEMMA StepWindows ==
    TypeOK /\ CallsInOrder /\ FlushesInOrder /\ [Next]_vars
        => Windows' \subseteq Windows \/ \E w \in Workers : Writes(w)
<1> SUFFICES ASSUME TypeOK, CallsInOrder, FlushesInOrder, [Next]_vars
             PROVE  Windows' \subseteq Windows \/ \E w \in Workers : Writes(w)
  OBVIOUS
<1> USE DEF TypeOK
<1>1. ASSUME UNCHANGED <<data, fsnap, rows>> PROVE Windows' \subseteq Windows
  BY <1>1 DEF Windows
<1>n. None \notin Hash
  BY NoneIsNoValue
<1>2. ASSUME NEW f \in Flushers, fsnap' = [fsnap EXCEPT ![f] = None],
             UNCHANGED rows,
             \A c \in Components : data'[c] \in {None, data[c]}
      PROVE  Windows' \subseteq Windows
  BY <1>2, <1>n DEF Windows, FlushTypes
<1>3. ASSUME NEW w \in Workers, InitHash(w) \/ InitHashResent(w) \/ Incr(w) \/ Touch(w)
      PROVE  Writes(w)
  BY <1>3 DEF InitHash, InitHashResent, Incr, Touch, At, Writes, storeVars, callVars, flushVars
<1>4. ASSUME NEW w \in Workers, RedisError(w)
      PROVE  Windows' \subseteq Windows \/ Writes(w)
  BY <1>1, <1>4 DEF RedisError, Writes, storeVars, flushVars
<1>5. ASSUME NEW f \in Flushers, FlushRead(f) PROVE Windows' \subseteq Windows
  <2>1. CASE /\ data[fcomp[f]] # None
             /\ fsnap' = [fsnap EXCEPT ![f] = data[fcomp[f]]]
    <3>1. fcomp[f] \in Components
      BY <1>5 DEF FlushRead, FlushAt, FlushesInOrder
    <3>2. UNCHANGED <<data, rows>>
      BY <1>5 DEF FlushRead, redisVars, storeVars
    <3>3. \A g \in Flushers : fsnap'[g] \in {fsnap[g], data[fcomp[f]]}
      BY <2>1 DEF FlushTypes
    <3>4. QED
      BY <3>1, <3>2, <3>3 DEF Windows
  <2>2. CASE EndFlush(f)
    BY <1>2, <1>5, <2>2 DEF EndFlush, FlushRead, redisVars, storeVars
  <2>3. QED
    BY <1>5, <2>1, <2>2 DEF FlushRead
<1>6. ASSUME NEW f \in Flushers, FlushInsert(f) PROVE Windows' \subseteq Windows
  <2> DEFINE row == RowOf(fsnap[f], fcomp[f])
  <2>1. fsnap[f] \in Hash /\ UNCHANGED data
    BY <1>6 DEF FlushInsert, FlushAt, FlushesInOrder, redisVars
  <2>2. \A g \in Flushers : fsnap'[g] \in {fsnap[g], None}
    BY <1>6 DEF FlushInsert, FlushNext, EndFlush, FlushTypes
  <2>3. \A r \in rows' : r \in rows \/ (r.id = fsnap[f].wid /\ r.sigs = fsnap[f].sigs)
    BY <1>6 DEF FlushInsert, RowOf
  <2>4. ASSUME NEW h \in Windows' PROVE h \in Windows
    <3>1. h \in Hash
      BY DEF Windows
    <3>2. CASE \E c \in Components : data'[c] = h
      BY <2>1, <3>1, <3>2 DEF Windows
    <3>3. CASE \E g \in Flushers : fsnap'[g] = h
      BY <2>2, <3>1, <3>3, <1>n DEF Windows
    <3>4. CASE \E r \in rows' : r.id = h.wid /\ r.sigs = h.sigs
      <4>1. PICK r \in rows' : r.id = h.wid /\ r.sigs = h.sigs
        BY <3>4
      <4>2. CASE r \in rows
        BY <3>1, <4>1, <4>2 DEF Windows
      <4>3. CASE r.id = fsnap[f].wid /\ r.sigs = fsnap[f].sigs
        <5>1. fsnap[f] = h
          BY <2>1, <3>1, <4>1, <4>3, HashEquality
        <5>2. QED
          BY <3>1, <5>1 DEF Windows
      <4>4. QED
        BY <2>3, <4>2, <4>3
    <3>5. QED
      BY <3>2, <3>3, <3>4 DEF Windows
  <2>5. QED
    BY <2>4
<1>7. ASSUME NEW f \in Flushers, FlushDel(f) \/ FlushDelResent(f) PROVE Windows' \subseteq Windows
  <2>1. CASE FlushDel(f)
    BY <1>2, <2>1 DEF FlushDel, EndFlush, storeVars, RedisTypes
  <2>2. CASE FlushDelResent(f)
    <3>1. UNCHANGED <<fsnap, rows>> /\ \A c \in Components : data'[c] \in {None, data[c]}
      BY <2>2 DEF FlushDelResent, storeVars, flushVars, RedisTypes
    <3>2. QED
      BY <3>1, <1>n DEF Windows
  <2>3. QED
    BY <1>7, <2>1, <2>2
<1>8. CASE Crash
  BY <1>8, <1>n DEF Crash, Windows, storeVars
<1>9. CASE RedisRestart
  BY <1>9, <1>n DEF RedisRestart, Windows, storeVars, flushVars
<1>10. ASSUME NEW w \in Workers, PipelineResent(w)
       PROVE  Windows' \subseteq Windows \/ Writes(w)
  BY <1>1, <1>10 DEF PipelineResent, At, Writes, storeVars, flushVars
<1>11. QED
  BY <1>1, <1>3, <1>4, <1>5, <1>6, <1>7, <1>8, <1>9, <1>10
     DEF Next, CallStep, FlushStep, ServerStep, Call, SetNX, SetNXResent, Slide, ReadId,
         Audit, MongoError, InsertSignalAudit, FlushHot, Age, CheckLock, StartFlush, Hear, Scan,
         Restart, FlushNext, vars, redisVars, storeVars, flushVars

(* What such a command writes: its signal's own window, or the rest of the *)
(* copy is the hash it replaces; the signal is not still to be counted.    *)
LEMMA WritesCopy ==
    ASSUME TypeOK, CallsInOrder, NEW w \in Workers, Writes(w),
           NEW s \in Signals, s = csig[w]
    PROVE  /\ ~Uncounted(s)'
           /\ \E n \in Hash :
              /\ \A h \in Windows' : h \in Windows \/ h = n
              /\ n = data'[Comp(w)]
              /\ \/ /\ cpc[w] = "init" /\ Opened(s)'
                    /\ n.wid = s /\ n.sigs = {s}
                 \/ /\ cpc[w] = "incr"
                    /\ n.wid = WidOf(data[Comp(w)])
                    /\ n.sigs = SigsOf(data[Comp(w)]) \cup {s}
                 \/ /\ cpc[w] = "touch"
                    /\ n.wid = WidOf(data[Comp(w)])
                    /\ n.sigs = SigsOf(data[Comp(w)])
<1> USE DEF TypeOK
<1> DEFINE c == Comp(w)
           n == data'[c]
<1>1. c \in Components /\ fate[s] = "busy" /\ cpc[w] # "idle"
  BY SignalsHaveComponents DEF Writes, CallsInOrder, Comp
<1>2. data[c] \in Hash \cup {None} /\ WidOf(data[c]) \in Signals \cup {None}
        /\ SigsOf(data[c]) \subseteq Signals
  BY <1>1 DEF RedisTypes, Hash, WidOf, SigsOf
<1>3. \/ cpc[w] = "init" /\ n = [wid |-> s, sigs |-> {s}]
      \/ cpc[w] = "incr" /\ n = [wid |-> WidOf(data[c]), sigs |-> SigsOf(data[c]) \cup {s}]
      \/ cpc[w] = "touch" /\ n = [wid |-> WidOf(data[c]), sigs |-> SigsOf(data[c])]
  BY <1>1 DEF Writes, HashInit, HashIncr, HashTouch, RedisTypes
<1>4. n \in Hash
  BY <1>1, <1>2, <1>3 DEF Hash
<1>5. \A d \in Components : d # c => data'[d] = data[d]
  BY <1>1 DEF Writes, HashInit, HashIncr, HashTouch, RedisTypes
<1>6. \A h \in Windows' : h \in Windows \/ h = n
  BY <1>5 DEF Windows, Writes
<1>7. /\ fate'[s] \in {"busy", "failed"}
      /\ \A v \in Workers : v # w => csig'[v] # s
      /\ \/ cpc'[w] \in {"idle", "init", "audit", "touch", "read"}
         \/ s \in recounted'
      /\ cpc'[w] # "slide" /\ cpc'[w] # "setnx"
  <2>0. /\ s # None /\ cpc[w] \in {"init", "incr", "touch"}
        /\ \A v \in Workers : v # w => csig[v] # s
    BY NoneIsNoValue DEF Writes, CallsInOrder
  <2>1. CASE Return(w, "failed")
    BY <1>1, <2>0, <2>1 DEF Return, CallTypes
  <2>2. CASE \E l \in {"audit", "touch", "read"} : Goto(w, l)
    BY <1>1, <2>0, <2>2 DEF Goto, CallTypes
  <2>3. CASE cpc[w] = "init" /\ UNCHANGED callVars
    BY <1>1, <2>0, <2>3 DEF callVars
  <2>4. CASE PipelineResent(w)
    BY <1>1, <2>0, <2>4 DEF PipelineResent, CallTypes
  <2>5. QED
    BY <2>1, <2>2, <2>3, <2>4 DEF Writes
<1>8. ~Uncounted(s)'
  BY <1>7 DEF Uncounted
<1>9. cpc[w] = "init" => Opened(s)'
  BY <1>1 DEF Writes, PipelineResent, At, Return, Goto, callVars, Opened, CallTypes, CallsInOrder
<1>10. QED
  BY <1>3, <1>4, <1>6, <1>8, <1>9

(* Only the opener comes to the HSET, and comes from its SETNX. *)
LEMMA StepOpening ==
    ASSUME TypeOK, CallsInOrder, [Next]_vars, NEW v \in Workers, cpc'[v] = "init"
    PROVE  csig'[v] = csig[v] /\ cpc[v] \in {"setnx", "init"}
<1> USE DEF TypeOK, CallTypes
<1>1. ASSUME NEW w \in Workers, NEW s \in Signals, Call(w, s)
      PROVE  csig'[v] = csig[v] /\ cpc[v] \in {"setnx", "init"}
  BY <1>1 DEF Call
<1>2. ASSUME NEW w \in Workers, CallStep(w)
      PROVE  csig'[v] = csig[v] /\ cpc[v] \in {"setnx", "init"}
  <2>1. \/ SetNX(w) /\ UNCHANGED csig
        \/ UNCHANGED callVars
        \/ cpc'[w] # "init"
    BY <1>2 DEF CallStep, SetNX, SetNXResent, InitHash, InitHashResent, Slide, Incr, Touch,
                PipelineResent, ReadId, Audit, RedisError, MongoError, Return, Goto
  <2>2. /\ cpc' = [cpc EXCEPT ![w] = cpc'[w]]
        /\ csig' = [csig EXCEPT ![w] = csig'[w]]
    BY <1>2 DEF CallStep, SetNX, SetNXResent, InitHash, InitHashResent, Slide, Incr, Touch,
                PipelineResent, ReadId, Audit, RedisError, MongoError, Return, Goto, callVars
  <2>3. SetNX(w) => cpc[w] = "setnx"
    BY DEF SetNX, At
  <2>4. QED
    BY <2>1, <2>2, <2>3 DEF callVars
<1>3. CASE Crash
  BY <1>3 DEF Crash
<1>4. CASE UNCHANGED callVars
  BY <1>4 DEF callVars
<1>5. QED
  BY <1>1, <1>2, <1>3, <1>4
     DEF Next, FlushStep, ServerStep, FlushRead, FlushInsert, FlushHot, FlushDel, FlushDelResent,
         Age, CheckLock, Hear, Scan, Restart, RedisRestart, vars

(* A signal that was sent again stays one that was. *)
LEMMA StepRecounted == [Next]_vars => recounted \subseteq recounted'
  BY DEF Next, CallStep, FlushStep, ServerStep, Call, SetNX, SetNXResent, InitHash, InitHashResent,
         PipelineResent, Slide, Incr, Touch, ReadId, Audit, RedisError, MongoError, Return, Goto,
         FlushRead, FlushInsert, FlushHot, FlushDel, FlushDelResent, Age, CheckLock, Hear, Scan,
         Crash, Restart, RedisRestart, vars, callVars

(* The step that could count a signal twice does not: the heart of         *)
(* CountedOnce (debouncer.go:99-123, 242-262).                             *)
LEMMA StepDisjoint ==
    IInv /\ [Next]_vars => WindowsDisjoint'
<1> SUFFICES ASSUME IInv, [Next]_vars PROVE WindowsDisjoint'
  OBVIOUS
<1> USE DEF IInv, WindowsDisjoint
<1>1. \A s \in Signals : Uncounted(s)' => Uncounted(s)
  BY StepUncounted
<1>2. \A h \in Windows : h \in Hash /\ h.sigs \subseteq Signals
  BY DEF Windows, Hash
<1>3. (\A q, r \in rows : q.id = r.id => q = r)'
  <2>1. \/ UNCHANGED rows
        \/ \E row : row.id \notin Ids /\ rows' = rows \cup {row}
    BY DEF Next, CallStep, FlushStep, ServerStep, Call, SetNX, SetNXResent, InitHash,
           InitHashResent, PipelineResent, Slide, Incr, Touch, ReadId, Audit, RedisError,
           MongoError, InsertSignalAudit, FlushRead, FlushInsert, FlushHot, FlushDel,
           FlushDelResent, Age, CheckLock, Hear, Scan, Crash, Restart, RedisRestart, vars,
           storeVars
  <2>2. QED
    BY <2>1 DEF Ids
<1>0. TypeOK /\ CallsInOrder /\ FlushesInOrder /\ recounted \subseteq recounted'
  BY StepRecounted
<1>4. ASSUME NEW v \in Workers, cpc'[v] = "init", NEW h \in Windows, csig'[v] \in h.sigs
      PROVE  h.wid = csig'[v]
  <2>1. csig'[v] = csig[v] /\ cpc[v] \in {"setnx", "init"}
    BY <1>0, <1>4, StepOpening
  <2>2. cpc[v] = "setnx" => Uncounted(csig[v])
    BY DEF Uncounted
  <2>3. QED
    BY <1>4, <2>1, <2>2
<1>5. CASE Windows' \subseteq Windows
  BY <1>0, <1>1, <1>2, <1>3, <1>4, <1>5
<1>6. ASSUME NEW w \in Workers, Writes(w) PROVE WindowsDisjoint'
  <2> DEFINE d == data[Comp(w)]
  <2>0. csig[w] \in Signals /\ Comp(w) \in Components
    BY <1>6, SignalsHaveComponents DEF Writes, CallsInOrder, Comp
  <2>s. PICK s \in Signals : s = csig[w]
    BY <2>0
  <2>1. /\ ~Uncounted(s)'
        /\ \E n \in Hash :
              /\ \A h \in Windows' : h \in Windows \/ h = n
              /\ \/ cpc[w] = "init" /\ n.wid = s /\ n.sigs = {s}
                 \/ cpc[w] = "incr" /\ n.wid = WidOf(d) /\ n.sigs = SigsOf(d) \cup {s}
                 \/ cpc[w] = "touch" /\ n.wid = WidOf(d) /\ n.sigs = SigsOf(d)
    BY <1>0, <1>6, <2>s, WritesCopy
  <2>n. PICK n \in Hash :
              /\ \A h \in Windows' : h \in Windows \/ h = n
              /\ \/ cpc[w] = "init" /\ n.wid = s /\ n.sigs = {s}
                 \/ cpc[w] = "incr" /\ n.wid = WidOf(d) /\ n.sigs = SigsOf(d) \cup {s}
                 \/ cpc[w] = "touch" /\ n.wid = WidOf(d) /\ n.sigs = SigsOf(d)
    BY <2>1
  <2>2. d = None \/ d \in Windows
    BY <2>0 DEF Windows, TypeOK, RedisTypes
  <2>3. \A h \in Windows : s \in h.sigs =>
           /\ cpc[w] = "init" => h.wid = s
           /\ cpc[w] = "incr" => s \in recounted
    BY <2>s DEF Uncounted
  <2>4. ASSUME NEW h \in Windows, NEW x \in Signals, x \in h.sigs, x \in n.sigs
        PROVE  h.wid = n.wid \/ x \in recounted
    <3>1. CASE d = None
      BY <2>n, <2>3, <2>4, <3>1 DEF WidOf, SigsOf
    <3>2. CASE d # None /\ d \in Windows
      BY <2>n, <2>3, <2>4, <3>2 DEF WidOf, SigsOf
    <3>3. QED
      BY <2>2, <3>1, <3>2
  <2>5. \A x \in n.sigs : ~Uncounted(x)'
    <3>1. \A x \in SigsOf(d) : x \in Signals /\ ~Uncounted(x)
      BY <1>2, <2>2 DEF SigsOf
    <3>2. \A x \in SigsOf(d) : ~Uncounted(x)'
      BY <1>1, <3>1
    <3>3. QED
      BY <2>1, <2>n, <3>2
  <2>6. n.wid # None => n.wid \in n.sigs
    BY <2>n, <2>2 DEF WidOf, SigsOf
  <2>7. ASSUME NEW v \in Workers, cpc'[v] = "init", csig'[v] \in n.sigs
        PROVE  n.wid = csig'[v]
    <3>1. csig'[v] = csig[v] /\ cpc[v] \in {"setnx", "init"}
      BY <1>0, <2>7, StepOpening
    <3>2. CASE csig[v] = s
      <4>1. v = w
        BY <2>s, <3>2, NoneIsNoValue, <1>0 DEF CallsInOrder
      <4>2. cpc[w] = "init"
        BY <2>n, <3>1, <4>1
      <4>3. QED
        BY <2>n, <3>1, <3>2, <4>2
    <3>3. CASE csig[v] # s
      <4>1. csig[v] \in SigsOf(d)
        BY <2>n, <2>7, <3>1, <3>3
      <4>2. d \in Windows /\ d # None /\ csig[v] \in d.sigs
        BY <2>2, <4>1 DEF SigsOf
      <4>3. d.wid = csig[v]
        BY <1>4, <2>7, <3>1, <4>2
      <4>4. n.wid = d.wid
        BY <2>n, <4>2, <2>7, <3>1, <3>3 DEF WidOf
      <4>5. QED
        BY <3>1, <4>3, <4>4
    <3>4. QED
      BY <3>2, <3>3
  <2>8. \A h, k \in Windows' : \A x \in Signals :
           x \in h.sigs /\ x \in k.sigs => h.wid = k.wid \/ x \in recounted'
    BY <1>0, <2>n, <2>4
  <2>9. \A h \in Windows' : \A x \in h.sigs : ~Uncounted(x)'
    BY <1>1, <1>2, <2>n, <2>5
  <2>10. \A h \in Windows' : \A v \in Workers :
            cpc'[v] = "init" /\ csig'[v] \in h.sigs => h.wid = csig'[v]
    BY <1>4, <2>n, <2>7
  <2>11. \A h \in Windows' : h.wid # None => h.wid \in h.sigs
    BY <2>n, <2>6
  <2>12. QED
    BY <1>3, <2>8, <2>9, <2>10, <2>11
<1>7. QED
  BY <1>0, <1>5, <1>6, StepWindows

(* No copy mixes components: keys and flushes are per component            *)
(* (debouncer.go:80-81, 253-260).                                          *)
LEMMA StepComponents ==
    IInv /\ [Next]_vars => WindowsOfComponent'
<1> SUFFICES ASSUME IInv, [Next]_vars PROVE WindowsOfComponent'
  OBVIOUS
<1> USE DEF IInv, WindowsOfComponent, TypeOK
<1>1. ASSUME UNCHANGED <<data, fsnap, rows>>,
             \A f \in Flushers : fcomp'[f] = fcomp[f] \/ fsnap[f] = None
      PROVE  WindowsOfComponent'
  BY <1>1
<1>2. ASSUME NEW f \in Flushers, EndFlush(f), UNCHANGED rows,
             \A c \in Components : data'[c] \in {None, data[c]}
      PROVE  WindowsOfComponent'
  BY <1>2 DEF EndFlush, FlushTypes
<1>3. ASSUME NEW w \in Workers, Writes(w), UNCHANGED fcomp PROVE WindowsOfComponent'
  <2>1. csig[w] \in Signals /\ Comp(w) \in Components /\ Comp(w) = ComponentOf[csig[w]]
    BY <1>3, SignalsHaveComponents DEF Writes, CallsInOrder, Comp
  <2>2. \A x \in SigsOf(data[Comp(w)]) : ComponentOf[x] = Comp(w)
    BY <2>1 DEF SigsOf
  <2>3. data'[Comp(w)].sigs \subseteq SigsOf(data[Comp(w)]) \cup {csig[w]}
    BY <1>3, <2>1 DEF Writes, HashInit, HashIncr, HashTouch, RedisTypes
  <2>4. \A c \in Components : c # Comp(w) => data'[c] = data[c]
    BY <1>3, <2>1 DEF Writes, HashInit, HashIncr, HashTouch, RedisTypes
  <2>5. UNCHANGED <<rows, fsnap>>
    BY <1>3 DEF Writes
  <2>6. QED
    BY <1>3, <2>1, <2>2, <2>3, <2>4, <2>5
<1>4. ASSUME NEW w \in Workers, InitHash(w) \/ InitHashResent(w) \/ Incr(w) \/ Touch(w)
      PROVE  WindowsOfComponent'
  <2>1. Writes(w) /\ UNCHANGED fcomp
    BY <1>4
       DEF InitHash, InitHashResent, Incr, Touch, At, Writes, storeVars, callVars, flushVars
  <2>2. QED
    BY <1>3, <2>1
<1>5. ASSUME NEW w \in Workers, RedisError(w) \/ PipelineResent(w) PROVE WindowsOfComponent'
  <2>1. UNCHANGED data \/ Writes(w)
    BY <1>5 DEF RedisError, PipelineResent, At, Writes, storeVars, flushVars
  <2>2. UNCHANGED <<fcomp, fsnap, rows>>
    BY <1>5 DEF RedisError, PipelineResent, storeVars, flushVars
  <2>3. QED
    BY <1>1, <1>3, <2>1, <2>2
<1>6. ASSUME NEW f \in Flushers, FlushRead(f) PROVE WindowsOfComponent'
  <2>1. CASE /\ data[fcomp[f]] # None
             /\ fsnap' = [fsnap EXCEPT ![f] = data[fcomp[f]]]
             /\ UNCHANGED fcomp
    <3>1. fcomp[f] \in Components
      BY <1>6 DEF FlushRead, FlushAt, FlushesInOrder
    <3>2. UNCHANGED <<data, rows>>
      BY <1>6 DEF FlushRead, redisVars, storeVars
    <3>3. fsnap'[f] = data[fcomp[f]] /\ \A g \in Flushers : g # f => fsnap'[g] = fsnap[g]
      BY <2>1 DEF FlushTypes
    <3>4. QED
      BY <2>1, <3>1, <3>2, <3>3
  <2>2. CASE EndFlush(f)
    BY <1>2, <1>6, <2>2 DEF FlushRead, redisVars, storeVars
  <2>3. QED
    BY <1>6, <2>1, <2>2 DEF FlushRead
<1>7. ASSUME NEW f \in Flushers, FlushInsert(f) PROVE WindowsOfComponent'
  <2>1. fsnap[f] \in Hash /\ fsnap[f] # None
    BY <1>7, NoneIsNoValue DEF FlushInsert, FlushAt, FlushesInOrder
  <2>2. \A r \in rows' : r \in rows \/ r = RowOf(fsnap[f], fcomp[f])
    BY <1>7 DEF FlushInsert
  <2>3. \A x \in RowOf(fsnap[f], fcomp[f]).sigs :
           RowOf(fsnap[f], fcomp[f]).comp \in {None, ComponentOf[x]}
    BY <2>1 DEF RowOf
  <2>4. UNCHANGED data
    BY <1>7 DEF FlushInsert, redisVars
  <2>5. \A g \in Flushers :
          fsnap'[g] = None \/ (fsnap'[g] = fsnap[g] /\ fcomp'[g] = fcomp[g])
    BY <1>7 DEF FlushInsert, FlushNext, EndFlush, FlushTypes
  <2>6. \A r \in rows' : \A x \in r.sigs : r.comp \in {None, ComponentOf[x]}
    <3> TAKE r \in rows'
    <3>1. CASE r \in rows
      BY <3>1
    <3>2. CASE r = RowOf(fsnap[f], fcomp[f])
      BY <2>3, <3>2
    <3>3. QED
      BY <2>2, <3>1, <3>2
  <2>7. QED
    BY <2>4, <2>5, <2>6
<1>8. ASSUME NEW f \in Flushers, FlushHot(f) PROVE WindowsOfComponent'
  BY <1>1, <1>8 DEF FlushHot, FlushNext, storeVars
<1>9. ASSUME NEW f \in Flushers, FlushDel(f) \/ FlushDelResent(f) PROVE WindowsOfComponent'
  <2>1. CASE FlushDel(f)
    BY <1>2, <2>1 DEF FlushDel, storeVars, RedisTypes
  <2>2. CASE FlushDelResent(f)
    BY <2>2 DEF FlushDelResent, storeVars, flushVars, RedisTypes
  <2>3. QED
    BY <1>9, <2>1, <2>2
<1>10. ASSUME NEW f \in Flushers, NEW c \in Components, StartFlush(f, c),
              fpc[f] = "idle", UNCHANGED <<data, rows>>
       PROVE  WindowsOfComponent'
  BY <1>1, <1>10 DEF StartFlush, FlushTypes, FlushesInOrder
<1>11. ASSUME NEW c \in Components, CheckLock(c) PROVE WindowsOfComponent'
  BY <1>1, <1>10, <1>11 DEF CheckLock, Flushers, redisVars, storeVars
<1>12. CASE Hear
  <2>1. Head(expired) \in Components
    BY <1>12 DEF Hear, RedisTypes
  <2>2. QED
    BY <1>10, <1>12, <2>1 DEF Hear, Flushers, storeVars
<1>13. CASE Crash
  BY <1>13 DEF Crash, storeVars
<1>14. CASE RedisRestart
  BY <1>14 DEF RedisRestart, storeVars, flushVars
<1>15. QED
  BY <1>1, <1>4, <1>5, <1>6, <1>7, <1>8, <1>9, <1>11, <1>12, <1>13, <1>14
     DEF Next, CallStep, FlushStep, ServerStep, Call, SetNX, SetNXResent, Slide, ReadId,
         Audit, MongoError, InsertSignalAudit, Age, Scan, Restart, vars, redisVars, storeVars,
         flushVars

-----------------------------------------------------------------------------
(* The audit trail.                                                        *)

(* A call that opened a window either audits its signal under it or fails. *)
LEMMA StepOpened ==
    IInv /\ [Next]_vars => \A s \in Signals : Opened(s) => Opened(s)'
<1> SUFFICES ASSUME IInv, [Next]_vars, NEW s \in Signals, Opened(s)
             PROVE  Opened(s)'
  OBVIOUS
<1> USE DEF IInv, TypeOK, CallTypes, Opened
<1>1. ASSUME NEW w \in Workers, NEW t \in Signals, Call(w, t) PROVE Opened(s)'
  BY <1>1 DEF Call, At, storeVars
<1>2. ASSUME NEW w \in Workers, Return(w, "failed"), audits \subseteq audits'
      PROVE  Opened(s)'
  BY <1>2 DEF Return
<1>3. ASSUME NEW w \in Workers, NEW l, Goto(w, l), UNCHANGED audits,
             cpc[w] \notin {"init", "audit"}, cwid' = [cwid EXCEPT ![w] = cwid'[w]]
      PROVE  Opened(s)'
  BY <1>3 DEF Goto
<1>4. ASSUME NEW w \in Workers, SetNX(w) \/ SetNXResent(w) \/ Slide(w) \/ Incr(w) \/ Touch(w)
      PROVE  Opened(s)'
  BY <1>3, <1>4 DEF SetNX, SetNXResent, Slide, Incr, Touch, At, storeVars
<1>11. ASSUME NEW w \in Workers, NEW l, cpc' = [cpc EXCEPT ![w] = l],
              UNCHANGED <<csig, cwid, fate, audits>>, l = "audit" \/ cpc[w] \notin {"init", "audit"}
       PROVE  Opened(s)'
  BY <1>11
<1>12. ASSUME NEW w \in Workers, InitHash(w) PROVE Opened(s)'
  <2>1. cpc' = [cpc EXCEPT ![w] = "audit"] /\ UNCHANGED <<csig, cwid, fate, audits>>
    BY <1>12 DEF InitHash, Goto, storeVars
  <2>2. QED
    BY <1>11, <2>1
<1>13. ASSUME NEW w \in Workers, PipelineResent(w) PROVE Opened(s)'
  <2>1. /\ cpc' = [cpc EXCEPT ![w] = "incr"] /\ cpc[w] = "touch"
        /\ UNCHANGED <<csig, cwid, fate, audits>>
    BY <1>13 DEF PipelineResent, At, storeVars
  <2>2. QED
    BY <1>11, <2>1
<1>5. ASSUME NEW w \in Workers, ReadId(w) PROVE Opened(s)'
  BY <1>2, <1>3, <1>5 DEF ReadId, At, storeVars
<1>6. ASSUME NEW w \in Workers, Audit(w) PROVE Opened(s)'
  <2>1. csig[w] \in Signals /\ fate[csig[w]] = "busy"
    BY <1>6 DEF Audit, InsertSignalAudit, At, CallsInOrder
  <2>2. CASE fate[s] = "failed"
    BY <1>6, <2>1, <2>2 DEF Audit, InsertSignalAudit, Return
  <2>3. CASE [sig |-> s, wid |-> s] \in audits
    BY <1>6, <2>3 DEF Audit, InsertSignalAudit
  <2>4. CASE \E v \in Workers : csig[v] = s /\ cwid[v] = s /\ cpc[v] = "audit"
    BY <1>6, <2>4 DEF Audit, InsertSignalAudit, Return
  <2>5. CASE \E v \in Workers : csig[v] = s /\ cwid[v] = s /\ cpc[v] = "init"
    <3>1. PICK v \in Workers : csig[v] = s /\ cwid[v] = s /\ cpc[v] = "init"
      BY <2>5
    <3>2. v # w
      BY <1>6, <3>1 DEF Audit, At
    <3>3. QED
      BY <1>6, <3>1, <3>2 DEF Audit, Return
  <2>6. QED
    BY <2>2, <2>3, <2>4, <2>5
<1>7. ASSUME NEW w \in Workers, RedisError(w) \/ MongoError(w) PROVE Opened(s)'
  BY <1>2, <1>7 DEF RedisError, MongoError, InsertSignalAudit, storeVars
<1>8. CASE Crash
  BY <1>8 DEF Crash, CallsInOrder, storeVars
<1>9. CASE UNCHANGED <<callVars, audits>>
  BY <1>9 DEF callVars
<1>10. QED
  BY <1>1, <1>4, <1>5, <1>6, <1>7, <1>8, <1>9, <1>12, <1>13
     DEF Next, CallStep, FlushStep, ServerStep, InitHashResent, FlushRead, FlushInsert,
         FlushHot, FlushDel, FlushDelResent, Age, CheckLock, Hear, Scan, Restart,
         RedisRestart, vars, storeVars

(* Work items are named by calls that opened them, audits are left once,   *)
(* by calls that are over (debouncer.go:95, 126-147).                      *)
LEMMA StepAudits ==
    IInv /\ [Next]_vars => AuditsInOrder'
<1> SUFFICES ASSUME IInv, [Next]_vars PROVE AuditsInOrder'
  OBVIOUS
<1> USE DEF IInv
<1> DEFINE FromWindows == \A h \in Windows : h.wid # None => Opened(h.wid)
           FromCalls == \A w \in Workers : cpc[w] = "audit" =>
                Opened(cwid[w]) /\ ComponentOf[cwid[w]] = ComponentOf[csig[w]]
           FromAudits == \A a \in audits :
                /\ Opened(a.wid)
                /\ ComponentOf[a.wid] = ComponentOf[a.sig]
                /\ fate[a.sig] \in {"ok", "failed"}
           Once == \A a, b \in audits : a.sig = b.sig => a = b
           Complete == \A s \in Signals : fate[s] = "ok" => \E a \in audits : a.sig = s
<1>0. FromWindows /\ FromCalls /\ FromAudits /\ Once /\ Complete
  BY DEF AuditsInOrder
<1>1. \A s \in Signals : Opened(s) => Opened(s)'
  BY StepOpened
<1>2. \A h \in Windows : h \in Hash /\ h.wid \in Signals \cup {None}
  BY DEF Windows, Hash
<1>3. FromWindows'
  <2>1. CASE Windows' \subseteq Windows
    BY <1>0, <1>1, <1>2, <2>1
  <2>2. ASSUME NEW w \in Workers, Writes(w) PROVE FromWindows'
    <3>0. csig[w] \in Signals /\ Comp(w) \in Components
      BY <2>2, SignalsHaveComponents DEF Writes, CallsInOrder, Comp
    <3>s. PICK s \in Signals : s = csig[w]
      BY <3>0
    <3>1. PICK n \in Hash :
              /\ \A h \in Windows' : h \in Windows \/ h = n
              /\ \/ n.wid = s /\ Opened(s)'
                 \/ n.wid = WidOf(data[Comp(w)])
      BY <2>2, <3>s, WritesCopy
    <3>2. data[Comp(w)] = None \/ data[Comp(w)] \in Windows
      BY <3>0 DEF Windows, TypeOK, RedisTypes
    <3>3. n.wid # None => Opened(n.wid)'
      BY <1>0, <1>1, <1>2, <3>1, <3>2 DEF WidOf
    <3>4. QED
      BY <1>0, <1>1, <1>2, <3>1, <3>3
  <2>3. QED
    BY <2>1, <2>2, StepWindows
<1>4. FromCalls'
  <2> USE DEF TypeOK, CallTypes
  <2>1. ASSUME NEW w \in Workers, cpc'[w] = "audit",
               cpc[w] = "audit" => cwid'[w] = cwid[w] /\ csig'[w] = csig[w],
               cpc[w] # "audit" => InitHash(w) \/ ReadId(w)
        PROVE  Opened(cwid[w])' /\ ComponentOf[cwid'[w]] = ComponentOf[csig'[w]]
    <3>1. CASE cpc[w] = "audit"
      <4>1. cwid[w] \in Signals /\ Opened(cwid[w]) /\ ComponentOf[cwid[w]] = ComponentOf[csig[w]]
        BY <1>0, <3>1 DEF CallsInOrder
      <4>2. PICK s \in Signals : s = cwid[w] /\ s = cwid'[w] /\ csig'[w] = csig[w]
        BY <2>1, <3>1, <4>1
      <4>3. Opened(s)'
        BY <1>1, <4>1, <4>2
      <4>4. QED
        BY <4>1, <4>2, <4>3
    <3>2. CASE InitHash(w)
      <4>1. cwid'[w] = csig'[w] /\ csig'[w] \in Signals /\ cpc'[w] = "audit"
        BY <3>2 DEF InitHash, At, Goto, CallsInOrder
      <4>2. QED
        BY <4>1 DEF Opened
    <3>3. CASE ReadId(w)
      <4> DEFINE d == data[Comp(w)]
      <4>1. csig[w] \in Signals /\ Comp(w) \in Components /\ Comp(w) = ComponentOf[csig[w]]
        BY <3>3, SignalsHaveComponents DEF ReadId, At, CallsInOrder, Comp
      <4>2. WidOf(d) # None /\ cwid'[w] = WidOf(d) /\ csig'[w] = csig[w]
        BY <2>1, <3>3 DEF ReadId, Return, Goto
      <4>3. d \in Windows /\ d # None /\ d.wid = WidOf(d)
        BY <4>1, <4>2 DEF WidOf, Windows, RedisTypes
      <4>4. d.wid \in d.sigs
        BY <4>2, <4>3 DEF WindowsDisjoint
      <4>5. ComponentOf[d.wid] = Comp(w)
        BY <4>1, <4>3, <4>4 DEF WindowsOfComponent
      <4>6. PICK s \in Signals : s = d.wid
        BY <1>2, <4>2, <4>3
      <4>7. Opened(s)'
        BY <1>0, <1>1, <4>2, <4>3, <4>6
      <4>8. QED
        BY <4>1, <4>2, <4>3, <4>5, <4>6, <4>7
    <3>4. QED
      BY <2>1, <3>1, <3>2, <3>3
  <2>2. \A w \in Workers : cpc'[w] = "audit" =>
           /\ cpc[w] = "audit" => cwid'[w] = cwid[w] /\ csig'[w] = csig[w]
           /\ cpc[w] # "audit" => InitHash(w) \/ ReadId(w)
    <3>1. ASSUME NEW v \in Workers, CallStep(v) \/ \E s \in Signals : Call(v, s),
                 NEW w \in Workers, cpc'[w] = "audit"
          PROVE  /\ cpc[w] = "audit" => cwid'[w] = cwid[w] /\ csig'[w] = csig[w]
                 /\ cpc[w] # "audit" => InitHash(w) \/ ReadId(w)
      <4>1. cpc'[v] # "audit" \/ InitHash(v) \/ ReadId(v)
        BY <3>1 DEF CallStep, Call, SetNX, SetNXResent, InitHashResent, Slide, Incr, Touch,
                    PipelineResent, Audit, RedisError, MongoError, InsertSignalAudit, Return,
                    Goto, At, callVars
      <4>2. /\ cpc' = [cpc EXCEPT ![v] = cpc'[v]]
            /\ cwid' = [cwid EXCEPT ![v] = cwid'[v]]
            /\ csig' = [csig EXCEPT ![v] = csig'[v]]
        BY <3>1 DEF CallStep, Call, SetNX, SetNXResent, InitHash, InitHashResent,
                    PipelineResent, Slide, Incr, Touch, ReadId, Audit, RedisError, MongoError,
                    InsertSignalAudit, Return, Goto, callVars
      <4>3. InitHash(v) \/ ReadId(v) => cpc[v] # "audit"
        BY DEF InitHash, ReadId, At
      <4>4. QED
        BY <3>1, <4>1, <4>2, <4>3
    <3>2. CASE Crash
      BY <3>2 DEF Crash
    <3>3. CASE UNCHANGED callVars
      BY <3>3 DEF callVars
    <3>4. QED
      BY <3>1, <3>2, <3>3
         DEF Next, FlushStep, ServerStep, FlushRead, FlushInsert,
             FlushHot, FlushDel, FlushDelResent, Age, CheckLock, Hear, Scan, Restart,
             RedisRestart, vars
  <2>3. QED
    BY <2>1, <2>2
<1>5. FromAudits' /\ Once' /\ Complete'
  <2> USE DEF TypeOK, CallTypes, StoreTypes
  <2>1. CASE /\ UNCHANGED audits
             /\ \A s \in Signals :
                  /\ fate'[s] = "ok" => fate[s] = "ok"
                  /\ fate[s] \in {"ok", "failed"} => fate'[s] = fate[s]
    <3>1. \A a \in audits : a.sig \in Signals /\ a.wid \in Signals
      OBVIOUS
    <3>2. QED
      BY <1>0, <1>1, <2>1, <3>1
  <2>2. ASSUME NEW w \in Workers, cpc[w] = "audit",
               audits' = audits \cup {[sig |-> csig[w], wid |-> cwid[w]]},
               Return(w, "ok") \/ Return(w, "failed")
        PROVE  FromAudits' /\ Once' /\ Complete'
    <3>1. PICK s \in Signals : s = csig[w] /\ fate[s] = "busy"
      BY <2>2 DEF CallsInOrder
    <3>2. PICK t \in Signals : t = cwid[w] /\ Opened(t) /\ ComponentOf[t] = ComponentOf[s]
      BY <1>0, <2>2, <3>1 DEF CallsInOrder
    <3>3. \A a \in audits : a.sig \in Signals /\ a.wid \in Signals /\ a.sig # s
      BY <1>0, <3>1
    <3>4. audits' = audits \cup {[sig |-> s, wid |-> t]}
      BY <2>2, <3>1, <3>2
    <3>5. /\ fate'[s] \in {"ok", "failed"}
          /\ \A x \in Signals : x # s => fate'[x] = fate[x]
      BY <2>2, <3>1 DEF Return
    <3>6. Opened(t)'
      BY <1>1, <3>2
    <3>7. FromAudits'
      BY <1>0, <1>1, <3>2, <3>3, <3>4, <3>5, <3>6
    <3>8. Once'
      BY <1>0, <3>3, <3>4
    <3>9. Complete'
      <4> SUFFICES ASSUME NEW x \in Signals, fate'[x] = "ok"
                   PROVE  \E a \in audits' : a.sig = x
        OBVIOUS
      <4>1. CASE x = s
        <5>1. [sig |-> s, wid |-> t] \in audits'
          BY <3>4
        <5>2. QED
          BY <4>1, <5>1
      <4>2. CASE x # s
        <5>1. PICK a \in audits : a.sig = x
          BY <1>0, <3>5, <4>2
        <5>2. QED
          BY <3>4, <5>1
      <4>3. QED
        BY <4>1, <4>2
    <3>10. QED
      BY <3>7, <3>8, <3>9
  <2>3. ASSUME NEW w \in Workers, Return(w, "failed"), UNCHANGED audits, cpc[w] # "idle"
        PROVE  FromAudits' /\ Once' /\ Complete'
    BY <2>1, <2>3 DEF Return, CallsInOrder
  <2>4. ASSUME NEW w \in Workers, CallStep(w) PROVE FromAudits' /\ Once' /\ Complete'
    <3>1. CASE \/ SetNX(w) \/ SetNXResent(w) \/ InitHash(w) \/ InitHashResent(w)
               \/ Slide(w) \/ Incr(w) \/ Touch(w) \/ PipelineResent(w)
      BY <2>1, <3>1 DEF SetNX, SetNXResent, InitHash, InitHashResent, Slide, Incr, Touch,
                        PipelineResent, Goto, storeVars, callVars
    <3>2. CASE ReadId(w)
      <4>1. CASE Return(w, "failed")
        BY <2>3, <3>2, <4>1 DEF ReadId, At, storeVars
      <4>2. CASE Goto(w, "audit")
        BY <2>1, <3>2, <4>2 DEF ReadId, Goto, storeVars
      <4>3. QED
        BY <3>2, <4>1, <4>2 DEF ReadId
    <3>3. CASE Audit(w) \/ RedisError(w) \/ MongoError(w)
      BY <2>2, <2>3, <3>3 DEF Audit, RedisError, MongoError, InsertSignalAudit, At, storeVars
    <3>4. QED
      BY <2>4, <3>1, <3>2, <3>3 DEF CallStep
  <2>5. CASE Crash
    BY <2>1, <2>5 DEF Crash, storeVars
  <2>6. ASSUME NEW w \in Workers, NEW s \in Signals, Call(w, s)
        PROVE  FromAudits' /\ Once' /\ Complete'
    BY <2>1, <2>6 DEF Call, storeVars
  <2>7. CASE UNCHANGED <<fate, audits>>
    BY <2>1, <2>7
  <2>8. QED
    BY <2>4, <2>5, <2>6, <2>7
       DEF Next, FlushStep, ServerStep, FlushRead, FlushInsert,
           FlushHot, FlushDel, FlushDelResent, Age, CheckLock, Hear, Scan, Restart,
           RedisRestart, vars, callVars, storeVars
<1>6. QED
  BY <1>3, <1>4, <1>5 DEF AuditsInOrder

(* The live feed is written after the insert only (debouncer.go:262-269).  *)
LEMMA StepLive ==
    IInv /\ [Next]_vars => LiveIsPersisted'
<1> SUFFICES ASSUME IInv, [Next]_vars PROVE LiveIsPersisted'
  OBVIOUS
<1> USE DEF IInv, LiveIsPersisted
<1>1. rows \subseteq rows'
  BY DEF Next, CallStep, FlushStep, ServerStep, Call, SetNX, SetNXResent, InitHash,
         InitHashResent, PipelineResent, Slide, Incr, Touch, ReadId, Audit, RedisError,
         MongoError, InsertSignalAudit, FlushRead, FlushInsert, FlushHot, FlushDel,
         FlushDelResent, Age, CheckLock, Hear, Scan, Crash, Restart, RedisRestart, vars,
         storeVars
<1>2. Ids \subseteq Ids'
  BY <1>1 DEF Ids
<1>3. ASSUME NEW f \in Flushers, FlushHot(f) PROVE LiveIsPersisted'
  BY <1>2, <1>3 DEF FlushHot, FlushAt, FlushesInOrder
<1>4. CASE live' \subseteq live
  BY <1>2, <1>4
<1>5. QED
  BY <1>3, <1>4
     DEF Next, CallStep, FlushStep, ServerStep, Call, SetNX, SetNXResent, InitHash,
         InitHashResent, PipelineResent, Slide, Incr, Touch, ReadId, Audit, RedisError,
         MongoError, InsertSignalAudit, FlushRead, FlushInsert, FlushDel, FlushDelResent, Age,
         CheckLock, Hear, Scan, Crash, Restart, RedisRestart, vars, redisVars

-----------------------------------------------------------------------------
(* The theorems.                                                           *)

(* The initial state satisfies every part. *)
LEMMA InitIInv == Init => IInv
<1> SUFFICES ASSUME Init PROVE IInv
  OBVIOUS
<1>1. TypeOK
  BY InitTypes
<1>2. CallsInOrder /\ FlushesInOrder
  BY DEF Init, CallsInOrder, FlushesInOrder
<1>3. Windows = {}
  BY NoneIsNoValue DEF Init, Windows
<1>4. WindowsDisjoint /\ WindowsOfComponent /\ AuditsInOrder /\ LiveIsPersisted
  BY <1>3 DEF Init, WindowsDisjoint, WindowsOfComponent, AuditsInOrder, LiveIsPersisted
<1>5. QED
  BY <1>1, <1>2, <1>4 DEF IInv

(* Every step keeps all of them. *)
LEMMA StepIInv == IInv /\ [Next]_vars => IInv'
<1> SUFFICES ASSUME IInv, [Next]_vars PROVE IInv'
  OBVIOUS
<1>1. TypeOK'
  BY StepRedisTypes, StepStoreTypes, StepCalls, StepFlushes, StepEnvTypes DEF IInv, TypeOK
<1>2. CallsInOrder' /\ FlushesInOrder'
  BY StepCalls, StepFlushes DEF IInv
<1>3. QED
  BY <1>1, <1>2, StepDisjoint, StepComponents, StepAudits, StepLive DEF IInv

(* The strengthening is an invariant of the debouncer: no interleaving of  *)
(* workers, flushers, faults and restarts leaves it.                       *)
THEOREM InductiveInvariant == Spec => []IInv
  BY InitIInv, StepIInv, PTL DEF Spec

(* The state always has its types. *)
THEOREM TypeCorrect == Spec => []TypeOK
<1>1. IInv => TypeOK
  BY DEF IInv
<1>2. QED
  BY <1>1, InductiveInvariant, PTL

(* No signal is counted by two work items, whatever is lost, late or cut   *)
(* short and whatever else the client sends twice, unless the signal's own *)
(* HINCRBY was sent again after it was executed                            *)
(* (debouncer.go:93-123, 237-284; client.go:20).                           *)
THEOREM NeverCountedTwice == Spec => []CountedOnce
<1>1. IInv => CountedOnce
  <2> SUFFICES ASSUME IInv, NEW r1 \in rows, NEW r2 \in rows, r1 # r2
               PROVE  r1.id # r2.id /\ r1.sigs \cap r2.sigs \subseteq recounted
    BY DEF CountedOnce
  <2>1. r1.id # r2.id
    BY DEF IInv, WindowsDisjoint
  <2>2. PICK h \in Windows : h.wid = r1.id /\ h.sigs = r1.sigs /\ h.sigs \subseteq Signals
    BY RowIsCopy DEF IInv
  <2>3. PICK k \in Windows : k.wid = r2.id /\ k.sigs = r2.sigs
    BY RowIsCopy DEF IInv
  <2>4. QED
    BY <2>1, <2>2, <2>3 DEF IInv, WindowsDisjoint
<1>2. QED
  BY <1>1, InductiveInvariant, PTL

(* Every work item counts its opener and signals of its component only     *)
(* (debouncer.go:99-105, 253-260).                                         *)
THEOREM RowsAreTraceable == Spec => []RowsTraceable
<1>1. IInv => RowsTraceable
  <2> SUFFICES ASSUME IInv, NEW r \in rows
               PROVE  /\ r.id # None => r.id \in r.sigs
                      /\ \A s \in r.sigs : r.comp \in {None, ComponentOf[s]}
    BY DEF RowsTraceable
  <2>1. \E h \in Windows : h.wid = r.id /\ h.sigs = r.sigs
    BY RowIsCopy DEF IInv
  <2>2. QED
    BY <2>1 DEF IInv, WindowsDisjoint, WindowsOfComponent
<1>2. QED
  BY <1>1, InductiveInvariant, PTL

(* The audit trail is complete, without duplicates, and rooted in the      *)
(* opener of each work item (debouncer.go:126-144).                        *)
THEOREM AuditTrailHolds == Spec => []AuditTrail
<1>1. IInv => AuditTrail
  <2> SUFFICES ASSUME IInv PROVE AuditTrail
    OBVIOUS
  <2>1. \A a \in audits : fate[a.wid] = "ok" => [sig |-> a.wid, wid |-> a.wid] \in audits
    BY DEF IInv, AuditsInOrder, Opened, CallsInOrder
  <2>2. QED
    BY <2>1 DEF IInv, AuditsInOrder, AuditTrail
<1>2. QED
  BY <1>1, InductiveInvariant, PTL

(* A work item whose opener's call succeeded has a forensic record         *)
(* (debouncer.go:95-144, mongo.go:51).                                     *)
THEOREM ForensicsExist == Spec => []RowsHaveForensics
<1>1. IInv => RowsHaveForensics
  <2> SUFFICES ASSUME IInv, NEW r \in rows, r.id # None, fate[r.id] = "ok"
               PROVE  r.id \in SignalsByWorkItem(r.id)
    BY DEF RowsHaveForensics
  <2>1. \E h \in Windows : h.wid = r.id /\ h.sigs = r.sigs
    BY RowIsCopy DEF IInv
  <2>2. Opened(r.id)
    BY <2>1 DEF IInv, AuditsInOrder
  <2>3. [sig |-> r.id, wid |-> r.id] \in audits
    BY <2>2 DEF Opened, IInv, CallsInOrder
  <2>4. r.id \in Signals
    BY <2>3 DEF IInv, TypeOK, StoreTypes
  <2>5. QED
    BY <2>3, <2>4 DEF SignalsByWorkItem
<1>2. QED
  BY <1>1, InductiveInvariant, PTL

(* The live feed holds persisted work items only (debouncer.go:262-277).   *)
THEOREM LiveFeedIsPersisted == Spec => []LiveIsPersisted
<1>1. IInv => LiveIsPersisted
  BY DEF IInv
<1>2. QED
  BY <1>1, InductiveInvariant, PTL

-----------------------------------------------------------------------------
(* Debouncer implements SignalLedger: with the inductive invariant, every  *)
(* step of the debouncer is a step of the ledger or leaves it unchanged.   *)

(* An opened work item's opener has begun, and has its audit if it ended well. *)
LEMMA OpenedHasBegun ==
    ASSUME IInv, NEW t \in Signals, Opened(t)
    PROVE  /\ fate[t] # "new"
           /\ fate[t] = "ok" => [sig |-> t, wid |-> t] \in audits
           /\ fate[t] = "busy" =>
                \E v \in Workers : csig[v] = t /\ cwid[v] = t /\ cpc[v] \in {"init", "audit"}
<1>1. [sig |-> t, wid |-> t] \in audits => fate[t] \in {"ok", "failed"}
  BY DEF IInv, AuditsInOrder
<1>2. \A v \in Workers : csig[v] = t /\ cpc[v] \in {"init", "audit"} => fate[t] = "busy"
  BY DEF IInv, CallsInOrder
<1>3. QED
  BY <1>1, <1>2 DEF Opened

(* The audit a call leaves is one the ledger allows (debouncer.go:132-144). *)
LEMMA AuditAllowed ==
    ASSUME IInv, NEW w \in Workers, cpc[w] = "audit",
           NEW s \in Signals, s = csig[w], NEW t \in Signals, t = cwid[w]
    PROVE  fate[s] = "busy" /\ Ledger!MayAudit(s, t)
<1>1. fate[s] = "busy"
  BY DEF IInv, CallsInOrder
<1>2. \A a \in audits : a.sig # s
  BY <1>1 DEF IInv, AuditsInOrder
<1>3. Opened(t) /\ ComponentOf[t] = ComponentOf[s]
  BY DEF IInv, AuditsInOrder
<1>4. Ledger!Referenced(s) => t = s
  <2>1. SUFFICES ASSUME Ledger!Referenced(s) PROVE t = s
    OBVIOUS
  <2>2. Opened(s)
    <3>1. CASE \E a \in audits : a.wid = s
      BY <3>1 DEF IInv, AuditsInOrder
    <3>2. CASE \E r \in rows : r.id = s
      <4>1. PICK r \in rows : r.id = s
        BY <3>2
      <4>2. PICK h \in Windows : h.wid = s
        BY <4>1, RowIsCopy DEF IInv
      <4>3. s # None
        BY NoneIsNoValue
      <4>4. QED
        BY <4>2, <4>3 DEF IInv, AuditsInOrder
    <3>3. QED
      BY <2>1, <3>1, <3>2 DEF Ledger!Referenced, Ledger!Ids
  <2>3. PICK v \in Workers : csig[v] = s /\ cwid[v] = s
    BY <1>1, <2>2, OpenedHasBegun
  <2>4. v = w
    BY <2>3, NoneIsNoValue DEF IInv, CallsInOrder
  <2>5. QED
    BY <2>3, <2>4
<1>5. QED
  BY <1>1, <1>2, <1>3, <1>4, OpenedHasBegun DEF Ledger!MayAudit

(* A call that fails is a failure of the ledger (debouncer.go:87-128). *)
LEMMA FailureAllowed ==
    ASSUME IInv, NEW w \in Workers, cpc[w] # "idle", Return(w, "failed"),
           UNCHANGED <<audits, rows, live>>
    PROVE  Ledger!Next
<1>1. PICK s \in Signals : s = csig[w] /\ fate[s] = "busy"
  BY DEF IInv, CallsInOrder
<1>2. Ledger!Fail(s)
  BY <1>1 DEF Return, Ledger!Fail
<1>3. QED
  BY <1>2 DEF Ledger!Next

(* A flush that inserts is a row the ledger allows (debouncer.go:242-262). *)
LEMMA RowAllowed ==
    ASSUME IInv, NEW f \in Flushers, fpc[f] = "insert", fsnap[f].wid \notin Ids,
           rows' = rows \cup {RowOf(fsnap[f], fcomp[f])},
           UNCHANGED <<fate, audits, live, recounted>>
    PROVE  Ledger!Next
<1> DEFINE h == fsnap[f]
           comp == IF h.wid = None THEN None ELSE fcomp[f]
<1>1. h \in Hash /\ h # None /\ fcomp[f] \in Components
  BY NoneIsNoValue DEF IInv, FlushesInOrder
<1>2. h.wid \in Signals \cup {None} /\ h.sigs \in SUBSET Signals /\ comp \in Components \cup {None}
  BY <1>1 DEF Hash
<1>3. h \in Windows
  BY <1>1 DEF Windows
<1>4. \A r \in rows : r.sigs \cap h.sigs \subseteq recounted
  <2> SUFFICES ASSUME NEW r \in rows, NEW s \in r.sigs, s \in h.sigs PROVE s \in recounted
    OBVIOUS
  <2>1. PICK k \in Windows : k.wid = r.id /\ k.sigs = r.sigs
    BY RowIsCopy DEF IInv
  <2>2. r.id # h.wid
    BY DEF Ids
  <2>3. QED
    BY <1>2, <1>3, <2>1, <2>2 DEF IInv, WindowsDisjoint
<1>5. \A s \in h.sigs : fate[s] # "new" /\ comp \in {None, ComponentOf[s]}
  <2>1. \A s \in h.sigs : ~Uncounted(s)
    BY <1>3 DEF IInv, WindowsDisjoint
  <2>2. \A s \in h.sigs : ComponentOf[s] = fcomp[f]
    BY <1>1 DEF IInv, WindowsOfComponent
  <2>3. QED
    BY <2>1, <2>2 DEF Uncounted
<1>6. h.wid # None => h.wid \in h.sigs
  BY <1>3 DEF IInv, WindowsDisjoint
<1>7. h.wid # None /\ fate[h.wid] = "ok" => [sig |-> h.wid, wid |-> h.wid] \in audits
  BY <1>2, <1>3, OpenedHasBegun DEF IInv, AuditsInOrder
<1>8. rows' = rows \cup {[id |-> h.wid, comp |-> comp, sigs |-> h.sigs]}
  BY DEF RowOf
<1>9. Ledger!Persist(h.wid, comp, h.sigs)
  BY <1>4, <1>5, <1>6, <1>7, <1>8 DEF Ledger!Persist, Ledger!Ids, Ids
<1>10. QED
  BY <1>2, <1>9 DEF Ledger!Next

(* Every step of the debouncer is a ledger step or a stutter. *)
LEMMA StepKeepsLedger == IInv /\ [Next]_vars => [Ledger!Next]_(Ledger!ledger)
<1> SUFFICES ASSUME IInv, [Next]_vars PROVE [Ledger!Next]_(Ledger!ledger)
  OBVIOUS
<1>1. ASSUME NEW w \in Workers, NEW s \in Signals, Call(w, s) PROVE Ledger!Next
  <2>1. Ledger!Begin(s)
    BY <1>1 DEF Call, Ledger!Begin, redisVars, storeVars
  <2>2. QED
    BY <2>1 DEF Ledger!Next
<1>2. ASSUME NEW w \in Workers, ReadId(w) PROVE Ledger!Next \/ UNCHANGED Ledger!ledger
  <2>1. UNCHANGED <<audits, rows, live>> /\ cpc[w] = "read"
    BY <1>2 DEF ReadId, At, redisVars, storeVars
  <2>2. CASE Return(w, "failed")
    BY <2>1, <2>2, FailureAllowed
  <2>3. CASE Goto(w, "audit")
    BY <2>1, <2>3 DEF Goto, Ledger!ledger
  <2>4. QED
    BY <1>2, <2>2, <2>3 DEF ReadId
<1>3. ASSUME NEW w \in Workers, Audit(w) \/ MongoError(w) PROVE Ledger!Next
  <2>1. cpc[w] = "audit" /\ UNCHANGED <<rows, live>>
    BY <1>3 DEF Audit, MongoError, InsertSignalAudit, At, redisVars
  <2>2. PICK s \in Signals, t \in Signals : s = csig[w] /\ t = cwid[w]
    BY <2>1 DEF IInv, CallsInOrder
  <2>3. fate[s] = "busy" /\ Ledger!MayAudit(s, t)
    BY <2>1, <2>2, AuditAllowed
  <2>4. CASE Audit(w)
    <3>1. Ledger!Succeed(s, t)
      BY <2>1, <2>2, <2>3, <2>4 DEF Audit, InsertSignalAudit, Return, Ledger!Succeed
    <3>2. QED
      BY <3>1 DEF Ledger!Next
  <2>5. CASE MongoError(w)
    <3>1. Ledger!Fail(s)
      BY <2>1, <2>2, <2>3, <2>5 DEF MongoError, InsertSignalAudit, Return, Ledger!Fail
    <3>2. QED
      BY <3>1 DEF Ledger!Next
  <2>6. QED
    BY <1>3, <2>4, <2>5
<1>4. ASSUME NEW w \in Workers, RedisError(w) PROVE Ledger!Next
  BY <1>4, FailureAllowed DEF RedisError, storeVars
<1>5. ASSUME NEW f \in Flushers, FlushInsert(f) PROVE Ledger!Next \/ UNCHANGED Ledger!ledger
  <2>1. UNCHANGED <<fate, audits, live, recounted>> /\ fpc[f] = "insert"
    BY <1>5 DEF FlushInsert, FlushAt, redisVars, callVars
  <2>2. CASE UNCHANGED rows
    BY <2>1, <2>2 DEF Ledger!ledger
  <2>3. CASE fsnap[f].wid \notin Ids /\ rows' = rows \cup {RowOf(fsnap[f], fcomp[f])}
    BY <2>1, <2>3, RowAllowed
  <2>4. RowOf(fsnap[f], fcomp[f]).id = fsnap[f].wid
    BY DEF RowOf
  <2>5. QED
    BY <1>5, <2>2, <2>3, <2>4 DEF FlushInsert
<1>6. ASSUME NEW f \in Flushers, FlushHot(f) PROVE Ledger!Next \/ UNCHANGED Ledger!ledger
  <2>1. UNCHANGED <<fate, audits, rows, recounted>> /\ fsnap[f].wid \in Ids
    BY <1>6 DEF FlushHot, FlushAt, storeVars, callVars, IInv, FlushesInOrder
  <2>2. CASE UNCHANGED live
    BY <2>1, <2>2 DEF Ledger!ledger
  <2>3. CASE live' = live \cup {fsnap[f].wid}
    BY <2>1, <2>3 DEF Ledger!Next, Ledger!Publish, Ledger!Ids, Ids
  <2>4. QED
    BY <1>6, <2>2, <2>3 DEF FlushHot
<1>7. CASE Crash
  <2>1. Ledger!FailAll
    BY <1>7 DEF Crash, Ledger!FailAll, storeVars
  <2>2. QED
    BY <2>1 DEF Ledger!Next
<1>8. CASE RedisRestart
  <2>1. Ledger!Forget
    BY <1>8 DEF RedisRestart, Ledger!Forget, storeVars, callVars
  <2>2. QED
    BY <2>1 DEF Ledger!Next
<1>9. CASE UNCHANGED <<fate, audits, rows, live, recounted>>
  BY <1>9 DEF Ledger!ledger
<1>10. ASSUME NEW w \in Workers, PipelineResent(w) PROVE Ledger!Next
  <2>1. PICK s \in Signals : s = csig[w] /\ fate[s] = "busy"
    BY <1>10 DEF PipelineResent, At, IInv, CallsInOrder
  <2>2. Ledger!Recount(s)
    BY <1>10, <2>1 DEF PipelineResent, Ledger!Recount, storeVars
  <2>3. QED
    BY <2>2 DEF Ledger!Next
<1>11. QED
  BY <1>1, <1>2, <1>3, <1>4, <1>5, <1>6, <1>7, <1>8, <1>9, <1>10
     DEF Next, CallStep, FlushStep, ServerStep, SetNX, SetNXResent, InitHash, InitHashResent,
         Slide, Incr, Touch, Goto, FlushRead, FlushDel, FlushDelResent, Age, CheckLock, Hear,
         Scan, Restart, vars, redisVars, storeVars, callVars

(* The debouncer implements the ledger: outcomes are final, audits and     *)
(* rows only ever added, one audit per signal, rows over disjoint signals  *)
(* unless one was sent again (debouncer.go:79-148, 237-284; client.go:20). *)
THEOREM DebouncerKeepsLedger == Spec => KeepsLedger
<1>1. Init => Ledger!Init
  BY DEF Init, Ledger!Init
<1>2. QED
  BY <1>1, StepKeepsLedger, InductiveInvariant, PTL DEF Spec, KeepsLedger, Ledger!Spec

-----------------------------------------------------------------------------
(* What can never be undone: outcomes, audits and work items, and also the *)
(* losses.                                                                 *)

(* Outcomes are final, and nothing is taken out of MongoDB or PostgreSQL.  *)
RecordsOnlyGrow ==
    [][/\ \A s \in Signals : fate[s] \in {"ok", "failed"} => fate'[s] = fate[s]
       /\ audits \subseteq audits'
       /\ rows \subseteq rows']_vars

(* Whatever the debouncer does, a call that has returned keeps its         *)
(* outcome, and no audit and no work item disappears or is rewritten, not  *)
(* by a second flush of the same window either (debouncer.go:126-148,      *)
(* 237-284).                                                               *)
THEOREM RecordsAreFinal == Spec => RecordsOnlyGrow
<1>1. TypeOK /\ [Ledger!Next]_(Ledger!ledger)
        => /\ \A s \in Signals : fate[s] \in {"ok", "failed"} => fate'[s] = fate[s]
           /\ audits \subseteq audits'
           /\ rows \subseteq rows'
  <2> SUFFICES ASSUME TypeOK, [Ledger!Next]_(Ledger!ledger)
               PROVE  /\ \A s \in Signals : fate[s] \in {"ok", "failed"} => fate'[s] = fate[s]
                      /\ audits \subseteq audits'
                      /\ rows \subseteq rows'
    OBVIOUS
  <2>1. audits \subseteq audits' /\ rows \subseteq rows'
    BY DEF Ledger!Next, Ledger!ledger, Ledger!Begin, Ledger!Recount, Ledger!Succeed, Ledger!Fail, Ledger!FailAll,
           Ledger!Persist, Ledger!Publish, Ledger!Forget
  <2>2. ASSUME NEW s \in Signals, fate[s] \in {"ok", "failed"} PROVE fate'[s] = fate[s]
    <3>1. fate \in [Signals -> {"new", "busy", "ok", "failed"}]
      BY DEF TypeOK, CallTypes
    <3>2. \/ UNCHANGED fate
          \/ \E t \in Signals, o \in {"busy", "ok", "failed"} :
                fate[t] \in {"new", "busy"} /\ fate' = [fate EXCEPT ![t] = o]
          \/ Ledger!FailAll
      BY DEF Ledger!Next, Ledger!ledger, Ledger!Begin, Ledger!Recount, Ledger!Succeed, Ledger!Fail,
             Ledger!Persist, Ledger!Publish, Ledger!Forget
    <3>3. QED
      BY <2>2, <3>1, <3>2 DEF Ledger!FailAll
  <2>3. QED
    BY <2>1, <2>2
<1>2. IInv => TypeOK
  BY DEF IInv
<1>3. QED
  BY <1>1, <1>2, StepKeepsLedger, InductiveInvariant, PTL DEF Spec, RecordsOnlyGrow

(* The opener of a window of c is about to issue its HSET. *)
Opening(c) == \E w \in Workers : cpc[w] = "init" /\ Comp(w) = c

(* A window leaves its data key after its row is there, or in one of three *)
(* ways: another opener's HSET overwrites it, a flusher that persisted an  *)
(* older window issues its DEL late, or Redis ends.                        *)
WindowsAreKept ==
    [][\A c \in Components : \A s \in Signals : WidOf(data[c]) = s /\ WidOf(data'[c]) # s =>
          \/ s \in Ids
          \/ Opening(c)
          \/ \E f \in Flushers : fpc[f] = "del" /\ fcomp[f] = c /\ fsnap[f].wid \in Ids \ {s}
          \/ RedisRestart]_vars

(* What a step does to the key of a component: nothing but what the calls, *)
(* a DEL and the end of Redis do (debouncer.go:98-123, 280).               *)
LEMMA StepData ==
    ASSUME TypeOK, CallsInOrder, [Next]_vars, NEW c \in Components
    PROVE  \/ data'[c] = data[c]
           \/ Opening(c)
           \/ data'[c] # None /\ WidOf(data'[c]) = WidOf(data[c])
           \/ data'[c] = None /\ \E f \in Flushers : fcomp[f] = c /\ fpc[f] = "del"
           \/ RedisRestart
<1> USE DEF TypeOK, RedisTypes
<1>0. /\ data \in [Components -> Hash \cup {None}]
      /\ None \notin Hash
      /\ \A w \in Workers : csig[w] \in Signals => Comp(w) \in Components
  BY NoneIsNoValue, SignalsHaveComponents DEF Comp
<1>1. ASSUME NEW w \in Workers, HashInit(w), cpc[w] = "init"
      PROVE  data'[c] = data[c] \/ Opening(c)
  BY <1>0, <1>1 DEF HashInit, Opening, CallsInOrder
<1>2. ASSUME NEW w \in Workers, HashIncr(w) \/ HashTouch(w), csig[w] \in Signals
      PROVE  data'[c] = data[c] \/ (data'[c] # None /\ WidOf(data'[c]) = WidOf(data[c]))
  <2>1. PICK sigs \in SUBSET Signals :
           data' = [data EXCEPT ![Comp(w)] = [wid |-> WidOf(data[Comp(w)]), sigs |-> sigs]]
    BY <1>0, <1>2 DEF HashIncr, HashTouch, SigsOf, Hash
  <2>2. WidOf(data[Comp(w)]) \in Signals \cup {None}
    BY <1>0, <1>2 DEF WidOf, Hash
  <2>3. [wid |-> WidOf(data[Comp(w)]), sigs |-> sigs] \in Hash
    BY <2>2 DEF Hash
  <2>4. QED
    BY <1>0, <1>2, <2>1, <2>3 DEF WidOf
<1>3. ASSUME NEW w \in Workers, CallStep(w)
      PROVE  \/ data'[c] = data[c]
             \/ Opening(c)
             \/ data'[c] # None /\ WidOf(data'[c]) = WidOf(data[c])
  <2>1. CASE UNCHANGED data
    BY <2>1
  <2>2. CASE \/ InitHash(w) \/ InitHashResent(w) \/ Incr(w) \/ Touch(w)
             \/ PipelineResent(w) \/ RedisError(w)
    <3>1. cpc[w] # "idle"
      BY <2>2 DEF InitHash, InitHashResent, Incr, Touch, PipelineResent, RedisError, At
    <3>2. csig[w] \in Signals
      BY <3>1 DEF CallsInOrder
    <3>3. UNCHANGED data \/ HashIncr(w) \/ HashTouch(w) \/ (HashInit(w) /\ cpc[w] = "init")
      BY <2>2 DEF InitHash, InitHashResent, Incr, Touch, PipelineResent, RedisError, At
    <3>4. QED
      BY <1>1, <1>2, <3>2, <3>3
  <2>3. QED
    BY <1>3, <2>1, <2>2
       DEF CallStep, SetNX, SetNXResent, Slide, ReadId, Audit, MongoError, redisVars
<1>4. ASSUME NEW f \in Flushers, FlushDel(f) \/ FlushDelResent(f)
      PROVE  data'[c] = data[c] \/ (data'[c] = None /\ fcomp[f] = c /\ fpc[f] = "del")
  BY <1>0, <1>4 DEF FlushDel, FlushDelResent, FlushAt
<1>5. CASE UNCHANGED data
  BY <1>5
<1>6. CASE RedisRestart
  BY <1>6
<1>7. QED
  BY <1>3, <1>4, <1>5, <1>6
     DEF Next, ServerStep, FlushStep, Call, FlushRead, FlushInsert, FlushHot, Age, CheckLock,
         Hear, Scan, Restart, Crash, vars, redisVars

(* The safety half of OrphansAreFlushed, and what is left of the claim     *)
(* that NoWindowDropped refutes: nothing but these three loses a window    *)
(* (debouncer.go:38-39, 98-110, 237-284).                                  *)
THEOREM WindowsAreLostInThreeWays == Spec => WindowsAreKept
<1>1. IInv /\ [Next]_vars
        => [\A c \in Components : \A s \in Signals : WidOf(data[c]) = s /\ WidOf(data'[c]) # s =>
              \/ s \in Ids
              \/ Opening(c)
              \/ \E f \in Flushers : fpc[f] = "del" /\ fcomp[f] = c /\ fsnap[f].wid \in Ids \ {s}
              \/ RedisRestart]_vars
  <2> SUFFICES ASSUME IInv, [Next]_vars, NEW c \in Components, NEW s \in Signals,
                      WidOf(data[c]) = s, WidOf(data'[c]) # s, ~Opening(c), ~RedisRestart, s \notin Ids
               PROVE  \E f \in Flushers :
                         fpc[f] = "del" /\ fcomp[f] = c /\ fsnap[f].wid \in Ids \ {s}
    OBVIOUS
  <2>1. PICK f \in Flushers : fcomp[f] = c /\ fpc[f] = "del"
    BY StepData DEF IInv
  <2>2. fsnap[f].wid \in Ids
    BY <2>1 DEF IInv, FlushesInOrder
  <2>3. QED
    BY <2>1, <2>2
<1>2. QED
  BY <1>1, InductiveInvariant, PTL DEF Spec, WindowsAreKept

(* The call of s has begun and will send nothing more that counts s. *)
CountsNoMore(s) ==
    /\ fate[s] # "new"
    /\ \A w \in Workers : csig[w] = s => cpc[w] \in {"read", "audit"}

(* The signal s has been counted, or its call was cut short before, and no *)
(* copy of any window counts it.                                           *)
Gone(s) == CountsNoMore(s) /\ \A h \in Windows : s \notin h.sigs

(* A call that is past its pipeline does not come back to it. *)
LEMMA StepCountsNoMore ==
    TypeOK /\ CallsInOrder /\ [Next]_vars
        => \A s \in Signals : CountsNoMore(s) => CountsNoMore(s)'
<1> SUFFICES ASSUME TypeOK, CallsInOrder, [Next]_vars, NEW s \in Signals, CountsNoMore(s)
             PROVE  CountsNoMore(s)'
  OBVIOUS
<1> USE DEF TypeOK, CallTypes, CountsNoMore
<1>n. s # None
  BY NoneIsNoValue
<1>1. ASSUME NEW w \in Workers, NEW t \in Signals, Call(w, t) PROVE CountsNoMore(s)'
  BY <1>1 DEF Call, At
<1>2. ASSUME NEW w \in Workers, NEW o \in {"ok", "failed"}, Return(w, o)
      PROVE  CountsNoMore(s)'
  BY <1>2, <1>n DEF Return
<1>3. ASSUME NEW w \in Workers, NEW l, Goto(w, l), cpc[w] \notin {"read", "audit"} \/ l = "audit"
      PROVE  CountsNoMore(s)'
  BY <1>3 DEF Goto
<1>4. ASSUME NEW w \in Workers,
             SetNX(w) \/ SetNXResent(w) \/ InitHash(w) \/ Slide(w) \/ Incr(w) \/ Touch(w)
      PROVE  CountsNoMore(s)'
  BY <1>3, <1>4 DEF SetNX, SetNXResent, InitHash, Slide, Incr, Touch, At
<1>5. ASSUME NEW w \in Workers, ReadId(w) \/ Audit(w) \/ RedisError(w) \/ MongoError(w)
      PROVE  CountsNoMore(s)'
  BY <1>2, <1>3, <1>5 DEF ReadId, Audit, RedisError, MongoError
<1>6. ASSUME NEW w \in Workers, PipelineResent(w) PROVE CountsNoMore(s)'
  BY <1>6 DEF PipelineResent, At
<1>7. CASE Crash
  BY <1>7, <1>n DEF Crash
<1>8. CASE UNCHANGED callVars
  BY <1>8 DEF callVars
<1>9. QED
  BY <1>1, <1>4, <1>5, <1>6, <1>7, <1>8
     DEF Next, CallStep, FlushStep, ServerStep, InitHashResent, FlushRead, FlushInsert, FlushHot,
         FlushDel, FlushDelResent, Age, CheckLock, Hear, Scan, Restart, RedisRestart, vars

(* No step counts again what is gone. *)
LEMMA StepGone == IInv /\ [Next]_vars => \A s \in Signals : Gone(s) => Gone(s)'
<1> SUFFICES ASSUME IInv, [Next]_vars, NEW s \in Signals, Gone(s) PROVE Gone(s)'
  OBVIOUS
<1>1. TypeOK /\ CallsInOrder /\ FlushesInOrder
  BY DEF IInv
<1>2. CountsNoMore(s)'
  BY <1>1, StepCountsNoMore DEF Gone
<1>3. CASE Windows' \subseteq Windows
  BY <1>2, <1>3 DEF Gone
<1>4. ASSUME NEW w \in Workers, Writes(w) PROVE Gone(s)'
  <2>1. csig[w] \in Signals
    BY <1>1, <1>4 DEF Writes, CallsInOrder
  <2>2. PICK n \in Hash :
           /\ \A h \in Windows' : h \in Windows \/ h = n
           /\ n.sigs \subseteq SigsOf(data[Comp(w)]) \cup {csig[w]}
    BY <1>1, <1>4, <2>1, WritesCopy
  <2>3. s \notin SigsOf(data[Comp(w)])
    <3>1. Comp(w) \in Components
      BY <2>1, SignalsHaveComponents DEF Comp
    <3>2. data[Comp(w)] = None \/ data[Comp(w)] \in Windows
      BY <1>1, <3>1 DEF TypeOK, RedisTypes, Windows
    <3>3. QED
      BY <3>2 DEF SigsOf, Gone
  <2>4. csig[w] # s
    BY <1>4 DEF Writes, Gone, CountsNoMore
  <2>5. QED
    BY <1>2, <2>2, <2>3, <2>4 DEF Gone
<1>5. QED
  BY <1>1, <1>3, <1>4, StepWindows

(* What a dropped window had counted is lost for good: no work item will   *)
(* ever count it, and none will ever have its id, whatever listener and    *)
(* scanner do later (debouncer.go:98-103, 237-284).                        *)
THEOREM DroppedIsLost ==
    ASSUME NEW s \in Signals
    PROVE  Spec => [](Gone(s) => [](Gone(s) /\ \A r \in rows : s \notin r.sigs /\ r.id # s))
<1>1. IInv /\ [Next]_vars /\ Gone(s) => Gone(s)'
  BY StepGone
<1>2. IInv /\ Gone(s) => \A r \in rows : s \notin r.sigs /\ r.id # s
  <2> SUFFICES ASSUME IInv, Gone(s), NEW r \in rows PROVE s \notin r.sigs /\ r.id # s
    OBVIOUS
  <2>1. PICK h \in Windows : h.wid = r.id /\ h.sigs = r.sigs
    BY RowIsCopy DEF IInv
  <2>2. s # None
    BY NoneIsNoValue
  <2>3. QED
    BY <2>1, <2>2 DEF Gone, IInv, WindowsDisjoint
<1>3. QED
  BY <1>1, <1>2, InductiveInvariant, PTL DEF Spec

(* The hash of window s of c is still there though its row is, and no      *)
(* flusher is going to issue a DEL for c.                                  *)
Stuck(c, s) ==
    /\ WidOf(data[c]) = s /\ s \in Ids
    /\ \A f \in Flushers : fcomp[f] = c =>
          fpc[f] = "read" \/ (fpc[f] = "insert" /\ fsnap[f].wid = s)

(* A stuck hash is removed by no flush. *)
StuckHashStays ==
    [][\A c \in Components : \A s \in Signals :
          Stuck(c, s) /\ ~Stuck(c, s)' => Opening(c) \/ RedisRestart]_vars

(* A hash that was left behind after its INSERT was committed is not       *)
(* cleaned up by the listener or the scanner, however often they come by:  *)
(* each of their flushes ends at the primary key.  Only the next window of *)
(* the component, or the end of Redis, removes it (debouncer.go:262-266).  *)
THEOREM StuckHashesStay == Spec => StuckHashStays
<1>1. IInv /\ [Next]_vars
        => [\A c \in Components : \A s \in Signals :
              Stuck(c, s) /\ ~Stuck(c, s)' => Opening(c) \/ RedisRestart]_vars
  <2> SUFFICES ASSUME IInv, [Next]_vars, NEW c \in Components, NEW s \in Signals,
                      Stuck(c, s), ~Opening(c), ~RedisRestart
               PROVE  Stuck(c, s)'
    OBVIOUS
  <2>1. TypeOK /\ CallsInOrder /\ FlushesInOrder /\ s # None
    BY NoneIsNoValue DEF IInv
  <2>2. WidOf(data'[c]) = s
    <3>1. ASSUME NEW f \in Flushers, fcomp[f] = c, fpc[f] = "del" PROVE FALSE
      BY <3>1 DEF Stuck
    <3>2. QED
      BY <2>1, <3>1, StepData DEF Stuck
  <2>3. s \in Ids'
    <3>1. rows \subseteq rows'
      BY <2>1
         DEF Next, ServerStep, FlushStep, CallStep, Call, SetNX, SetNXResent, InitHash,
             InitHashResent, PipelineResent, Slide, Incr, Touch, ReadId, Audit, RedisError,
             MongoError, InsertSignalAudit, FlushRead, FlushInsert, FlushHot, FlushDel,
             FlushDelResent, Age, CheckLock, Hear, Scan, Restart, Crash, RedisRestart, vars,
             storeVars
    <3>2. QED
      BY <3>1 DEF Stuck, Ids
  <2>4. ASSUME NEW f \in Flushers, fcomp'[f] = c
        PROVE  fpc'[f] = "read" \/ (fpc'[f] = "insert" /\ fsnap'[f].wid = s)
    <3>0. c # None
      BY NoneIsNoValue
    <3>1. CASE UNCHANGED <<fpc, fcomp, fsnap>>
      BY <2>4, <3>1 DEF Stuck
    <3>2. ASSUME NEW d \in Components, NEW g \in Flushers, StartFlush(g, d)
          PROVE  fpc'[f] = "read" \/ (fpc'[f] = "insert" /\ fsnap'[f].wid = s)
      BY <2>1, <2>4, <3>2 DEF StartFlush, TypeOK, FlushTypes, Stuck
    <3>3. ASSUME NEW g \in Flushers, EndFlush(g)
          PROVE  fpc'[f] = "read" \/ (fpc'[f] = "insert" /\ fsnap'[f].wid = s)
      BY <2>1, <2>4, <3>0, <3>3 DEF EndFlush, TypeOK, FlushTypes, Stuck
    <3>4. ASSUME NEW g \in Flushers, FlushRead(g)
          PROVE  fpc'[f] = "read" \/ (fpc'[f] = "insert" /\ fsnap'[f].wid = s)
      <4>1. CASE EndFlush(g)
        BY <3>3, <4>1
      <4>2. CASE ~EndFlush(g)
        <5>1. /\ fpc[g] = "read" /\ fpc' = [fpc EXCEPT ![g] = "insert"]
              /\ fsnap' = [fsnap EXCEPT ![g] = data[fcomp[g]]] /\ data[fcomp[g]] # None
              /\ UNCHANGED fcomp
          BY <3>4, <4>2 DEF FlushRead, FlushAt
        <5>2. CASE g = f
          <6>1. fpc'[f] = "insert" /\ fsnap'[f] = data[c] /\ data[c] # None
            BY <2>1, <2>4, <5>1, <5>2 DEF TypeOK, FlushTypes
          <6>2. QED
            BY <6>1 DEF Stuck, WidOf
        <5>3. CASE g # f
          BY <2>1, <2>4, <5>1, <5>3 DEF TypeOK, FlushTypes, Stuck
        <5>4. QED
          BY <5>2, <5>3
      <4>3. QED
        BY <4>1, <4>2
    <3>5. ASSUME NEW g \in Flushers, FlushInsert(g)
          PROVE  fpc'[f] = "read" \/ (fpc'[f] = "insert" /\ fsnap'[f].wid = s)
      <4>1. CASE EndFlush(g)
        BY <3>3, <4>1
      <4>2. CASE ~EndFlush(g)
        <5>1. /\ fpc[g] = "insert" /\ fsnap[g].wid \notin Ids
              /\ fpc' = [fpc EXCEPT ![g] = "hot"] /\ UNCHANGED <<fcomp, fsnap>>
          BY <3>5, <4>2 DEF FlushInsert, FlushAt, FlushNext, RowOf
        <5>2. g # f
          BY <2>4, <5>1 DEF Stuck
        <5>3. QED
          BY <2>1, <2>4, <5>1, <5>2 DEF TypeOK, FlushTypes, Stuck
      <4>3. QED
        BY <4>1, <4>2
    <3>6. ASSUME NEW g \in Flushers, FlushHot(g)
          PROVE  fpc'[f] = "read" \/ (fpc'[f] = "insert" /\ fsnap'[f].wid = s)
      <4>1. fpc[g] = "hot" /\ fpc' = [fpc EXCEPT ![g] = "del"] /\ UNCHANGED <<fcomp, fsnap>>
        BY <3>6 DEF FlushHot, FlushAt, FlushNext
      <4>2. g # f
        BY <2>4, <4>1 DEF Stuck
      <4>3. QED
        BY <2>1, <2>4, <4>1, <4>2 DEF TypeOK, FlushTypes, Stuck
    <3>7. CASE Crash
      BY <2>4, <3>0, <3>7 DEF Crash
    <3>8. ASSUME NEW w \in Workers, NEW t \in Signals, CallStep(w) \/ Call(w, t)
          PROVE  UNCHANGED <<fpc, fcomp, fsnap>>
      BY <3>8
         DEF CallStep, Call, SetNX, SetNXResent, InitHash, InitHashResent, PipelineResent,
             Slide, Incr, Touch, ReadId, Audit, RedisError, MongoError, flushVars
    <3>9. ASSUME NEW d \in Components, Age(d) \/ CheckLock(d)
          PROVE  fpc'[f] = "read" \/ (fpc'[f] = "insert" /\ fsnap'[f].wid = s)
      BY <3>1, <3>2, <3>9 DEF Age, CheckLock, flushVars, Flushers
    <3>10. CASE Hear
      <4>1. Head(expired) \in Components
        BY <2>1, <3>10 DEF Hear, TypeOK, RedisTypes
      <4>2. QED
        BY <3>2, <3>10, <4>1 DEF Hear, Flushers
    <3>11. CASE \/ Scan \/ Restart \/ RedisRestart \/ UNCHANGED vars
                \/ \E g \in Flushers : FlushDelResent(g)
      BY <3>1, <3>11 DEF Scan, Restart, RedisRestart, FlushDelResent, vars, flushVars
    <3>12. QED
      BY <3>1, <3>3, <3>4, <3>5, <3>6, <3>7, <3>8, <3>9, <3>10, <3>11
         DEF Next, ServerStep, FlushStep, FlushDel
  <2>5. QED
    BY <2>2, <2>3, <2>4 DEF Stuck
<1>2. QED
  BY <1>1, InductiveInvariant, PTL DEF Spec, StuckHashStays
=============================================================================
