----------------------------- MODULE PoolProofs -----------------------------
(***************************************************************************)
(* WorkerPool implements Debouncer, and what the worker pool adds is safe: *)
(* proved for all constants that satisfy the assumptions of both modules.  *)
(***************************************************************************)
EXTENDS WorkerPool, DebouncerProofs, SequenceTheorems

(* The stream holds no entry twice, and every entry once arrived. *)
StreamInOrder ==
    /\ \A i \in 1 .. Len(stream) : stream[i] \in arrived
    /\ \A i, j \in 1 .. Len(stream) : stream[i] = stream[j] => i = j
    /\ ~group => last = 0

(* What a worker has in its batch is no entry that is still to be read. *)
BatchesAreRead ==
    \A w \in Workers : \A k \in 1 .. Len(batch[w]) :
        /\ batch[w][k] \in arrived
        /\ \A i \in last + 1 .. Len(stream) : stream[i] # batch[w][k]

(* What the pool has of its own. *)
Own ==
    /\ PoolTypeOK
    /\ StreamInOrder
    /\ BatchesAreRead
    /\ OneWorkerPerEntry
    /\ DeliveredIsAccounted

(* Only the entry of a call that returned nil is acknowledged. *)
AckedAreDone == \A s \in acked \ Malformed : fate[s] = "ok"

(* The inductive invariant: the debouncer's and the pool's. *)
PoolInv == IInv /\ Own /\ AckedAreDone

-----------------------------------------------------------------------------
(* The refinement.                                                         *)

(* Every step of the pool is a step of the debouncer inside it, or leaves  *)
(* the debouncer alone.                                                    *)
LEMMA PoolStepIsStep == PoolTypeOK /\ [PoolNext]_allVars => [Next]_vars
<1> SUFFICES ASSUME PoolTypeOK, [PoolNext]_allVars PROVE [Next]_vars
  OBVIOUS
<1>1. ASSUME NEW s \in Signals, XAdd(s) PROVE UNCHANGED vars
  BY <1>1 DEF XAdd
<1>2. ASSUME NEW w \in Workers, ReadGroup(w) \/ Ack(w) \/ LeavePending(w)
      PROVE  UNCHANGED vars
  BY <1>2 DEF ReadGroup, Ack, LeavePending
<1>3. ASSUME NEW w \in Workers, Process(w) PROVE Next
  <2>1. Call(w, Head(batch[w])) /\ batch[w] # <<>>
    BY <1>3 DEF Process
  <2>2. Head(batch[w]) \in Signals
    BY <2>1, HeadTailProperties DEF PoolTypeOK
  <2>3. QED
    BY <2>1, <2>2 DEF Next
<1>4. ASSUME NEW w \in Workers, CallStep(w) PROVE Next
  BY <1>4 DEF Next
<1>5. CASE Background
  BY <1>5 DEF Background, Next, ServerStep
<1>6. CASE PoolCrash \/ PoolRestart \/ PoolRedisRestart
  BY <1>6 DEF PoolCrash, PoolRestart, PoolRedisRestart, Next, ServerStep
<1>7. CASE UNCHANGED allVars
  BY <1>7 DEF allVars
<1>8. QED
  BY <1>1, <1>2, <1>3, <1>4, <1>5, <1>6, <1>7 DEF PoolNext, WorkerStep

-----------------------------------------------------------------------------
(* The pool's own variables.                                               *)

(* What a read takes: the entries after the last delivered one, at most    *)
(* Count of them.                                                          *)
LEMMA ReadTakes ==
    ASSUME PoolTypeOK, NEW w \in Workers, ReadGroup(w)
    PROVE  \E end \in last + 1 .. Len(stream), new \in Seq(Signals) :
              /\ last' = end
              /\ Len(new) = end - last
              /\ \A i \in 1 .. Len(new) : new[i] = stream[last + i]
              /\ pel' = pel \cup Entries(new)
              /\ batch' \in {batch, [batch EXCEPT ![w] = new]}
              /\ batch[w] = <<>>
              /\ lost' \in 0 .. MaxLost
              /\ UNCHANGED <<stream, arrived, group, acked, vars>>
<1> DEFINE end == IF Len(stream) < last + Count THEN Len(stream) ELSE last + Count
           new == SubSeq(stream, last + 1, end)
<1>1. last \in Nat /\ Len(stream) \in Nat /\ last < Len(stream) /\ Count \in Nat \ {0}
  BY CountIsPositive DEF PoolTypeOK, ReadGroup
<1>2. end \in last + 1 .. Len(stream)
  BY <1>1
<1>3. \A i \in last + 1 .. end : stream[i] \in Signals
  BY <1>1, <1>2, ElementOfSeq DEF PoolTypeOK
<1>4. /\ new \in Seq(Signals)
      /\ Len(new) = end - last
      /\ \A i \in 1 .. Len(new) : new[i] = stream[last + i]
  <2> HIDE DEF end
  <2>1. last + 1 \in Int /\ end \in Int /\ last + 1 <= end
    BY <1>1, <1>2
  <2>2. /\ new \in Seq(Signals)
        /\ Len(new) = IF last + 1 <= end THEN end - (last + 1) + 1 ELSE 0
        /\ \A i \in 1 .. end - (last + 1) + 1 : new[i] = stream[(last + 1) + i - 1]
    BY <2>1, <1>3, SubSeqProperties
  <2> HIDE DEF new
  <2>3. Len(new) = end - last
    BY <2>1, <2>2, <1>1
  <2>4. ASSUME NEW i \in 1 .. Len(new) PROVE new[i] = stream[last + i]
    <3>1. i \in 1 .. end - (last + 1) + 1 /\ (last + 1) + i - 1 = last + i
      BY <2>1, <2>3, <1>1
    <3>2. QED
      BY <3>1, <2>2
  <2>5. QED
    BY <2>2, <2>3, <2>4
<1>5. last' = end /\ pel' = pel \cup Entries(new) /\ batch[w] = <<>>
  BY DEF ReadGroup
<1>6. batch' \in {batch, [batch EXCEPT ![w] = new]} /\ lost' \in 0 .. MaxLost
  BY LossIsBounded DEF ReadGroup, AnswerLost, PoolTypeOK
<1>7. UNCHANGED <<stream, arrived, group, acked, vars>>
  BY DEF ReadGroup
<1> HIDE DEF end, new
<1>8. QED
  BY <1>2, <1>4, <1>5, <1>6, <1>7

(* The step that finishes an entry takes it off the worker's batch. *)
LEMMA DropTakes ==
    ASSUME PoolTypeOK, NEW w \in Workers, batch[w] # <<>>, DropHead(w)
    PROVE  /\ batch' \in [Workers -> Seq(Signals)]
           /\ Head(batch[w]) \in Signals
           /\ \A v \in Workers : v # w => batch'[v] = batch[v]
           /\ Len(batch'[w]) = Len(batch[w]) - 1
           /\ \A k \in 1 .. Len(batch'[w]) : batch'[w][k] = batch[w][k + 1]
<1>1. batch[w] \in Seq(Signals)
  BY DEF PoolTypeOK
<1>2. /\ Head(batch[w]) \in Signals
      /\ Tail(batch[w]) \in Seq(Signals)
      /\ Len(Tail(batch[w])) = Len(batch[w]) - 1
      /\ \A k \in 1 .. Len(Tail(batch[w])) : Tail(batch[w])[k] = batch[w][k + 1]
  BY <1>1, HeadTailProperties
<1>3. batch' = [batch EXCEPT ![w] = Tail(batch[w])] /\ batch \in [Workers -> Seq(Signals)]
  BY DEF DropHead, PoolTypeOK
<1>4. QED
  BY <1>2, <1>3

(* The stream worker of the API writes an entry. *)
LEMMA StepXAdd ==
    ASSUME Own, TypeOK', NEW s \in Signals, XAdd(s)
    PROVE  Own'
<1> USE DEF Own
<1>1. /\ stream' \in Seq(Signals)
      /\ Len(stream') = Len(stream) + 1
      /\ \A i \in 1 .. Len(stream) : stream'[i] = stream[i]
      /\ stream'[Len(stream) + 1] = s
      /\ Len(stream) \in Nat
  BY AppendProperties DEF XAdd, PoolTypeOK
<1>2. s \notin arrived /\ arrived' = arrived \cup {s}
      /\ UNCHANGED <<group, last, pel, acked, batch, lost>>
  BY DEF XAdd
<1>3. PoolTypeOK'
  BY <1>1, <1>2 DEF PoolTypeOK
<1>4. StreamInOrder'
  <2>1. ASSUME NEW i \in 1 .. Len(stream') PROVE stream'[i] \in arrived'
    BY <2>1, <1>1, <1>2 DEF StreamInOrder
  <2>2. ASSUME NEW i \in 1 .. Len(stream'), NEW j \in 1 .. Len(stream'),
               stream'[i] = stream'[j]
        PROVE  i = j
    BY <2>2, <1>1, <1>2 DEF StreamInOrder
  <2>3. QED
    BY <2>1, <2>2, <1>2 DEF StreamInOrder
<1>5. BatchesAreRead'
  <2> SUFFICES ASSUME NEW w \in Workers, NEW k \in 1 .. Len(batch[w])
               PROVE  /\ batch[w][k] \in arrived'
                      /\ \A i \in last + 1 .. Len(stream') : stream'[i] # batch[w][k]
    BY <1>2 DEF BatchesAreRead
  <2>1. batch[w][k] \in arrived
    BY DEF BatchesAreRead
  <2>2. ASSUME NEW i \in last + 1 .. Len(stream') PROVE stream'[i] # batch[w][k]
    <3>1. CASE i = Len(stream) + 1
      BY <3>1, <2>1, <1>1, <1>2
    <3>2. CASE i # Len(stream) + 1
      <4>1. i \in last + 1 .. Len(stream) /\ i \in 1 .. Len(stream)
        BY <3>2, <1>1 DEF PoolTypeOK
      <4>2. QED
        BY <4>1, <1>1 DEF BatchesAreRead
    <3>3. QED
      BY <3>1, <3>2
  <2>3. QED
    BY <2>1, <2>2, <1>2
<1>6. OneWorkerPerEntry'
  BY <1>2 DEF OneWorkerPerEntry
<1>7. DeliveredIsAccounted'
  BY <1>1, <1>2 DEF DeliveredIsAccounted, PoolTypeOK
<1>8. QED
  BY <1>3, <1>4, <1>5, <1>6, <1>7

(* A worker reads its next batch (worker.go:84-97). *)
LEMMA StepReadGroup ==
    ASSUME Own, TypeOK', NEW w \in Workers, ReadGroup(w)
    PROVE  Own'
<1> USE DEF Own
<1>1. PICK end \in last + 1 .. Len(stream), new \in Seq(Signals) :
          /\ last' = end
          /\ Len(new) = end - last
          /\ \A i \in 1 .. Len(new) : new[i] = stream[last + i]
          /\ pel' = pel \cup Entries(new)
          /\ batch' \in {batch, [batch EXCEPT ![w] = new]}
          /\ batch[w] = <<>>
          /\ lost' \in 0 .. MaxLost
          /\ UNCHANGED <<stream, arrived, group, acked, vars>>
  BY ReadTakes
<1>2. /\ last \in Nat /\ end \in Nat /\ Len(stream) \in Nat
      /\ last < end /\ end <= Len(stream) /\ Len(new) = end - last
  <2>1. last \in 0 .. Len(stream) /\ Len(stream) \in Nat
    BY LenProperties DEF PoolTypeOK
  <2>2. QED
    BY <1>1, <2>1
<1>3. \A i \in 1 .. Len(new) : new[i] \in Signals /\ last + i \in last + 1 .. end
  <2>1. \A i \in 1 .. Len(new) : last + i \in last + 1 .. end
    BY <1>2
  <2>2. QED
    BY <2>1, ElementOfSeq
<1>4. group /\ group'
  BY <1>1 DEF ReadGroup
<1>5. PoolTypeOK'
  <2>1. pel' \subseteq Signals
    BY <1>1, <1>3 DEF PoolTypeOK, Entries
  <2>2. batch' \in [Workers -> Seq(Signals)]
    BY <1>1 DEF PoolTypeOK
  <2>3. end \in 0 .. Len(stream)
    BY <1>2
  <2>4. QED
    BY <1>1, <2>1, <2>2, <2>3 DEF PoolTypeOK
<1>6. StreamInOrder'
  BY <1>1, <1>4 DEF StreamInOrder
<1>7. ASSUME NEW v \in Workers, NEW k \in 1 .. Len(batch'[v])
      PROVE  \/ batch'[v] = batch[v]
             \/ /\ v = w /\ batch'[v] = new
                /\ batch'[v][k] = stream[last + k]
                /\ last + k \in last + 1 .. end
  BY <1>1, <1>3 DEF PoolTypeOK
<1>8. BatchesAreRead'
  <2> SUFFICES ASSUME NEW v \in Workers, NEW k \in 1 .. Len(batch'[v])
               PROVE  /\ batch'[v][k] \in arrived
                      /\ \A i \in end + 1 .. Len(stream) : stream[i] # batch'[v][k]
    BY <1>1 DEF BatchesAreRead
  <2>1. CASE batch'[v] = batch[v]
    <3>1. \A i \in end + 1 .. Len(stream) : i \in last + 1 .. Len(stream)
      BY <1>2
    <3>2. QED
      BY <2>1, <3>1 DEF BatchesAreRead
  <2>2. CASE batch'[v][k] = stream[last + k] /\ last + k \in last + 1 .. end
    <3>1. last + k \in 1 .. Len(stream) /\ last + k < end + 1
      BY <2>2, <1>2
    <3>2. batch'[v][k] \in arrived
      BY <2>2, <3>1 DEF StreamInOrder
    <3>3. ASSUME NEW i \in end + 1 .. Len(stream) PROVE stream[i] # stream[last + k]
      <4>1. i \in 1 .. Len(stream) /\ i # last + k
        BY <3>1, <1>2
      <4>2. QED
        BY <3>1, <4>1 DEF StreamInOrder
    <3>4. QED
      BY <2>2, <3>2, <3>3
  <2>3. QED
    BY <1>7, <2>1, <2>2
<1>9. OneWorkerPerEntry'
  <2> SUFFICES ASSUME NEW u \in Workers, NEW v \in Workers,
                      NEW i \in 1 .. Len(batch'[u]), NEW j \in 1 .. Len(batch'[v]),
                      batch'[u][i] = batch'[v][j]
               PROVE  u = v /\ i = j
    BY DEF OneWorkerPerEntry
  <2>1. CASE batch'[u] = batch[u] /\ batch'[v] = batch[v]
    BY <2>1 DEF OneWorkerPerEntry
  <2>2. CASE batch'[u] = batch[u] /\ batch'[v][j] = stream[last + j] /\ last + j \in last + 1 .. end
    <3>1. last + j \in last + 1 .. Len(stream)
      BY <2>2, <1>2
    <3>2. QED
      BY <2>2, <3>1 DEF BatchesAreRead
  <2>3. CASE batch'[v] = batch[v] /\ batch'[u][i] = stream[last + i] /\ last + i \in last + 1 .. end
    <3>1. last + i \in last + 1 .. Len(stream)
      BY <2>3, <1>2
    <3>2. QED
      BY <2>3, <3>1 DEF BatchesAreRead
  <2>4. CASE /\ u = w /\ v = w
             /\ batch'[u][i] = stream[last + i] /\ last + i \in last + 1 .. end
             /\ batch'[v][j] = stream[last + j] /\ last + j \in last + 1 .. end
    <3>1. last + i \in 1 .. Len(stream) /\ last + j \in 1 .. Len(stream)
      BY <2>4, <1>2
    <3>2. last + i = last + j
      BY <3>1, <2>4 DEF StreamInOrder
    <3>3. i \in Int /\ j \in Int
      OBVIOUS
    <3>4. QED
      BY <2>4, <3>2, <3>3, <1>2
  <2>5. QED
    BY <1>7, <2>1, <2>2, <2>3, <2>4
<1>10. DeliveredIsAccounted'
  <2> SUFFICES ASSUME NEW i \in 1 .. end PROVE stream[i] \in pel' \cup acked
    BY <1>1 DEF DeliveredIsAccounted
  <2>1. CASE i \in 1 .. last
    BY <2>1, <1>1 DEF DeliveredIsAccounted
  <2>2. CASE i \notin 1 .. last
    <3>1. i - last \in 1 .. Len(new) /\ last + (i - last) = i
      BY <2>2, <1>2
    <3>2. new[i - last] = stream[i]
      BY <3>1, <1>1
    <3>3. stream[i] \in Entries(new)
      BY <3>1, <3>2 DEF Entries
    <3>4. QED
      BY <3>3, <1>1
  <2>3. QED
    BY <2>1, <2>2
<1>11. QED
  BY <1>5, <1>6, <1>8, <1>9, <1>10

(* A worker is done with the first entry of its batch (worker.go:133-151). *)
LEMMA StepDone ==
    ASSUME Own, TypeOK', NEW w \in Workers, Ack(w) \/ LeavePending(w)
    PROVE  Own'
<1> USE DEF Own
<1>1. batch[w] # <<>> /\ DropHead(w)
  BY DEF Ack, LeavePending
<1>2. /\ batch' \in [Workers -> Seq(Signals)]
      /\ Head(batch[w]) \in Signals
      /\ \A v \in Workers : v # w => batch'[v] = batch[v]
      /\ Len(batch'[w]) = Len(batch[w]) - 1
      /\ \A k \in 1 .. Len(batch'[w]) : batch'[w][k] = batch[w][k + 1]
  BY <1>1, DropTakes
<1>3. /\ UNCHANGED <<stream, arrived, group, last>>
      /\ pel' \subseteq pel /\ acked' \subseteq acked \cup pel
      /\ pel \cup acked \subseteq pel' \cup acked'
      /\ lost' \in 0 .. MaxLost
  BY LossIsBounded DEF Ack, LeavePending, AnswerLost, PoolTypeOK
<1>4. PoolTypeOK'
  BY <1>2, <1>3 DEF PoolTypeOK
<1>5. StreamInOrder'
  BY <1>3 DEF StreamInOrder
<1>6. Len(batch[w]) \in Nat /\ Len(batch'[w]) \in Nat
  BY <1>2 DEF PoolTypeOK
<1>7. \A k \in 1 .. Len(batch'[w]) : k + 1 \in 1 .. Len(batch[w])
  BY <1>2, <1>6
<1>8. BatchesAreRead'
  <2> SUFFICES ASSUME NEW v \in Workers, NEW k \in 1 .. Len(batch'[v])
               PROVE  /\ batch'[v][k] \in arrived
                      /\ \A i \in last + 1 .. Len(stream) : stream[i] # batch'[v][k]
    BY <1>3 DEF BatchesAreRead
  <2>1. CASE v = w
    BY <2>1, <1>2, <1>7 DEF BatchesAreRead
  <2>2. CASE v # w
    BY <2>2, <1>2 DEF BatchesAreRead
  <2>3. QED
    BY <2>1, <2>2
<1>9. OneWorkerPerEntry'
  <2> SUFFICES ASSUME NEW u \in Workers, NEW v \in Workers,
                      NEW i \in 1 .. Len(batch'[u]), NEW j \in 1 .. Len(batch'[v]),
                      batch'[u][i] = batch'[v][j]
               PROVE  u = v /\ i = j
    BY DEF OneWorkerPerEntry
  <2>1. CASE u = w /\ v = w
    <3>1. /\ i + 1 \in 1 .. Len(batch[w]) /\ j + 1 \in 1 .. Len(batch[w])
          /\ batch[w][i + 1] = batch[w][j + 1]
      BY <2>1, <1>2, <1>7
    <3>2. i + 1 = j + 1
      BY <3>1 DEF OneWorkerPerEntry
    <3>3. QED
      BY <3>2, <2>1
  <2>2. CASE u = w /\ v # w
    BY <2>2, <1>2, <1>7 DEF OneWorkerPerEntry
  <2>3. CASE u # w /\ v = w
    BY <2>3, <1>2, <1>7 DEF OneWorkerPerEntry
  <2>4. CASE u # w /\ v # w
    BY <2>4, <1>2 DEF OneWorkerPerEntry
  <2>5. QED
    BY <2>1, <2>2, <2>3, <2>4
<1>10. DeliveredIsAccounted'
  BY <1>3 DEF DeliveredIsAccounted
<1>11. QED
  BY <1>4, <1>5, <1>8, <1>9, <1>10

(* The ends of the processor and of Redis (worker.go:44-54). *)
LEMMA StepEnds ==
    ASSUME Own, TypeOK', PoolCrash \/ PoolRestart \/ PoolRedisRestart
    PROVE  Own'
<1> USE DEF Own
<1>1. CASE PoolCrash
  <2>1. /\ UNCHANGED <<stream, arrived, group, last, pel, acked, lost>>
        /\ batch' = [w \in Workers |-> <<>>]
    BY <1>1 DEF PoolCrash
  <2>2. \A w \in Workers : batch'[w] = <<>> /\ Len(batch'[w]) = 0
    BY <2>1
  <2>3. batch' \in [Workers -> Seq(Signals)]
    BY <2>1, EmptySeq
  <2>4. PoolTypeOK'
    BY <2>1, <2>3 DEF PoolTypeOK
  <2>5. BatchesAreRead' /\ OneWorkerPerEntry'
    BY <2>2 DEF BatchesAreRead, OneWorkerPerEntry
  <2>6. QED
    BY <2>1, <2>4, <2>5 DEF StreamInOrder, DeliveredIsAccounted
<1>2. CASE PoolRestart
  <2>1. UNCHANGED <<stream, arrived, pel, acked, batch, lost>> /\ last' = last /\ group'
    BY <1>2 DEF PoolRestart, StreamInOrder
  <2>2. PoolTypeOK'
    BY <2>1 DEF PoolTypeOK
  <2>3. StreamInOrder' /\ BatchesAreRead'
    BY <2>1 DEF StreamInOrder, BatchesAreRead
  <2>4. QED
    BY <2>1, <2>2, <2>3 DEF OneWorkerPerEntry, DeliveredIsAccounted
<1>3. CASE PoolRedisRestart
  <2>1. /\ UNCHANGED <<arrived, acked, batch, lost>>
        /\ stream' = <<>> /\ last' = 0 /\ pel' = {} /\ group' = FALSE
    BY <1>3 DEF PoolRedisRestart
  <2>2. stream' \in Seq(Signals) /\ Len(stream') = 0
    BY <2>1, EmptySeq
  <2>3. PoolTypeOK'
    <3>1. 0 \in 0 .. 0 /\ {} \subseteq Signals /\ FALSE \in BOOLEAN
      OBVIOUS
    <3>2. QED
      BY <2>1, <2>2, <3>1 DEF PoolTypeOK
  <2>4. BatchesAreRead'
    BY <2>1, <2>2 DEF BatchesAreRead
  <2>5. StreamInOrder' /\ OneWorkerPerEntry' /\ DeliveredIsAccounted'
    BY <2>1, <2>2 DEF StreamInOrder, OneWorkerPerEntry, DeliveredIsAccounted
  <2>6. QED
    BY <2>3, <2>4, <2>5
<1>4. QED
  BY <1>1, <1>2, <1>3

(* Every step keeps what the pool has of its own. *)
LEMMA StepOwn == Own /\ TypeOK' /\ [PoolNext]_allVars => Own'
<1> SUFFICES ASSUME Own, TypeOK', [PoolNext]_allVars PROVE Own'
  OBVIOUS
<1>1. CASE UNCHANGED poolVars
  <2>1. UNCHANGED <<stream, arrived, group, last, pel, acked, batch, lost>>
    BY <1>1 DEF poolVars
  <2>2. PoolTypeOK'
    BY <2>1 DEF Own, PoolTypeOK
  <2>3. StreamInOrder'
    BY <2>1 DEF Own, StreamInOrder
  <2>4. BatchesAreRead'
    BY <2>1 DEF Own, BatchesAreRead
  <2>5. OneWorkerPerEntry'
    BY <2>1 DEF Own, OneWorkerPerEntry
  <2>6. DeliveredIsAccounted'
    BY <2>1 DEF Own, DeliveredIsAccounted
  <2>7. QED
    BY <2>2, <2>3, <2>4, <2>5, <2>6 DEF Own
<1>2. QED
  BY <1>1, StepXAdd, StepReadGroup, StepDone, StepEnds
     DEF PoolNext, WorkerStep, Process, Background, allVars

-----------------------------------------------------------------------------
(* The acknowledgements.                                                   *)

(* The outcome of a call that returned nil is final. *)
LEMMA OkIsFinal ==
    ASSUME CallsInOrder, [Next]_vars,
           NEW s \in Signals, fate \in [Signals -> {"new", "busy", "ok", "failed"}],
           fate[s] = "ok"
    PROVE  fate'[s] = "ok"
<1>1. ASSUME NEW w \in Workers, NEW outcome, cpc[w] # "idle", Return(w, outcome)
      PROVE  fate'[s] = "ok"
  <2>1. csig[w] # s
    BY <1>1 DEF CallsInOrder
  <2>2. QED
    BY <1>1, <2>1 DEF Return
<1>2. ASSUME NEW w \in Workers, NEW r \in Signals, Call(w, r) PROVE fate'[s] = "ok"
  BY <1>2 DEF Call
<1>3. ASSUME NEW w \in Workers, CallStep(w) PROVE fate'[s] = "ok"
  <2>1. CASE UNCHANGED fate
    BY <2>1
  <2>2. CASE ReadId(w) \/ Audit(w) \/ RedisError(w) \/ MongoError(w)
    <3>1. cpc[w] # "idle"
      BY <2>2 DEF ReadId, Audit, RedisError, MongoError, At
    <3>2. UNCHANGED fate \/ Return(w, "ok") \/ Return(w, "failed")
      BY <2>2 DEF ReadId, Audit, RedisError, MongoError, Goto
    <3>3. QED
      BY <3>1, <3>2, <1>1
  <2>3. QED
    BY <1>3, <2>1, <2>2 DEF CallStep, SetNX, SetNXResent, PipelineResent, InitHash,
                            InitHashResent, Slide, Incr, Touch, Goto, callVars
<1>4. CASE Crash
  BY <1>4 DEF Crash
<1>5. CASE UNCHANGED fate
  BY <1>5
<1>6. QED
  BY <1>2, <1>3, <1>4, <1>5
     DEF Next, ServerStep, FlushStep, FlushRead, FlushInsert, FlushHot, FlushDel,
         FlushDelResent, Age, CheckLock, Hear, Scan, Restart, RedisRestart, vars, callVars

(* Every step keeps the acknowledged entries done. *)
LEMMA StepAcked == PoolInv /\ [PoolNext]_allVars => AckedAreDone'
<1> SUFFICES ASSUME PoolInv, [PoolNext]_allVars,
                    NEW s \in acked', s \notin Malformed
             PROVE  fate'[s] = "ok"
  BY DEF AckedAreDone
<1>1. /\ [Next]_vars /\ CallsInOrder /\ acked \subseteq Signals
      /\ fate \in [Signals -> {"new", "busy", "ok", "failed"}]
  BY PoolStepIsStep DEF PoolInv, Own, PoolTypeOK, IInv, TypeOK, CallTypes
<1>2. CASE s \in acked
  BY <1>1, <1>2, OkIsFinal DEF PoolInv, AckedAreDone
<1>3. CASE s \notin acked
  <2>1. PICK w \in Workers : Ack(w)
    BY <1>3 DEF PoolNext, WorkerStep, XAdd, ReadGroup, Process, LeavePending, Background,
                PoolCrash, PoolRestart, PoolRedisRestart, allVars, poolVars
  <2>2. s = Head(batch[w]) /\ fate[s] = "ok" /\ UNCHANGED fate
    BY <2>1, <1>3 DEF Ack, vars, callVars
  <2>3. QED
    BY <2>2
<1>4. QED
  BY <1>2, <1>3

-----------------------------------------------------------------------------
(* The theorems.                                                           *)

(* The invariant of the pool and of the debouncer inside it.               *)
THEOREM PoolInductiveInvariant == PoolSpec => []PoolInv
<1>1. PoolInit => PoolInv
  <2> SUFFICES ASSUME PoolInit PROVE PoolInv
    OBVIOUS
  <2>1. IInv /\ TypeOK
    BY InitIInv DEF PoolInit, IInv
  <2>2. stream \in Seq(Signals) /\ Len(stream) = 0
    BY EmptySeq DEF PoolInit
  <2>3. \A w \in Workers : batch[w] = <<>> /\ Len(batch[w]) = 0
    BY DEF PoolInit
  <2>4. batch \in [Workers -> Seq(Signals)]
    BY EmptySeq DEF PoolInit
  <2>5. PoolTypeOK
    BY <2>1, <2>2, <2>4, LossIsBounded DEF PoolInit, PoolTypeOK
  <2>6. StreamInOrder /\ BatchesAreRead /\ OneWorkerPerEntry
    BY <2>2, <2>3 DEF PoolInit, StreamInOrder, BatchesAreRead, OneWorkerPerEntry
  <2>7. DeliveredIsAccounted /\ AckedAreDone
    BY DEF PoolInit, DeliveredIsAccounted, AckedAreDone
  <2>8. QED
    BY <2>1, <2>5, <2>6, <2>7 DEF PoolInv, Own
<1>2. PoolInv /\ [PoolNext]_allVars => PoolInv'
  <2> SUFFICES ASSUME PoolInv, [PoolNext]_allVars PROVE PoolInv'
    OBVIOUS
  <2>1. IInv'
    BY PoolStepIsStep, StepIInv DEF PoolInv, Own
  <2>2. Own'
    BY <2>1, StepOwn DEF PoolInv, IInv
  <2>3. QED
    BY <2>1, <2>2, StepAcked DEF PoolInv
<1>3. QED
  BY <1>1, <1>2, PTL DEF PoolSpec

(* The state of the pool always has its types. *)
THEOREM PoolTypeCorrect == PoolSpec => []PoolTypeOK
<1>1. PoolInv => PoolTypeOK
  BY DEF PoolInv, Own
<1>2. QED
  BY <1>1, PoolInductiveInvariant, PTL

(* The pool's steps are the debouncer's or leave it alone, which the       *)
(* module's actions say themselves: so all that is proved of Debouncer     *)
(* holds of the pool (worker.go:105-140).                                  *)
LEMMA PoolImplementsDebouncer == PoolSpec => Spec
<1>1. PoolInit => Init
  BY DEF PoolInit
<1>2. PoolInv => PoolTypeOK
  BY DEF PoolInv, Own
<1>3. QED
  BY <1>1, <1>2, PoolStepIsStep, PoolInductiveInvariant, PTL
     DEF PoolSpec, Spec

(* No entry is with two workers, nor twice with one (worker.go:14-16).     *)
THEOREM EntriesHaveOneWorker == PoolSpec => []OneWorkerPerEntry
<1>1. PoolInv => OneWorkerPerEntry
  BY DEF PoolInv, Own
<1>2. QED
  BY <1>1, PoolInductiveInvariant, PTL

(* An acknowledged signal has its audit (worker.go:133-139,                *)
(* debouncer.go:126-148).                                                  *)
THEOREM AcknowledgedIsAudited == PoolSpec => []AckedIsAudited
<1>1. PoolInv => AckedIsAudited
  <2> SUFFICES ASSUME PoolInv, NEW s \in acked, s \notin Malformed
               PROVE  \E a \in audits : a.sig = s
    BY DEF AckedIsAudited
  <2>1. s \in Signals /\ fate[s] = "ok"
    BY DEF PoolInv, Own, PoolTypeOK, AckedAreDone
  <2>2. QED
    BY <2>1 DEF PoolInv, IInv, AuditsInOrder
<1>2. QED
  BY <1>1, PoolInductiveInvariant, PTL

(* The group accounts for whatever it has delivered (worker.go:157-163).   *)
THEOREM DeliveredStaysAccounted == PoolSpec => []DeliveredIsAccounted
<1>1. PoolInv => DeliveredIsAccounted
  BY DEF PoolInv, Own
<1>2. QED
  BY <1>1, PoolInductiveInvariant, PTL

-----------------------------------------------------------------------------
(* What can never be undone in the pool.                                   *)

(* What is proved of the debouncer holds of the debouncer that the pool    *)
(* drives: outcomes are final, records only grow and follow the ledger,    *)
(* windows are lost in three ways only (worker.go:105-140,                 *)
(* debouncer.go:79-148, 237-284).                                          *)
THEOREM PoolKeepsRecords == PoolSpec => KeepsLedger /\ RecordsOnlyGrow /\ WindowsAreKept
BY PoolImplementsDebouncer, DebouncerKeepsLedger, RecordsAreFinal, WindowsAreLostInThreeWays, PTL

(* An entry that has been read and not acknowledged, and that no worker    *)
(* has in its hands any more.                                              *)
Left(s) ==
    /\ s \in arrived /\ s \notin acked
    /\ \A i \in last + 1 .. Len(stream) : stream[i] # s
    /\ \A w \in Workers : \A k \in 1 .. Len(batch[w]) : batch[w][k] # s

(* No worker is in a call for an entry that is not in a batch.             *)
CallsAreForBatches ==
    \A w \in Workers : cpc[w] # "idle" => batch[w] # <<>> /\ Head(batch[w]) = csig[w]

LEMMA InitCallsAreForBatches == PoolInit => CallsAreForBatches
BY DEF PoolInit, Init, CallsAreForBatches

(* A worker handles its batch in order, and does nothing else while it is  *)
(* in a call (worker.go:105-109, 133).                                     *)
LEMMA StepCallsAreForBatches ==
    ASSUME PoolInv, CallsAreForBatches, [PoolNext]_allVars
    PROVE  CallsAreForBatches'
<1>0. cpc \in [Workers -> {"idle", "setnx", "init", "slide", "incr", "touch", "read", "audit"}]
      /\ csig \in [Workers -> Signals \cup {None}] /\ batch \in [Workers -> Seq(Signals)]
      /\ PoolTypeOK
  BY DEF PoolInv, Own, PoolTypeOK, IInv, TypeOK, CallTypes
<1>1. CASE UNCHANGED <<cpc, csig, batch>>
  BY <1>1 DEF CallsAreForBatches
<1>2. ASSUME NEW w \in Workers, ReadGroup(w) PROVE CallsAreForBatches'
  <2>1. cpc[w] = "idle" /\ UNCHANGED <<cpc, csig>>
        /\ \A v \in Workers : v # w => batch'[v] = batch[v]
    BY <1>0, <1>2 DEF ReadGroup, At, vars, callVars
  <2>2. QED
    BY <2>1 DEF CallsAreForBatches
<1>3. ASSUME NEW w \in Workers, Ack(w) \/ LeavePending(w) PROVE CallsAreForBatches'
  <2>1. cpc[w] = "idle" /\ UNCHANGED <<cpc, csig>> /\ batch[w] # <<>> /\ DropHead(w)
    BY <1>3 DEF Ack, LeavePending, At, vars, callVars
  <2>2. \A v \in Workers : v # w => batch'[v] = batch[v]
    BY <1>0, <2>1 DEF DropHead
  <2>3. QED
    BY <2>1, <2>2 DEF CallsAreForBatches
<1>4. ASSUME NEW w \in Workers, Process(w) PROVE CallsAreForBatches'
  <2>1. /\ batch[w] # <<>> /\ UNCHANGED batch
        /\ cpc' = [cpc EXCEPT ![w] = "setnx"]
        /\ csig' = [csig EXCEPT ![w] = Head(batch[w])]
    BY <1>4 DEF Process, Call, poolVars
  <2>2. QED
    BY <1>0, <2>1 DEF CallsAreForBatches
<1>5. ASSUME NEW w \in Workers, CallStep(w), UNCHANGED poolVars PROVE CallsAreForBatches'
  <2>1. UNCHANGED batch /\ cpc[w] # "idle"
    BY <1>5
       DEF poolVars, CallStep, SetNX, SetNXResent, PipelineResent, InitHash, InitHashResent,
           Slide, Incr, Touch, ReadId, Audit, RedisError, MongoError, At
  <2>2. /\ \A v \in Workers : v # w => cpc'[v] = cpc[v] /\ csig'[v] = csig[v]
        /\ cpc'[w] = "idle" \/ csig'[w] = csig[w]
    BY <1>0, <1>5
       DEF CallStep, SetNX, SetNXResent, PipelineResent, InitHash, InitHashResent, Slide, Incr,
           Touch, ReadId, Audit, RedisError, MongoError, Goto, Return, callVars
  <2>3. QED
    BY <2>1, <2>2 DEF CallsAreForBatches
<1>6. CASE PoolCrash
  <2>1. \A w \in Workers : cpc'[w] = "idle"
    BY <1>6 DEF PoolCrash, Crash
  <2>2. QED
    BY <2>1 DEF CallsAreForBatches
<1>7. QED
  BY <1>1, <1>2, <1>3, <1>4, <1>5, <1>6
     DEF PoolNext, WorkerStep, XAdd, Background, PoolRestart, PoolRedisRestart, Restart,
         RedisRestart, FlushStep, FlushRead, FlushInsert, FlushHot, FlushDel, FlushDelResent,
         Age, CheckLock, Hear, Scan, allVars, poolVars, vars, callVars

(* Only a call under way has no outcome yet.                               *)
BusyIsCalled ==
    \A s \in Signals : fate[s] = "busy" => \E w \in Workers : cpc[w] # "idle" /\ csig[w] = s

LEMMA InitBusyIsCalled == Init => BusyIsCalled
BY DEF Init, BusyIsCalled

(* A call that ends has its outcome, also when the processor ends          *)
(* (debouncer.go:79-148).                                                  *)
LEMMA StepBusyIsCalled ==
    ASSUME TypeOK, CallsInOrder, BusyIsCalled, [Next]_vars
    PROVE  BusyIsCalled'
<1>0. /\ cpc \in [Workers -> {"idle", "setnx", "init", "slide", "incr", "touch", "read", "audit"}]
      /\ csig \in [Workers -> Signals \cup {None}]
      /\ fate \in [Signals -> {"new", "busy", "ok", "failed"}]
  BY DEF TypeOK, CallTypes
<1>1. CASE UNCHANGED callVars
  BY <1>1 DEF BusyIsCalled, callVars
<1>2. ASSUME NEW w \in Workers, NEW t \in Signals, Call(w, t) PROVE BusyIsCalled'
  <2>1. /\ cpc[w] = "idle" /\ cpc' = [cpc EXCEPT ![w] = "setnx"]
        /\ csig' = [csig EXCEPT ![w] = t] /\ fate' = [fate EXCEPT ![t] = "busy"]
    BY <1>2 DEF Call, At
  <2>2. ASSUME NEW s \in Signals, fate'[s] = "busy"
        PROVE  \E v \in Workers : cpc'[v] # "idle" /\ csig'[v] = s
    <3>1. CASE s = t
      BY <1>0, <2>1, <3>1
    <3>2. CASE s # t
      <4>1. PICK v \in Workers : cpc[v] # "idle" /\ csig[v] = s
        BY <1>0, <2>1, <2>2, <3>2 DEF BusyIsCalled
      <4>2. v # w
        BY <2>1, <4>1
      <4>3. QED
        BY <1>0, <2>1, <4>1, <4>2
    <3>3. QED
      BY <3>1, <3>2
  <2>3. QED
    BY <2>2 DEF BusyIsCalled
<1>3. ASSUME NEW w \in Workers, NEW o \in {"ok", "failed"}, cpc[w] # "idle", Return(w, o)
      PROVE  BusyIsCalled'
  <2>1. /\ cpc' = [cpc EXCEPT ![w] = "idle"] /\ csig' = [csig EXCEPT ![w] = None]
        /\ fate' = [fate EXCEPT ![csig[w]] = o] /\ csig[w] \in Signals
    BY <1>3 DEF Return, CallsInOrder
  <2>2. ASSUME NEW s \in Signals, fate'[s] = "busy"
        PROVE  \E v \in Workers : cpc'[v] # "idle" /\ csig'[v] = s
    <3>1. s # csig[w] /\ fate[s] = "busy"
      BY <1>0, <2>1, <2>2
    <3>2. PICK v \in Workers : cpc[v] # "idle" /\ csig[v] = s
      BY <3>1 DEF BusyIsCalled
    <3>3. v # w
      BY <3>1, <3>2
    <3>4. QED
      BY <1>0, <2>1, <3>2, <3>3
  <2>3. QED
    BY <2>2 DEF BusyIsCalled
<1>4. ASSUME NEW w \in Workers, NEW label \in {"init", "slide", "incr", "touch", "read", "audit"},
             cpc' = [cpc EXCEPT ![w] = label], UNCHANGED <<csig, fate>>
      PROVE  BusyIsCalled'
  BY <1>0, <1>4 DEF BusyIsCalled
<1>5. CASE Crash
  BY <1>5 DEF Crash, BusyIsCalled
<1>6. ASSUME NEW w \in Workers, CallStep(w) PROVE BusyIsCalled'
  <2>1. cpc[w] # "idle"
    BY <1>6
       DEF CallStep, SetNX, SetNXResent, PipelineResent, InitHash, InitHashResent, Slide, Incr,
           Touch, ReadId, Audit, RedisError, MongoError, At
  <2>2. \/ Return(w, "ok") \/ Return(w, "failed")
        \/ UNCHANGED callVars
        \/ \E label \in {"init", "slide", "incr", "touch", "read", "audit"} :
              cpc' = [cpc EXCEPT ![w] = label] /\ UNCHANGED <<csig, fate>>
    BY <1>6
       DEF CallStep, SetNX, SetNXResent, PipelineResent, InitHash, InitHashResent, Slide, Incr,
           Touch, ReadId, Audit, RedisError, MongoError, Goto
  <2>3. QED
    BY <1>1, <1>3, <1>4, <2>1, <2>2
<1>7. QED
  BY <1>1, <1>2, <1>5, <1>6
     DEF Next, ServerStep, FlushStep, FlushRead, FlushInsert, FlushHot, FlushDel,
         FlushDelResent, Age, CheckLock, Hear, Scan, Restart, RedisRestart, vars

(* What has been left is in no call.                                       *)
LEMMA LeftIsNotCalled ==
    ASSUME PoolInv, CallsAreForBatches, NEW s \in Signals, Left(s),
           NEW w \in Workers, cpc[w] # "idle"
    PROVE  csig[w] # s
<1>1. batch[w] # <<>> /\ Head(batch[w]) = csig[w] /\ batch[w] \in Seq(Signals)
  BY DEF CallsAreForBatches, PoolInv, Own, PoolTypeOK
<1>2. 1 \in 1 .. Len(batch[w]) /\ batch[w][1] = csig[w]
  BY <1>1, EmptySeq, LenProperties
<1>3. QED
  BY <1>2 DEF Left

(* No step changes the outcome of what has been left.                      *)
LEMMA StepLeftFate ==
    ASSUME PoolInv, CallsAreForBatches, BusyIsCalled, [PoolNext]_allVars,
           NEW s \in Signals, Left(s)
    PROVE  fate'[s] = fate[s]
<1>0. /\ batch \in [Workers -> Seq(Signals)]
      /\ fate \in [Signals -> {"new", "busy", "ok", "failed"}]
      /\ CallsInOrder /\ fate[s] # "busy"
  BY LeftIsNotCalled DEF PoolInv, Own, PoolTypeOK, IInv, TypeOK, CallTypes, BusyIsCalled
<1>1. ASSUME NEW w \in Workers, Process(w) PROVE fate'[s] = fate[s]
  <2>1. batch[w] # <<>> /\ batch[w] \in Seq(Signals) /\ Call(w, Head(batch[w]))
    BY <1>0, <1>1 DEF Process
  <2>2. 1 \in 1 .. Len(batch[w]) /\ batch[w][1] = Head(batch[w])
    BY <2>1, EmptySeq, LenProperties
  <2>3. Head(batch[w]) # s
    BY <2>2 DEF Left
  <2>4. QED
    BY <1>0, <2>1, <2>3 DEF Call
<1>2. ASSUME NEW w \in Workers, CallStep(w) PROVE fate'[s] = fate[s]
  <2>1. cpc[w] # "idle"
    BY <1>2
       DEF CallStep, SetNX, SetNXResent, PipelineResent, InitHash, InitHashResent, Slide, Incr,
           Touch, ReadId, Audit, RedisError, MongoError, At
  <2>2. UNCHANGED fate \/ Return(w, "ok") \/ Return(w, "failed")
    BY <1>2
       DEF CallStep, SetNX, SetNXResent, PipelineResent, InitHash, InitHashResent, Slide, Incr,
           Touch, ReadId, Audit, RedisError, MongoError, Goto, callVars
  <2>3. csig[w] # s
    BY <2>1, LeftIsNotCalled
  <2>4. QED
    BY <1>0, <2>2, <2>3 DEF Return
<1>3. CASE Crash
  BY <1>0, <1>3 DEF Crash
<1>4. CASE UNCHANGED fate
  BY <1>4
<1>5. QED
  BY <1>1, <1>2, <1>3, <1>4
     DEF PoolNext, WorkerStep, XAdd, ReadGroup, Ack, LeavePending, Background, PoolCrash,
         PoolRestart, PoolRedisRestart, Restart, RedisRestart, FlushStep, FlushRead,
         FlushInsert, FlushHot, FlushDel, FlushDelResent, Age, CheckLock, Hear, Scan, allVars,
         vars, callVars

(* No step takes up again what has been left.                              *)
LEMMA StepLeft ==
    ASSUME PoolInv, [PoolNext]_allVars, NEW s \in Signals, Left(s)
    PROVE  Left(s)'
<1>0. /\ PoolTypeOK /\ stream \in Seq(Signals) /\ last \in 0 .. Len(stream)
      /\ batch \in [Workers -> Seq(Signals)] /\ s \in arrived /\ s \notin acked
  BY DEF PoolInv, Own, PoolTypeOK, Left
<1>1. CASE UNCHANGED poolVars
  BY <1>1 DEF Left, poolVars
<1>2. ASSUME NEW r \in Signals, XAdd(r) PROVE Left(s)'
  <2>1. /\ Len(stream') = Len(stream) + 1 /\ r # s
        /\ \A i \in 1 .. Len(stream) : stream'[i] = stream[i]
        /\ stream'[Len(stream) + 1] = r
        /\ Len(stream) \in Nat /\ last \in Nat
    BY <1>0, <1>2, AppendProperties DEF XAdd
  <2>2. arrived' = arrived \cup {r} /\ UNCHANGED <<last, acked, batch>>
    BY <1>2 DEF XAdd
  <2>3. ASSUME NEW i \in last + 1 .. Len(stream') PROVE stream'[i] # s
    <3>1. CASE i = Len(stream) + 1
      BY <2>1, <3>1
    <3>2. CASE i # Len(stream) + 1
      <4>1. i \in 1 .. Len(stream) /\ i \in last + 1 .. Len(stream)
        BY <2>1, <3>2
      <4>2. QED
        BY <2>1, <4>1 DEF Left
    <3>3. QED
      BY <3>1, <3>2
  <2>4. QED
    BY <2>2, <2>3 DEF Left
<1>3. ASSUME NEW w \in Workers, ReadGroup(w) PROVE Left(s)'
  <2>1. PICK end \in last + 1 .. Len(stream), new \in Seq(Signals) :
          /\ last' = end
          /\ Len(new) = end - last
          /\ \A i \in 1 .. Len(new) : new[i] = stream[last + i]
          /\ batch' \in {batch, [batch EXCEPT ![w] = new]}
          /\ UNCHANGED <<stream, arrived, acked>>
    BY <1>0, <1>3, ReadTakes
  <2>2. last \in Nat /\ end \in Nat /\ Len(stream) \in Nat /\ last < end /\ end <= Len(stream)
        /\ Len(new) = end - last
    <3>1. Len(stream) \in Nat
      BY <1>0, LenProperties
    <3>2. QED
      BY <1>0, <2>1, <3>1
  <2>3. \A i \in end + 1 .. Len(stream) : stream[i] # s
    <3>1. \A i \in end + 1 .. Len(stream) : i \in last + 1 .. Len(stream)
      BY <2>2
    <3>2. QED
      BY <3>1 DEF Left
  <2>4. \A i \in 1 .. Len(new) : new[i] # s
    <3>1. \A i \in 1 .. Len(new) : last + i \in last + 1 .. Len(stream)
      BY <2>2
    <3>2. QED
      BY <2>1, <3>1 DEF Left
  <2>5. ASSUME NEW v \in Workers, NEW k \in 1 .. Len(batch'[v]) PROVE batch'[v][k] # s
    <3>1. batch'[v] = batch[v] \/ batch'[v] = new
      BY <1>0, <2>1
    <3>2. QED
      BY <2>4, <3>1 DEF Left
  <2>6. QED
    BY <1>0, <2>1, <2>3, <2>5 DEF Left
<1>4. ASSUME NEW w \in Workers, Ack(w) \/ LeavePending(w) PROVE Left(s)'
  <2>1. batch[w] # <<>> /\ DropHead(w) /\ batch[w] \in Seq(Signals)
    BY <1>0, <1>4 DEF Ack, LeavePending
  <2>2. /\ \A v \in Workers : v # w => batch'[v] = batch[v]
        /\ Len(batch'[w]) = Len(batch[w]) - 1
        /\ \A k \in 1 .. Len(batch'[w]) : batch'[w][k] = batch[w][k + 1]
    BY <1>0, <2>1, DropTakes
  <2>3. Len(batch[w]) \in Nat /\ \A k \in 1 .. Len(batch'[w]) : k + 1 \in 1 .. Len(batch[w])
    BY <2>1, <2>2, LenProperties
  <2>4. Head(batch[w]) # s
    <3>1. 1 \in 1 .. Len(batch[w]) /\ batch[w][1] = Head(batch[w])
      BY <2>1, EmptySeq, LenProperties
    <3>2. QED
      BY <3>1 DEF Left
  <2>5. UNCHANGED <<stream, arrived, last>> /\ s \notin acked'
    BY <1>0, <1>4, <2>4 DEF Ack, LeavePending
  <2>6. \A v \in Workers : \A k \in 1 .. Len(batch'[v]) : batch'[v][k] # s
    BY <2>2, <2>3 DEF Left
  <2>7. QED
    BY <1>0, <2>5, <2>6 DEF Left
<1>5. CASE PoolCrash
  <2>1. UNCHANGED <<stream, arrived, last, acked>> /\ \A w \in Workers : Len(batch'[w]) = 0
    BY <1>5, EmptySeq DEF PoolCrash
  <2>2. QED
    BY <2>1 DEF Left
<1>6. CASE PoolRestart
  BY <1>6 DEF PoolRestart, Left, PoolInv, Own, StreamInOrder
<1>7. CASE PoolRedisRestart
  <2>1. UNCHANGED <<arrived, acked, batch>> /\ stream' = <<>> /\ Len(stream') = 0 /\ last' = 0
    BY <1>7, EmptySeq DEF PoolRedisRestart
  <2>2. QED
    BY <2>1 DEF Left
<1>8. QED
  BY <1>1, <1>2, <1>3, <1>4, <1>5, <1>6, <1>7
     DEF PoolNext, WorkerStep, Process, Background, allVars

(* What a worker has left unacknowledged is never read, called or          *)
(* acknowledged again, whatever the workers, a restart of the processor or *)
(* one of Redis do, and the outcome of its call stays what it was: the     *)
(* pending entries list is written and never claimed, so that each         *)
(* violation of PendingIsRetried is for good (worker.go:84-97, 133-140).   *)
THEOREM LeftIsNeverRetried ==
    ASSUME NEW s \in Signals, NEW CONSTANT outcome
    PROVE  PoolSpec => [](Left(s) /\ fate[s] = outcome => [](Left(s) /\ fate[s] = outcome))
<1>1. PoolInit => CallsAreForBatches /\ BusyIsCalled
  BY InitCallsAreForBatches, InitBusyIsCalled DEF PoolInit
<1>2. PoolInv /\ CallsAreForBatches /\ BusyIsCalled /\ [PoolNext]_allVars
        => (CallsAreForBatches /\ BusyIsCalled)'
  <2> SUFFICES ASSUME PoolInv, CallsAreForBatches, BusyIsCalled, [PoolNext]_allVars
               PROVE  (CallsAreForBatches /\ BusyIsCalled)'
    OBVIOUS
  <2>1. TypeOK /\ CallsInOrder /\ [Next]_vars
    BY PoolStepIsStep DEF PoolInv, IInv, Own
  <2>2. QED
    BY <2>1, StepCallsAreForBatches, StepBusyIsCalled
<1>3. PoolInv /\ CallsAreForBatches /\ BusyIsCalled /\ [PoolNext]_allVars
        /\ Left(s) /\ fate[s] = outcome
        => (Left(s) /\ fate[s] = outcome)'
  <2> SUFFICES ASSUME PoolInv, CallsAreForBatches, BusyIsCalled, [PoolNext]_allVars,
                      Left(s), fate[s] = outcome
               PROVE  (Left(s) /\ fate[s] = outcome)'
    OBVIOUS
  <2>1. Left(s)' /\ fate'[s] = fate[s]
    BY StepLeft, StepLeftFate
  <2>2. QED
    BY <2>1
<1>4. QED
  BY <1>1, <1>2, <1>3, PoolInductiveInvariant, PTL DEF PoolSpec

(* An entry leaves the group's list of pending entries by its own XACK or  *)
(* with Redis.                                                             *)
PendingIsKept ==
    [][\A s \in Signals : s \in pel /\ s \notin pel' => s \in acked' \/ RedisRestart]_allVars

(* Nothing that is pending is lost to the operator who looks at            *)
(* GetPendingCount: a failed call, a lost answer, a crash and a restart of *)
(* the processor leave the list alone (worker.go:44-54, 133-140, 157-163). *)
THEOREM PendingStaysListed == PoolSpec => PendingIsKept
<1>1. [PoolNext]_allVars
        => [\A s \in Signals : s \in pel /\ s \notin pel' => s \in acked' \/ RedisRestart]_allVars
  <2> SUFFICES ASSUME [PoolNext]_allVars, NEW s \in Signals, s \in pel, s \notin pel', ~RedisRestart
               PROVE  s \in acked'
    OBVIOUS
  <2>1. PICK w \in Workers : Ack(w)
    BY DEF PoolNext, WorkerStep, XAdd, ReadGroup, Process, LeavePending, Background,
           PoolCrash, PoolRestart, PoolRedisRestart, allVars, poolVars
  <2>2. pel' = pel \ {Head(batch[w])} /\ acked' = acked \cup (pel \cap {Head(batch[w])})
    BY <2>1 DEF Ack
  <2>3. QED
    BY <2>2
<1>2. QED
  BY <1>1, PTL DEF PoolSpec, PendingIsKept

(* An acknowledged signal keeps its audit: the group has forgotten the     *)
(* entry, and MongoDB has the signal for good (worker.go:133-139,          *)
(* debouncer.go:126-148).                                                  *)
THEOREM AcknowledgedForGood ==
    ASSUME NEW s \in Signals
    PROVE  PoolSpec => [](s \in acked \ Malformed
                            => [](s \in acked /\ \E a \in audits : a.sig = s))
<1>1. [PoolNext]_allVars /\ s \in acked \ Malformed => (s \in acked \ Malformed)'
  <2> SUFFICES ASSUME [PoolNext]_allVars, s \in acked PROVE s \in acked'
    OBVIOUS
  <2>1. QED
    BY DEF PoolNext, WorkerStep, XAdd, ReadGroup, Process, Ack, LeavePending, Background,
           PoolCrash, PoolRestart, PoolRedisRestart, allVars, poolVars
<1>2. AckedIsAudited /\ s \in acked \ Malformed => s \in acked /\ \E a \in audits : a.sig = s
  BY DEF AckedIsAudited
<1>3. QED
  BY <1>1, <1>2, AcknowledgedIsAudited, PTL DEF PoolSpec
=============================================================================
