----------------------------- MODULE WorkerPool -----------------------------
(***************************************************************************)
(* The consumer side of backend/internal/processor/worker.go: the Redis    *)
(* stream with its consumer group, and the worker goroutines that read it, *)
(* call the debouncer and acknowledge.                                     *)
(*                                                                         *)
(* It extends Debouncer: a worker's call of ProcessSignal is Debouncer's   *)
(* Call, made for the first entry of the batch the worker holds, and every *)
(* step of Debouncer is a step here.  An entry is named by its signal.     *)
(***************************************************************************)
EXTENDS Debouncer

CONSTANTS
    Malformed,    \* entries without a payload, or with one that does not parse
    Count,        \* entries asked for per XREADGROUP (10 in the code)
    MaxLost       \* how many answers to XREADGROUP or XACK may be lost

ASSUME MalformedAreSignals == Malformed \subseteq Signals
ASSUME CountIsPositive == Count \in Nat \ {0}
ASSUME LossIsBounded == MaxLost \in Nat

VARIABLES
    stream,   \* the entries of the stream, oldest first
    arrived,  \* the entries ever added (history)
    group,    \* does the consumer group exist?
    last,     \* the group's last delivered position in the stream
    pel,      \* the group's pending entries list
    acked,    \* the entries an XACK took off the list (history)
    batch,    \* batch[w]: the entries of its last read worker w has still to handle
    lost      \* the number of answers lost so far

poolVars == <<stream, arrived, group, last, pel, acked, batch, lost>>
allVars == <<vars, poolVars>>

Entries(q) == {q[i] : i \in 1 .. Len(q)}

PoolTypeOK ==
    /\ TypeOK
    /\ stream \in Seq(Signals)
    /\ arrived \subseteq Signals
    /\ group \in BOOLEAN
    /\ last \in 0 .. Len(stream)
    /\ pel \subseteq Signals
    /\ acked \subseteq Signals
    /\ batch \in [Workers -> Seq(Signals)]
    /\ lost \in 0 .. MaxLost

(* NewWorkerPool has created the group, at "0". *)
PoolInit ==
    /\ Init
    /\ stream = <<>>
    /\ arrived = {}
    /\ group = TRUE
    /\ last = 0
    /\ pel = {}
    /\ acked = {}
    /\ batch = [w \in Workers |-> <<>>]
    /\ lost = 0

AnswerLost ==
    /\ lost < MaxLost
    /\ lost' = lost + 1

-----------------------------------------------------------------------------
(* A stream worker of the API writes an entry; XADD creates the stream if  *)
(* it is not there, but never a group.                                     *)
XAdd(s) ==
    /\ s \notin arrived
    /\ arrived' = arrived \cup {s}
    /\ stream' = Append(stream, s)
    /\ UNCHANGED <<group, last, pel, acked, batch, lost, vars>>

(* Bug: the read claims Count entries, however few there are. *)
ReadGroupPastEnd(w) ==
    /\ At(w, "idle") /\ batch[w] = <<>>
    /\ group /\ last < Len(stream)
    /\ last' = last + Count
    /\ LET new == SelectSeq(stream, LAMBDA s : s \notin pel \cup acked)
       IN  pel' = pel \cup Entries(new) /\ batch' = [batch EXCEPT ![w] = new]
    /\ UNCHANGED <<stream, arrived, group, acked, lost, vars>>

(* Bug: a plain XREAD from the group's position, which does not move it. *)
ReadGroupAgain(w) ==
    LET end == IF Len(stream) < last + Count THEN Len(stream) ELSE last + Count
        new == SubSeq(stream, last + 1, end)
    IN  /\ At(w, "idle") /\ batch[w] = <<>>
        /\ group /\ last < Len(stream)
        /\ pel' = pel \cup Entries(new)
        /\ batch' = [batch EXCEPT ![w] = new]
        /\ UNCHANGED <<stream, arrived, group, last, acked, lost, vars>>

(* Bug: NOACK, the read does not make the entries pending. *)
ReadGroupNoAck(w) ==
    LET end == IF Len(stream) < last + Count THEN Len(stream) ELSE last + Count
    IN  /\ At(w, "idle") /\ batch[w] = <<>>
        /\ group /\ last < Len(stream)
        /\ last' = end
        /\ \/ batch' = [batch EXCEPT ![w] = SubSeq(stream, last + 1, end)] /\ UNCHANGED lost
           \/ AnswerLost /\ UNCHANGED batch
        /\ UNCHANGED <<stream, arrived, group, pel, acked, vars>>

(* XREADGROUP ">": the next entries become pending and the reader's.  When *)
(* the answer is lost they are pending all the same.  With no group, or    *)
(* nothing new, the worker just loops.                                     *)
ReadGroup(w) ==
    LET end == IF Len(stream) < last + Count THEN Len(stream) ELSE last + Count
        new == SubSeq(stream, last + 1, end)
    IN  /\ At(w, "idle") /\ batch[w] = <<>>
        /\ group /\ last < Len(stream)
        /\ last' = end
        /\ pel' = pel \cup Entries(new)
        /\ \/ batch' = [batch EXCEPT ![w] = new] /\ UNCHANGED lost
           \/ AnswerLost /\ UNCHANGED batch
        /\ UNCHANGED <<stream, arrived, group, acked, vars>>

(* processMessage, first half: an entry that parses goes to ProcessSignal. *)
Process(w) ==
    /\ batch[w] # <<>>
    /\ Head(batch[w]) \notin Malformed
    /\ Call(w, Head(batch[w]))
    /\ UNCHANGED poolVars

DropHead(w) == batch' = [batch EXCEPT ![w] = Tail(@)]

(* Bug: XACK whatever ProcessSignal returned. *)
AckAlways(w) ==
    /\ At(w, "idle") /\ batch[w] # <<>>
    /\ LET s == Head(batch[w])
       IN  /\ s \in Malformed \/ fate[s] \in {"ok", "failed"}
           /\ \/ /\ pel' = pel \ {s}
                 /\ acked' = acked \cup (pel \cap {s})
                 /\ UNCHANGED lost
              \/ /\ AnswerLost
                 /\ UNCHANGED <<pel, acked>>
    /\ DropHead(w)
    /\ UNCHANGED <<stream, arrived, group, last, vars>>

(* XACK, of a malformed entry or after ProcessSignal returned nil.  Its    *)
(* error is only logged; without a group it acknowledges nothing.          *)
Ack(w) ==
    /\ At(w, "idle") /\ batch[w] # <<>>
    /\ LET s == Head(batch[w])
       IN  /\ s \in Malformed \/ fate[s] = "ok"
           /\ \/ /\ pel' = pel \ {s}
                 /\ acked' = acked \cup (pel \cap {s})
                 /\ UNCHANGED lost
              \/ /\ AnswerLost
                 /\ UNCHANGED <<pel, acked>>
    /\ DropHead(w)
    /\ UNCHANGED <<stream, arrived, group, last, vars>>

(* ProcessSignal returned an error: no XACK, on to the next entry. *)
LeavePending(w) ==
    /\ At(w, "idle") /\ batch[w] # <<>>
    /\ fate[Head(batch[w])] = "failed"
    /\ DropHead(w)
    /\ UNCHANGED <<stream, arrived, group, last, pel, acked, lost, vars>>

-----------------------------------------------------------------------------
(* The batches are in the processor's memory; stream and group in Redis's. *)
PoolCrash ==
    /\ Crash
    /\ batch' = [w \in Workers |-> <<>>]
    /\ UNCHANGED <<stream, arrived, group, last, pel, acked, lost>>

(* Bug: the group is created at "$", the end of the stream. *)
PoolRestartAtEnd ==
    /\ Restart
    /\ group' = TRUE
    /\ last' = IF group THEN last ELSE Len(stream)
    /\ UNCHANGED <<stream, arrived, pel, acked, batch, lost>>

(* XGROUP CREATE ... "0" MKSTREAM: BUSYGROUP if the group is there. *)
PoolRestart ==
    /\ Restart
    /\ group' = TRUE
    /\ last' = IF group THEN last ELSE 0
    /\ UNCHANGED <<stream, arrived, pel, acked, batch, lost>>

PoolRedisRestart ==
    /\ RedisRestart
    /\ stream' = <<>>
    /\ group' = FALSE
    /\ last' = 0
    /\ pel' = {}
    /\ UNCHANGED <<arrived, acked, batch, lost>>

WorkerStep(w) ==
    \/ ReadGroup(w) \/ Process(w) \/ Ack(w) \/ LeavePending(w)
    \/ CallStep(w) /\ UNCHANGED poolVars

(* The steps of the debouncer that the pool does not see. *)
Background ==
    /\ \/ \E f \in Flushers : FlushStep(f)
       \/ \E c \in Components : Age(c) \/ CheckLock(c)
       \/ Hear \/ Scan
    /\ UNCHANGED poolVars

PoolNext ==
    \/ \E s \in Signals : XAdd(s)
    \/ \E w \in Workers : WorkerStep(w)
    \/ Background
    \/ PoolCrash \/ PoolRestart \/ PoolRedisRestart

PoolSpec == PoolInit /\ [][PoolNext]_allVars

(* Every worker goroutine is scheduled, and a dead processor restarted. *)
PoolFairness ==
    /\ \A w \in Workers : WF_allVars(WorkerStep(w))
    /\ WF_allVars(PoolRestart)

FairPoolSpec == PoolSpec /\ PoolFairness

-----------------------------------------------------------------------------
(* Each message is handled by one worker only (worker.go:14-16): no entry  *)
(* is in two batches, or twice in one.                                     *)
OneWorkerPerEntry ==
    \A w, v \in Workers :
        \A i \in 1 .. Len(batch[w]), j \in 1 .. Len(batch[v]) :
            batch[w][i] = batch[v][j] => w = v /\ i = j

(* An entry is acknowledged only after its signal has an audit, unless it  *)
(* is malformed (worker.go:16, 133-139): an acknowledged signal is never   *)
(* lost for the forensic record.                                           *)
AckedIsAudited ==
    \A s \in acked \ Malformed : \E a \in audits : a.sig = s

(* The group forgets nothing it has delivered: whatever the stream holds   *)
(* up to the last delivered position is pending or acknowledged, so        *)
(* GetPendingCount (worker.go:157-163) accounts for every failure.         *)
DeliveredIsAccounted ==
    \A i \in 1 .. last : stream[i] \in pel \cup acked

(* What the stream holds when the group is there is read by some worker,   *)
(* and the worker gets done with it: a failed call, a lost answer or a     *)
(* malformed entry blocks nobody, and what was written while Redis had     *)
(* lost the group is handled once a restart of the processor creates it    *)
(* again.  Only a restart of Redis can take the entry away                 *)
(* (worker.go:44-54, 74-140).                                              *)
EntriesAreHandled ==
    \A s \in Signals : (group /\ s \in Entries(stream)) ~>
        \/ s \notin Entries(stream)
        \/ s \in pel \cup acked /\ \A w \in Workers : s \notin Entries(batch[w])

(* What worker.go:135 says of a message whose processing failed: it "will  *)
(* be retried via pending entries list".                                   *)
PendingIsRetried ==
    \A s \in Signals : s \in pel ~> s \in acked
=============================================================================
