------------------------------ MODULE Ingestion ------------------------------
(***************************************************************************)
(* The way in: concurrent POST /api/v1/signals handlers, the token bucket, *)
(* the Go channel between the handlers and Redis, the goroutines that      *)
(* drain it into the stream, and the throughput reporter                   *)
(* (backend/internal/api/handlers/ingestion.go, internal/redis/stream.go,  *)
(* internal/observability/metrics.go).                                     *)
(***************************************************************************)
EXTENDS Naturals, Sequences, FiniteSets

CONSTANTS
    Signals,        \* the signals clients send; one sent again counts anew
    Batches,        \* the bodies they send them in
    Handlers,       \* the requests in progress at a time
    StreamWorkers,  \* the number of goroutines of StreamBuffer (4 in the code)
    Capacity,       \* bufferSize (50 000 in the code)
    Burst,          \* RATE_BURST
    MaxGranted,     \* time gives no more tokens than these, all in all (bound)
    FaultKinds,     \* the faults that may happen: "redis", "resend", "api"
    MaxFaults       \* how many of them in one behaviour

ASSUME BatchesAreOfSignals == Batches \subseteq Seq(Signals)
(* Two signals of a body are two, however alike their payloads are. *)
ASSUME NamedOnce == \A b \in Batches : \A i, j \in 1 .. Len(b) : b[i] = b[j] => i = j
ASSUME SetsAreFinite == IsFiniteSet(Signals) /\ IsFiniteSet(Handlers)
ASSUME SizesAreNat == {Burst, MaxGranted, MaxFaults} \subseteq Nat
ASSUME SizesArePositive == {Capacity, StreamWorkers} \subseteq Nat \ {0}

VARIABLES
    up,        \* the API process runs
    tokens,    \* what the limiter has left
    granted,   \* the tokens it has had in all
    channel,   \* the channel sb.ch
    hands,     \* the signals that stream workers are writing, one each
    stream,    \* the payloads in the stream
    resent,    \* how many of them the Redis client has added twice (history)
    pc,        \* pc[h]: "idle", "limit", "push", "count"
    body,      \* body[h]: the signals of the request
    next,      \* next[h]: the index of the one to push
    count,     \* count[h]: acceptedCount
    fate,      \* fate[s]: what became of s in the API
    answer,    \* answer[s]: the status its client got
    ingested,  \* the counter of Metrics
    reported,  \* the sum of the counts of the ticks so far (history)
    faults

requestVars == <<pc, body, next, count>>
limiterVars == <<tokens, granted>>
bufferVars == <<channel, hands, stream, resent>>
metricVars == <<ingested, reported>>
vars == <<up, requestVars, limiterVars, bufferVars, fate, answer, metricVars, faults>>

Elements(q) == {q[i] : i \in 1 .. Len(q)}

TypeOK ==
    /\ up \in BOOLEAN
    /\ tokens \in 0 .. Burst
    /\ granted \in Nat
    /\ channel \in Seq(Signals)
    /\ Len(channel) <= Capacity
    /\ hands \subseteq Signals
    /\ Cardinality(hands) <= StreamWorkers
    /\ stream \in Seq(Signals)
    /\ resent \in 0 .. faults
    /\ pc \in [Handlers -> {"idle", "limit", "push", "count"}]
    /\ body \in [Handlers -> Seq(Signals)]
    /\ next \in [Handlers -> Nat]
    /\ count \in [Handlers -> Nat]
    /\ fate \in [Signals -> {"new", "arriving", "limited", "dropped", "accepted"}]
    /\ answer \in [Signals -> {"none", "202", "429", "503"}]
    /\ ingested \in Nat
    /\ reported \in Nat
    /\ faults \in 0 .. MaxFaults

Init ==
    /\ up = TRUE
    /\ tokens = Burst
    /\ granted = Burst
    /\ channel = <<>>
    /\ hands = {}
    /\ stream = <<>>
    /\ resent = 0
    /\ pc = [h \in Handlers |-> "idle"]
    /\ body = [h \in Handlers |-> <<>>]
    /\ next = [h \in Handlers |-> 1]
    /\ count = [h \in Handlers |-> 0]
    /\ fate = [s \in Signals |-> "new"]
    /\ answer = [s \in Signals |-> "none"]
    /\ ingested = 0
    /\ reported = 0
    /\ faults = 0

Fault(kind) ==
    /\ kind \in FaultKinds
    /\ faults < MaxFaults
    /\ faults' = faults + 1

-----------------------------------------------------------------------------
(* IngestSignal.  A body that does not parse is answered 400 at once.      *)

(* The fates of a set of signals change together. *)
AllBecome(S, f) == fate' = [s \in Signals |-> IF s \in S THEN f ELSE fate[s]]

Receive(h, b) ==
    /\ up /\ pc[h] = "idle"
    /\ \A s \in Elements(b) : fate[s] = "new"
    /\ AllBecome(Elements(b), "arriving")
    /\ body' = [body EXCEPT ![h] = b]
    /\ pc' = [pc EXCEPT ![h] = "limit"]
    /\ UNCHANGED <<up, next, count, limiterVars, bufferVars, answer, metricVars, faults>>

Answer(h, status) ==
    /\ answer' = [s \in Signals |-> IF s \in Elements(body[h]) THEN status ELSE answer[s]]
    /\ pc' = [pc EXCEPT ![h] = "idle"]
    /\ body' = [body EXCEPT ![h] = <<>>]
    /\ next' = [next EXCEPT ![h] = 1]
    /\ count' = [count EXCEPT ![h] = 0]

(* Bug: one token per request. *)
LimitPerRequest(h) ==
    /\ pc[h] = "limit" /\ tokens >= 1
    /\ tokens' = tokens - 1
    /\ pc' = [pc EXCEPT ![h] = "push"]
    /\ UNCHANGED <<up, body, next, count, granted, bufferVars,
                   fate, answer, metricVars, faults>>

(* AllowN takes a token for every signal of the body, or none at all. *)
Limit(h) ==
    /\ pc[h] = "limit"
    /\ LET n == Len(body[h])
       IN  \/ /\ n <= tokens
              /\ tokens' = tokens - n
              /\ pc' = [pc EXCEPT ![h] = "push"]
              /\ UNCHANGED <<body, next, count, fate, answer>>
           \/ /\ n > tokens
              /\ Answer(h, "429")
              /\ AllBecome(Elements(body[h]), "limited")
              /\ UNCHANGED tokens
    /\ UNCHANGED <<up, granted, bufferVars, metricVars, faults>>

(* The signal that handler h pushes next. *)
Current(h) == body[h][next[h]]

Accepted(h) ==
    /\ fate' = [fate EXCEPT ![Current(h)] = "accepted"]
    /\ count' = [count EXCEPT ![h] = @ + 1]
    /\ pc' = [pc EXCEPT ![h] = "count"]
    /\ UNCHANGED next

(* Bug: the channel is a slice without a limit. *)
PushUnbounded(h) ==
    /\ pc[h] = "push" /\ next[h] <= Len(body[h])
    /\ channel' = Append(channel, Current(h))
    /\ Accepted(h)
    /\ UNCHANGED <<up, body, limiterVars, hands, stream, resent, answer, metricVars, faults>>

(* Bug: a plain send, which waits for room. *)
PushBlocking(h) ==
    /\ pc[h] = "push" /\ next[h] <= Len(body[h])
    /\ Len(channel) < Capacity
    /\ channel' = Append(channel, Current(h))
    /\ Accepted(h)
    /\ UNCHANGED <<up, body, limiterVars, hands, stream, resent, answer, metricVars, faults>>

(* Bug: a full channel makes room by dropping its oldest signal. *)
PushDropOldest(h) ==
    /\ pc[h] = "push" /\ next[h] <= Len(body[h])
    /\ channel' = Append(IF Len(channel) < Capacity THEN channel ELSE Tail(channel),
                         Current(h))
    /\ Accepted(h)
    /\ UNCHANGED <<up, body, limiterVars, hands, stream, resent, answer, metricVars, faults>>

(* Push: a send that gives up when the channel is full. *)
Push(h) ==
    /\ pc[h] = "push" /\ next[h] <= Len(body[h])
    /\ \/ /\ Len(channel) < Capacity
          /\ channel' = Append(channel, Current(h))
          /\ Accepted(h)
       \/ /\ Len(channel) = Capacity
          /\ fate' = [fate EXCEPT ![Current(h)] = "dropped"]
          /\ next' = [next EXCEPT ![h] = @ + 1]
          /\ UNCHANGED <<channel, count, pc>>
    /\ UNCHANGED <<up, body, limiterVars, hands, stream, resent, answer, metricVars, faults>>

(* IncrementIngested, an atomic add of its own. *)
IncrementIngested(h) ==
    /\ pc[h] = "count"
    /\ ingested' = ingested + 1
    /\ next' = [next EXCEPT ![h] = @ + 1]
    /\ pc' = [pc EXCEPT ![h] = "push"]
    /\ UNCHANGED <<up, body, count, limiterVars, bufferVars, fate, answer, reported, faults>>

(* Bug: 202 only if everything was pushed. *)
ReplyIfAll(h) ==
    /\ pc[h] = "push" /\ next[h] > Len(body[h])
    /\ Answer(h, IF count[h] < Len(body[h]) THEN "503" ELSE "202")
    /\ UNCHANGED <<up, limiterVars, bufferVars, fate, metricVars, faults>>

(* 503 if nothing was pushed, an empty array included, otherwise 202. *)
Reply(h) ==
    /\ pc[h] = "push" /\ next[h] > Len(body[h])
    /\ Answer(h, IF count[h] = 0 THEN "503" ELSE "202")
    /\ UNCHANGED <<up, limiterVars, bufferVars, fate, metricVars, faults>>

Refill ==
    /\ up /\ tokens < Burst /\ granted < MaxGranted
    /\ tokens' = tokens + 1
    /\ granted' = granted + 1
    /\ UNCHANGED <<up, requestVars, bufferVars, fate, answer, metricVars, faults>>

-----------------------------------------------------------------------------
(* StreamBuffer.worker.                                                    *)

(* Bug: a worker looks at the oldest signal and removes it later. *)
TakeShared ==
    /\ Cardinality(hands) < StreamWorkers /\ channel # <<>>
    /\ hands' = hands \cup {Head(channel)}
    /\ channel' = IF Head(channel) \in hands THEN Tail(channel) ELSE channel
    /\ UNCHANGED <<up, requestVars, limiterVars, stream, resent, fate, answer, metricVars, faults>>

Take ==
    /\ Cardinality(hands) < StreamWorkers /\ channel # <<>>
    /\ hands' = hands \cup {Head(channel)}
    /\ channel' = Tail(channel)
    /\ UNCHANGED <<up, requestVars, limiterVars, stream, resent, fate, answer, metricVars, faults>>

(* XADD; an error, after which the entry may be there or not, is logged.   *)
(* The Redis client sends a command again when its answer does not come:   *)
(* an XADD that was executed before adds a second entry.                   *)
Write(s) ==
    /\ s \in hands
    /\ \/ /\ stream' = Append(stream, s)
          /\ UNCHANGED <<resent, faults>>
       \/ /\ Fault("redis")
          /\ stream' \in {stream, Append(stream, s)}
          /\ UNCHANGED resent
       \/ /\ Fault("resend")
          /\ stream' = stream \o <<s, s>>
          /\ resent' = resent + 1
    /\ hands' = hands \ {s}
    /\ UNCHANGED <<up, requestVars, limiterVars, channel, fate, answer, metricVars>>

-----------------------------------------------------------------------------
(* Metrics.reportLoop.                                                     *)

(* Bug: the counter is read and not reset. *)
SwapKeeps ==
    /\ ingested > 0
    /\ reported' = reported + ingested
    /\ UNCHANGED <<up, requestVars, limiterVars, bufferVars, fate, answer, ingested, faults>>

(* SwapInt64: the count since the last tick, and a new start, in one step. *)
(* What becomes of the rate is in Monitoring.                              *)
Swap ==
    /\ ingested > 0
    /\ ingested' = 0
    /\ reported' = reported + ingested
    /\ UNCHANGED <<up, requestVars, limiterVars, bufferVars, fate, answer, faults>>

-----------------------------------------------------------------------------
(* The API process ends.  On SIGTERM the handlers may finish first, but    *)
(* nobody waits for the channel to be drained.                             *)
ApiEnds ==
    /\ up /\ Fault("api")
    /\ up' = FALSE
    /\ channel' = <<>>
    /\ hands' = {}
    /\ pc' = [h \in Handlers |-> "idle"]
    /\ body' = [h \in Handlers |-> <<>>]
    /\ next' = [h \in Handlers |-> 1]
    /\ count' = [h \in Handlers |-> 0]
    /\ ingested' = 0
    /\ fate' = [s \in Signals |->
                  IF fate[s] # "arriving" THEN fate[s]
                  ELSE IF \E h \in Handlers : pc[h] = "limit" /\ s \in Elements(body[h])
                  THEN "limited" ELSE "dropped"]
    /\ UNCHANGED <<limiterVars, stream, resent, answer, reported>>

(* It starts again, with a full limiter. *)
ApiStarts ==
    /\ ~up
    /\ up' = TRUE
    /\ tokens' = Burst
    /\ granted' = granted + (Burst - tokens)
    /\ UNCHANGED <<requestVars, bufferVars, fate, answer, metricVars, faults>>

HandlerStep(h) == Limit(h) \/ Push(h) \/ IncrementIngested(h) \/ Reply(h)

WriterStep == Take \/ \E s \in Signals : Write(s)

Next ==
    \/ \E h \in Handlers : HandlerStep(h) \/ \E b \in Batches : Receive(h, b)
    \/ WriterStep \/ Refill \/ Swap \/ ApiEnds \/ ApiStarts

Spec == Init /\ [][Next]_vars

-----------------------------------------------------------------------------
(* Properties.                                                             *)

Buffered == Elements(channel) \cup hands

(* Nothing that was accepted is thrown away while it waits, and nothing    *)
(* else gets into the stream: without an error of XADD and while the API   *)
(* runs, the accepted signals are those in the channel, in a writer's hand *)
(* or in the stream (stream.go:44-76).                                     *)
AcceptedIsKept ==
    /\ Buffered \cup Elements(stream) \subseteq {s \in Signals : fate[s] = "accepted"}
    /\ faults = 0 => \A s \in Signals :
          fate[s] = "accepted" => s \in Buffered \cup Elements(stream)

(* Every signal is written at most once, whatever fails, unless the Redis  *)
(* client sends an XADD again: the concurrent writers share no signal and  *)
(* repeat none (stream.go:55-76, client.go:20).                            *)
WrittenOnce ==
    /\ Len(stream) = Cardinality(Elements(stream)) + resent
    /\ Buffered \cap Elements(stream) = {}

(* The limiter counts signals, not requests: those that got past it never  *)
(* outnumber the tokens it has had (ingestion.go:46).                      *)
LimitIsPerSignal ==
    LET past == {s \in Signals :
                   \/ fate[s] \in {"dropped", "accepted"}
                   \/ \E h \in Handlers : pc[h] \in {"push", "count"} /\ s \in Elements(body[h])}
    IN  Cardinality(past) + tokens <= granted

(* A client told 429 or 503 may send the same signals again: not one of    *)
(* them was accepted (ingestion.go:46-71).                                 *)
RefusedIsRetriable ==
    \A s \in Signals : answer[s] \in {"429", "503"} => fate[s] # "accepted"

(* The throughput adds up: every accepted signal is reported in exactly    *)
(* one tick, or is in the counter, or its handler is about to add it; the  *)
(* end of the API may lose it, and nothing counts it twice                 *)
(* (ingestion.go:57-61, metrics.go:31-51).                                 *)
ThroughputAddsUp ==
    LET accepted == Cardinality({s \in Signals : fate[s] = "accepted"})
        counted  == reported + ingested + Cardinality({h \in Handlers : pc[h] = "count"})
    IN  counted <= accepted /\ (faults = 0 => counted = accepted)
=============================================================================
