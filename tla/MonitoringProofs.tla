-------------------------- MODULE MonitoringProofs --------------------------
(***************************************************************************)
(* The types of Monitoring, and the safety halves of its two liveness      *)
(* properties: what a dashboard that shows the truth can be thrown off by. *)
(***************************************************************************)
EXTENDS Monitoring, SequenceTheorems, TLAPS

(* No counter, key or pending list is ahead of the events.                 *)
RatesAreReal ==
    /\ \A m \in Metrics : counter[m] + taken[m] <= counted
    /\ \A m \in DOMAIN metric : metric[m] <= counted
    /\ pending <= counted

(* What is left of a tick: the reporter is between two ticks, or at one of *)
(* these places.                                                           *)
ToSet == <<Set("signals_per_sec")>>
ToSwapWork == <<Swap("work_items_per_sec"), Set("processing_per_sec"), Set("work_items_per_sec")>>
ToSetBoth == <<Set("processing_per_sec"), Set("work_items_per_sec")>>
ToSetWork == <<Set("work_items_per_sec")>>

(* A reporter holds what it has swapped out of a counter only until it has *)
(* come by the SET of its key.                                             *)
ReportsInOrder ==
    /\ agenda["api"] \in {<<>>, ToSet}
    /\ agenda["processor"] \in {<<>>, ToSwapWork, ToSetBoth, ToSetWork}
    /\ taken["signals_per_sec"] > 0 => agenda["api"] = ToSet
    /\ taken["processing_per_sec"] > 0 => agenda["processor"] \in {ToSwapWork, ToSetBoth}
    /\ taken["work_items_per_sec"] > 0 => agenda["processor"] \in {ToSetBoth, ToSetWork}

(* A process that has ended counts and reports nothing.                    *)
EndedIsSilent ==
    \A p \in Processes \ running :
        /\ agenda[p] = <<>>
        /\ \A m \in MetricsOf(p) : counter[m] = 0 /\ taken[m] = 0

(* Only the one who asks has a request under way, and only at a process    *)
(* that runs; a probe has the pings in hand that it has made.              *)
Pinged(s) ==
    \/ s = "redis" /\ probe.pc # "redis"
    \/ s = "mongodb" /\ probe.pc \notin {"redis", "mongodb"}
    \/ s = "postgres" /\ probe.pc \in {"lag", "answer"}

RequestsInOrder ==
    /\ probe # NoProbe => asked \in running
    /\ \A s \in probe.ok : Pinged(s)
    /\ probe.pc = "lag" => asked = "processor"
    /\ request # NoRequest => asked = "vitals" /\ "api" \in running

MonInv ==
    /\ MonTypeOK
    /\ RatesAreReal
    /\ ReportsInOrder
    /\ EndedIsSilent
    /\ RequestsInOrder

Up == {s \in Stores : condition[s] = "up"}

(* The probe under way will tell the truth: it has met no store that hung  *)
(* and what it has found so far is what is there.                          *)
ProbeIsHonest ==
    /\ ~probe.late
    /\ \A s \in Stores : Pinged(s) => (s \in probe.ok <=> s \in Up)

HealthSettled ==
    /\ asked \in running
    /\ \A s \in Stores : condition[s] # "hangs"
    /\ ProbeIsHonest
    /\ health.ok = Up

Lag == IF group THEN pending ELSE -1

(* Nothing is left to report, and nothing but that has been reported.      *)
RatesAreZero ==
    \A m \in {"signals_per_sec", "processing_per_sec"} :
        counter[m] = 0 /\ taken[m] = 0 /\ m \in DOMAIN metric /\ metric[m] = 0

(* What the request has read so far is what there is.                      *)
RequestIsHonest ==
    /\ ~request.late
    /\ request.pc \in {"processing", "lag", "mttr", "cache", "answer"} => request.got.signals = 0
    /\ request.pc \in {"lag", "mttr", "cache", "answer"} => request.got.processing = 0
    /\ request.pc \in {"mttr", "cache", "answer"} => request.got.lag = Lag
    /\ request.pc = "answer" => request.got.cache = "hot"

VitalsSettled ==
    /\ asked = "vitals" /\ running = Processes
    /\ RedisUp /\ condition["postgres"] # "hangs"
    /\ RatesAreZero
    /\ RequestIsHonest
    /\ screen = [signals |-> 0, processing |-> 0, lag |-> Lag, cache |-> "hot"]

-----------------------------------------------------------------------------
(* The reporters.                                                          *)

(* A tick goes through its commands in the order of reportLoop             *)
(* (metrics.go:33-51, processor_metrics.go:40-60).                         *)
LEMMA ApiTick ==
    ASSUME agenda \in [Processes -> Seq({"swap", "set"} \X Metrics)],
           agenda["api"] \in {<<>>, ToSet}, NEW step, NextIs("api", step)
    PROVE  \/ step = Swap("signals_per_sec") /\ agenda["api"] = <<>> /\ agenda'["api"] = ToSet
           \/ step = Set("signals_per_sec") /\ agenda["api"] = ToSet /\ agenda'["api"] = <<>>
<1>1. agenda'["api"] = Tail(Agenda("api")) /\ step = Head(Agenda("api"))
  BY DEF NextIs, Processes
<1>2. CASE agenda["api"] = <<>>
  BY <1>1, <1>2 DEF Agenda, Plan, ToSet
<1>3. CASE agenda["api"] = ToSet
  BY <1>1, <1>3 DEF Agenda, ToSet
<1>4. QED
  BY <1>2, <1>3

LEMMA ProcessorTick ==
    ASSUME agenda \in [Processes -> Seq({"swap", "set"} \X Metrics)],
           agenda["processor"] \in {<<>>, ToSwapWork, ToSetBoth, ToSetWork},
           NEW step, NextIs("processor", step)
    PROVE  \/ /\ step = Swap("processing_per_sec")
              /\ agenda["processor"] = <<>> /\ agenda'["processor"] = ToSwapWork
           \/ /\ step = Swap("work_items_per_sec")
              /\ agenda["processor"] = ToSwapWork /\ agenda'["processor"] = ToSetBoth
           \/ /\ step = Set("processing_per_sec")
              /\ agenda["processor"] = ToSetBoth /\ agenda'["processor"] = ToSetWork
           \/ /\ step = Set("work_items_per_sec")
              /\ agenda["processor"] = ToSetWork /\ agenda'["processor"] = <<>>
<1>1. agenda'["processor"] = Tail(Agenda("processor")) /\ step = Head(Agenda("processor"))
  BY DEF NextIs, Processes
<1>2. CASE agenda["processor"] = <<>>
  BY <1>1, <1>2 DEF Agenda, Plan, ToSwapWork
<1>3. CASE agenda["processor"] = ToSwapWork
  BY <1>1, <1>3 DEF Agenda, ToSwapWork, ToSetBoth
<1>4. CASE agenda["processor"] = ToSetBoth
  BY <1>1, <1>4 DEF Agenda, ToSetBoth, ToSetWork
<1>5. CASE agenda["processor"] = ToSetWork
  BY <1>1, <1>5 DEF Agenda, ToSetWork
<1>6. QED
  BY <1>2, <1>3, <1>4, <1>5

(* The places of a tick differ. *)
LEMMA PlacesDiffer ==
    /\ ToSet # <<>> /\ ToSwapWork # <<>> /\ ToSetBoth # <<>> /\ ToSetWork # <<>>
    /\ ToSwapWork # ToSetBoth /\ ToSwapWork # ToSetWork /\ ToSetBoth # ToSetWork
  BY DEF ToSet, ToSwapWork, ToSetBoth, ToSetWork, Set, Swap

(* What a step of a reporter does to the counts, in its three cases. *)
LEMMA ReportEffect ==
    ASSUME MonTypeOK, ReportsInOrder, NEW p \in Processes, ReportStep(p)
    PROVE  \E m \in MetricsOf(p) :
              /\ p \in running
              /\ \/ /\ taken[m] = 0
                    /\ taken' = [taken EXCEPT ![m] = counter[m]]
                    /\ counter' = [counter EXCEPT ![m] = 0]
                    /\ UNCHANGED metric
                 \/ /\ taken' = [taken EXCEPT ![m] = 0]
                    /\ metric' = Published(m)
                    /\ UNCHANGED counter
                 \/ /\ ~RedisUp
                    /\ taken' = [taken EXCEPT ![m] = 0]
                    /\ UNCHANGED <<metric, counter>>
<1>1. PICK m \in MetricsOf(p) : SwapCounter(p, m) \/ SetMetric(p, m)
  BY DEF ReportStep
<1>2. p \in running
  BY <1>1 DEF SwapCounter, SetMetric, NextIs
<1>3. CASE SetMetric(p, m)
  BY <1>2, <1>3 DEF SetMetric
<1>4. CASE SwapCounter(p, m)
  <2>1. taken[m] \in Nat
    BY BoundsAreNat DEF MonTypeOK, MetricsOf, Metrics
  <2>2. ASSUME taken[m] = 0
        PROVE  \E n \in MetricsOf(p) :
                  /\ p \in running /\ taken[n] = 0
                  /\ taken' = [taken EXCEPT ![n] = counter[n]]
                  /\ counter' = [counter EXCEPT ![n] = 0]
                  /\ UNCHANGED metric
    BY <1>2, <1>4, <2>2 DEF SwapCounter, redisVars
  <2>3. CASE p = "api"
    <3>1. m = "signals_per_sec" /\ agenda["api"] = <<>>
      BY <1>1, <1>4, <2>3, ApiTick
         DEF SwapCounter, MonTypeOK, ReportsInOrder, MetricsOf, Swap, Set
    <3>2. ~(taken[m] > 0)
      BY <3>1, PlacesDiffer DEF ReportsInOrder
    <3>3. QED
      BY <2>1, <2>2, <3>2
  <2>4. CASE p = "processor"
    <3>1. NextIs("processor", Swap(m)) /\ m \in {"processing_per_sec", "work_items_per_sec"}
      BY <1>1, <1>4, <2>4 DEF SwapCounter, MetricsOf, Metrics
    <3>2. \/ m = "processing_per_sec" /\ agenda["processor"] = <<>>
          \/ m = "work_items_per_sec" /\ agenda["processor"] = ToSwapWork
      BY <3>1, ProcessorTick DEF MonTypeOK, ReportsInOrder, Swap, Set
    <3>3. ~(taken[m] > 0)
      BY <3>2, PlacesDiffer DEF ReportsInOrder
    <3>4. QED
      BY <2>1, <2>2, <3>3
  <2>5. QED
    BY <2>3, <2>4 DEF Processes
<1>5. QED
  BY <1>1, <1>3, <1>4

-----------------------------------------------------------------------------
(* The inductive invariant, part by part.                                  *)

(* The initial state. *)
LEMMA InitMonInv == Init => MonInv
<1> SUFFICES ASSUME Init PROVE MonInv
  OBVIOUS
<1>1. /\ NoProbe \in [pc : Stores \cup {"lag", "answer"}, late : BOOLEAN, ok : SUBSET Stores, lag : Lags]
      /\ [ok |-> {}, lag |-> -1] \in [ok : SUBSET Stores, lag : Lags]
      /\ Blank \in Reading
  BY BoundsAreNat DEF NoProbe, Stores, Lags, Blank, Reading
<1>2. NoRequest \in [pc : {"signals", "processing", "lag", "mttr", "cache", "answer"},
                     late : BOOLEAN, got : Reading]
  BY <1>1 DEF NoRequest
<1>3. agenda \in [Processes -> Seq({"swap", "set"} \X Metrics)]
  BY DEF Init
<1>4. condition \in [Stores -> {"up", "refuses", "hangs"}]
  BY DEF Init
<1>5. counter \in [Metrics -> 0 .. MaxCounted] /\ taken \in [Metrics -> 0 .. MaxCounted]
  BY BoundsAreNat DEF Init
<1>6. DOMAIN metric = {}
  BY DEF Init
<1>7. MonTypeOK
  BY <1>1, <1>2, <1>3, <1>4, <1>5, <1>6, BoundsAreNat DEF Init, MonTypeOK
<1>8. RatesAreReal /\ EndedIsSilent
  BY <1>6 DEF Init, RatesAreReal, EndedIsSilent
<1>9. ReportsInOrder
  BY DEF Init, ReportsInOrder, Processes, Metrics
<1>10. RequestsInOrder
  BY DEF Init, RequestsInOrder, Pinged, NoProbe
<1>11. QED
  BY <1>7, <1>8, <1>9, <1>10 DEF MonInv

(* What the health endpoints and the vitals say has its types. *)
LEMMA StepPollTypes ==
    ASSUME MonInv, ProbeStep \/ VitalsStep
    PROVE  /\ probe' \in [pc : Stores \cup {"lag", "answer"}, late : BOOLEAN,
                          ok : SUBSET Stores, lag : Lags]
           /\ health' \in [ok : SUBSET Stores, lag : Lags]
           /\ request' \in [pc : {"signals", "processing", "lag", "mttr", "cache", "answer"},
                            late : BOOLEAN, got : Reading]
           /\ screen' \in Reading
<1>1. MonTypeOK
  BY DEF MonInv
<1>2. \A late \in BOOLEAN : LagRead(late) \in Lags
  BY <1>1, BoundsAreNat DEF MonTypeOK, LagRead, Lags
<1>3. \A m \in Metrics : RateRead(m) \in 0 .. MaxCounted
  BY <1>1, BoundsAreNat DEF MonTypeOK, RateRead
<1>4. -1 \in Lags /\ NoProbe \in [pc : Stores \cup {"lag", "answer"}, late : BOOLEAN,
                                  ok : SUBSET Stores, lag : Lags]
  BY BoundsAreNat DEF NoProbe, Stores, Lags
<1>5. NoRequest \in [pc : {"signals", "processing", "lag", "mttr", "cache", "answer"},
                     late : BOOLEAN, got : Reading]
  BY BoundsAreNat DEF NoRequest, Blank, Reading, Lags
<1>6. CASE ReadLag
  BY <1>1, <1>2, <1>6 DEF ReadLag, MonTypeOK
<1>7. CASE Answer
  BY <1>1, <1>4, <1>7 DEF Answer, Told, MonTypeOK
<1>8. CASE Unanswered
  BY <1>1, <1>4, <1>8 DEF Unanswered, Told, MonTypeOK
<1>9. ASSUME NEW s \in Stores, Ping(s) PROVE probe' \in [pc : Stores \cup {"lag", "answer"},
             late : BOOLEAN, ok : SUBSET Stores, lag : Lags]
  <2>1. AfterPing(s) \in Stores \cup {"lag", "answer"}
    BY DEF AfterPing, Stores
  <2>2. probe.late \in BOOLEAN /\ probe.ok \in SUBSET Stores
    BY <1>1 DEF MonTypeOK
  <2>3. (probe.late \/ condition[s] = "hangs") \in BOOLEAN
    OBVIOUS
  <2>4. (IF condition[s] = "up" /\ ~probe.late THEN probe.ok \cup {s} ELSE probe.ok) \in SUBSET Stores
    BY <2>2
  <2>5. QED
    BY <1>1, <1>9, <2>1, <2>3, <2>4 DEF Ping, MonTypeOK
<1>10. CASE Show
  BY <1>1, <1>5, <1>10 DEF Show, MonTypeOK
<1>11. CASE ReadVitals
  <2>1. \A g \in Reading :
          /\ [g EXCEPT !.signals = RateRead("signals_per_sec")] \in Reading
          /\ [g EXCEPT !.processing = RateRead("processing_per_sec")] \in Reading
          /\ [g EXCEPT !.cache = CacheRead] \in Reading
    BY <1>3 DEF Reading, Metrics, CacheRead
  <2>2. \A g \in Reading : [g EXCEPT !.lag = LagRead(request.late)] \in Reading
    BY <1>1, <1>2 DEF Reading, MonTypeOK
  <2>3. request.got \in Reading /\ request.late \in BOOLEAN
    BY <1>1 DEF MonTypeOK
  <2>4. ASSUME NEW here, NEW next \in {"processing", "lag", "mttr", "cache", "answer"},
               NEW s \in Stores, NEW got \in Reading, ReadNext(here, next, s, got)
        PROVE  /\ request' \in [pc : {"signals", "processing", "lag", "mttr", "cache", "answer"},
                                late : BOOLEAN, got : Reading]
               /\ UNCHANGED <<probe, health, screen>>
    <3>1. PICK late \in {request.late, request.late \/ condition[s] = "hangs"} :
               request' = [pc |-> next, late |-> late, got |-> got]
      BY <2>4 DEF ReadNext
    <3>2. late \in BOOLEAN
      BY <2>3, <3>1
    <3>3. QED
      BY <2>4, <3>1, <3>2 DEF ReadNext
  <2>5. QED
    BY <1>1, <1>11, <2>1, <2>2, <2>3, <2>4 DEF ReadVitals, MonTypeOK, Stores
<1>12. QED
  BY <1>1, <1>6, <1>7, <1>8, <1>9, <1>10, <1>11
     DEF ProbeStep, VitalsStep, Ping, ReadLag, Answer, Unanswered, Told, MonTypeOK, ReadVitals, Show

(* No step puts a counter, a key or the pending list ahead of the events   *)
(* (metrics.go:22-51, processor_metrics.go:28-60, worker.go:78-151).       *)
LEMMA StepRates == MonInv /\ [Next]_vars => RatesAreReal' /\ counted' \in 0 .. MaxCounted
<1> SUFFICES ASSUME MonInv, [Next]_vars PROVE RatesAreReal' /\ counted' \in 0 .. MaxCounted
  OBVIOUS
<1>1. /\ MonTypeOK /\ RatesAreReal /\ ReportsInOrder
      /\ MaxCounted \in Nat /\ counted \in 0 .. MaxCounted
      /\ \A m \in Metrics : counter[m] \in Nat /\ taken[m] \in Nat /\ counter[m] + taken[m] <= counted
      /\ \A m \in DOMAIN metric : m \in Metrics /\ metric[m] \in Nat /\ metric[m] <= counted
  BY BoundsAreNat DEF MonInv, MonTypeOK, RatesAreReal
<1>2. ASSUME NEW m \in Metrics, Increment(m) PROVE RatesAreReal' /\ counted' \in 0 .. MaxCounted
  <2>1. /\ counted' = counted + 1 /\ counted < MaxCounted
        /\ counter' = [counter EXCEPT ![m] = @ + 1] /\ UNCHANGED <<taken, metric, pending>>
    BY <1>2 DEF Increment, Event, redisVars
  <2>2. PICK n \in Nat : n = counted' /\ n = counted + 1
    BY <1>1, <2>1
  <2>3. \A k \in Metrics : counter'[k] + taken[k] <= n
    BY <1>1, <2>1, <2>2 DEF MonTypeOK
  <2>4. (\A k \in DOMAIN metric : metric[k] <= n) /\ pending <= n
    BY <1>1, <2>2, BoundsAreNat DEF RatesAreReal, MonTypeOK
  <2>5. QED
    BY <1>1, <2>1, <2>2, <2>3, <2>4 DEF RatesAreReal
<1>3. CASE Deliver
  <2>1. /\ counted' = counted + 1 /\ counted < MaxCounted /\ pending' = pending + 1
        /\ UNCHANGED <<counter, taken, metric>>
    BY <1>3 DEF Deliver, Event, reporterVars
  <2>2. PICK n \in Nat : n = counted' /\ n = counted + 1
    BY <1>1, <2>1
  <2>3. pending \in Nat /\ pending <= counted
    BY <1>1 DEF RatesAreReal, MonTypeOK
  <2>4. \A m \in Metrics : counter[m] + taken[m] <= n
    BY <1>1, <2>2
  <2>5. \A m \in DOMAIN metric : metric[m] <= n
    BY <1>1, <2>2
  <2>6. QED
    BY <1>1, <2>1, <2>2, <2>3, <2>4, <2>5 DEF RatesAreReal
<1>4. CASE Acknowledge
  BY <1>1, <1>4 DEF Acknowledge, worldVars, reporterVars, RatesAreReal, MonTypeOK
<1>5. ASSUME NEW p \in Processes, ReportStep(p)
      PROVE  RatesAreReal' /\ counted' \in 0 .. MaxCounted
  <2>1. PICK m \in MetricsOf(p) :
           \/ /\ taken[m] = 0
              /\ taken' = [taken EXCEPT ![m] = counter[m]]
              /\ counter' = [counter EXCEPT ![m] = 0]
              /\ UNCHANGED metric
           \/ /\ taken' = [taken EXCEPT ![m] = 0]
              /\ metric' = Published(m)
              /\ UNCHANGED counter
           \/ /\ taken' = [taken EXCEPT ![m] = 0]
              /\ UNCHANGED <<metric, counter>>
    BY <1>1, <1>5, ReportEffect
  <2>2. m \in Metrics
    BY DEF MetricsOf, Metrics
  <2>3. UNCHANGED <<counted, pending>>
    BY <1>5 DEF ReportStep, SwapCounter, SetMetric, worldVars, redisVars
  <2>4. \A k \in Metrics : counter'[k] + taken'[k] <= counted
    <3>1. ASSUME NEW k \in Metrics PROVE counter'[k] + taken'[k] <= counted
      <4>1. \/ counter'[k] = counter[k] /\ taken'[k] = taken[k]
            \/ counter'[k] = 0 /\ taken'[k] = counter[k]
            \/ counter'[k] = counter[k] /\ taken'[k] = 0
        BY <1>1, <2>1, <2>2 DEF MonTypeOK
      <4>2. counter[k] \in Nat /\ taken[k] \in Nat /\ counter[k] + taken[k] <= counted /\ counted \in Nat
        BY <1>1
      <4>3. QED
        BY <4>1, <4>2
    <3>2. QED
      BY <3>1
  <2>5. \A k \in DOMAIN metric' : metric'[k] <= counted
    BY <1>1, <2>1, <2>2 DEF Published
  <2>6. QED
    BY <1>1, <2>3, <2>4, <2>5 DEF RatesAreReal
<1>6. CASE RedisRestart
  BY <1>1, <1>6 DEF RedisRestart, reporterVars, RatesAreReal
<1>7. ASSUME NEW p \in Processes, End(p) PROVE RatesAreReal' /\ counted' \in 0 .. MaxCounted
  <2>1. \A m \in Metrics : counter'[m] \in {0, counter[m]} /\ taken'[m] \in {0, taken[m]}
    BY <1>7 DEF End
  <2>2. UNCHANGED <<counted, metric, pending>>
    BY <1>7 DEF End, redisVars
  <2>3. \A m \in Metrics : counter'[m] + taken'[m] <= counted
    BY <1>1, <2>1
  <2>4. QED
    BY <1>1, <2>2, <2>3 DEF RatesAreReal
<1>8. CASE UNCHANGED <<counted, counter, taken, metric, pending>>
  BY <1>1, <1>8 DEF RatesAreReal
<1>9. QED
  BY <1>2, <1>3, <1>4, <1>5, <1>6, <1>7, <1>8
     DEF Next, ProbeStep, Ping, ReadLag, Answer, Unanswered, Told, VitalsStep, ReadVitals,
         ReadNext, Show, Start, Change, vars, worldVars, reporterVars, redisVars

(* Every step keeps the types. *)
LEMMA StepMonTypes == MonInv /\ [Next]_vars => MonTypeOK'
<1> SUFFICES ASSUME MonInv, [Next]_vars PROVE MonTypeOK'
  OBVIOUS
<1> DEFINE CounterTypes ==
              /\ counter' \in [Metrics -> 0 .. MaxCounted]
              /\ taken' \in [Metrics -> 0 .. MaxCounted]
           MetricTypes ==
              /\ DOMAIN metric' \subseteq Metrics
              /\ \A m \in DOMAIN metric' : metric'[m] \in 0 .. MaxCounted
           ListTypes ==
              /\ group' \in BOOLEAN /\ pending' \in 0 .. MaxCounted
              /\ ~group' => pending' = 0
           PollTypes ==
              /\ probe' \in [pc : Stores \cup {"lag", "answer"}, late : BOOLEAN,
                             ok : SUBSET Stores, lag : Lags]
              /\ health' \in [ok : SUBSET Stores, lag : Lags]
              /\ request' \in [pc : {"signals", "processing", "lag", "mttr", "cache", "answer"},
                               late : BOOLEAN, got : Reading]
              /\ screen' \in Reading
<1>1. /\ MonTypeOK /\ ReportsInOrder
      /\ MaxCounted \in Nat /\ MaxFaults \in Nat
  BY BoundsAreNat DEF MonInv
<1>2. condition' \in [Stores -> {"up", "refuses", "hangs"}] /\ running' \subseteq Processes
      /\ faults' \in 0 .. MaxFaults
  <2>1. condition' \in [Stores -> {"up", "refuses", "hangs"}]
    <3>1. UNCHANGED condition
          \/ \E s \in Stores, to \in {"up", "refuses", "hangs"} :
                condition' = [condition EXCEPT ![s] = to]
      BY DEF Next, Increment, Deliver, Acknowledge, ReportStep, SwapCounter, SetMetric, ProbeStep,
             Ping, ReadLag, Answer, Unanswered, Told, VitalsStep, ReadVitals, ReadNext, Show,
             Change, RedisRestart, End, Start, vars, worldVars
    <3>2. QED
      BY <1>1, <3>1 DEF MonTypeOK
  <2>2. running' \subseteq Processes
    BY <1>1 DEF MonTypeOK, Next, Increment, Deliver, Acknowledge, ReportStep, SwapCounter,
             SetMetric, ProbeStep,
             Ping, ReadLag, Answer, Unanswered, Told, VitalsStep, ReadVitals, ReadNext, Show,
             Change, RedisRestart, End, Start, vars, worldVars
  <2>3. UNCHANGED faults \/ Fault
    BY DEF Next, Increment, Deliver, Acknowledge, ReportStep, SwapCounter, SetMetric, ProbeStep,
             Ping, ReadLag, Answer, Unanswered, Told, VitalsStep, ReadVitals, ReadNext, Show,
             Change, RedisRestart, End, Start, vars, worldVars
  <2>4. faults' \in 0 .. MaxFaults
    BY <1>1, <2>3 DEF Fault, MonTypeOK
  <2>5. QED
    BY <2>1, <2>2, <2>4
<1>3. CounterTypes
  <2>1. ASSUME NEW m \in Metrics, Increment(m) PROVE CounterTypes
    <3>1. counter[m] + 1 \in 0 .. MaxCounted
      BY <1>1, <2>1 DEF MonInv, RatesAreReal, MonTypeOK, Increment, Event
    <3>2. QED
      BY <1>1, <2>1, <3>1 DEF MonTypeOK, Increment
  <2>2. ASSUME NEW p \in Processes, ReportStep(p) PROVE CounterTypes
    <3>1. \E m \in MetricsOf(p) :
             \/ taken' = [taken EXCEPT ![m] = counter[m]] /\ counter' = [counter EXCEPT ![m] = 0]
             \/ taken' = [taken EXCEPT ![m] = 0] /\ UNCHANGED counter
      BY <1>1, <2>2, ReportEffect
    <3>2. MetricsOf(p) \subseteq Metrics
      BY DEF MetricsOf, Metrics
    <3>3. PICK m \in Metrics :
             \/ taken' = [taken EXCEPT ![m] = counter[m]] /\ counter' = [counter EXCEPT ![m] = 0]
             \/ taken' = [taken EXCEPT ![m] = 0] /\ UNCHANGED counter
      BY <3>1, <3>2
    <3>4. 0 \in 0 .. MaxCounted
      BY <1>1
    <3>5. QED
      BY <1>1, <3>3, <3>4 DEF MonTypeOK
  <2>3. ASSUME NEW p \in Processes, End(p) PROVE CounterTypes
    BY <1>1, <2>3 DEF End, MonTypeOK
  <2>4. CASE UNCHANGED <<counter, taken>>
    BY <1>1, <2>4 DEF MonTypeOK
  <2>5. QED
    BY <2>1, <2>2, <2>3, <2>4
       DEF Next, Deliver, Acknowledge, ProbeStep, Ping, ReadLag, Answer, Unanswered, Told,
           VitalsStep, ReadVitals, ReadNext, Show, RedisRestart, Start, Change, vars, reporterVars
<1>4. agenda' \in [Processes -> Seq({"swap", "set"} \X Metrics)]
  <2>1. ASSUME NEW p \in Processes, NEW step, NextIs(p, step)
        PROVE  agenda' \in [Processes -> Seq({"swap", "set"} \X Metrics)]
    <3>1. Plan(p) \in Seq({"swap", "set"} \X Metrics) /\ Plan(p) # <<>>
      <4>1. \A m \in Metrics : Set(m) \in {"swap", "set"} \X Metrics
                              /\ Swap(m) \in {"swap", "set"} \X Metrics
        BY DEF Set, Swap
      <4>2. "signals_per_sec" \in Metrics /\ "processing_per_sec" \in Metrics
            /\ "work_items_per_sec" \in Metrics
        BY DEF Metrics
      <4>3. CASE p = "api"
        BY <4>1, <4>2, <4>3 DEF Plan
      <4>4. CASE p # "api"
        <5>1. <<Swap("processing_per_sec"), Swap("work_items_per_sec"),
                Set("processing_per_sec"), Set("work_items_per_sec")>>
                  \in Seq({"swap", "set"} \X Metrics) \ {<<>>}
          BY <4>1, <4>2
        <5>2. QED
          BY <4>4, <5>1 DEF Plan
      <4>5. QED
        BY <4>3, <4>4
    <3>2. Agenda(p) \in Seq({"swap", "set"} \X Metrics) /\ Agenda(p) # <<>>
      BY <1>1, <3>1 DEF Agenda, MonTypeOK
    <3>3. Tail(Agenda(p)) \in Seq({"swap", "set"} \X Metrics)
      BY <3>2, HeadTailProperties
    <3>4. QED
      BY <1>1, <2>1, <3>3 DEF NextIs, MonTypeOK
  <2>2. CASE UNCHANGED agenda
    BY <1>1, <2>2 DEF MonTypeOK
  <2>3. ASSUME NEW p \in Processes, End(p)
        PROVE  agenda' \in [Processes -> Seq({"swap", "set"} \X Metrics)]
    BY <1>1, <2>3 DEF End, MonTypeOK
  <2>4. QED
    BY <2>1, <2>2, <2>3
       DEF Next, Increment, Deliver, Acknowledge, ReportStep, SwapCounter, SetMetric, ProbeStep,
           Ping, ReadLag, Answer, Unanswered, Told, VitalsStep, ReadVitals, ReadNext, Show,
           RedisRestart, Start, Change, vars, reporterVars
<1>5. MetricTypes
  <2>1. ASSUME NEW p \in Processes, ReportStep(p) PROVE MetricTypes
    <3>1. PICK m \in MetricsOf(p) : UNCHANGED metric \/ metric' = Published(m)
      BY <1>1, <2>1, ReportEffect
    <3>2. m \in Metrics
      BY DEF MetricsOf, Metrics
    <3>3. QED
      BY <1>1, <3>1, <3>2 DEF MonTypeOK, Published
  <2>2. CASE RedisRestart
    BY <2>2 DEF RedisRestart
  <2>3. CASE UNCHANGED metric
    BY <1>1, <2>3 DEF MonTypeOK
  <2>4. QED
    BY <2>1, <2>2, <2>3
       DEF Next, Increment, Deliver, Acknowledge, ProbeStep, Ping, ReadLag, Answer, Unanswered,
           Told, VitalsStep, ReadVitals, ReadNext, Show, End, Start, Change, vars, redisVars
<1>6. ListTypes
  <2>1. CASE Deliver
    <3>1. pending + 1 \in 0 .. MaxCounted
      BY <1>1, <2>1 DEF MonInv, RatesAreReal, MonTypeOK, Deliver, Event
    <3>2. QED
      BY <1>1, <2>1, <3>1 DEF MonTypeOK, Deliver
  <2>2. CASE Acknowledge
    <3>1. pending - 1 \in 0 .. MaxCounted
      BY <1>1, <2>2 DEF MonTypeOK, Acknowledge
    <3>2. pending > 0 /\ group
      BY <1>1, <2>2 DEF MonTypeOK, Acknowledge
    <3>3. QED
      BY <1>1, <2>2, <3>1, <3>2 DEF MonTypeOK, Acknowledge
  <2>3. CASE RedisRestart
    <3>1. group' = FALSE /\ pending' = 0
      BY <2>3 DEF RedisRestart
    <3>2. 0 \in 0 .. MaxCounted
      BY <1>1
    <3>3. QED
      BY <3>1, <3>2
  <2>4. ASSUME NEW p \in Processes, Start(p) PROVE ListTypes
    <3>1. (group \/ p = "processor") \in BOOLEAN /\ (group => (group \/ p = "processor"))
      BY <1>1 DEF MonTypeOK
    <3>2. group' = (group \/ p = "processor") /\ pending' = pending
      BY <2>4 DEF Start
    <3>3. pending \in 0 .. MaxCounted /\ (~group => pending = 0)
      BY <1>1 DEF MonTypeOK
    <3>4. QED
      BY <3>1, <3>2, <3>3
  <2>5. CASE UNCHANGED <<group, pending>>
    BY <1>1, <2>5 DEF MonTypeOK
  <2>6. QED
    BY <2>1, <2>2, <2>3, <2>4, <2>5
       DEF Next, Increment, ReportStep, SwapCounter, SetMetric, ProbeStep, Ping, ReadLag, Answer,
           Unanswered, Told, VitalsStep, ReadVitals, ReadNext, Show, End, Change, vars, redisVars
<1>7. asked' \in Processes \cup {"vitals"}
  BY <1>1
     DEF MonTypeOK, Next, Increment, Deliver, Acknowledge, ReportStep, SwapCounter, SetMetric,
         ProbeStep, Ping, ReadLag, Answer, Unanswered, Told, VitalsStep, ReadVitals, ReadNext,
         Show, Change, RedisRestart, End, Start, vars, pollVars
<1>8. PollTypes
  <2>1. CASE ProbeStep \/ VitalsStep
    BY <2>1, StepPollTypes
  <2>2. CASE UNCHANGED <<probe, health, request, screen>>
    BY <1>1, <2>2 DEF MonTypeOK
  <2>3. ASSUME NEW p \in Processes, End(p) PROVE PollTypes
    <3>1. NoProbe \in [pc : Stores \cup {"lag", "answer"}, late : BOOLEAN,
                       ok : SUBSET Stores, lag : Lags]
      BY BoundsAreNat DEF NoProbe, Stores, Lags
    <3>2. NoRequest \in [pc : {"signals", "processing", "lag", "mttr", "cache", "answer"},
                         late : BOOLEAN, got : Reading]
      BY BoundsAreNat DEF NoRequest, Blank, Reading, Lags
    <3>3. QED
      BY <1>1, <2>3, <3>1, <3>2 DEF End, MonTypeOK
  <2>4. QED
    BY <2>1, <2>2, <2>3
       DEF Next, Increment, Deliver, Acknowledge, ReportStep, SwapCounter, SetMetric,
           Change, RedisRestart, Start, vars, pollVars
<1>9. QED
  BY <1>2, <1>3, <1>4, <1>5, <1>6, <1>7, <1>8, StepRates DEF MonTypeOK

(* A tick swaps every counter of the process and then sets every key, so a *)
(* swap finds nothing left over (metrics.go:33-51,                         *)
(* processor_metrics.go:40-60).                                            *)
LEMMA StepReports == MonInv /\ [Next]_vars => ReportsInOrder'
<1> SUFFICES ASSUME MonInv, [Next]_vars PROVE ReportsInOrder'
  OBVIOUS
<1>1. MonTypeOK /\ ReportsInOrder
  BY DEF MonInv
<1>2. \A m \in Metrics : taken[m] \in Nat
  BY <1>1, BoundsAreNat DEF MonTypeOK
<1>3. ASSUME NEW p \in Processes, NEW m \in MetricsOf(p), SwapCounter(p, m) \/ SetMetric(p, m)
      PROVE  ReportsInOrder'
  <2>1. \/ NextIs(p, Swap(m)) /\ taken' = [taken EXCEPT ![m] = counter[m]]
        \/ NextIs(p, Set(m)) /\ taken' = [taken EXCEPT ![m] = 0]
    BY <1>3 DEF SwapCounter, SetMetric
  <2>2. \A q \in Processes \ {p} : agenda'[q] = agenda[q]
    BY <1>1, <2>1 DEF NextIs, MonTypeOK
  <2>3. \A n \in Metrics \ {m} : taken'[n] = taken[n]
    BY <1>1, <2>1 DEF MonTypeOK
  <2>4. NextIs(p, Set(m)) /\ taken' = [taken EXCEPT ![m] = 0] => ~(taken'[m] > 0)
    BY <1>1 DEF MonTypeOK, MetricsOf, Metrics
  <2>5. Swap(m) # Set(m)
    BY DEF Swap, Set
  <2>6. CASE p = "api"
    <3>1. m = "signals_per_sec"
      BY <2>6 DEF MetricsOf
    <3>2. \/ NextIs("api", Swap(m)) /\ agenda'["api"] = ToSet
          \/ NextIs("api", Set(m)) /\ agenda'["api"] = <<>> /\ ~(taken'[m] > 0)
      BY <1>1, <2>1, <2>4, <2>5, <2>6, ApiTick DEF MonTypeOK, ReportsInOrder, Swap, Set
    <3>3. QED
      BY <1>1, <2>2, <2>3, <2>6, <3>1, <3>2 DEF ReportsInOrder, Processes, Metrics
  <2>7. CASE p = "processor"
    <3>1. m \in {"processing_per_sec", "work_items_per_sec"}
      BY <2>7 DEF MetricsOf, Metrics
    <3>2. UNCHANGED <<agenda["api"], taken["signals_per_sec"]>>
      BY <2>2, <2>3, <2>7, <3>1 DEF Processes, Metrics
    <3>3. CASE m = "processing_per_sec"
      <4>1. \/ agenda["processor"] = <<>> /\ agenda'["processor"] = ToSwapWork
            \/ agenda["processor"] = ToSetBoth /\ agenda'["processor"] = ToSetWork /\ ~(taken'[m] > 0)
        BY <1>1, <2>1, <2>4, <2>5, <2>7, <3>3, ProcessorTick DEF MonTypeOK, ReportsInOrder, Swap, Set
      <4>2. UNCHANGED taken["work_items_per_sec"]
        BY <2>3, <3>3 DEF Metrics
      <4>3. QED
        BY <1>1, <3>2, <3>3, <4>1, <4>2, PlacesDiffer DEF ReportsInOrder
    <3>4. CASE m = "work_items_per_sec"
      <4>1. \/ agenda["processor"] = ToSwapWork /\ agenda'["processor"] = ToSetBoth
            \/ agenda["processor"] = ToSetWork /\ agenda'["processor"] = <<>> /\ ~(taken'[m] > 0)
        BY <1>1, <2>1, <2>4, <2>5, <2>7, <3>4, ProcessorTick DEF MonTypeOK, ReportsInOrder, Swap, Set
      <4>2. UNCHANGED taken["processing_per_sec"]
        BY <2>3, <3>4 DEF Metrics
      <4>3. QED
        BY <1>1, <3>2, <3>4, <4>1, <4>2, PlacesDiffer DEF ReportsInOrder
    <3>5. QED
      BY <3>1, <3>3, <3>4
  <2>8. QED
    BY <2>6, <2>7 DEF Processes
<1>4. ASSUME NEW p \in Processes, End(p) PROVE ReportsInOrder'
  <2>1. agenda' = [agenda EXCEPT ![p] = <<>>]
    BY <1>4 DEF End
  <2>2. \A m \in Metrics : taken'[m] = IF m \in MetricsOf(p) THEN 0 ELSE taken[m]
    BY <1>4 DEF End
  <2>3. CASE p = "api"
    <3>1. /\ agenda'["api"] = <<>> /\ agenda'["processor"] = agenda["processor"]
          /\ taken'["signals_per_sec"] = 0
          /\ taken'["processing_per_sec"] = taken["processing_per_sec"]
          /\ taken'["work_items_per_sec"] = taken["work_items_per_sec"]
      BY <1>1, <2>1, <2>2, <2>3 DEF MonTypeOK, Processes, Metrics, MetricsOf
    <3>2. QED
      BY <1>1, <3>1 DEF ReportsInOrder
  <2>4. CASE p = "processor"
    <3>1. /\ agenda'["processor"] = <<>> /\ agenda'["api"] = agenda["api"]
          /\ taken'["processing_per_sec"] = 0 /\ taken'["work_items_per_sec"] = 0
          /\ taken'["signals_per_sec"] = taken["signals_per_sec"]
      BY <1>1, <2>1, <2>2, <2>4 DEF MonTypeOK, Processes, Metrics, MetricsOf
    <3>2. QED
      BY <1>1, <3>1 DEF ReportsInOrder
  <2>5. QED
    BY <2>3, <2>4 DEF Processes
<1>5. CASE UNCHANGED <<agenda, taken>>
  BY <1>1, <1>5 DEF ReportsInOrder
<1>6. QED
  BY <1>3, <1>4, <1>5
     DEF Next, Increment, Deliver, Acknowledge, ReportStep, ProbeStep, Ping, ReadLag, Answer,
         Unanswered, Told, VitalsStep, ReadVitals, ReadNext, Show, RedisRestart, Start, Change,
         vars, reporterVars

(* A process that has ended adds to nothing, and starts with nothing left  *)
(* from before (cmd/api/main.go, cmd/processor/main.go).                   *)
LEMMA StepEnded == MonInv /\ [Next]_vars => EndedIsSilent'
<1> SUFFICES ASSUME MonInv, [Next]_vars PROVE EndedIsSilent'
  OBVIOUS
<1>1. MonTypeOK /\ EndedIsSilent /\ ReportsInOrder
  BY DEF MonInv
<1>2. \A p, q \in Processes : \A m \in MetricsOf(p) : m \in MetricsOf(q) => p = q
  BY DEF MetricsOf, Processes
<1>3. ASSUME NEW m \in Metrics, Increment(m) PROVE EndedIsSilent'
  <2>1. PICK p \in running : m \in MetricsOf(p)
    BY <1>3 DEF Increment
  <2>2. \A q \in Processes \ running : m \notin MetricsOf(q)
    <3>1. p \in Processes
      BY <1>1, <2>1 DEF MonTypeOK
    <3>2. QED
      BY <1>2, <2>1, <3>1
  <2>3. \A q \in Processes : \A n \in MetricsOf(q) : n \in Metrics
    BY DEF MetricsOf, Metrics
  <2>4. QED
    BY <1>1, <1>3, <2>2, <2>3 DEF Increment, EndedIsSilent, MonTypeOK
<1>4. ASSUME NEW p \in Processes, NEW m \in MetricsOf(p), SwapCounter(p, m) \/ SetMetric(p, m)
      PROVE  EndedIsSilent'
  <2>1. /\ p \in running /\ UNCHANGED running
        /\ \A q \in Processes \ {p} : agenda'[q] = agenda[q]
        /\ \A n \in Metrics \ {m} : taken'[n] = taken[n] /\ counter'[n] = counter[n]
    BY <1>1, <1>4 DEF SwapCounter, SetMetric, NextIs, worldVars, MonTypeOK
  <2>2. \A q \in Processes \ running : \A n \in MetricsOf(q) : n \in Metrics \ {m}
    BY <1>2, <2>1 DEF Processes, MetricsOf, Metrics
  <2>3. QED
    BY <1>1, <2>1, <2>2 DEF EndedIsSilent
<1>5. ASSUME NEW p \in Processes, End(p) PROVE EndedIsSilent'
  <2>1. \A q \in Processes : \A n \in MetricsOf(q) : n \in Metrics
    BY DEF MetricsOf, Metrics
  <2>2. ASSUME NEW q \in Processes \ running'
        PROVE  agenda'[q] = <<>> /\ \A m \in MetricsOf(q) : counter'[m] = 0 /\ taken'[m] = 0
    <3>1. CASE q = p
      BY <1>1, <1>5, <2>1, <3>1 DEF End, MonTypeOK
    <3>2. CASE q # p
      <4>1. q \in Processes \ running
        BY <1>5, <2>2, <3>2 DEF End
      <4>2. QED
        BY <1>1, <1>5, <2>1, <3>2, <4>1 DEF End, EndedIsSilent, MonTypeOK
    <3>3. QED
      BY <3>1, <3>2
  <2>3. QED
    BY <2>2 DEF EndedIsSilent
<1>6. ASSUME NEW p \in Processes, Start(p) PROVE EndedIsSilent'
  BY <1>1, <1>6 DEF Start, reporterVars, EndedIsSilent
<1>7. CASE UNCHANGED <<running, agenda, taken, counter>>
  BY <1>1, <1>7 DEF EndedIsSilent
<1>8. QED
  BY <1>3, <1>4, <1>5, <1>6, <1>7
     DEF Next, Deliver, Acknowledge, ReportStep, ProbeStep, Ping, ReadLag, Answer,
         Unanswered, Told, VitalsStep, ReadVitals, ReadNext, Show, RedisRestart, Change,
         vars, worldVars, reporterVars

(* Only the one who asks has a request under way, and the end of a process *)
(* is the end of the requests to it (health.go:24-45,                      *)
(* worker_health.go:29-48, incidents.go:164-211).                          *)
LEMMA StepRequests == MonInv /\ [Next]_vars => RequestsInOrder'
<1> SUFFICES ASSUME MonInv, [Next]_vars PROVE RequestsInOrder'
  OBVIOUS
<1>1. MonTypeOK /\ RequestsInOrder
  BY DEF MonInv
<1>2. ASSUME NEW s \in Stores, Ping(s) PROVE RequestsInOrder'
  <2>1. /\ asked \in running /\ probe.pc = s
        /\ probe'.pc = AfterPing(s) /\ probe'.ok \subseteq probe.ok \cup {s}
        /\ UNCHANGED <<asked, running, request>>
    BY <1>1, <1>2 DEF Ping, MonTypeOK, worldVars
  <2>2. \A t \in probe'.ok : Pinged(t)'
    BY <1>1, <2>1 DEF RequestsInOrder, Pinged, AfterPing, Stores
  <2>3. probe'.pc = "lag" => asked = "processor"
    BY <2>1 DEF AfterPing, Stores
  <2>4. QED
    BY <1>1, <2>1, <2>2, <2>3 DEF RequestsInOrder
<1>3. CASE ReadLag
  <2>1. /\ probe.pc = "lag" /\ probe'.pc = "answer" /\ probe'.ok = probe.ok
        /\ UNCHANGED <<asked, running, request>>
    BY <1>1, <1>3 DEF ReadLag, MonTypeOK, worldVars
  <2>2. probe # NoProbe
    BY <2>1 DEF NoProbe
  <2>3. \A s \in probe'.ok : Pinged(s)'
    BY <1>1, <2>1 DEF RequestsInOrder, Pinged
  <2>4. QED
    BY <1>1, <2>1, <2>2, <2>3 DEF RequestsInOrder
<1>4. CASE Answer \/ Unanswered
  BY <1>1, <1>4 DEF Answer, Unanswered, Told, RequestsInOrder, NoProbe, worldVars
<1>5. CASE ReadVitals
  BY <1>1, <1>5 DEF ReadVitals, ReadNext, RequestsInOrder, Pinged, worldVars
<1>6. CASE Show
  BY <1>1, <1>6 DEF Show, RequestsInOrder, Pinged, worldVars
<1>7. ASSUME NEW p \in Processes, End(p) PROVE RequestsInOrder'
  <2>1. /\ running' = running \ {p} /\ UNCHANGED asked
        /\ probe' = IF p = asked THEN NoProbe ELSE probe
        /\ request' = IF p = "api" THEN NoRequest ELSE request
    BY <1>7 DEF End
  <2>2. \A s \in probe'.ok : Pinged(s)'
    BY <1>1, <2>1 DEF RequestsInOrder, NoProbe, Pinged
  <2>3. probe'.pc = "lag" => asked = "processor"
    BY <1>1, <2>1 DEF RequestsInOrder, NoProbe
  <2>4. QED
    BY <1>1, <2>1, <2>2, <2>3 DEF RequestsInOrder
<1>8. ASSUME NEW p \in Processes, Start(p) PROVE RequestsInOrder'
  BY <1>1, <1>8 DEF Start, pollVars, RequestsInOrder, Pinged
<1>9. CASE UNCHANGED <<asked, running, probe, request>>
  BY <1>1, <1>9 DEF RequestsInOrder, Pinged
<1>10. QED
  BY <1>2, <1>3, <1>4, <1>5, <1>6, <1>7, <1>8, <1>9
     DEF Next, Increment, Deliver, Acknowledge, ReportStep, SwapCounter, SetMetric, ProbeStep,
         VitalsStep, RedisRestart, Change, vars, worldVars, pollVars

-----------------------------------------------------------------------------
(* The invariant, and what follows from it.                                *)

LEMMA StepMonInv == MonInv /\ [Next]_vars => MonInv'
  BY StepMonTypes, StepRates, StepReports, StepEnded, StepRequests DEF MonInv

(* The inductive invariant of the monitoring: no counter, key or pending   *)
(* list is ahead of the events, a swap finds nothing left over, what has   *)
(* ended is silent, and only the one who asks has a request under way      *)
(* (observability/, health.go, worker_health.go, incidents.go:164-211).    *)
THEOREM MonitoringInvariant == Spec => []MonInv
<1>1. QED
  BY InitMonInv, StepMonInv, PTL DEF Spec

(* Every variable keeps its type; rates and lags stay within what has been *)
(* counted (metrics.go:22-51, processor_metrics.go:28-60).                 *)
THEOREM MonitoringTypeCorrect == Spec => []MonTypeOK
<1>1. MonInv => MonTypeOK
  BY DEF MonInv
<1>2. QED
  BY <1>1, MonitoringInvariant, PTL

-----------------------------------------------------------------------------
(* The health endpoints.                                                   *)

(* While nothing changes, a probe that has met no store that hung goes on  *)
(* telling the truth, and its answer is the truth.                         *)
LEMMA HonestProbe ==
    ASSUME MonInv, Next, ProbeIsHonest, asked \in running,
           \A s \in Stores : condition[s] # "hangs", asked \in running', UNCHANGED condition
    PROVE  /\ UNCHANGED asked
           /\ ProbeIsHonest'
           /\ Up' = Up
           /\ health'.ok \in {health.ok, Up}
           /\ Answer => health'.ok = Up
<1>1. MonTypeOK /\ RequestsInOrder
  BY DEF MonInv
<1>2. Up' = Up
  BY DEF Up
<1>3. ASSUME NEW s \in Stores, Ping(s)
      PROVE  ProbeIsHonest' /\ UNCHANGED <<asked, health>>
  <2>1. probe.pc = s /\ UNCHANGED <<asked, health>>
    BY <1>3 DEF Ping
  <2>2. /\ probe'.pc = AfterPing(s)
        /\ probe'.late = (probe.late \/ condition[s] = "hangs")
        /\ probe'.ok = IF condition[s] = "up" /\ ~probe.late THEN probe.ok \cup {s} ELSE probe.ok
    BY <1>1, <1>3 DEF Ping, MonTypeOK
  <2>3. ~probe'.late
    BY <2>2 DEF ProbeIsHonest
  <2>4. probe'.ok = IF s \in Up THEN probe.ok \cup {s} ELSE probe.ok
    BY <2>2 DEF ProbeIsHonest, Up
  <2>5. s \notin probe.ok
    BY <1>1, <2>1 DEF RequestsInOrder, Pinged
  <2>6. \A t \in Stores : Pinged(t)' <=> Pinged(t) \/ t = s
    BY <2>1, <2>2 DEF Pinged, AfterPing, Stores
  <2>7. \A t \in Stores : Pinged(t)' => (t \in probe'.ok <=> t \in Up)
    BY <2>4, <2>5, <2>6 DEF ProbeIsHonest
  <2>8. QED
    BY <1>2, <2>1, <2>3, <2>7 DEF ProbeIsHonest
<1>4. ASSUME ReadLag PROVE ProbeIsHonest' /\ UNCHANGED <<asked, health>>
  BY <1>1, <1>2, <1>4 DEF ReadLag, MonTypeOK, ProbeIsHonest, Pinged
<1>5. ASSUME Answer PROVE ProbeIsHonest' /\ UNCHANGED asked /\ health'.ok = Up
  <2>1. \A s \in Stores : Pinged(s)
    BY <1>5 DEF Answer, Pinged, Stores
  <2>2. probe.ok = Up
    BY <1>1, <2>1 DEF ProbeIsHonest, MonTypeOK, Up
  <2>3. probe' = NoProbe /\ health'.ok = probe.ok /\ UNCHANGED asked
    BY <1>5 DEF Answer, Told
  <2>4. ProbeIsHonest'
    BY <2>3 DEF ProbeIsHonest, NoProbe, Pinged, Stores
  <2>5. QED
    BY <2>2, <2>3, <2>4
<1>6. ~Unanswered
  BY DEF Unanswered
<1>7. ASSUME NEW p \in Processes, End(p) PROVE UNCHANGED <<asked, probe, health>>
  BY <1>7 DEF End
<1>8. ASSUME UNCHANGED <<asked, probe, health>> PROVE ProbeIsHonest'
  BY <1>2, <1>8 DEF ProbeIsHonest, Pinged
<1>9. UNCHANGED <<asked, probe, health>> \/ ProbeStep
  BY <1>7
     DEF Next, Increment, Deliver, Acknowledge, ReportStep, SwapCounter, SetMetric, VitalsStep,
         ReadVitals, ReadNext, Show, RedisRestart, Start, Change, pollVars
<1>10. Answer => ProbeStep
  BY DEF ProbeStep
<1>11. QED
  <2>1. CASE Answer
    BY <1>2, <1>5, <2>1
  <2>2. CASE ~Answer
    <3>1. ProbeIsHonest' /\ UNCHANGED <<asked, health>>
      BY <1>3, <1>4, <1>6, <1>8, <1>9, <2>2 DEF ProbeStep
    <3>2. QED
      BY <1>2, <2>2, <3>1
  <2>3. QED
    BY <2>1, <2>2

(* What shows the truth is misled only by what changes: a store that does, *)
(* or the end of the process that is asked.                                *)
HealthMisleadsOnlyAfterChange ==
    [][HealthSettled /\ ~HealthSettled' => condition' # condition \/ asked \notin running']_vars

(* Once the dashboard shows which stores are up, and the probe under way   *)
(* has found the truth so far, only a store that changes or a process that *)
(* ends can make it show anything else: no probe of its own accord         *)
(* misleads it (health.go:24-45, worker_health.go:29-48, api.js:44-52).    *)
THEOREM HealthStaysTrue == Spec => HealthMisleadsOnlyAfterChange
<1>1. MonInv /\ [Next]_vars
        => [HealthSettled /\ ~HealthSettled' => condition' # condition \/ asked \notin running']_vars
  <2>1. SUFFICES ASSUME MonInv, Next, HealthSettled, UNCHANGED condition, asked \in running'
                 PROVE  HealthSettled'
    OBVIOUS
  <2>2. /\ UNCHANGED asked /\ ProbeIsHonest' /\ Up' = Up
        /\ health'.ok \in {health.ok, Up}
    BY <2>1, HonestProbe DEF HealthSettled
  <2>3. QED
    BY <2>1, <2>2 DEF HealthSettled
<1>2. QED
  BY <1>1, MonitoringInvariant, PTL DEF Spec, HealthMisleadsOnlyAfterChange

(* As long as the stores are in the conditions C, none hangs, and whom the *)
(* dashboard asks runs.                                                    *)
Calm(C) ==
    /\ condition = C
    /\ asked \in running
    /\ \A s \in Stores : condition[s] # "hangs"

(* However the stores and the processes came to be in their condition:     *)
(* while they stay in it, each answer to a probe begun since tells which   *)
(* stores are up, the ones after a failing one included (health.go:24-45,  *)
(* worker_health.go:29-48, api.js:44-52).                                  *)
THEOREM CalmAnswersAreTrue ==
    ASSUME NEW CONSTANT C
    PROVE  Spec => [](probe = NoProbe /\ []Calm(C) => [][Answer => health'.ok = Up]_vars)
<1>1. probe = NoProbe => ProbeIsHonest
  BY DEF ProbeIsHonest, NoProbe, Pinged
<1>2. MonInv /\ [Next]_vars /\ ProbeIsHonest /\ Calm(C) /\ Calm(C)'
        => ProbeIsHonest' /\ [Answer => health'.ok = Up]_vars
  <2>1. SUFFICES ASSUME MonInv, [Next]_vars, ProbeIsHonest, Calm(C), Calm(C)'
                 PROVE  ProbeIsHonest' /\ [Answer => health'.ok = Up]_vars
    OBVIOUS
  <2>2. CASE UNCHANGED vars
    BY <2>1, <2>2 DEF ProbeIsHonest, Pinged, Up, vars, pollVars, worldVars
  <2>3. CASE Next
    <3>1. UNCHANGED condition
      BY <2>1 DEF Calm
    <3>2. UNCHANGED asked
      BY <2>3
         DEF Next, Increment, Deliver, Acknowledge, ReportStep, SwapCounter, SetMetric,
             ProbeStep, Ping, ReadLag, Answer, Unanswered, Told, VitalsStep, ReadVitals,
             ReadNext, Show, Change, RedisRestart, End, Start, pollVars
    <3>3. QED
      BY <2>1, <2>3, <3>1, <3>2, HonestProbe DEF Calm
  <2>4. QED
    BY <2>1, <2>2, <2>3
<1>3. QED
  BY <1>1, <1>2, MonitoringInvariant, PTL DEF Spec

-----------------------------------------------------------------------------
(* The vitals.                                                             *)

(* A tick of a reporter leaves rates of zero at zero: it swaps out zeros   *)
(* and sets them (metrics.go:33-51, processor_metrics.go:40-60).           *)
LEMMA ZerosStay ==
    ASSUME MonTypeOK, RatesAreZero, NEW p \in Processes, ReportStep(p)
    PROVE  RatesAreZero'
<1>1. PICK m \in MetricsOf(p) : SwapCounter(p, m) \/ SetMetric(p, m)
  BY DEF ReportStep
<1>2. m \in Metrics
  BY DEF MetricsOf, Metrics
<1>3. SUFFICES ASSUME NEW k \in {"signals_per_sec", "processing_per_sec"}
               PROVE  counter'[k] = 0 /\ taken'[k] = 0 /\ k \in DOMAIN metric' /\ metric'[k] = 0
  BY DEF RatesAreZero
<1>4. k \in Metrics /\ counter[k] = 0 /\ taken[k] = 0 /\ k \in DOMAIN metric /\ metric[k] = 0
  BY DEF RatesAreZero, Metrics
<1>5. CASE SwapCounter(p, m)
  BY <1>2, <1>4, <1>5 DEF SwapCounter, MonTypeOK, redisVars
<1>6. CASE SetMetric(p, m)
  <2>1. UNCHANGED counter /\ taken' = [taken EXCEPT ![m] = 0] /\ metric' \in {metric, Published(m)}
    BY <1>6 DEF SetMetric
  <2>2. k \in DOMAIN Published(m) /\ Published(m)[k] = 0
    BY <1>4 DEF Published
  <2>3. QED
    BY <1>2, <1>4, <2>1, <2>2 DEF MonTypeOK
<1>7. QED
  BY <1>1, <1>5, <1>6

(* A request for the vitals that has read what there is goes on doing so   *)
(* (incidents.go:166-210).                                                 *)
LEMMA HonestVitals ==
    ASSUME MonInv, VitalsSettled, ReadVitals
    PROVE  RequestIsHonest'
<1>1. /\ MonTypeOK /\ RedisUp /\ ~request.late /\ RatesAreZero
      /\ UNCHANGED <<condition, group, pending>>
      /\ condition["redis"] # "hangs" /\ condition["postgres"] # "hangs"
  BY DEF MonInv, VitalsSettled, RequestIsHonest, RedisUp, ReadVitals, ReadNext, worldVars, redisVars
<1>2. Readable
  BY <1>1 DEF Readable
<1>3. /\ RateRead("signals_per_sec") = 0 /\ RateRead("processing_per_sec") = 0
      /\ CacheRead = "hot" /\ LagRead(request.late) = Lag
  <2>1. "signals_per_sec" \in DOMAIN metric /\ metric["signals_per_sec"] = 0
        /\ "processing_per_sec" \in DOMAIN metric /\ metric["processing_per_sec"] = 0
    BY <1>1 DEF RatesAreZero
  <2>2. RateRead("signals_per_sec") = 0 /\ RateRead("processing_per_sec") = 0
    BY <1>2, <2>1 DEF RateRead
  <2>3. CacheRead = "hot"
    BY <1>2, <2>1 DEF CacheRead
  <2>4. LagRead(request.late) = Lag
    BY <1>1 DEF LagRead, Lag
  <2>5. QED
    BY <2>2, <2>3, <2>4
<1>4. Lag' = Lag
  BY <1>1 DEF Lag
<1>5. request.got \in Reading
  BY <1>1 DEF MonTypeOK
<1>6. ASSUME NEW here, NEW next, NEW s \in {"redis", "postgres"}, NEW got,
             ReadNext(here, next, s, got)
      PROVE  /\ request.pc = here /\ ~request'.late /\ request'.pc = next /\ request'.got = got
  <2>1. PICK late \in {request.late, request.late \/ condition[s] = "hangs"} :
           request' = [pc |-> next, late |-> late, got |-> got]
    BY <1>6 DEF ReadNext
  <2>2. ~late
    BY <1>1, <2>1
  <2>3. request.pc = here
    BY <1>6 DEF ReadNext
  <2>4. QED
    BY <2>1, <2>2, <2>3
<1>7. CASE ReadNext("signals", "processing", "redis",
                    [request.got EXCEPT !.signals = RateRead("signals_per_sec")])
  <2>1. ~request'.late /\ request'.pc = "processing"
        /\ request'.got = [request.got EXCEPT !.signals = RateRead("signals_per_sec")]
    BY <1>6, <1>7
  <2>2. request'.got.signals = 0
    BY <1>3, <1>5, <2>1 DEF Reading
  <2>3. QED
    BY <2>1, <2>2 DEF RequestIsHonest
<1>8. CASE ReadNext("processing", "lag", "redis",
                    [request.got EXCEPT !.processing = RateRead("processing_per_sec")])
  <2>1. ~request'.late /\ request.pc = "processing" /\ request'.pc = "lag"
        /\ request'.got = [request.got EXCEPT !.processing = RateRead("processing_per_sec")]
    BY <1>6, <1>8
  <2>2. request'.got.signals = request.got.signals /\ request'.got.processing = 0
    BY <1>3, <1>5, <2>1 DEF Reading
  <2>3. QED
    BY <2>1, <2>2 DEF RequestIsHonest, VitalsSettled
<1>9. CASE ReadNext("lag", "mttr", "redis", [request.got EXCEPT !.lag = LagRead(request.late)])
  <2>1. ~request'.late /\ request.pc = "lag" /\ request'.pc = "mttr"
        /\ request'.got = [request.got EXCEPT !.lag = LagRead(request.late)]
    BY <1>6, <1>9
  <2>2. /\ request'.got.signals = request.got.signals
        /\ request'.got.processing = request.got.processing
        /\ request'.got.lag = Lag
    BY <1>3, <1>5, <2>1 DEF Reading
  <2>3. QED
    BY <1>4, <2>1, <2>2 DEF RequestIsHonest, VitalsSettled
<1>10. CASE ReadNext("mttr", "cache", "postgres", request.got)
  <2>1. ~request'.late /\ request.pc = "mttr" /\ request'.pc = "cache" /\ request'.got = request.got
    BY <1>6, <1>10
  <2>2. QED
    BY <1>4, <2>1 DEF RequestIsHonest, VitalsSettled
<1>11. CASE ReadNext("cache", "answer", "redis", [request.got EXCEPT !.cache = CacheRead])
  <2>1. ~request'.late /\ request.pc = "cache" /\ request'.pc = "answer"
        /\ request'.got = [request.got EXCEPT !.cache = CacheRead]
    BY <1>6, <1>11
  <2>2. /\ request'.got.signals = request.got.signals
        /\ request'.got.processing = request.got.processing
        /\ request'.got.lag = request.got.lag /\ request'.got.cache = "hot"
    BY <1>3, <1>5, <2>1 DEF Reading
  <2>3. QED
    BY <1>4, <2>1, <2>2 DEF RequestIsHonest, VitalsSettled
<1>12. QED
  BY <1>7, <1>8, <1>9, <1>10, <1>11 DEF ReadVitals

(* What shows that nothing happens is misled only by what happens.         *)
VitalsMisleadOnlyAfterEvent ==
    [][VitalsSettled /\ ~VitalsSettled'
        => counted' # counted \/ faults' # faults \/ pending' # pending]_vars

(* Once the dashboard shows that nothing happens, only an event, an        *)
(* acknowledgement or a fault can make it show anything else: no tick and  *)
(* no poll brings back a rate that is over, though the keys never expire   *)
(* (metrics.go:33-51, processor_metrics.go:40-60, incidents.go:166-210).   *)
THEOREM VitalsStayTrue == Spec => VitalsMisleadOnlyAfterEvent
<1>1. MonInv /\ [Next]_vars
        => [VitalsSettled /\ ~VitalsSettled'
              => counted' # counted \/ faults' # faults \/ pending' # pending]_vars
  <2> SUFFICES ASSUME MonInv, Next, VitalsSettled, UNCHANGED <<counted, faults, pending>>
               PROVE  VitalsSettled'
    OBVIOUS
  <2>1. MonTypeOK /\ RequestsInOrder
    BY DEF MonInv
  <2>2. /\ \A m \in Metrics : ~Increment(m)
        /\ ~Deliver /\ ~Acknowledge /\ ~RedisRestart
        /\ \A p \in Processes : ~End(p) /\ ~Start(p)
    <3>1. counted \in Nat /\ faults \in Nat /\ pending \in Nat
      BY <2>1, BoundsAreNat DEF MonTypeOK
    <3>2. ~Event
      BY <3>1 DEF Event
    <3>3. ~Fault
      BY <3>1 DEF Fault
    <3>4. ~Acknowledge
      BY <3>1 DEF Acknowledge
    <3>5. QED
      BY <3>2, <3>3, <3>4 DEF Increment, Deliver, RedisRestart, End, Start, VitalsSettled
  <2>3. ASSUME NEW p \in Processes, ReportStep(p) PROVE VitalsSettled'
    <3>1. RatesAreZero'
      BY <2>1, <2>3, ZerosStay DEF VitalsSettled
    <3>2. UNCHANGED <<condition, running, group, asked, request, screen>>
      BY <2>3 DEF ReportStep, SwapCounter, SetMetric, worldVars, redisVars, pollVars
    <3>3. QED
      BY <3>1, <3>2 DEF VitalsSettled, RequestIsHonest, RedisUp, Lag
  <2>4. CASE ProbeStep
    <3>1. UNCHANGED <<condition, running, counter, taken, metric, group, asked, request, screen>>
      BY <2>4 DEF ProbeStep, Ping, ReadLag, Answer, Unanswered, Told, worldVars, reporterVars, redisVars
    <3>2. QED
      BY <3>1 DEF VitalsSettled, RatesAreZero, RequestIsHonest, RedisUp, Lag
  <2>5. CASE ReadVitals
    <3>1. RequestIsHonest'
      BY <2>5, HonestVitals
    <3>2. UNCHANGED <<condition, running, counter, taken, metric, group, asked, screen>>
      BY <2>5 DEF ReadVitals, ReadNext, worldVars, reporterVars, redisVars
    <3>3. QED
      BY <3>1, <3>2 DEF VitalsSettled, RatesAreZero, RedisUp, Lag
  <2>6. CASE Show
    <3>1. /\ request.pc = "answer" /\ screen' = request.got /\ request' = NoRequest
          /\ UNCHANGED <<condition, running, counter, taken, metric, group, asked>>
      BY <2>6 DEF Show, worldVars, reporterVars, redisVars
    <3>2. RequestIsHonest'
      BY <3>1 DEF RequestIsHonest, NoRequest
    <3>3. request.got = [signals |-> 0, processing |-> 0, lag |-> Lag, cache |-> "hot"]
      <4>1. request.got \in Reading
        BY <2>1 DEF MonTypeOK
      <4>2. /\ request.got.signals = 0 /\ request.got.processing = 0
            /\ request.got.lag = Lag /\ request.got.cache = "hot"
        BY <3>1 DEF VitalsSettled, RequestIsHonest
      <4>3. QED
        BY <4>1, <4>2 DEF Reading
    <3>4. QED
      BY <3>1, <3>2, <3>3 DEF VitalsSettled, RatesAreZero, RedisUp, Lag
  <2>7. ASSUME NEW s \in Stores, NEW to \in {"up", "refuses", "hangs"}, Change(s, to)
        PROVE  VitalsSettled'
    <3>1. faults \in Nat /\ ~Fault
      BY <2>1, BoundsAreNat DEF MonTypeOK, Fault
    <3>2. to = "up" /\ condition' = [condition EXCEPT ![s] = "up"]
      BY <2>7, <3>1 DEF Change
    <3>3. UNCHANGED <<running, counter, taken, metric, group, asked, request, screen>>
      BY <2>7 DEF Change, reporterVars, redisVars, pollVars
    <3>4. RedisUp' /\ condition'["postgres"] # "hangs"
      BY <2>1, <3>2 DEF VitalsSettled, RedisUp, MonTypeOK, Stores
    <3>5. QED
      BY <3>3, <3>4 DEF VitalsSettled, RatesAreZero, RequestIsHonest, Lag
  <2>8. QED
    BY <2>2, <2>3, <2>4, <2>5, <2>6, <2>7 DEF Next, VitalsStep
<1>2. QED
  BY <1>1, MonitoringInvariant, PTL DEF Spec, VitalsMisleadOnlyAfterEvent
=============================================================================
