----------------------------- MODULE Monitoring -----------------------------
(***************************************************************************)
(* How the system watches itself: the throughput reporters of the API and  *)
(* of the processor, the health endpoints of both, GetVitals, and the      *)
(* dashboard's polls of them (backend/internal/observability,              *)
(* api/handlers/health.go, worker_health.go, incidents.go:164-211,         *)
(* frontend/src/api.js, components/Analytics.jsx, Header.jsx).             *)
(*                                                                         *)
(* A rate is the number of events of one interval.  Requests only read, so *)
(* a behaviour has one who asks, for one endpoint; one request is under    *)
(* way at a time: polls are 5 or 10 s apart, and their contexts end after  *)
(* 3 or 5 s.                                                               *)
(***************************************************************************)
EXTENDS Integers, Sequences

CONSTANTS
    MaxCounted,  \* how many events are counted, and entries delivered (bound)
    MaxFaults    \* how often a store fails or a process ends (bound)

ASSUME BoundsAreNat == {MaxCounted, MaxFaults} \subseteq Nat

Stores == {"redis", "mongodb", "postgres"}
Processes == {"api", "processor"}
Metrics == {"signals_per_sec", "processing_per_sec", "work_items_per_sec"}

MetricsOf(p) == IF p = "api" THEN {"signals_per_sec"} ELSE Metrics \ {"signals_per_sec"}

VARIABLES
    condition,  \* condition[s]: "up", "refuses" at once, or "hangs" until the deadline
    running,    \* the processes that run
    counter,    \* counter[m]: the atomic counter behind metric m
    taken,      \* taken[m]: what the reporter has swapped out and not yet set
    agenda,     \* agenda[p]: what reporter p has still to do in this tick
    metric,     \* the metric keys in Redis, as a function of those that exist
    group,      \* does the consumer group exist?
    pending,    \* the length of its pending entries list
    asked,      \* whose /health is asked for, or "vitals"
    probe,      \* the request to /health under way
    health,     \* what the last answer of /health has told
    request,    \* the request of the vitals under way
    screen,     \* the vitals the dashboard shows
    counted,    \* the events so far
    faults

reporterVars == <<counter, taken, agenda>>
redisVars == <<metric, group, pending>>
pollVars == <<asked, probe, health, request, screen>>
worldVars == <<condition, running, counted, faults>>
vars == <<worldVars, reporterVars, redisVars, pollVars>>

Lags == -1 .. MaxCounted
NoProbe == [pc |-> "redis", late |-> FALSE, ok |-> {}, lag |-> -1]
Reading == [signals : 0 .. MaxCounted, processing : 0 .. MaxCounted, lag : Lags,
            cache : {"hot", "cold", "error"}]
Blank == [signals |-> 0, processing |-> 0, lag |-> -1, cache |-> "error"]
NoRequest == [pc |-> "signals", late |-> FALSE, got |-> Blank]

MonTypeOK ==
    /\ condition \in [Stores -> {"up", "refuses", "hangs"}]
    /\ running \subseteq Processes
    /\ counter \in [Metrics -> 0 .. MaxCounted]
    /\ taken \in [Metrics -> 0 .. MaxCounted]
    /\ agenda \in [Processes -> Seq({"swap", "set"} \X Metrics)]
    /\ DOMAIN metric \subseteq Metrics
    /\ \A m \in DOMAIN metric : metric[m] \in 0 .. MaxCounted
    /\ group \in BOOLEAN
    /\ pending \in 0 .. MaxCounted
    /\ ~group => pending = 0
    /\ asked \in Processes \cup {"vitals"}
    /\ probe \in [pc : Stores \cup {"lag", "answer"}, late : BOOLEAN,
                  ok : SUBSET Stores, lag : Lags]
    /\ health \in [ok : SUBSET Stores, lag : Lags]
    /\ request \in [pc : {"signals", "processing", "lag", "mttr", "cache", "answer"},
                    late : BOOLEAN, got : Reading]
    /\ screen \in Reading
    /\ counted \in 0 .. MaxCounted
    /\ faults \in 0 .. MaxFaults

(* The mains have started; the dashboard has not asked yet. *)
Init ==
    /\ condition = [s \in Stores |-> "up"]
    /\ running = Processes
    /\ counter = [m \in Metrics |-> 0]
    /\ taken = [m \in Metrics |-> 0]
    /\ agenda = [p \in Processes |-> <<>>]
    /\ metric = <<>>
    /\ group = TRUE
    /\ pending = 0
    /\ asked \in Processes \cup {"vitals"}
    /\ probe = NoProbe
    /\ health = [ok |-> {}, lag |-> -1]
    /\ request = NoRequest
    /\ screen = Blank
    /\ counted = 0
    /\ faults = 0

Fault == faults < MaxFaults /\ faults' = faults + 1

RedisUp == condition["redis"] = "up"

-----------------------------------------------------------------------------
(* What is watched.                                                        *)

Event == counted < MaxCounted /\ counted' = counted + 1

(* IncrementIngested, IncrementProcessed, IncrementWorkItemsCreated. *)
Increment(m) ==
    /\ \E p \in running : m \in MetricsOf(p)
    /\ Event
    /\ counter' = [counter EXCEPT ![m] = @ + 1]
    /\ UNCHANGED <<condition, running, faults, taken, agenda, redisVars, pollVars>>

(* A worker of the processor reads an entry, or acknowledges one. *)
Deliver ==
    /\ "processor" \in running /\ RedisUp /\ group
    /\ Event
    /\ pending' = pending + 1
    /\ UNCHANGED <<condition, running, faults, reporterVars, metric, group, pollVars>>

(* Bug: an XACK counts whether the entry is pending or not. *)
AcknowledgeAny ==
    /\ "processor" \in running /\ RedisUp
    /\ pending' = pending - 1
    /\ UNCHANGED <<worldVars, reporterVars, metric, group, pollVars>>

Acknowledge ==
    /\ "processor" \in running /\ RedisUp /\ pending > 0
    /\ pending' = pending - 1
    /\ UNCHANGED <<worldVars, reporterVars, metric, group, pollVars>>

-----------------------------------------------------------------------------
(* reportLoop, of Metrics and of ProcessorMetrics.                         *)

Set(m) == <<"set", m>>
Swap(m) == <<"swap", m>>

(* A tick takes every counter of the process and then sets every key. *)
Plan(p) ==
    IF p = "api" THEN <<Swap("signals_per_sec"), Set("signals_per_sec")>>
    ELSE <<Swap("processing_per_sec"), Swap("work_items_per_sec"),
           Set("processing_per_sec"), Set("work_items_per_sec")>>

(* What the reporter does next; a tick begins when the last one is done. *)
Agenda(p) == IF agenda[p] = <<>> THEN Plan(p) ELSE agenda[p]

NextIs(p, step) ==
    /\ p \in running /\ Head(Agenda(p)) = step
    /\ agenda' = [agenda EXCEPT ![p] = Tail(Agenda(p))]

SwapCounter(p, m) ==
    /\ NextIs(p, Swap(m))
    /\ taken' = [taken EXCEPT ![m] = counter[m]]
    /\ counter' = [counter EXCEPT ![m] = 0]
    /\ UNCHANGED <<worldVars, redisVars, pollVars>>

Published(m) == [n \in DOMAIN metric \cup {m} |-> IF n = m THEN taken[m] ELSE metric[n]]

(* Bug: an interval without events is not worth a SET. *)
SetMetricIfAny(p, m) ==
    /\ NextIs(p, Set(m))
    /\ metric' = IF RedisUp /\ taken[m] > 0 THEN Published(m) ELSE metric
    /\ taken' = [taken EXCEPT ![m] = 0]
    /\ UNCHANGED <<worldVars, counter, group, pending, pollVars>>

(* SET without an expiry; its error is not looked at. *)
SetMetric(p, m) ==
    /\ NextIs(p, Set(m))
    /\ metric' = IF RedisUp THEN Published(m) ELSE metric
    /\ taken' = [taken EXCEPT ![m] = 0]
    /\ UNCHANGED <<worldVars, counter, group, pending, pollVars>>

ReportStep(p) == \E m \in MetricsOf(p) : SwapCounter(p, m) \/ SetMetric(p, m)

-----------------------------------------------------------------------------
(* The health endpoints: three pings one after the other under one context *)
(* of 3 s, so a ping that hangs leaves nothing for the next ones.  A store *)
(* nobody can connect to refuses Redis's and PostgreSQL's clients; the     *)
(* MongoDB driver goes on looking for it until the deadline: it hangs.     *)

AfterPing(s) ==
    CASE s = "redis" -> "mongodb"
      [] s = "mongodb" -> "postgres"
      [] s = "postgres" -> IF asked = "processor" THEN "lag" ELSE "answer"

Ping(s) ==
    /\ asked \in running /\ probe.pc = s
    /\ probe' = [probe EXCEPT
          !.pc = AfterPing(s),
          !.late = @ \/ condition[s] = "hangs",
          !.ok = IF condition[s] = "up" /\ ~probe.late THEN @ \cup {s} ELSE @]
    /\ UNCHANGED <<worldVars, reporterVars, redisVars, asked, health, request, screen>>

(* XPENDING: an error, no consumer group for example, leaves -1. *)
LagRead(late) == IF RedisUp /\ group /\ ~late THEN pending ELSE -1

ReadLag ==
    /\ probe.pc = "lag"
    /\ probe' = [probe EXCEPT !.pc = "answer", !.lag = LagRead(probe.late)]
    /\ UNCHANGED <<worldVars, reporterVars, redisVars, asked, health, request, screen>>

Told(ok, lag) ==
    /\ health' = [ok |-> ok, lag |-> lag]
    /\ probe' = NoProbe
    /\ UNCHANGED <<worldVars, reporterVars, redisVars, asked, request, screen>>

(* Bug: fetchHealth throws on a 503, like the other functions of api.js. *)
AnswerIfOk ==
    /\ probe.pc = "answer"
    /\ Told(IF probe.ok = Stores THEN Stores ELSE {}, probe.lag)

(* 200 or 503: the body says which stores are up, and is read either way. *)
Answer ==
    /\ probe.pc = "answer"
    /\ Told(probe.ok, probe.lag)

(* Nobody answers: fetchHealth takes every store for down. *)
Unanswered ==
    /\ asked \in Processes \ running
    /\ Told({}, -1)

ProbeStep == ReadLag \/ Answer \/ Unanswered \/ \E s \in Stores : Ping(s)

-----------------------------------------------------------------------------
(* GetVitals, which always answers 200, and the dashboard's poll of it.    *)

(* The next command, to store s, which makes got of what is read so far.   *)
(* One that hangs may take the rest of the 5 s.                            *)
ReadNext(here, next, s, got) ==
    /\ asked = "vitals" /\ "api" \in running /\ request.pc = here
    /\ \E late \in {request.late, request.late \/ condition[s] = "hangs"} :
          request' = [pc |-> next, late |-> late, got |-> got]
    /\ UNCHANGED <<worldVars, reporterVars, redisVars, asked, probe, health, screen>>

Readable == RedisUp /\ ~request.late

(* GetMetric; the dashboard shows an empty string as 0.00. *)
RateRead(m) == IF Readable /\ m \in DOMAIN metric THEN metric[m] ELSE 0

CacheRead ==
    CASE ~Readable -> "error"
      [] Readable /\ "signals_per_sec" \notin DOMAIN metric -> "cold"
      [] OTHER -> "hot"

ReadVitals ==
    \/ ReadNext("signals", "processing", "redis",
                [request.got EXCEPT !.signals = RateRead("signals_per_sec")])
    \/ ReadNext("processing", "lag", "redis",
                [request.got EXCEPT !.processing = RateRead("processing_per_sec")])
    \/ ReadNext("lag", "mttr", "redis",
                [request.got EXCEPT !.lag = LagRead(request.late)])
    \/ ReadNext("mttr", "cache", "postgres", request.got)
    \/ ReadNext("cache", "answer", "redis", [request.got EXCEPT !.cache = CacheRead])

(* The answer, or none: then the dashboard goes on showing the last one. *)
Show ==
    /\ request.pc = "answer"
    /\ screen' = request.got
    /\ request' = NoRequest
    /\ UNCHANGED <<worldVars, reporterVars, redisVars, asked, probe, health>>

VitalsStep == ReadVitals \/ Show

-----------------------------------------------------------------------------
(* Faults.                                                                 *)

(* A store changes its condition; that it is well again is no fault. *)
Change(s, to) ==
    /\ to # condition[s]
    /\ IF to = "up" THEN UNCHANGED faults ELSE Fault
    /\ condition' = [condition EXCEPT ![s] = to]
    /\ UNCHANGED <<running, counted, reporterVars, redisVars, pollVars>>

(* Redis keeps nothing over a restart. *)
RedisRestart ==
    /\ Fault
    /\ metric' = <<>>
    /\ group' = FALSE
    /\ pending' = 0
    /\ UNCHANGED <<condition, running, counted, reporterVars, pollVars>>

(* A process ends, and its counters and requests with it. *)
End(p) ==
    /\ p \in running /\ Fault
    /\ running' = running \ {p}
    /\ counter' = [m \in Metrics |-> IF m \in MetricsOf(p) THEN 0 ELSE counter[m]]
    /\ taken' = [m \in Metrics |-> IF m \in MetricsOf(p) THEN 0 ELSE taken[m]]
    /\ agenda' = [agenda EXCEPT ![p] = <<>>]
    /\ probe' = IF p = asked THEN NoProbe ELSE probe
    /\ request' = IF p = "api" THEN NoRequest ELSE request
    /\ UNCHANGED <<condition, counted, redisVars, asked, health, screen>>

(* The main of p: it is started again until all stores answer it, and that *)
(* of the processor creates the group.                                     *)
Start(p) ==
    /\ p \notin running /\ \A s \in Stores : condition[s] = "up"
    /\ running' = running \cup {p}
    /\ group' = (group \/ p = "processor")
    /\ UNCHANGED <<condition, counted, faults, reporterVars, metric, pending, pollVars>>

Next ==
    \/ \E m \in Metrics : Increment(m)
    \/ Deliver \/ Acknowledge \/ ProbeStep \/ VitalsStep
    \/ \E p \in Processes : ReportStep(p) \/ End(p) \/ Start(p)
    \/ \E s \in Stores, to \in {"up", "refuses", "hangs"} : Change(s, to)
    \/ RedisRestart

Spec == Init /\ [][Next]_vars

(* The tickers tick, the handlers and the polls go on, and Docker starts   *)
(* an ended process again (restart: unless-stopped).                       *)
Fairness ==
    /\ \A p \in Processes : WF_vars(ReportStep(p)) /\ WF_vars(Start(p))
    /\ WF_vars(ProbeStep) /\ WF_vars(VitalsStep)

FairSpec == Spec /\ Fairness

-----------------------------------------------------------------------------
(* Properties.                                                             *)

(* Who asks for the health of a process that runs is told the truth about  *)
(* every store in the end, those after a failing one included, unless some *)
(* store hangs: the three pings share a context                            *)
(* (health.go:24-45, worker_health.go:29-48, api.js:44-52).                *)
HealthSettles ==
    <>[](asked \in running /\ \A s \in Stores : condition[s] # "hangs")
        => <>[](health.ok = {s \in Stores : condition[s] = "up"})

(* When nothing more is counted, the dashboard comes to show it: rates of  *)
(* 0.00, a warm cache and the length of the pending list, or -1 as long as *)
(* Redis has lost the group, whatever was restarted before and though the  *)
(* keys never expire (metrics.go:33-51, processor_metrics.go:40-60,        *)
(* incidents.go:166-210).                                                  *)
VitalsSettle ==
    <>[](asked = "vitals" /\ running = Processes /\ RedisUp /\ condition["postgres"] # "hangs")
        => <>[](/\ screen.signals = 0 /\ screen.processing = 0 /\ screen.cache = "hot"
                /\ screen.lag = IF group THEN pending ELSE -1)
=============================================================================
