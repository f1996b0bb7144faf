----------------------------- MODULE LoadTester -----------------------------
(***************************************************************************)
(* The load tester, scripts/load_tester.go, as the client of Ingestion:    *)
(* concurrent goroutines take batches from a channel, post each of them,   *)
(* post it once more when no answer comes, and count what they were told.  *)
(*                                                                         *)
(* A request that the tester has given up goes on in the API, so that the  *)
(* two attempts of a batch may run side by side.  The goroutines are told  *)
(* apart by the batch they have in hand, and a counter is the set of       *)
(* batches whose size it has grown by.                                     *)
(***************************************************************************)
EXTENDS Ingestion

CONSTANTS
    Concurrency,  \* the number of goroutines (-c)
    Loads,        \* the batches in reqChan (-n over batchSize, rounded up)
    BodyOf        \* BodyOf[b][k]: the signals of attempt k to send batch b

ASSUME BodiesAreBatches == BodyOf \in [Loads -> [1 .. 2 -> Batches]]
ASSUME AttemptsAreApart ==
    \A b, c \in Loads : \A j, k \in 1 .. 2 :
        /\ BodyOf[b][j] # <<>>
        /\ Elements(BodyOf[b][j]) \cap Elements(BodyOf[c][k]) # {} => b = c /\ j = k
ASSUME ConcurrencyIsPositive == Concurrency \in Nat \ {0}

VARIABLES
    state,    \* state[b]: "queued" in reqChan, "send", "wait", then its counter
    attempt   \* attempt[b]: the number of the attempt to send it

testVars == <<state, attempt>>
allVars == <<vars, testVars>>

LoadTypeOK ==
    /\ TypeOK
    /\ state \in [Loads -> {"queued", "send", "wait", "success", "rateLimited", "failed"}]
    /\ attempt \in [Loads -> 1 .. 2]

LoadInit ==
    /\ Init
    /\ state = [b \in Loads |-> "queued"]
    /\ attempt = [b \in Loads |-> 1]

InHand == {b \in Loads : state[b] \in {"send", "wait"}}

Goes(b, s) == state' = [state EXCEPT ![b] = s]

Payload(b) == BodyOf[b][attempt[b]]

-----------------------------------------------------------------------------
(* A goroutine that has nothing in hand takes the batch. *)
CanSend(b) ==
    \/ state[b] = "send"
    \/ state[b] = "queued" /\ Cardinality(InHand) < Concurrency

(* client.Do, as far as the handler that receives the request. *)
Send(b, h) ==
    /\ CanSend(b)
    /\ Receive(h, Payload(b))
    /\ Goes(b, "wait")
    /\ UNCHANGED attempt

Told(b, status) ==
    state[b] = "wait" /\ \E s \in Elements(Payload(b)) : answer[s] = status

(* Bug: whatever is answered counts as a success. *)
CountAnySuccess(b) ==
    /\ \E status \in {"202", "429", "503"} : Told(b, status)
    /\ Goes(b, "success")
    /\ UNCHANGED <<attempt, vars>>

(* The answer comes: 202, 429 or another status. *)
CountAnswer(b) ==
    /\ \/ Told(b, "202") /\ Goes(b, "success")
       \/ Told(b, "429") /\ Goes(b, "rateLimited")
       \/ Told(b, "503") /\ Goes(b, "failed")
    /\ UNCHANGED <<attempt, vars>>

(* The API ended with the request under way, and nobody answers it. *)
Cut(b) ==
    /\ state[b] = "wait"
    /\ \A s \in Elements(Payload(b)) : answer[s] = "none"
    /\ \A h \in Handlers : body[h] # Payload(b)

(* client.Do returns an error: no API, no connection, no answer within     *)
(* 15 s, or one that is lost.                                              *)
NoAnswer(b) ==
    \/ (CanSend(b) \/ state[b] = "wait") /\ Fault("net")
    \/ ((CanSend(b) /\ ~up) \/ Cut(b)) /\ UNCHANGED faults

(* The first time the batch is sent again, the second time it has failed.  *)
GiveUp(b) ==
    /\ NoAnswer(b)
    /\ \/ attempt[b] = 1 /\ Goes(b, "send") /\ attempt' = [attempt EXCEPT ![b] = 2]
       \/ attempt[b] = 2 /\ Goes(b, "failed") /\ UNCHANGED attempt
    /\ UNCHANGED <<up, requestVars, limiterVars, bufferVars, fate, answer, metricVars>>

TesterStep(b) ==
    (\E h \in Handlers : Send(b, h)) \/ CountAnswer(b) \/ GiveUp(b)

ApiStep ==
    /\ \/ \E h \in Handlers : HandlerStep(h)
       \/ WriterStep \/ Refill \/ Swap \/ ApiEnds \/ ApiStarts
    /\ UNCHANGED testVars

LoadNext == ApiStep \/ \E b \in Loads : TesterStep(b)

LoadSpec == LoadInit /\ [][LoadNext]_allVars

(* The goroutines of the tester and of the handlers; Redis may hang, and   *)
(* the writers with it.                                                    *)
LoadFairness ==
    /\ \A b \in Loads : WF_allVars(TesterStep(b))
    /\ \A h \in Handlers : WF_allVars(HandlerStep(h) /\ UNCHANGED testVars)

FairLoadSpec == LoadSpec /\ LoadFairness

-----------------------------------------------------------------------------
(* What the API has accepted of attempt k to send b. *)
AcceptedOf(b, k) == {s \in Elements(BodyOf[b][k]) : fate[s] = "accepted"}

(* What the report says is true of the batches: one counted as a success   *)
(* has a signal that was accepted; and as long as no request was cut, one  *)
(* counted as limited or failed has none, and no batch was sent twice: the *)
(* duplicates the retry makes need a lost answer (load_tester.go:89-118,   *)
(* ingestion.go:46-77).                                                    *)
ReportIsTrue ==
    \A b \in Loads :
        /\ state[b] = "success" => \E k \in 1 .. 2 : AcceptedOf(b, k) # {}
        /\ faults = 0 =>
              /\ state[b] \in {"rateLimited", "failed"} => AcceptedOf(b, 1) = {}
              /\ \A s \in Elements(BodyOf[b][2]) : fate[s] = "new"

(* The test comes to its end, every batch counted: no handler keeps a      *)
(* tester waiting, though Redis may hang, requests be lost and the API end *)
(* (load_tester.go:71-124, stream.go:44-51).                               *)
TestEnds == <>(\A b \in Loads : state[b] \in {"success", "rateLimited", "failed"})
=============================================================================
