-------------------------- MODULE LoadTesterProofs --------------------------
(***************************************************************************)
(* The load tester and the way in together: proved for all loads, bodies,  *)
(* goroutines and faults that satisfy the assumptions of LoadTester and    *)
(* Ingestion.                                                              *)
(***************************************************************************)
EXTENDS LoadTester, IngestionProofs

(* The signals of attempt k to send batch b. *)
Sent(b, k) == Elements(BodyOf[b][k])

(* An attempt that was not made has not reached the API. *)
NotYetSent ==
    \A b \in Loads : \A k \in 1 .. 2 :
        k > attempt[b] \/ (k = attempt[b] /\ state[b] \in {"queued", "send"})
            => \A s \in Sent(b, k) : fate[s] = "new"

(* Every request is an attempt of the tester. *)
RequestsAreAttempts ==
    \A h \in Handlers : body[h] # <<>> =>
        \E b \in Loads : \E k \in 1 .. 2 : body[h] = BodyOf[b][k]

(* The signals of an attempt have one answer, and 202 is a true one. *)
AnswersAreTrue ==
    \A b \in Loads : \A k \in 1 .. 2 : \A s \in Sent(b, k) :
        /\ \A t \in Sent(b, k) : answer[s] = answer[t]
        /\ answer[s] = "202" => AcceptedOf(b, k) # {}

SuccessIsTrue ==
    \A b \in Loads : state[b] = "success" => \E k \in 1 .. 2 : AcceptedOf(b, k) # {}

(* While nothing fails a batch is sent once, served and answered. *)
NoFailure ==
    faults = 0 =>
        /\ up
        /\ \A b \in Loads :
              /\ attempt[b] = 1
              /\ state[b] # "send"
              /\ state[b] \in {"rateLimited", "failed"} =>
                    \A s \in Sent(b, 1) : answer[s] \in {"429", "503"}
              /\ state[b] = "wait" =>
                    \/ \E h \in Handlers : body[h] = BodyOf[b][1]
                    \/ \A s \in Sent(b, 1) : answer[s] # "none"

(* What the tester knows of the API. *)
Tester ==
    /\ NotYetSent
    /\ RequestsAreAttempts
    /\ AnswersAreTrue
    /\ SuccessIsTrue
    /\ NoFailure

(* The inductive invariant. *)
LoadInv == LoadTypeOK /\ IngInv /\ Tester

-----------------------------------------------------------------------------
(* The attempts.                                                           *)

LEMMA AttemptTypes ==
    ASSUME NEW b \in Loads, NEW k \in 1 .. 2
    PROVE  /\ BodyOf[b][k] \in Batches /\ BodyOf[b][k] \in Seq(Signals)
           /\ BodyOf[b][k] # <<>>
           /\ Sent(b, k) \subseteq Signals
           /\ \E s \in Signals : s \in Sent(b, k)
<1>1. BodyOf[b][k] \in Batches
  BY BodiesAreBatches
<1>2. BodyOf[b][k] \in Seq(Signals) /\ BodyOf[b][k] # <<>>
  BY <1>1, BatchesAreOfSignals, AttemptsAreApart
<1>3. Sent(b, k) \subseteq Signals
  BY <1>2, ElementsOf DEF Sent
<1>4. 1 \in 1 .. Len(BodyOf[b][k])
  BY <1>2, ElementsOfTail
<1>5. BodyOf[b][k][1] \in Sent(b, k)
  BY <1>4 DEF Sent, Elements
<1>6. QED
  BY <1>1, <1>2, <1>3, <1>5

LEMMA PayloadOf ==
    ASSUME LoadTypeOK, NEW b \in Loads
    PROVE  /\ attempt[b] \in 1 .. 2 /\ Payload(b) = BodyOf[b][attempt[b]]
           /\ Elements(Payload(b)) = Sent(b, attempt[b])
BY DEF LoadTypeOK, Payload, Sent

(* Two attempts have no signal in common. *)
LEMMA SentApart ==
    ASSUME NEW b \in Loads, NEW c \in Loads, NEW j \in 1 .. 2, NEW k \in 1 .. 2,
           NEW s, s \in Sent(b, j), s \in Sent(c, k)
    PROVE  b = c /\ j = k
BY AttemptsAreApart DEF Sent

-----------------------------------------------------------------------------
(* The steps of the API and those of the tester.                           *)

LEMMA LoadStepIsStep ==
    ASSUME LoadTypeOK, [LoadNext]_allVars
    PROVE  Step
<1>1. CASE ApiStep
  BY <1>1 DEF ApiStep, Step, Next
<1>2. ASSUME NEW b \in Loads, TesterStep(b) PROVE Step
  <2>1. ASSUME NEW h \in Handlers, Send(b, h) PROVE Step
    <3>1. Payload(b) \in Batches
      BY PayloadOf, AttemptTypes
    <3>2. QED
      BY <2>1, <3>1 DEF Send, Step, Next
  <2>2. CASE CountAnswer(b)
    BY <2>2 DEF CountAnswer, Step
  <2>3. CASE GiveUp(b)
    <3>1. UNCHANGED <<up, requestVars, limiterVars, bufferVars, fate, answer, metricVars>>
      BY <2>3 DEF GiveUp
    <3>2. CASE UNCHANGED faults
      BY <3>1, <3>2 DEF Step, vars
    <3>3. CASE Fault("net")
      <4>1. PICK f \in 0 .. MaxFaults : f = faults
        BY DEF LoadTypeOK, TypeOK
      <4>2. f < MaxFaults /\ faults' = f + 1
        BY <3>3, <4>1 DEF Fault
      <4>3. faults' \in f .. MaxFaults
        BY <4>1, <4>2, SizesAreNat
      <4>4. QED
        BY <3>1, <4>1, <4>3 DEF Step, OtherFault
    <3>4. QED
      BY <2>3, <3>2, <3>3 DEF GiveUp, NoAnswer
  <2>4. QED
    BY <1>2, <2>1, <2>2, <2>3 DEF TesterStep
<1>3. CASE UNCHANGED allVars
  BY <1>3 DEF allVars, Step
<1>4. QED
  BY <1>1, <1>2, <1>3 DEF LoadNext

LEMMA LoadType ==
    ASSUME LoadTypeOK, TypeOK', [LoadNext]_allVars
    PROVE  LoadTypeOK'
<1>1. CASE UNCHANGED testVars
  BY <1>1 DEF LoadTypeOK, testVars
<1>2. ASSUME NEW b \in Loads, TesterStep(b) PROVE LoadTypeOK'
  BY <1>2 DEF TesterStep, Send, CountAnswer, GiveUp, Goes, LoadTypeOK
<1>3. QED
  BY <1>1, <1>2 DEF LoadNext, ApiStep, allVars

(* A signal stays accepted, and is not received by itself. *)
LEMMA ApiKeepsFates ==
    ASSUME IngInv, ApiStep, NEW s \in Signals
    PROVE  /\ fate[s] = "new" => fate'[s] = "new"
           /\ fate[s] = "accepted" => fate'[s] = "accepted"
<1>1. TypeOK /\ Requests
  BY DEF IngInv
<1>2. ASSUME NEW h \in Handlers, Limit(h)
      PROVE  fate'[s] = fate[s] \/ fate[s] = "arriving"
  <2>1. BodyInOrder(h) /\ pc[h] = "limit" /\ Len(body[h]) \in Nat
    BY <1>1, <1>2, BodyOfHandler DEF Requests, BodiesInOrder, Limit
  <2>2. \A t \in Elements(body[h]) : fate[t] = "arriving"
    BY <2>1 DEF BodyInOrder, Elements
  <2>3. QED
    BY <1>2, <2>2 DEF Limit, AllBecome
<1>3. ASSUME NEW h \in Handlers, Push(h)
      PROVE  fate'[s] = fate[s] \/ fate[s] = "arriving"
  <2>1. fate[Current(h)] = "arriving"
    BY <1>1, <1>3, CurrentArrives DEF Push
  <2>2. fate'[s] = fate[s] \/ s = Current(h)
    BY <1>1, <1>3 DEF Push, Accepted, TypeOK
  <2>3. QED
    BY <2>1, <2>2
<1>4. ASSUME ApiEnds PROVE fate'[s] = fate[s] \/ fate[s] = "arriving"
  BY <1>4 DEF ApiEnds
<1>5. ASSUME NEW h \in Handlers, IncrementIngested(h) \/ Reply(h) PROVE fate' = fate
  BY <1>5 DEF IncrementIngested, Reply
<1>6. ASSUME WriterStep \/ Refill \/ Swap \/ ApiStarts PROVE fate' = fate
  BY <1>6 DEF WriterStep, Take, Write, Refill, Swap, ApiStarts
<1>7. QED
  BY <1>2, <1>3, <1>4, <1>5, <1>6 DEF ApiStep, HandlerStep

(* What a step of the API does to the requests. *)
LEMMA ApiRequests ==
    ASSUME IngInv, ApiStep
    PROVE  \/ UNCHANGED <<body, answer>> /\ (faults' = 0 => faults = 0 /\ (up => up'))
           \/ \E h \in Handlers, status \in {"202", "429", "503"} :
                /\ Answer(h, status)
                /\ UNCHANGED <<faults, up>>
                /\ status = "202" => \E s \in Elements(body[h]) : fate'[s] = "accepted"
           \/ /\ answer' = answer /\ faults' # 0
              /\ \A h \in Handlers : body'[h] = <<>>
<1>1. TypeOK /\ Requests
  BY DEF IngInv
<1>2. ASSUME NEW h \in Handlers, Limit(h) \/ Push(h) \/ IncrementIngested(h)
      PROVE  \/ UNCHANGED <<body, answer, faults, up>>
             \/ Answer(h, "429") /\ UNCHANGED <<faults, up>>
  BY <1>2 DEF Limit, Push, IncrementIngested
<1>3. ASSUME NEW h \in Handlers, Reply(h)
      PROVE  \E status \in {"202", "429", "503"} :
                /\ Answer(h, status)
                /\ UNCHANGED <<faults, up>>
                /\ status = "202" => \E s \in Elements(body[h]) : fate'[s] = "accepted"
  <2>1. BodyInOrder(h) /\ fate' = fate /\ UNCHANGED <<faults, up>>
    BY <1>1, <1>3 DEF Requests, BodiesInOrder, Reply
  <2>2. CASE count[h] = 0
    BY <1>3, <2>1, <2>2 DEF Reply
  <2>3. CASE count[h] # 0
    <3>1. \E s \in Elements(body[h]) : fate[s] = "accepted"
      BY <2>1, <2>3 DEF BodyInOrder, Elements
    <3>2. Answer(h, "202")
      BY <1>3, <2>3 DEF Reply
    <3>3. QED
      BY <2>1, <3>1, <3>2
  <2>4. QED
    BY <2>2, <2>3
<1>4. ASSUME WriterStep
      PROVE  UNCHANGED <<body, answer, up>> /\ (faults' = 0 => faults = 0)
  <2>1. UNCHANGED <<body, answer, up>> /\ (faults' = faults \/ faults' = faults + 1)
    BY <1>4 DEF WriterStep, Take, Write, Fault, requestVars
  <2>2. faults \in Nat
    BY <1>1, SizesAreNat DEF TypeOK
  <2>3. QED
    BY <2>1, <2>2
<1>5. ASSUME Refill \/ Swap \/ ApiStarts
      PROVE  UNCHANGED <<body, answer, faults>> /\ (up => up')
  BY <1>5 DEF Refill, Swap, ApiStarts, requestVars
<1>6. ASSUME ApiEnds
      PROVE  /\ answer' = answer /\ faults' # 0
             /\ \A h \in Handlers : body'[h] = <<>>
  <2>1. faults \in Nat /\ faults' = faults + 1
    BY <1>1, <1>6, SizesAreNat DEF TypeOK, ApiEnds, Fault
  <2>2. QED
    BY <1>6, <2>1 DEF ApiEnds
<1>7. ASSUME NEW h \in Handlers, HandlerStep(h)
      PROVE  \/ UNCHANGED <<body, answer, faults, up>>
             \/ Answer(h, "429") /\ UNCHANGED <<faults, up>>
             \/ \E status \in {"202", "429", "503"} :
                  /\ Answer(h, status)
                  /\ UNCHANGED <<faults, up>>
                  /\ status = "202" => \E s \in Elements(body[h]) : fate'[s] = "accepted"
  BY <1>2, <1>3, <1>7 DEF HandlerStep
<1>8. QED
  BY <1>4, <1>5, <1>6, <1>7 DEF ApiStep

-----------------------------------------------------------------------------
(* The tester stays true to what the API tells it.                         *)

LEMMA InitLoad == LoadInit => LoadInv
<1> SUFFICES ASSUME LoadInit PROVE LoadInv
  OBVIOUS
<1>1. IngInv /\ TypeOK
  BY InitInv DEF LoadInit, IngInv
<1>2. LoadTypeOK
  BY <1>1 DEF LoadInit, LoadTypeOK
<1>3. NotYetSent
  BY AttemptTypes DEF LoadInit, Init, NotYetSent
<1>4. RequestsAreAttempts /\ SuccessIsTrue /\ NoFailure
  BY DEF LoadInit, Init, RequestsAreAttempts, SuccessIsTrue, NoFailure
<1>5. AnswersAreTrue
  BY AttemptTypes DEF LoadInit, Init, AnswersAreTrue
<1>6. QED
  BY <1>1, <1>2, <1>3, <1>4, <1>5 DEF LoadInv, Tester

(* The API goes on. *)
LEMMA TesterApi ==
    ASSUME LoadInv, ApiStep
    PROVE  Tester'
<1>1. /\ LoadTypeOK /\ TypeOK /\ Requests /\ Tester
      /\ state' = state /\ attempt' = attempt
  BY DEF LoadInv, LoadTypeOK, IngInv, ApiStep, testVars
<1>2. \A s \in Signals : /\ fate[s] = "new" => fate'[s] = "new"
                         /\ fate[s] = "accepted" => fate'[s] = "accepted"
  BY ApiKeepsFates DEF LoadInv
<1>3. \A b \in Loads, k \in 1 .. 2 : /\ Sent(b, k) \subseteq Signals
                                     /\ Sent(b, k)' = Sent(b, k)
                                     /\ BodyOf[b][k] # <<>>
                                     /\ \E s \in Signals : s \in Sent(b, k)
  BY AttemptTypes DEF Sent, Elements
<1>4. \A b \in Loads, k \in 1 .. 2 : AcceptedOf(b, k) # {} => AcceptedOf(b, k)' # {}
  BY <1>2, <1>3 DEF AcceptedOf, Sent
<1>5. NotYetSent'
  BY <1>1, <1>2, <1>3 DEF Tester, NotYetSent, Sent
<1>6. SuccessIsTrue'
  BY <1>1, <1>4 DEF Tester, SuccessIsTrue
<1>7. CASE UNCHANGED <<body, answer>> /\ (faults' = 0 => faults = 0 /\ (up => up'))
  <2>1. RequestsAreAttempts'
    BY <1>1, <1>7 DEF Tester, RequestsAreAttempts
  <2>2. AnswersAreTrue'
    BY <1>1, <1>4, <1>7 DEF Tester, AnswersAreTrue, Sent
  <2>3. NoFailure'
    BY <1>1, <1>7 DEF Tester, NoFailure, Sent
  <2>4. QED
    BY <1>5, <1>6, <2>1, <2>2, <2>3 DEF Tester
<1>8. ASSUME NEW h \in Handlers, NEW status \in {"202", "429", "503"},
             Answer(h, status), UNCHANGED <<faults, up>>,
             status = "202" => \E s \in Elements(body[h]) : fate'[s] = "accepted"
      PROVE  Tester'
  <2>1. /\ body'[h] = <<>>
        /\ \A g \in Handlers \ {h} : body'[g] = body[g]
        /\ \A s \in Signals :
              answer'[s] = IF s \in Elements(body[h]) THEN status ELSE answer[s]
    BY <1>1, <1>8 DEF Answer, TypeOK
  <2>2. RequestsAreAttempts'
    BY <1>1, <2>1 DEF Tester, RequestsAreAttempts
  <2>3. ASSUME NEW b \in Loads, NEW k \in 1 .. 2
        PROVE  \/ body[h] = BodyOf[b][k]
               \/ \A s \in Sent(b, k) : s \notin Elements(body[h])
    <3>1. CASE body[h] = <<>>
      BY <3>1, EmptySeq DEF Elements
    <3>2. CASE body[h] # <<>>
      <4>1. PICK c \in Loads, m \in 1 .. 2 : body[h] = BodyOf[c][m]
        BY <1>1, <3>2 DEF Tester, RequestsAreAttempts
      <4>2. QED
        BY <4>1, SentApart DEF Sent
    <3>3. QED
      BY <3>1, <3>2
  <2>4. AnswersAreTrue'
    <3> SUFFICES ASSUME NEW b \in Loads, NEW k \in 1 .. 2, NEW s \in Sent(b, k)
                 PROVE  /\ \A t \in Sent(b, k) : answer'[s] = answer'[t]
                        /\ answer'[s] = "202" => AcceptedOf(b, k)' # {}
      BY DEF AnswersAreTrue, Sent
    <3>1. CASE body[h] = BodyOf[b][k]
      <4>1. \A t \in Sent(b, k) : answer'[t] = status
        BY <1>3, <2>1, <3>1 DEF Sent
      <4>2. status = "202" => AcceptedOf(b, k)' # {}
        BY <1>8, <3>1 DEF AcceptedOf
      <4>3. QED
        BY <4>1, <4>2
    <3>2. CASE \A t \in Sent(b, k) : t \notin Elements(body[h])
      <4>1. \A t \in Sent(b, k) : answer'[t] = answer[t]
        BY <1>3, <2>1, <3>2
      <4>2. QED
        BY <1>1, <1>4, <4>1 DEF Tester, AnswersAreTrue
    <3>3. QED
      BY <2>3, <3>1, <3>2
  <2>5. NoFailure'
    <3> SUFFICES ASSUME faults = 0, NEW b \in Loads
                 PROVE  /\ up' /\ attempt[b] = 1 /\ state[b] # "send"
                        /\ state[b] \in {"rateLimited", "failed"} =>
                              \A s \in Sent(b, 1) : answer'[s] \in {"429", "503"}
                        /\ state[b] = "wait" =>
                              \/ \E g \in Handlers : body'[g] = BodyOf[b][1]
                              \/ \A s \in Sent(b, 1) : answer'[s] # "none"
      BY <1>1, <1>8 DEF Tester, NoFailure, Sent
    <3>1. up' /\ attempt[b] = 1 /\ state[b] # "send"
      BY <1>1, <1>8 DEF Tester, NoFailure
    <3>2. ASSUME state[b] \in {"rateLimited", "failed"}, NEW s \in Sent(b, 1)
          PROVE  answer'[s] \in {"429", "503"}
      <4>1. s \in Signals /\ answer[s] \in {"429", "503"}
        BY <1>1, <1>3, <3>2 DEF Tester, NoFailure
      <4>2. s \notin Elements(body[h])
        BY <1>1, <4>1 DEF Requests, AnsweredIsDone
      <4>3. QED
        BY <2>1, <4>1, <4>2
    <3>3. ASSUME state[b] = "wait"
          PROVE  \/ \E g \in Handlers : body'[g] = BodyOf[b][1]
                 \/ \A s \in Sent(b, 1) : answer'[s] # "none"
      <4>1. CASE body[h] = BodyOf[b][1]
        BY <1>3, <2>1, <4>1 DEF Sent
      <4>2. CASE body[h] # BodyOf[b][1] /\ \E g \in Handlers : body[g] = BodyOf[b][1]
        BY <2>1, <4>2
      <4>3. CASE \A s \in Sent(b, 1) : answer[s] # "none"
        BY <1>3, <2>1, <4>3
      <4>4. QED
        BY <1>1, <3>3, <4>1, <4>2, <4>3 DEF Tester, NoFailure
    <3>4. QED
      BY <3>1, <3>2, <3>3
  <2>6. QED
    BY <1>5, <1>6, <2>2, <2>4, <2>5 DEF Tester
<1>9. CASE /\ answer' = answer /\ faults' # 0
           /\ \A h \in Handlers : body'[h] = <<>>
  <2>1. RequestsAreAttempts' /\ NoFailure'
    BY <1>9 DEF RequestsAreAttempts, NoFailure
  <2>2. AnswersAreTrue'
    BY <1>1, <1>4, <1>9 DEF Tester, AnswersAreTrue, Sent
  <2>3. QED
    BY <1>5, <1>6, <2>1, <2>2 DEF Tester
<1>10. QED
  BY <1>7, <1>8, <1>9, ApiRequests DEF LoadInv

(* A goroutine sends its batch. *)
LEMMA TesterSend ==
    ASSUME LoadInv, NEW b \in Loads, NEW h \in Handlers, Send(b, h)
    PROVE  Tester'
<1>1. /\ LoadTypeOK /\ TypeOK /\ Requests /\ Tester /\ attempt' = attempt
      /\ attempt[b] \in 1 .. 2 /\ state[b] \in {"queued", "send"}
  BY DEF LoadInv, LoadTypeOK, IngInv, Send, CanSend
<1>2. /\ state'[b] = "wait"
      /\ \A c \in Loads \ {b} : state'[c] = state[c]
  BY <1>1 DEF Send, Goes, LoadTypeOK
<1>3. /\ body[h] = <<>> /\ body'[h] = BodyOf[b][attempt[b]]
      /\ \A g \in Handlers \ {h} : body'[g] = body[g]
      /\ \A s \in Signals :
            fate'[s] = IF s \in Sent(b, attempt[b]) THEN "arriving" ELSE fate[s]
      /\ \A s \in Sent(b, attempt[b]) : fate[s] = "new"
      /\ answer' = answer /\ faults' = faults /\ up' = up
  <2>1. Receive(h, Payload(b)) /\ Payload(b) = BodyOf[b][attempt[b]]
        /\ Elements(Payload(b)) = Sent(b, attempt[b])
    BY <1>1, PayloadOf DEF Send
  <2>2. body[h] = <<>>
    BY <1>1, <2>1 DEF Requests, BodiesInOrder, BodyInOrder, Receive
  <2>3. QED
    BY <1>1, <2>1, <2>2 DEF Receive, AllBecome, TypeOK
<1>4. \A c \in Loads, k \in 1 .. 2 : /\ Sent(c, k) \subseteq Signals
                                     /\ BodyOf[c][k] # <<>>
  BY AttemptTypes
<1>5. \A c \in Loads, k \in 1 .. 2 : c # b \/ k # attempt[b] =>
          \A s \in Sent(c, k) : s \notin Sent(b, attempt[b])
  BY <1>1, SentApart
<1>6. NotYetSent'
  <2> SUFFICES ASSUME NEW c \in Loads, NEW k \in 1 .. 2,
                      k > attempt[c] \/ (k = attempt[c] /\ state'[c] \in {"queued", "send"}),
                      NEW s \in Sent(c, k)
               PROVE  fate'[s] = "new"
    BY <1>1 DEF NotYetSent, Sent
  <2>1. c # b \/ k # attempt[b]
    BY <1>1, <1>2
  <2>2. k > attempt[c] \/ (k = attempt[c] /\ state[c] \in {"queued", "send"})
    BY <1>1, <1>2
  <2>3. fate[s] = "new"
    BY <1>1, <2>2 DEF Tester, NotYetSent
  <2>4. QED
    BY <1>3, <1>4, <1>5, <2>1, <2>3
<1>7. RequestsAreAttempts'
  BY <1>1, <1>3 DEF Tester, RequestsAreAttempts
<1>8. \A c \in Loads, k \in 1 .. 2 : AcceptedOf(c, k) # {} => AcceptedOf(c, k)' # {}
  <2>1. \A s \in Signals : fate[s] = "accepted" => fate'[s] = "accepted"
    BY <1>3
  <2>2. QED
    BY <1>4, <2>1 DEF AcceptedOf, Sent
<1>9. AnswersAreTrue'
  BY <1>1, <1>3, <1>8 DEF Tester, AnswersAreTrue, Sent
<1>10. SuccessIsTrue'
  BY <1>1, <1>2, <1>8 DEF Tester, SuccessIsTrue
<1>11. NoFailure'
  <2> SUFFICES ASSUME faults = 0, NEW c \in Loads
               PROVE  /\ up /\ attempt[c] = 1 /\ state'[c] # "send"
                      /\ state'[c] \in {"rateLimited", "failed"} =>
                            \A s \in Sent(c, 1) : answer[s] \in {"429", "503"}
                      /\ state'[c] = "wait" =>
                            \/ \E g \in Handlers : body'[g] = BodyOf[c][1]
                            \/ \A s \in Sent(c, 1) : answer[s] # "none"
    BY <1>1, <1>3 DEF Tester, NoFailure, Sent
  <2>1. CASE c = b
    BY <1>1, <1>2, <1>3, <2>1 DEF Tester, NoFailure
  <2>2. CASE c # b
    <3>1. \A g \in Handlers : body[g] = BodyOf[c][1] => body'[g] = BodyOf[c][1]
      BY <1>3, <1>4
    <3>2. QED
      BY <1>1, <1>2, <2>2, <3>1 DEF Tester, NoFailure
  <2>3. QED
    BY <2>1, <2>2
<1>12. QED
  BY <1>6, <1>7, <1>9, <1>10, <1>11 DEF Tester

(* An answer is counted. *)
LEMMA TesterCounts ==
    ASSUME LoadInv, NEW b \in Loads, CountAnswer(b)
    PROVE  Tester'
<1>1. /\ LoadTypeOK /\ Tester /\ UNCHANGED vars /\ attempt' = attempt /\ state[b] = "wait"
      /\ attempt[b] \in 1 .. 2
  BY DEF LoadInv, LoadTypeOK, CountAnswer, Told
<1>2. UNCHANGED <<up, body, fate, answer, faults>>
  BY <1>1 DEF vars, requestVars
<1>3. /\ state'[b] \in {"success", "rateLimited", "failed"}
      /\ \A c \in Loads \ {b} : state'[c] = state[c]
      /\ state'[b] = "success" => Told(b, "202")
      /\ state'[b] \in {"rateLimited", "failed"} => Told(b, "429") \/ Told(b, "503")
  BY <1>1 DEF CountAnswer, Goes, LoadTypeOK
<1>4. \A c \in Loads, k \in 1 .. 2 : AcceptedOf(c, k)' = AcceptedOf(c, k)
  BY <1>2 DEF AcceptedOf
<1>5. NotYetSent'
  BY <1>1, <1>2, <1>3 DEF Tester, NotYetSent, Sent
<1>6. RequestsAreAttempts' /\ AnswersAreTrue'
  BY <1>1, <1>2, <1>4 DEF Tester, RequestsAreAttempts, AnswersAreTrue, Sent
<1>7. SuccessIsTrue'
  <2>1. state'[b] = "success" => AcceptedOf(b, attempt[b]) # {}
    BY <1>1, <1>3, PayloadOf DEF Told, Tester, AnswersAreTrue
  <2>2. QED
    BY <1>1, <1>3, <1>4, <2>1 DEF Tester, SuccessIsTrue
<1>8. NoFailure'
  <2>1. ASSUME faults = 0, state'[b] \in {"rateLimited", "failed"}, NEW s \in Sent(b, 1)
        PROVE  answer[s] \in {"429", "503"}
    <3>1. attempt[b] = 1
      BY <1>1, <2>1 DEF Tester, NoFailure
    <3>2. \E t \in Sent(b, 1) : answer[t] \in {"429", "503"}
      BY <1>1, <1>3, <2>1, <3>1, PayloadOf DEF Told
    <3>3. QED
      BY <1>1, <2>1, <3>2 DEF Tester, AnswersAreTrue
  <2>2. QED
    BY <1>1, <1>2, <1>3, <2>1 DEF Tester, NoFailure, Sent
<1>9. QED
  BY <1>5, <1>6, <1>7, <1>8 DEF Tester

(* No answer comes, and the batch is sent again or given up. *)
LEMMA TesterGivesUp ==
    ASSUME LoadInv, NEW b \in Loads, GiveUp(b)
    PROVE  Tester'
<1>1. /\ LoadTypeOK /\ TypeOK /\ Tester /\ UNCHANGED <<up, body, fate, answer>>
      /\ attempt[b] \in 1 .. 2
  BY DEF LoadInv, LoadTypeOK, IngInv, GiveUp, requestVars
<1>2. /\ \A c \in Loads \ {b} : state'[c] = state[c] /\ attempt'[c] = attempt[c]
      /\ \/ attempt[b] = 1 /\ state'[b] = "send" /\ attempt'[b] = 2
         \/ attempt[b] = 2 /\ state'[b] = "failed" /\ attempt'[b] = 2
  BY <1>1 DEF GiveUp, Goes, LoadTypeOK
<1>3. faults' # 0
  <2>1. faults \in Nat
    BY <1>1, SizesAreNat DEF TypeOK
  <2>2. CASE Fault("net")
    BY <2>1, <2>2 DEF Fault
  <2>3. CASE ((CanSend(b) /\ ~up) \/ Cut(b)) /\ faults' = faults
    <3> SUFFICES ASSUME faults = 0 PROVE FALSE
      BY <2>3
    <3>1. up /\ attempt[b] = 1
      BY <1>1 DEF Tester, NoFailure
    <3>2. Cut(b) /\ Payload(b) = BodyOf[b][1] /\ Elements(Payload(b)) = Sent(b, 1)
      BY <1>1, <2>3, <3>1, PayloadOf
    <3>3. \A s \in Sent(b, 1) : answer[s] # "none"
      BY <1>1, <3>2 DEF Cut, Tester, NoFailure
    <3>4. QED
      BY <3>2, <3>3, AttemptTypes DEF Cut
  <2>4. QED
    BY <2>2, <2>3 DEF GiveUp, NoAnswer
<1>4. NotYetSent'
  <2> SUFFICES ASSUME NEW c \in Loads, NEW k \in 1 .. 2,
                      k > attempt'[c] \/ (k = attempt'[c] /\ state'[c] \in {"queued", "send"}),
                      NEW s \in Sent(c, k)
               PROVE  fate[s] = "new"
    BY <1>1 DEF NotYetSent, Sent
  <2>1. k > attempt[c] \/ (k = attempt[c] /\ state[c] \in {"queued", "send"})
    BY <1>1, <1>2
  <2>2. QED
    BY <1>1, <2>1 DEF Tester, NotYetSent
<1>5. RequestsAreAttempts' /\ AnswersAreTrue'
  BY <1>1 DEF Tester, RequestsAreAttempts, AnswersAreTrue, AcceptedOf, Sent
<1>6. SuccessIsTrue'
  BY <1>1, <1>2 DEF Tester, SuccessIsTrue, AcceptedOf
<1>7. NoFailure'
  BY <1>3 DEF NoFailure
<1>8. QED
  BY <1>4, <1>5, <1>6, <1>7 DEF Tester

LEMMA StepLoad == LoadInv /\ [LoadNext]_allVars => LoadInv'
<1> SUFFICES ASSUME LoadInv, [LoadNext]_allVars PROVE LoadInv'
  OBVIOUS
<1>1. IngInv'
  BY LoadStepIsStep, StepInv DEF LoadInv
<1>2. LoadTypeOK'
  BY <1>1, LoadType DEF LoadInv, IngInv
<1>3. CASE UNCHANGED allVars
  <2>1. UNCHANGED <<up, body, fate, answer, faults, state, attempt>>
    BY <1>3 DEF allVars, vars, testVars, requestVars
  <2>2. QED
    BY <1>1, <1>2, <2>1
    DEF LoadInv, Tester, NotYetSent, RequestsAreAttempts, AnswersAreTrue, SuccessIsTrue,
        NoFailure, AcceptedOf, Sent
<1>4. ASSUME NEW b \in Loads, TesterStep(b) PROVE Tester'
  BY <1>4, TesterSend, TesterCounts, TesterGivesUp DEF TesterStep
<1>5. QED
  BY <1>1, <1>2, <1>3, <1>4, TesterApi DEF LoadNext, LoadInv

-----------------------------------------------------------------------------
(* The invariant of the load tester and the API holds in every behaviour.  *)
THEOREM LoadInvariant == LoadSpec => []LoadInv
BY InitLoad, StepLoad, PTL DEF LoadSpec

(* The state of the load tester, and of the API under it, is well typed    *)
(* (load_tester.go, ingestion.go).                                         *)
THEOREM LoadTypeCorrect == LoadSpec => []LoadTypeOK
<1>1. LoadInv => LoadTypeOK
  BY DEF LoadInv
<1>2. QED
  BY <1>1, LoadInvariant, PTL

(* What the report of the load tester says is true of the batches          *)
(* (load_tester.go:89-118, ingestion.go:46-77).                            *)
THEOREM LoadReportIsTrue == LoadSpec => []ReportIsTrue
<1>1. LoadInv => ReportIsTrue
  <2> SUFFICES ASSUME LoadInv, NEW b \in Loads
               PROVE  /\ state[b] = "success" => \E k \in 1 .. 2 : AcceptedOf(b, k) # {}
                      /\ faults = 0 =>
                            /\ state[b] \in {"rateLimited", "failed"} =>
                                  AcceptedOf(b, 1) = {}
                            /\ \A s \in Elements(BodyOf[b][2]) : fate[s] = "new"
    BY DEF ReportIsTrue
  <2>1. /\ Tester /\ Requests
    BY DEF LoadInv, IngInv
  <2>2. state[b] = "success" => \E k \in 1 .. 2 : AcceptedOf(b, k) # {}
    BY <2>1 DEF Tester, SuccessIsTrue
  <2>3. ASSUME faults = 0, state[b] \in {"rateLimited", "failed"}
        PROVE  AcceptedOf(b, 1) = {}
    <3>1. \A s \in Sent(b, 1) : s \in Signals /\ answer[s] \in {"429", "503"}
      BY <2>1, <2>3, AttemptTypes DEF Tester, NoFailure
    <3>2. QED
      BY <2>1, <3>1 DEF Requests, RefusedIsRetriable, AcceptedOf, Sent
  <2>4. ASSUME faults = 0 PROVE \A s \in Elements(BodyOf[b][2]) : fate[s] = "new"
    BY <2>1, <2>4 DEF Tester, NoFailure, NotYetSent, Sent
  <2>5. QED
    BY <2>2, <2>3, <2>4
<1>2. QED
  BY <1>1, LoadInvariant, PTL

(* The tester does not disturb the API: what holds of the way in alone     *)
(* holds under its load (load_tester.go:71-124, ingestion.go, stream.go).  *)
THEOREM WayInUnderLoad ==
    LoadSpec => [](/\ AcceptedIsKept /\ WrittenOnce /\ LimitIsPerSignal
                   /\ RefusedIsRetriable /\ ThroughputAddsUp)
<1>1. LoadInv => /\ AcceptedIsKept /\ WrittenOnce /\ LimitIsPerSignal
                 /\ RefusedIsRetriable /\ ThroughputAddsUp
  BY DEF LoadInv, IngInv, Requests
<1>2. QED
  BY <1>1, LoadInvariant, PTL

-----------------------------------------------------------------------------
(* The test makes progress.                                                *)

Counted(b) == state[b] \in {"success", "rateLimited", "failed"}

(* How far the tester has come with batch b: two attempts, each of them    *)
(* sent and then answered or given up.                                     *)
Rank(b) ==
    IF Counted(b) THEN 4
    ELSE 2 * (attempt[b] - 1) + (IF state[b] = "wait" THEN 1 ELSE 0)

LEMMA TesterStepRank ==
    ASSUME LoadTypeOK, NEW b \in Loads, TesterStep(b)
    PROVE  /\ ~Counted(b)
           /\ Rank(b)' > Rank(b)
           /\ \A c \in Loads \ {b} : state'[c] = state[c] /\ attempt'[c] = attempt[c]
<1>1. PICK k \in 1 .. 2 : k = attempt[b]
  BY DEF LoadTypeOK
<1>2. ASSUME ~Counted(b)
      PROVE  Rank(b) = 2 * (k - 1) + (IF state[b] = "wait" THEN 1 ELSE 0)
  BY <1>1, <1>2 DEF Rank
<1>3. ASSUME state'[b] \in {"success", "rateLimited", "failed"} PROVE Rank(b)' = 4
  BY <1>3 DEF Rank, Counted
<1>4. ASSUME NEW h \in Handlers, Send(b, h) PROVE ~Counted(b) /\ Rank(b)' > Rank(b)
  <2>1. state[b] \in {"queued", "send"} /\ state'[b] = "wait" /\ attempt'[b] = k
    BY <1>1, <1>4 DEF Send, CanSend, Goes, LoadTypeOK
  <2>2. ~Counted(b) /\ Rank(b) = 2 * (k - 1)
    BY <1>2, <2>1 DEF Counted
  <2>3. Rank(b)' = 2 * (k - 1) + 1
    BY <2>1 DEF Rank, Counted
  <2>4. QED
    BY <1>1, <2>2, <2>3
<1>5. ASSUME CountAnswer(b) PROVE ~Counted(b) /\ Rank(b)' > Rank(b)
  <2>1. state[b] = "wait" /\ state'[b] \in {"success", "rateLimited", "failed"}
    BY <1>5 DEF CountAnswer, Told, Goes, LoadTypeOK
  <2>2. ~Counted(b) /\ Rank(b) = 2 * (k - 1) + 1
    BY <1>2, <2>1 DEF Counted
  <2>3. QED
    BY <1>1, <1>3, <2>1, <2>2
<1>6. ASSUME GiveUp(b) PROVE ~Counted(b) /\ Rank(b)' > Rank(b)
  <2>1. state[b] \in {"queued", "send", "wait"}
    BY <1>6 DEF GiveUp, NoAnswer, CanSend, Cut
  <2>2. ~Counted(b) /\ Rank(b) \in {2 * (k - 1), 2 * (k - 1) + 1}
    BY <1>2, <2>1 DEF Counted
  <2>3. CASE k = 1 /\ state'[b] = "send" /\ attempt'[b] = 2
    <3>1. Rank(b)' = 2
      BY <2>3 DEF Rank, Counted
    <3>2. QED
      BY <2>2, <2>3, <3>1
  <2>4. CASE k = 2 /\ state'[b] = "failed"
    BY <1>3, <2>2, <2>4
  <2>5. QED
    BY <1>1, <1>6, <2>3, <2>4 DEF GiveUp, Goes, LoadTypeOK
<1>7. ASSUME NEW c \in Loads \ {b} PROVE state'[c] = state[c] /\ attempt'[c] = attempt[c]
  BY DEF TesterStep, Send, CountAnswer, GiveUp, Goes, LoadTypeOK
<1>8. QED
  BY <1>4, <1>5, <1>6, <1>7 DEF TesterStep

(* What TestEnds rests on: every step of the tester brings a batch         *)
(* further, at most four of them make it counted, and nothing sends a      *)
(* counted batch again or moves it to another counter                      *)
(* (load_tester.go:81-118).                                                *)
THEOREM BatchesMoveOn ==
    LoadSpec => /\ [](\A b \in Loads : Rank(b) \in 0 .. 4)
                /\ [][\A b \in Loads :
                        /\ TesterStep(b) => Rank(b)' > Rank(b)
                        /\ \/ ~Counted(b) /\ Rank(b)' > Rank(b)
                           \/ state'[b] = state[b] /\ attempt'[b] = attempt[b]]_allVars
<1>1. ASSUME LoadTypeOK, NEW b \in Loads PROVE Rank(b) \in 0 .. 4
  <2>1. PICK k \in 1 .. 2 : k = attempt[b]
    BY <1>1 DEF LoadTypeOK
  <2>2. Rank(b) \in {4, 2 * (k - 1), 2 * (k - 1) + 1}
    BY <2>1 DEF Rank
  <2>3. QED
    BY <2>1, <2>2
<1>2. ASSUME LoadTypeOK, [LoadNext]_allVars, NEW b \in Loads
      PROVE  /\ TesterStep(b) => Rank(b)' > Rank(b)
             /\ \/ ~Counted(b) /\ Rank(b)' > Rank(b)
                \/ state'[b] = state[b] /\ attempt'[b] = attempt[b]
  <2>1. CASE TesterStep(b)
    BY <1>2, <2>1, TesterStepRank
  <2>2. CASE state'[b] = state[b] /\ attempt'[b] = attempt[b]
    <3>1. PICK r \in 0 .. 4 : r = Rank(b)
      BY <1>1, <1>2
    <3>2. Rank(b)' = r /\ ~(r > r)
      BY <2>2, <3>1 DEF Rank, Counted
    <3>3. ~TesterStep(b)
      BY <1>2, <3>1, <3>2, TesterStepRank
    <3>4. QED
      BY <2>2, <3>3
  <2>3. CASE UNCHANGED testVars
    BY <2>2, <2>3 DEF testVars
  <2>4. ASSUME NEW c \in Loads \ {b}, TesterStep(c)
        PROVE  state'[b] = state[b] /\ attempt'[b] = attempt[b]
    BY <1>2, <2>4, TesterStepRank
  <2>5. QED
    BY <1>2, <2>1, <2>2, <2>3, <2>4 DEF LoadNext, ApiStep, allVars
<1>3. LoadTypeOK => \A b \in Loads : Rank(b) \in 0 .. 4
  BY <1>1
<1>4. LoadTypeOK /\ [LoadNext]_allVars =>
        [\A b \in Loads :
            /\ TesterStep(b) => Rank(b)' > Rank(b)
            /\ \/ ~Counted(b) /\ Rank(b)' > Rank(b)
               \/ state'[b] = state[b] /\ attempt'[b] = attempt[b]]_allVars
  BY <1>2
<1>5. QED
  BY <1>3, <1>4, LoadTypeCorrect, PTL DEF LoadSpec
=============================================================================
