-------------------------- MODULE IngestionProofs --------------------------
(***************************************************************************)
(* The way in is safe: proved for all signals, batches, handlers, writers, *)
(* capacities and faults that satisfy the assumptions of Ingestion.        *)
(***************************************************************************)
EXTENDS Ingestion, SequenceTheorems, FiniteSetTheorems, TLAPS

(* A fault outside of the API, as LoadTester has them. *)
OtherFault ==
    /\ faults' \in faults .. MaxFaults
    /\ UNCHANGED <<up, requestVars, limiterVars, bufferVars, fate, answer, metricVars>>

Step == [Next]_vars \/ OtherFault

NoRepeats(q) == \A i, j \in 1 .. Len(q) : q[i] = q[j] => i = j

(* What a handler has done with the signals of its body, by their place. *)
BodyInOrder(h) ==
    /\ NoRepeats(body[h])
    /\ next[h] \in 1 .. Len(body[h]) + 1
    /\ pc[h] = "idle" => body[h] = <<>>
    /\ pc[h] \in {"idle", "limit"} => next[h] = 1 /\ count[h] = 0
    /\ pc[h] = "count" => next[h] <= Len(body[h])
    /\ \A j \in 1 .. Len(body[h]) :
          /\ j < next[h] => fate[body[h][j]] \in {"dropped", "accepted"}
          /\ j = next[h] /\ pc[h] = "count" => fate[body[h][j]] = "accepted"
          /\ j = next[h] /\ pc[h] # "count" => fate[body[h][j]] = "arriving"
          /\ j > next[h] => fate[body[h][j]] = "arriving"
    /\ count[h] = 0 <=> \A j \in 1 .. Len(body[h]) : fate[body[h][j]] # "accepted"

BodiesInOrder == \A h \in Handlers : BodyInOrder(h)

(* No signal is in two requests. *)
BodiesAreApart ==
    \A g, h \in Handlers : \A i \in 1 .. Len(body[g]), j \in 1 .. Len(body[h]) :
        body[g][i] = body[h][j] => g = h

ArrivingIsInHand ==
    \A s \in Signals : fate[s] = "arriving" => \E h \in Handlers : s \in Elements(body[h])

AnsweredIsDone ==
    \A s \in Signals : answer[s] # "none" =>
        /\ fate[s] \notin {"new", "arriving"}
        /\ \A h \in Handlers : s \notin Elements(body[h])

(* What the handlers have of their own. *)
Requests ==
    /\ BodiesInOrder
    /\ BodiesAreApart
    /\ ArrivingIsInHand
    /\ AnsweredIsDone
    /\ RefusedIsRetriable

ChannelInOrder == NoRepeats(channel) /\ Elements(channel) \cap hands = {}

(* The inductive invariant. *)
IngInv ==
    /\ TypeOK
    /\ Requests
    /\ ChannelInOrder
    /\ AcceptedIsKept
    /\ WrittenOnce
    /\ LimitIsPerSignal
    /\ ThroughputAddsUp

-----------------------------------------------------------------------------
(* Sequences and the sets of their elements.                               *)

LEMMA ElementsOf ==
    ASSUME NEW S, NEW q \in Seq(S)
    PROVE  /\ Elements(q) \subseteq S
           /\ IsFiniteSet(Elements(q))
           /\ Cardinality(Elements(q)) \in Nat
           /\ Cardinality(Elements(q)) <= Len(q)
<1>1. Elements(q) \subseteq S
  BY ElementOfSeq DEF Elements
<1>2. q \in [1 .. Len(q) -> Elements(q)] /\ Len(q) \in Nat
  BY LenProperties DEF Elements
<1>3. q \in Surjection(1 .. Len(q), Elements(q))
  BY <1>2 DEF Surjection, Elements
<1>4. IsFiniteSet(1 .. Len(q)) /\ Cardinality(1 .. Len(q)) = Len(q)
  <2>1. 1 \in Int /\ Len(q) \in Int
    BY <1>2
  <2>2. IsFiniteSet(1 .. Len(q))
    BY <2>1, FS_Interval, Zenon
  <2>3. Cardinality(1 .. Len(q)) = IF 1 > Len(q) THEN 0 ELSE Len(q) - 1 + 1
    BY <2>1, FS_Interval, Zenon
  <2>4. Cardinality(1 .. Len(q)) = Len(q)
    BY <1>2, <2>3, SMT
  <2>5. QED
    BY <2>2, <2>4
<1>5. IsFiniteSet(Elements(q)) /\ Cardinality(Elements(q)) <= Len(q)
  BY <1>3, <1>4, FS_Surjection
<1>6. QED
  BY <1>1, <1>5, FS_CardinalityType

LEMMA ElementsOfAppend ==
    ASSUME NEW S, NEW q \in Seq(S), NEW e \in S
    PROVE  Elements(Append(q, e)) = Elements(q) \cup {e}
<1> DEFINE r == Append(q, e)
<1>1. /\ Len(q) \in Nat /\ Len(r) = Len(q) + 1 /\ r[Len(q) + 1] = e
      /\ \A i \in 1 .. Len(q) : r[i] = q[i]
  BY AppendProperties, LenProperties
<1> HIDE DEF r
<1>2. ASSUME NEW x \in Elements(r) PROVE x \in Elements(q) \cup {e}
  <2>1. PICK i \in 1 .. Len(r) : x = r[i]
    BY DEF Elements
  <2>2. i \in 1 .. Len(q) \/ i = Len(q) + 1
    BY <1>1, <2>1
  <2>3. QED
    BY <1>1, <2>1, <2>2 DEF Elements
<1>3. ASSUME NEW x \in Elements(q) PROVE x \in Elements(r)
  <2>1. PICK i \in 1 .. Len(q) : x = q[i]
    BY DEF Elements
  <2>2. i \in 1 .. Len(r) /\ x = r[i]
    BY <1>1, <2>1
  <2>3. QED
    BY <2>2 DEF Elements
<1>4. e \in Elements(r)
  <2>1. Len(q) + 1 \in 1 .. Len(r)
    BY <1>1
  <2>2. QED
    BY <1>1, <2>1 DEF Elements
<1>5. QED
  BY <1>2, <1>3, <1>4 DEF r

LEMMA ElementsOfTail ==
    ASSUME NEW S, NEW q \in Seq(S), q # <<>>
    PROVE  /\ Head(q) \in S /\ Head(q) = q[1] /\ 1 \in 1 .. Len(q)
           /\ Elements(q) = Elements(Tail(q)) \cup {Head(q)}
           /\ NoRepeats(q) => NoRepeats(Tail(q)) /\ Head(q) \notin Elements(Tail(q))
<1> DEFINE r == Tail(q)
<1>1. /\ Head(q) \in S /\ Head(q) = q[1]
      /\ Len(q) \in Nat /\ Len(q) >= 1 /\ Len(r) = Len(q) - 1
      /\ \A i \in 1 .. Len(r) : r[i] = q[i + 1]
  BY HeadTailProperties, EmptySeq, LenProperties
<1> HIDE DEF r
<1>2. ASSUME NEW x \in Elements(q) PROVE x \in Elements(r) \cup {Head(q)}
  <2>1. PICK i \in 1 .. Len(q) : x = q[i]
    BY DEF Elements
  <2>2. CASE i = 1
    BY <2>1, <2>2, <1>1
  <2>3. CASE i # 1
    <3>1. i - 1 \in 1 .. Len(r) /\ (i - 1) + 1 = i
      BY <2>1, <2>3, <1>1
    <3>2. x = r[i - 1]
      BY <3>1, <2>1, <1>1
    <3>3. QED
      BY <3>1, <3>2 DEF Elements
  <2>4. QED
    BY <2>2, <2>3
<1>3. \A i \in 1 .. Len(r) : i + 1 \in 1 .. Len(q) /\ i + 1 # 1
  BY <1>1
<1>4. Elements(r) \subseteq Elements(q)
  BY <1>1, <1>3 DEF Elements
<1>5. 1 \in 1 .. Len(q) /\ Head(q) \in Elements(q)
  BY <1>1 DEF Elements
<1>6. ASSUME NoRepeats(q) PROVE NoRepeats(r) /\ Head(q) \notin Elements(r)
  <2>1. ASSUME NEW i \in 1 .. Len(r), NEW j \in 1 .. Len(r), r[i] = r[j] PROVE i = j
    <3>1. q[i + 1] = q[j + 1]
      BY <2>1, <1>1
    <3>2. i + 1 = j + 1
      BY <3>1, <1>3, <1>6 DEF NoRepeats
    <3>3. QED
      BY <3>2, <1>1
  <2>2. ASSUME NEW i \in 1 .. Len(r) PROVE r[i] # q[1]
    BY <1>1, <1>3, <1>5, <1>6 DEF NoRepeats
  <2>3. QED
    BY <2>1, <2>2, <1>1 DEF NoRepeats, Elements
<1>7. QED
  BY <1>1, <1>2, <1>4, <1>5, <1>6 DEF r

-----------------------------------------------------------------------------
(* The requests.                                                           *)

LEMMA BodyOfHandler ==
    ASSUME TypeOK, NEW h \in Handlers
    PROVE  /\ body[h] \in Seq(Signals) /\ Len(body[h]) \in Nat
           /\ \A j \in 1 .. Len(body[h]) : body[h][j] \in Signals
           /\ Elements(body[h]) \subseteq Signals
           /\ next[h] \in Nat /\ count[h] \in Nat
<1>1. body[h] \in Seq(Signals) /\ next[h] \in Nat /\ count[h] \in Nat
  BY DEF TypeOK
<1>2. QED
  BY <1>1, LenProperties, ElementOfSeq, ElementsOf

(* A signal in a request has arrived and is not refused yet. *)
LEMMA BodyFates ==
    ASSUME TypeOK, BodiesInOrder, NEW h \in Handlers, NEW s \in Elements(body[h])
    PROVE  fate[s] \in {"arriving", "dropped", "accepted"} /\ pc[h] # "idle"
<1>1. PICK j \in 1 .. Len(body[h]) : s = body[h][j]
  BY DEF Elements
<1>2. next[h] \in Nat /\ Len(body[h]) \in Nat
  BY BodyOfHandler
<1>3. BodyInOrder(h)
  BY DEF BodiesInOrder
<1>4. j < next[h] \/ j = next[h] \/ j > next[h]
  BY <1>2
<1>5. fate[s] \in {"arriving", "dropped", "accepted"}
  BY <1>1, <1>3, <1>4 DEF BodyInOrder
<1>6. pc[h] # "idle"
  BY <1>1, <1>2, <1>3, EmptySeq DEF BodyInOrder
<1>7. QED
  BY <1>5, <1>6

(* The signal that is pushed is in the hands of its handler only. *)
LEMMA CurrentArrives ==
    ASSUME TypeOK, Requests, NEW h \in Handlers,
           pc[h] = "push", next[h] <= Len(body[h])
    PROVE  /\ next[h] \in 1 .. Len(body[h])
           /\ Current(h) \in Signals
           /\ Current(h) \in Elements(body[h])
           /\ fate[Current(h)] = "arriving"
           /\ answer[Current(h)] = "none"
           /\ \A g \in Handlers \ {h} : Current(h) \notin Elements(body[g])
<1>1. BodyInOrder(h) /\ Len(body[h]) \in Nat /\ next[h] \in Nat
  BY BodyOfHandler DEF Requests, BodiesInOrder
<1>2. next[h] \in 1 .. Len(body[h])
  BY <1>1 DEF BodyInOrder
<1>3. Current(h) \in Signals /\ Current(h) \in Elements(body[h])
  BY <1>2, BodyOfHandler DEF Current, Elements
<1>4. fate[Current(h)] = "arriving"
  BY <1>1, <1>2 DEF BodyInOrder, Current
<1>5. answer[Current(h)] = "none"
  BY <1>3, <1>4 DEF Requests, AnsweredIsDone
<1>6. \A g \in Handlers \ {h} : Current(h) \notin Elements(body[g])
  BY <1>2 DEF Requests, BodiesAreApart, Elements, Current
<1>7. QED
  BY <1>2, <1>3, <1>4, <1>5, <1>6

(* A handler is not disturbed by what others do with their signals. *)
LEMMA BodyUndisturbed ==
    ASSUME NEW h, BodyInOrder(h),
           pc'[h] = pc[h], body'[h] = body[h], next'[h] = next[h], count'[h] = count[h],
           \A s \in Elements(body[h]) : fate'[s] = fate[s]
    PROVE  BodyInOrder(h)'
<1>1. \A j \in 1 .. Len(body[h]) : fate'[body[h][j]] = fate[body[h][j]]
  BY DEF Elements
<1>2. /\ NoRepeats(body[h])' /\ (next[h] \in 1 .. Len(body[h]) + 1)'
      /\ (pc[h] = "idle" => body[h] = <<>>)'
      /\ (pc[h] \in {"idle", "limit"} => next[h] = 1 /\ count[h] = 0)'
      /\ (pc[h] = "count" => next[h] <= Len(body[h]))'
  BY DEF BodyInOrder, NoRepeats
<1>3. ASSUME NEW j \in 1 .. Len(body[h])
      PROVE  /\ j < next[h] => fate'[body[h][j]] \in {"dropped", "accepted"}
             /\ j = next[h] /\ pc[h] = "count" => fate'[body[h][j]] = "accepted"
             /\ j = next[h] /\ pc[h] # "count" => fate'[body[h][j]] = "arriving"
             /\ j > next[h] => fate'[body[h][j]] = "arriving"
  BY <1>1 DEF BodyInOrder
<1>4. count[h] = 0 <=> \A j \in 1 .. Len(body[h]) : fate'[body[h][j]] # "accepted"
  BY <1>1 DEF BodyInOrder
<1>5. QED
  BY <1>2, <1>3, <1>4 DEF BodyInOrder

-----------------------------------------------------------------------------
(* Types.                                                                  *)

LEMMA HandsAreFinite ==
    ASSUME TypeOK
    PROVE  /\ IsFiniteSet(hands) /\ Cardinality(hands) \in Nat
           /\ \A s \in Signals \ hands :
                 Cardinality(hands \cup {s}) = Cardinality(hands) + 1
           /\ \A s \in Signals : /\ hands \ {s} \subseteq Signals
                                 /\ Cardinality(hands \ {s}) \in Nat
                                 /\ Cardinality(hands \ {s}) <= Cardinality(hands)
<1>1. IsFiniteSet(hands) /\ hands \subseteq Signals
  BY SetsAreFinite, FS_Subset DEF TypeOK
<1>2. Cardinality(hands) \in Nat
  BY <1>1, FS_CardinalityType
<1>3. \A s \in Signals \ hands : Cardinality(hands \cup {s}) = Cardinality(hands) + 1
  BY <1>1, FS_AddElement
<1>4. \A s \in Signals : hands \ {s} \subseteq hands
  OBVIOUS
<1>5. \A s \in Signals : /\ Cardinality(hands \ {s}) \in Nat
                         /\ Cardinality(hands \ {s}) <= Cardinality(hands)
  BY <1>1, <1>4, FS_Subset, FS_CardinalityType
<1>6. QED
  BY <1>1, <1>2, <1>3, <1>4, <1>5

LEMMA InitType == Init => TypeOK
<1> SUFFICES ASSUME Init PROVE TypeOK
  OBVIOUS
<1>1. hands = {} /\ Cardinality(hands) = 0
  BY FS_EmptySet DEF Init
<1>2. channel = <<>> /\ channel \in Seq(Signals) /\ Len(channel) = 0
  BY EmptySeq DEF Init
<1>3. stream \in Seq(Signals)
  BY EmptySeq DEF Init
<1>4. body \in [Handlers -> Seq(Signals)]
  BY EmptySeq DEF Init
<1>5. QED
  BY <1>1, <1>2, <1>3, <1>4, SizesAreNat, SizesArePositive DEF Init, TypeOK

LEMMA AnswerType ==
    ASSUME TypeOK, NEW h \in Handlers, NEW status \in {"202", "429", "503"},
           Answer(h, status)
    PROVE  /\ answer' \in [Signals -> {"none", "202", "429", "503"}]
           /\ pc' \in [Handlers -> {"idle", "limit", "push", "count"}]
           /\ body' \in [Handlers -> Seq(Signals)]
           /\ next' \in [Handlers -> Nat]
           /\ count' \in [Handlers -> Nat]
<1>1. <<>> \in Seq(Signals)
  BY EmptySeq
<1>2. QED
  BY <1>1 DEF TypeOK, Answer

LEMMA HandlerType ==
    ASSUME TypeOK, Requests, NEW h \in Handlers, HandlerStep(h)
    PROVE  TypeOK'
<1>1. CASE Limit(h)
  <2> DEFINE n == Len(body[h])
  <2>1. n \in Nat
    BY BodyOfHandler
  <2>2. CASE /\ n <= tokens /\ tokens' = tokens - n
             /\ pc' = [pc EXCEPT ![h] = "push"]
             /\ UNCHANGED <<body, next, count, fate, answer>>
    <3>1. PICK t \in 0 .. Burst : t = tokens
      BY DEF TypeOK
    <3>2. t - n \in 0 .. Burst
      BY <2>1, <2>2, <3>1, SizesAreNat
    <3>3. tokens' \in 0 .. Burst
      BY <2>2, <3>1, <3>2
    <3>4. QED
      BY <1>1, <2>2, <3>3 DEF Limit, TypeOK, limiterVars, bufferVars, metricVars
  <2>3. CASE Answer(h, "429") /\ AllBecome(Elements(body[h]), "limited") /\ UNCHANGED tokens
    <3>1. fate' \in [Signals -> {"new", "arriving", "limited", "dropped", "accepted"}]
      BY <2>3 DEF AllBecome, TypeOK
    <3>2. QED
      BY <1>1, <2>3, <3>1, AnswerType DEF Limit, TypeOK, bufferVars, metricVars
  <2>4. QED
    BY <1>1, <2>2, <2>3 DEF Limit
<1>2. CASE Push(h)
  <2>1. Current(h) \in Signals /\ Len(channel) \in Nat
    BY <1>2, CurrentArrives, LenProperties DEF Push, TypeOK
  <2>2. CASE Len(channel) < Capacity /\ channel' = Append(channel, Current(h)) /\ Accepted(h)
    <3>1. channel' \in Seq(Signals) /\ Len(channel') = Len(channel) + 1
      BY <2>1, <2>2, AppendProperties DEF TypeOK
    <3>2. Len(channel') <= Capacity
      BY <2>1, <2>2, <3>1, SizesArePositive
    <3>3. QED
      BY <1>2, <2>2, <3>1, <3>2 DEF Push, Accepted, TypeOK, limiterVars, metricVars
  <2>3. CASE /\ fate' = [fate EXCEPT ![Current(h)] = "dropped"]
             /\ next' = [next EXCEPT ![h] = @ + 1]
             /\ UNCHANGED <<channel, count, pc>>
    <3>1. next' \in [Handlers -> Nat]
      BY <2>3 DEF TypeOK
    <3>2. fate' \in [Signals -> {"new", "arriving", "limited", "dropped", "accepted"}]
      BY <2>3 DEF TypeOK
    <3>3. QED
      BY <1>2, <2>3, <3>1, <3>2 DEF Push, TypeOK, limiterVars, metricVars
  <2>4. QED
    BY <1>2, <2>2, <2>3 DEF Push
<1>3. CASE IncrementIngested(h)
  BY <1>3, BodyOfHandler DEF IncrementIngested, TypeOK, limiterVars, bufferVars
<1>4. CASE Reply(h)
  <2>1. PICK status \in {"202", "429", "503"} : Answer(h, status)
    BY <1>4 DEF Reply
  <2>2. QED
    BY <1>4, <2>1, AnswerType DEF Reply, TypeOK, limiterVars, bufferVars, metricVars
<1>5. QED
  BY <1>1, <1>2, <1>3, <1>4 DEF HandlerStep

LEMMA WriterType ==
    ASSUME TypeOK, WriterStep
    PROVE  TypeOK'
<1>1. CASE Take
  <2>1. Head(channel) \in Signals /\ Tail(channel) \in Seq(Signals)
        /\ Len(Tail(channel)) \in Nat /\ Len(Tail(channel)) <= Len(channel)
        /\ Len(channel) \in Nat
    BY <1>1, HeadTailProperties, EmptySeq, LenProperties DEF Take, TypeOK
  <2>2. channel' \in Seq(Signals) /\ Len(channel') <= Capacity
    BY <1>1, <2>1, SizesArePositive DEF Take, TypeOK
  <2>3. hands' \subseteq Signals
    BY <1>1, <2>1 DEF Take, TypeOK
  <2>4. Cardinality(hands') <= StreamWorkers
    <3>1. CASE Head(channel) \in hands
      <4>1. hands' = hands
        BY <1>1, <3>1 DEF Take
      <4>2. QED
        BY <4>1 DEF TypeOK
    <3>2. CASE Head(channel) \notin hands
      <4>1. Cardinality(hands') = Cardinality(hands) + 1
        BY <1>1, <2>1, <3>2, HandsAreFinite DEF Take
      <4>2. QED
        BY <1>1, <4>1, HandsAreFinite, SizesArePositive DEF Take
    <3>3. QED
      BY <3>1, <3>2
  <2>5. QED
    BY <1>1, <2>2, <2>3, <2>4
    DEF Take, TypeOK, requestVars, limiterVars, metricVars
<1>2. ASSUME NEW s \in Signals, Write(s) PROVE TypeOK'
  <2>1. Append(stream, s) \in Seq(Signals) /\ stream \o <<s, s>> \in Seq(Signals)
    BY AppendProperties, ConcatProperties DEF TypeOK
  <2>2. stream' \in Seq(Signals)
    BY <1>2, <2>1 DEF Write, TypeOK
  <2>3. hands' \subseteq Signals /\ Cardinality(hands') <= StreamWorkers
    <3>1. hands' = hands \ {s}
      BY <1>2 DEF Write
    <3>2. QED
      BY <3>1, HandsAreFinite, SizesArePositive DEF TypeOK
  <2>4. faults' \in 0 .. MaxFaults /\ resent' \in 0 .. faults'
    <3>1. PICK f \in 0 .. MaxFaults : f = faults /\ resent \in 0 .. f
      BY DEF TypeOK
    <3>2. PICK r \in 0 .. f : r = resent
      BY <3>1
    <3>3. \/ faults' = f /\ resent' = r
          \/ f < MaxFaults /\ faults' = f + 1 /\ resent' \in {r, r + 1}
      BY <1>2, <3>1, <3>2 DEF Write, Fault
    <3>4. QED
      BY <3>2, <3>3, SizesAreNat
  <2>5. QED
    BY <1>2, <2>2, <2>3, <2>4 DEF Write, TypeOK, requestVars, limiterVars, metricVars
<1>3. QED
  BY <1>1, <1>2 DEF WriterStep

LEMMA ReceiveType ==
    ASSUME TypeOK, NEW h \in Handlers, NEW b \in Batches, Receive(h, b)
    PROVE  TypeOK'
<1>1. fate' \in [Signals -> {"new", "arriving", "limited", "dropped", "accepted"}]
  BY DEF Receive, AllBecome, TypeOK
<1>2. QED
  BY <1>1, BatchesAreOfSignals
  DEF Receive, TypeOK, limiterVars, bufferVars, metricVars

LEMMA OtherType ==
    ASSUME TypeOK, Refill \/ Swap \/ ApiEnds \/ ApiStarts \/ OtherFault \/ UNCHANGED vars
    PROVE  TypeOK'
<1>1. PICK t \in 0 .. Burst, f \in 0 .. MaxFaults : t = tokens /\ f = faults
  BY DEF TypeOK
<1>2. CASE Refill
  <2>1. tokens' \in 0 .. Burst
    <3>1. t < Burst /\ tokens' = t + 1
      BY <1>1, <1>2 DEF Refill
    <3>2. QED
      BY <3>1, SizesAreNat
  <2>2. QED
    BY <1>2, <2>1 DEF Refill, TypeOK, requestVars, bufferVars, metricVars
<1>3. CASE Swap
  BY <1>3 DEF Swap, TypeOK, requestVars, limiterVars, bufferVars
<1>4. CASE ApiEnds
  <2>1. faults' \in 0 .. MaxFaults /\ resent' \in 0 .. faults'
    <3>1. f < MaxFaults /\ faults' = f + 1 /\ resent' = resent /\ resent \in 0 .. f
      BY <1>1, <1>4 DEF ApiEnds, Fault, TypeOK
    <3>2. QED
      BY <1>1, <3>1, SizesAreNat
  <2>2. <<>> \in Seq(Signals) /\ Len(<<>>) = 0 /\ Cardinality({}) = 0
    BY EmptySeq, FS_EmptySet
  <2>3. /\ channel' \in Seq(Signals) /\ Len(channel') <= Capacity
        /\ hands' \subseteq Signals /\ Cardinality(hands') <= StreamWorkers
        /\ body' \in [Handlers -> Seq(Signals)]
    BY <1>4, <2>2, SizesArePositive DEF ApiEnds
  <2>4. fate' \in [Signals -> {"new", "arriving", "limited", "dropped", "accepted"}]
    BY <1>4 DEF ApiEnds, TypeOK
  <2>5. QED
    BY <1>4, <2>1, <2>3, <2>4 DEF ApiEnds, TypeOK, limiterVars
<1>5. CASE ApiStarts
  <2>1. tokens' = Burst /\ tokens' \in 0 .. Burst
    BY <1>5, SizesAreNat DEF ApiStarts
  <2>2. granted' \in Nat
    <3>1. granted' = granted + (Burst - t) /\ granted \in Nat
      BY <1>1, <1>5 DEF ApiStarts, TypeOK
    <3>2. QED
      BY <1>1, <3>1, SizesAreNat
  <2>3. QED
    BY <1>5, <2>1, <2>2 DEF ApiStarts, TypeOK, requestVars, bufferVars, metricVars
<1>6. CASE OtherFault
  <2>1. faults' \in 0 .. MaxFaults /\ resent' \in 0 .. faults'
    <3>1. faults' \in f .. MaxFaults /\ resent' = resent /\ resent \in 0 .. f
      BY <1>1, <1>6 DEF OtherFault, TypeOK, bufferVars
    <3>2. QED
      BY <1>1, <3>1, SizesAreNat
  <2>2. QED
    BY <1>6, <2>1
    DEF OtherFault, TypeOK, requestVars, limiterVars, bufferVars, metricVars
<1>7. CASE UNCHANGED vars
  BY <1>7 DEF vars, TypeOK, requestVars, limiterVars, bufferVars, metricVars
<1>8. QED
  BY <1>2, <1>3, <1>4, <1>5, <1>6, <1>7

LEMMA StepType ==
    ASSUME TypeOK, Requests, Step
    PROVE  TypeOK'
BY HandlerType, WriterType, ReceiveType, OtherType DEF Step, Next

-----------------------------------------------------------------------------
(* The requests stay in order.                                             *)

(* A request is answered: its signals leave with their fates. *)
LEMMA RequestsAnswered ==
    ASSUME TypeOK, Requests, NEW h \in Handlers, NEW status \in {"202", "429", "503"},
           Answer(h, status),
           \A s \in Signals \ Elements(body[h]) : fate'[s] = fate[s],
           \A s \in Elements(body[h]) :
               /\ fate'[s] \in {"limited", "dropped", "accepted"}
               /\ status \in {"429", "503"} => fate'[s] # "accepted"
    PROVE  Requests'
<1>1. /\ body'[h] = <<>> /\ pc'[h] = "idle" /\ next'[h] = 1 /\ count'[h] = 0
      /\ Len(<<>>) = 0
      /\ \A g \in Handlers \ {h} : /\ body'[g] = body[g] /\ pc'[g] = pc[g]
                                   /\ next'[g] = next[g] /\ count'[g] = count[g]
      /\ \A s \in Signals :
            answer'[s] = IF s \in Elements(body[h]) THEN status ELSE answer[s]
  BY EmptySeq DEF Answer, TypeOK
<1>2. \A g \in Handlers \ {h} : \A s \in Elements(body[g]) :
          s \in Signals /\ s \notin Elements(body[h])
  BY BodyOfHandler DEF Requests, BodiesAreApart, Elements
<1>3. Elements(body[h])' = {} /\ \A g \in Handlers \ {h} : Elements(body[g])' = Elements(body[g])
  BY <1>1 DEF Elements
<1>4. BodiesInOrder'
  <2>1. BodyInOrder(h)'
    BY <1>1 DEF BodyInOrder, NoRepeats
  <2>2. ASSUME NEW g \in Handlers \ {h} PROVE BodyInOrder(g)'
    BY <1>1, <1>2, BodyUndisturbed DEF Requests, BodiesInOrder
  <2>3. QED
    BY <2>1, <2>2 DEF BodiesInOrder
<1>5. BodiesAreApart'
  BY <1>1 DEF Requests, BodiesAreApart
<1>6. ArrivingIsInHand'
  <2> SUFFICES ASSUME NEW s \in Signals, fate'[s] = "arriving"
               PROVE  \E g \in Handlers : s \in Elements(body[g])'
    BY DEF ArrivingIsInHand
  <2>1. s \notin Elements(body[h]) /\ fate[s] = "arriving"
    OBVIOUS
  <2>2. PICK g \in Handlers : s \in Elements(body[g])
    BY <2>1 DEF Requests, ArrivingIsInHand
  <2>3. QED
    BY <1>3, <2>1, <2>2
<1>7. AnsweredIsDone'
  <2> SUFFICES ASSUME NEW s \in Signals, answer'[s] # "none"
               PROVE  /\ fate'[s] \notin {"new", "arriving"}
                      /\ \A g \in Handlers : s \notin Elements(body[g])'
    BY DEF AnsweredIsDone
  <2>1. CASE s \in Elements(body[h])
    BY <1>2, <1>3, <2>1
  <2>2. CASE s \notin Elements(body[h])
    BY <1>1, <1>3, <2>2 DEF Requests, AnsweredIsDone
  <2>3. QED
    BY <2>1, <2>2
<1>8. RefusedIsRetriable'
  BY <1>1 DEF Requests, RefusedIsRetriable
<1>9. QED
  BY <1>4, <1>5, <1>6, <1>7, <1>8 DEF Requests

LEMMA RequestsReceive ==
    ASSUME TypeOK, Requests, NEW h \in Handlers, NEW b \in Batches, Receive(h, b)
    PROVE  Requests'
<1>1. /\ body[h] = <<>> /\ next[h] = 1 /\ count[h] = 0 /\ Elements(body[h]) = {}
      /\ b \in Seq(Signals) /\ Len(b) \in Nat /\ Elements(b) \subseteq Signals
      /\ NoRepeats(b)
  BY BatchesAreOfSignals, NamedOnce, EmptySeq, LenProperties, ElementsOf
  DEF Receive, Requests, BodiesInOrder, BodyInOrder, Elements, NoRepeats
<1>2. /\ body'[h] = b /\ pc'[h] = "limit" /\ next'[h] = 1 /\ count'[h] = 0
      /\ \A g \in Handlers \ {h} : /\ body'[g] = body[g] /\ pc'[g] = pc[g]
                                   /\ next'[g] = next[g] /\ count'[g] = count[g]
      /\ answer' = answer
      /\ \A s \in Signals : fate'[s] = IF s \in Elements(b) THEN "arriving" ELSE fate[s]
      /\ \A s \in Elements(b) : fate[s] = "new"
  BY <1>1 DEF Receive, AllBecome, TypeOK
<1>3. \A g \in Handlers : \A s \in Elements(body[g]) : s \in Signals /\ s \notin Elements(b)
  BY <1>2, BodyFates, BodyOfHandler DEF Requests
<1>4. Elements(body[h])' = Elements(b)
      /\ \A g \in Handlers \ {h} : Elements(body[g])' = Elements(body[g])
  BY <1>2 DEF Elements
<1>5. BodiesInOrder'
  <2>1. BodyInOrder(h)'
    <3>1. \A j \in 1 .. Len(b) : fate'[b[j]] = "arriving"
      BY <1>1, <1>2 DEF Elements
    <3>2. \A j \in 1 .. Len(b) : j = 1 \/ j > 1
      BY <1>1
    <3>3. 1 \in 1 .. Len(b) + 1
      BY <1>1
    <3>4. QED
      BY <1>1, <1>2, <3>1, <3>2, <3>3 DEF BodyInOrder, NoRepeats
  <2>2. ASSUME NEW g \in Handlers \ {h} PROVE BodyInOrder(g)'
    BY <1>2, <1>3, BodyUndisturbed DEF Requests, BodiesInOrder
  <2>3. QED
    BY <2>1, <2>2 DEF BodiesInOrder
<1>6. BodiesAreApart'
  <2> SUFFICES ASSUME NEW f \in Handlers, NEW g \in Handlers,
                      NEW i \in 1 .. Len(body'[f]), NEW j \in 1 .. Len(body'[g]),
                      body'[f][i] = body'[g][j]
               PROVE  f = g
    BY DEF BodiesAreApart
  <2>1. body'[f][i] \in Elements(body[f])' /\ body'[g][j] \in Elements(body[g])'
    BY DEF Elements
  <2>2. CASE f # h /\ g # h
    BY <1>2, <2>2 DEF Requests, BodiesAreApart
  <2>3. QED
    BY <1>3, <1>4, <2>1, <2>2
<1>7. ArrivingIsInHand'
  <2> SUFFICES ASSUME NEW s \in Signals, fate'[s] = "arriving"
               PROVE  \E g \in Handlers : s \in Elements(body[g])'
    BY DEF ArrivingIsInHand
  <2>1. CASE s \in Elements(b)
    BY <1>4, <2>1
  <2>2. CASE s \notin Elements(b)
    BY <1>1, <1>2, <1>4, <2>2 DEF Requests, ArrivingIsInHand
  <2>3. QED
    BY <2>1, <2>2
<1>8. AnsweredIsDone'
  <2> SUFFICES ASSUME NEW s \in Signals, answer'[s] # "none"
               PROVE  /\ fate'[s] \notin {"new", "arriving"}
                      /\ \A g \in Handlers : s \notin Elements(body[g])'
    BY DEF AnsweredIsDone
  <2>1. fate[s] \notin {"new", "arriving"} /\ \A g \in Handlers : s \notin Elements(body[g])
    BY <1>2 DEF Requests, AnsweredIsDone
  <2>2. QED
    BY <1>2, <1>4, <2>1
<1>9. RefusedIsRetriable'
  BY <1>2 DEF Requests, RefusedIsRetriable
<1>10. QED
  BY <1>5, <1>6, <1>7, <1>8, <1>9 DEF Requests

LEMMA RequestsRest ==
    ASSUME Requests, UNCHANGED <<requestVars, fate, answer>>
    PROVE  Requests'
<1>1. /\ pc' = pc /\ body' = body /\ next' = next /\ count' = count
      /\ fate' = fate /\ answer' = answer
  BY DEF requestVars
<1>2. BodiesInOrder'
  BY <1>1, BodyUndisturbed DEF Requests, BodiesInOrder
<1>3. BodiesAreApart' /\ ArrivingIsInHand' /\ AnsweredIsDone' /\ RefusedIsRetriable'
  BY <1>1 DEF Requests, BodiesAreApart, ArrivingIsInHand, AnsweredIsDone,
              RefusedIsRetriable, Elements
<1>4. QED
  BY <1>2, <1>3 DEF Requests

LEMMA RequestsLimit ==
    ASSUME TypeOK, Requests, NEW h \in Handlers, Limit(h)
    PROVE  Requests'
<1>1. CASE /\ pc' = [pc EXCEPT ![h] = "push"]
           /\ UNCHANGED <<body, next, count, fate, answer>>
  <2>1. pc[h] = "limit" /\ pc'[h] = "push" /\ \A g \in Handlers \ {h} : pc'[g] = pc[g]
    BY <1>1 DEF Limit, TypeOK
  <2>2. BodiesInOrder'
    <3>1. BodyInOrder(h)'
      BY <1>1, <2>1 DEF Requests, BodiesInOrder, BodyInOrder, NoRepeats
    <3>2. ASSUME NEW g \in Handlers \ {h} PROVE BodyInOrder(g)'
      BY <1>1, <2>1, BodyUndisturbed DEF Requests, BodiesInOrder
    <3>3. QED
      BY <3>1, <3>2 DEF BodiesInOrder
  <2>3. BodiesAreApart' /\ ArrivingIsInHand' /\ AnsweredIsDone' /\ RefusedIsRetriable'
    BY <1>1 DEF Requests, BodiesAreApart, ArrivingIsInHand, AnsweredIsDone,
                RefusedIsRetriable, Elements
  <2>4. QED
    BY <2>2, <2>3 DEF Requests
<1>2. CASE Answer(h, "429") /\ AllBecome(Elements(body[h]), "limited")
  <2>1. /\ \A s \in Signals \ Elements(body[h]) : fate'[s] = fate[s]
        /\ \A s \in Elements(body[h]) : fate'[s] = "limited"
    BY <1>2, BodyOfHandler DEF AllBecome
  <2>2. QED
    BY <1>2, <2>1, RequestsAnswered
<1>3. QED
  BY <1>1, <1>2 DEF Limit

LEMMA RequestsReply ==
    ASSUME TypeOK, Requests, NEW h \in Handlers, Reply(h)
    PROVE  Requests'
<1>1. /\ BodyInOrder(h) /\ Len(body[h]) \in Nat /\ next[h] \in Nat /\ next[h] > Len(body[h])
      /\ fate' = fate
  BY BodyOfHandler DEF Reply, Requests, BodiesInOrder
<1>2. \A s \in Elements(body[h]) : fate[s] \in {"dropped", "accepted"}
  <2> SUFFICES ASSUME NEW j \in 1 .. Len(body[h])
               PROVE  fate[body[h][j]] \in {"dropped", "accepted"}
    BY DEF Elements
  <2>1. j < next[h]
    BY <1>1
  <2>2. QED
    BY <1>1, <2>1 DEF BodyInOrder
<1>3. CASE count[h] = 0
  <2>1. \A s \in Elements(body[h]) : fate[s] # "accepted"
    BY <1>1, <1>3 DEF BodyInOrder, Elements
  <2>2. Answer(h, "503")
    BY <1>3 DEF Reply
  <2>3. QED
    BY <1>1, <1>2, <2>1, <2>2, RequestsAnswered
<1>4. CASE count[h] # 0
  <2>1. Answer(h, "202")
    BY <1>4 DEF Reply
  <2>2. QED
    BY <1>1, <1>2, <2>1, RequestsAnswered
<1>5. QED
  BY <1>3, <1>4

(* What becomes of the signal that is pushed, and of nothing else. *)
LEMMA RequestsAfterPush ==
    ASSUME TypeOK, Requests, NEW h \in Handlers, pc[h] = "push", next[h] <= Len(body[h]),
           NEW f \in {"dropped", "accepted"},
           fate' = [fate EXCEPT ![Current(h)] = f],
           UNCHANGED <<body, answer>>,
           \A g \in Handlers \ {h} : /\ pc'[g] = pc[g] /\ next'[g] = next[g]
                                     /\ count'[g] = count[g],
           BodyInOrder(h)'
    PROVE  Requests'
<1>1. /\ Current(h) \in Signals /\ Current(h) \in Elements(body[h])
      /\ fate[Current(h)] = "arriving" /\ answer[Current(h)] = "none"
      /\ \A g \in Handlers \ {h} : Current(h) \notin Elements(body[g])
  BY CurrentArrives
<1>2. /\ fate'[Current(h)] = f
      /\ \A s \in Signals \ {Current(h)} : fate'[s] = fate[s]
  BY <1>1 DEF TypeOK
<1>3. BodiesInOrder'
  <2>1. ASSUME NEW g \in Handlers \ {h} PROVE BodyInOrder(g)'
    <3>1. \A s \in Elements(body[g]) : s \in Signals \ {Current(h)}
      BY <1>1, BodyOfHandler
    <3>2. QED
      BY <1>2, <3>1, BodyUndisturbed DEF Requests, BodiesInOrder
  <2>2. QED
    BY <2>1 DEF BodiesInOrder
<1>4. BodiesAreApart'
  BY DEF Requests, BodiesAreApart
<1>5. ArrivingIsInHand'
  BY <1>2 DEF Requests, ArrivingIsInHand, Elements
<1>6. AnsweredIsDone'
  BY <1>1, <1>2 DEF Requests, AnsweredIsDone, Elements
<1>7. RefusedIsRetriable'
  BY <1>1, <1>2 DEF Requests, RefusedIsRetriable
<1>8. QED
  BY <1>3, <1>4, <1>5, <1>6, <1>7 DEF Requests

LEMMA RequestsPush ==
    ASSUME TypeOK, Requests, NEW h \in Handlers, Push(h)
    PROVE  Requests'
<1> DEFINE n == next[h]
<1>1. /\ BodyInOrder(h) /\ Len(body[h]) \in Nat /\ n \in 1 .. Len(body[h]) /\ count[h] \in Nat
      /\ Current(h) = body[h][n] /\ Current(h) \in Signals /\ fate[Current(h)] = "arriving"
      /\ pc[h] = "push" /\ body' = body
  BY BodyOfHandler, CurrentArrives DEF Push, Requests, BodiesInOrder, Current
<1> HIDE DEF n
<1>2. \A j \in 1 .. Len(body[h]) \ {n} : body[h][j] \in Signals /\ body[h][j] # Current(h)
  BY <1>1, BodyOfHandler DEF BodyInOrder, NoRepeats
<1>3. CASE Accepted(h)
  <2>1. /\ fate' = [fate EXCEPT ![Current(h)] = "accepted"]
        /\ count'[h] = count[h] + 1 /\ next' = next /\ pc'[h] = "count"
        /\ \A g \in Handlers \ {h} : /\ pc'[g] = pc[g] /\ next'[g] = next[g]
                                     /\ count'[g] = count[g]
    BY <1>3 DEF Accepted, TypeOK
  <2>2. /\ fate'[body[h][n]] = "accepted"
        /\ \A j \in 1 .. Len(body[h]) \ {n} : fate'[body[h][j]] = fate[body[h][j]]
    BY <1>1, <1>2, <2>1 DEF TypeOK
  <2>3. count[h] + 1 # 0 /\ n <= Len(body[h])
    BY <1>1
  <2>4. BodyInOrder(h)'
    <3>1. /\ NoRepeats(body[h])' /\ (next[h] \in 1 .. Len(body[h]) + 1)'
          /\ (pc[h] = "idle" => body[h] = <<>>)'
          /\ (pc[h] \in {"idle", "limit"} => next[h] = 1 /\ count[h] = 0)'
          /\ (pc[h] = "count" => next[h] <= Len(body[h]))'
      BY <1>1, <2>1, <2>3 DEF BodyInOrder, NoRepeats, n
    <3>2. ASSUME NEW j \in 1 .. Len(body[h])
          PROVE  /\ j < next[h] => fate'[body[h][j]] \in {"dropped", "accepted"}
                 /\ j = next[h] => fate'[body[h][j]] = "accepted"
                 /\ j > next[h] => fate'[body[h][j]] = "arriving"
      <4>1. CASE j = n
        BY <1>1, <2>2, <4>1 DEF n
      <4>2. CASE j # n
        BY <1>1, <2>2, <4>2 DEF n, BodyInOrder
      <4>3. QED
        BY <4>1, <4>2
    <3>3. (count[h] = 0 <=> \A j \in 1 .. Len(body[h]) : fate[body[h][j]] # "accepted")'
      BY <1>1, <2>1, <2>2, <2>3
    <3>4. QED
      BY <1>1, <2>1, <3>1, <3>2, <3>3 DEF BodyInOrder
  <2>5. QED
    BY <1>1, <2>1, <2>4, RequestsAfterPush DEF Push
<1>4. CASE /\ fate' = [fate EXCEPT ![Current(h)] = "dropped"]
           /\ next' = [next EXCEPT ![h] = @ + 1]
           /\ UNCHANGED <<count, pc>>
  <2>1. /\ next'[h] = n + 1
        /\ \A g \in Handlers \ {h} : next'[g] = next[g]
    BY <1>4 DEF TypeOK, n
  <2>2. /\ fate'[body[h][n]] = "dropped"
        /\ \A j \in 1 .. Len(body[h]) \ {n} : fate'[body[h][j]] = fate[body[h][j]]
    BY <1>1, <1>2, <1>4 DEF TypeOK
  <2>3. n + 1 \in 1 .. Len(body[h]) + 1
    BY <1>1
  <2>4. BodyInOrder(h)'
    <3>1. /\ NoRepeats(body[h])' /\ (next[h] \in 1 .. Len(body[h]) + 1)'
          /\ pc'[h] = "push"
      BY <1>1, <1>4, <2>1, <2>3 DEF BodyInOrder, NoRepeats
    <3>2. ASSUME NEW j \in 1 .. Len(body[h])
          PROVE  /\ j < n + 1 => fate'[body[h][j]] \in {"dropped", "accepted"}
                 /\ j = n + 1 => fate'[body[h][j]] = "arriving"
                 /\ j > n + 1 => fate'[body[h][j]] = "arriving"
      <4>1. CASE j = n
        BY <1>1, <2>2, <4>1
      <4>2. CASE j # n
        <5>1. /\ j < n => fate[body[h][j]] \in {"dropped", "accepted"}
              /\ j > n => fate[body[h][j]] = "arriving"
          BY <1>1 DEF n, BodyInOrder
        <5>2. (j < n + 1 <=> j < n) /\ (j >= n + 1 <=> j > n)
          BY <1>1, <4>2
        <5>3. QED
          BY <1>1, <2>2, <4>2, <5>1, <5>2
      <4>3. QED
        BY <4>1, <4>2
    <3>3. (count[h] = 0 <=> \A j \in 1 .. Len(body[h]) : fate[body[h][j]] # "accepted")'
      <4>1. fate[body[h][n]] # "accepted" /\ fate'[body[h][n]] # "accepted"
        BY <1>1, <2>2
      <4>2. QED
        BY <1>1, <1>4, <2>2, <4>1 DEF BodyInOrder
    <3>4. QED
      BY <1>1, <2>1, <3>1, <3>2, <3>3 DEF BodyInOrder
  <2>5. QED
    BY <1>1, <1>4, <2>1, <2>4, RequestsAfterPush DEF Push
<1>5. QED
  BY <1>3, <1>4 DEF Push

LEMMA RequestsIncrement ==
    ASSUME TypeOK, Requests, NEW h \in Handlers, IncrementIngested(h)
    PROVE  Requests'
<1> DEFINE n == next[h]
<1>1. /\ BodyInOrder(h) /\ Len(body[h]) \in Nat /\ n \in 1 .. Len(body[h])
      /\ pc[h] = "count"
      /\ body' = body /\ fate' = fate /\ count' = count /\ answer' = answer
  BY BodyOfHandler DEF IncrementIngested, Requests, BodiesInOrder, BodyInOrder
<1>2. /\ pc'[h] = "push" /\ next'[h] = n + 1
      /\ \A g \in Handlers \ {h} : pc'[g] = pc[g] /\ next'[g] = next[g]
  BY DEF IncrementIngested, TypeOK
<1> HIDE DEF n
<1>3. BodyInOrder(h)'
  <2>1. n + 1 \in 1 .. Len(body[h]) + 1
    BY <1>1
  <2>2. ASSUME NEW j \in 1 .. Len(body[h])
        PROVE  /\ j < n + 1 => fate[body[h][j]] \in {"dropped", "accepted"}
               /\ j = n + 1 => fate[body[h][j]] = "arriving"
               /\ j > n + 1 => fate[body[h][j]] = "arriving"
    <3>1. CASE j = n
      BY <1>1, <3>1 DEF n, BodyInOrder
    <3>2. CASE j # n
      BY <1>1, <3>2 DEF n, BodyInOrder
    <3>3. QED
      BY <3>1, <3>2
  <2>3. NoRepeats(body[h])
        /\ (count[h] = 0 <=> \A j \in 1 .. Len(body[h]) : fate[body[h][j]] # "accepted")
    BY <1>1 DEF BodyInOrder
  <2>4. QED
    BY <1>1, <1>2, <2>1, <2>2, <2>3 DEF BodyInOrder, NoRepeats
<1>4. BodiesInOrder'
  <2>1. ASSUME NEW g \in Handlers \ {h} PROVE BodyInOrder(g)'
    BY <1>1, <1>2, BodyUndisturbed DEF Requests, BodiesInOrder
  <2>2. QED
    BY <1>3, <2>1 DEF BodiesInOrder
<1>5. BodiesAreApart' /\ ArrivingIsInHand' /\ AnsweredIsDone' /\ RefusedIsRetriable'
  BY <1>1 DEF Requests, BodiesAreApart, ArrivingIsInHand, AnsweredIsDone,
              RefusedIsRetriable, Elements
<1>6. QED
  BY <1>4, <1>5 DEF Requests

LEMMA RequestsEnd ==
    ASSUME TypeOK, Requests, ApiEnds
    PROVE  Requests'
<1>1. /\ \A h \in Handlers : /\ pc'[h] = "idle" /\ body'[h] = <<>>
                             /\ next'[h] = 1 /\ count'[h] = 0
      /\ Len(<<>>) = 0
      /\ answer' = answer
  BY EmptySeq DEF ApiEnds
<1>2. \A h \in Handlers : Elements(body[h])' = {}
  BY <1>1 DEF Elements
<1>3. \A s \in Signals : IF fate[s] # "arriving" THEN fate'[s] = fate[s]
                                               ELSE fate'[s] \in {"limited", "dropped"}
  BY DEF ApiEnds
<1>4. BodiesInOrder'
  BY <1>1 DEF BodiesInOrder, BodyInOrder, NoRepeats
<1>5. BodiesAreApart' /\ ArrivingIsInHand'
  BY <1>1, <1>3 DEF BodiesAreApart, ArrivingIsInHand
<1>6. AnsweredIsDone'
  BY <1>1, <1>2, <1>3 DEF Requests, AnsweredIsDone
<1>7. RefusedIsRetriable'
  BY <1>1, <1>3 DEF Requests, RefusedIsRetriable
<1>8. QED
  BY <1>4, <1>5, <1>6, <1>7 DEF Requests

LEMMA StepRequests ==
    ASSUME TypeOK, Requests, Step
    PROVE  Requests'
<1>1. ASSUME NEW h \in Handlers, HandlerStep(h) PROVE Requests'
  BY <1>1, RequestsLimit, RequestsPush, RequestsIncrement, RequestsReply DEF HandlerStep
<1>2. ASSUME WriterStep PROVE Requests'
  BY <1>2, RequestsRest DEF WriterStep, Take, Write
<1>3. ASSUME Refill \/ Swap \/ ApiStarts PROVE Requests'
  BY <1>3, RequestsRest DEF Refill, Swap, ApiStarts
<1>4. ASSUME OtherFault \/ UNCHANGED vars PROVE Requests'
  BY <1>4, RequestsRest DEF OtherFault, vars
<1>5. QED
  BY <1>1, <1>2, <1>3, <1>4, RequestsReceive, RequestsEnd DEF Step, Next

-----------------------------------------------------------------------------
(* The buffer.                                                             *)

LEMMA NoRepeatsOfAppend ==
    ASSUME NEW S, NEW q \in Seq(S), NEW e \in S, NoRepeats(q), e \notin Elements(q)
    PROVE  NoRepeats(Append(q, e))
<1> DEFINE r == Append(q, e)
<1>1. /\ Len(q) \in Nat /\ Len(r) = Len(q) + 1 /\ r[Len(q) + 1] = e
      /\ \A i \in 1 .. Len(q) : r[i] = q[i] /\ q[i] # e
  BY AppendProperties, LenProperties DEF Elements
<1> HIDE DEF r
<1>2. \A i \in 1 .. Len(r) : i \in 1 .. Len(q) \/ i = Len(q) + 1
  BY <1>1
<1>3. NoRepeats(r)
  BY <1>1, <1>2 DEF NoRepeats
<1>4. QED
  BY <1>3 DEF r

(* A signal that is written twice at once. *)
LEMMA ElementsOfTwice ==
    ASSUME NEW S, NEW q \in Seq(S), NEW e \in S
    PROVE  /\ Elements(q \o <<e, e>>) = Elements(q) \cup {e}
           /\ Len(q \o <<e, e>>) = Len(q) + 2
<1> DEFINE r == q \o <<e, e>>
<1>1. <<e, e>> \in Seq(S) /\ Len(<<e, e>>) = 2 /\ <<e, e>>[1] = e /\ <<e, e>>[2] = e
  OBVIOUS
<1>2. Len(r) = Len(q) + 2 /\ Len(q) \in Nat
  BY <1>1, ConcatProperties, LenProperties
<1>3. \A i \in 1 .. Len(q) + 2 :
          r[i] = IF i <= Len(q) THEN q[i] ELSE <<e, e>>[i - Len(q)]
  BY <1>1, <1>2, ConcatProperties
<1> HIDE DEF r
<1>4. /\ \A i \in 1 .. Len(q) : i \in 1 .. Len(r) /\ r[i] = q[i]
      /\ Len(q) + 1 \in 1 .. Len(r)
  BY <1>2, <1>3
<1>5. r[Len(q) + 1] = e
  BY <1>1, <1>2, <1>3
<1>6. \A i \in 1 .. Len(r) : i \in 1 .. Len(q) \/ r[i] = e
  <2> SUFFICES ASSUME NEW i \in 1 .. Len(r), i \notin 1 .. Len(q) PROVE r[i] = e
    OBVIOUS
  <2>1. i > Len(q) /\ i - Len(q) \in {1, 2}
    BY <1>2
  <2>2. QED
    BY <1>1, <1>2, <1>3, <2>1
<1>7. Elements(r) = Elements(q) \cup {e}
  BY <1>4, <1>5, <1>6 DEF Elements
<1>8. QED
  BY <1>2, <1>7 DEF r

(* What waits, and what is written. *)
Buffer == ChannelInOrder /\ AcceptedIsKept /\ WrittenOnce

LEMMA BufferRest ==
    ASSUME TypeOK, Buffer, UNCHANGED bufferVars,
           faults' = 0 => faults = 0,
           \A s \in Signals : fate'[s] = "accepted" <=> fate[s] = "accepted"
    PROVE  Buffer'
<1>1. channel' = channel /\ hands' = hands /\ stream' = stream /\ resent' = resent
  BY DEF bufferVars
<1>2. /\ Elements(channel)' = Elements(channel) /\ Elements(stream)' = Elements(stream)
      /\ NoRepeats(channel)' <=> NoRepeats(channel)
  BY <1>1 DEF Elements, NoRepeats
<1>3. Buffered' = Buffered /\ ChannelInOrder' /\ WrittenOnce'
  BY <1>1, <1>2 DEF Buffer, ChannelInOrder, WrittenOnce, Buffered
<1>4. AcceptedIsKept'
  BY <1>2, <1>3 DEF Buffer, AcceptedIsKept
<1>5. QED
  BY <1>3, <1>4 DEF Buffer

LEMMA BufferPush ==
    ASSUME TypeOK, Requests, Buffer, NEW h \in Handlers, Push(h)
    PROVE  Buffer'
<1> DEFINE c == Current(h)
<1>1. c \in Signals /\ fate[c] = "arriving"
  BY CurrentArrives DEF Push
<1>2. hands' = hands /\ stream' = stream /\ resent' = resent /\ faults' = faults
  BY DEF Push
<1>3. CASE channel' = Append(channel, c) /\ Accepted(h)
  <2>1. channel \in Seq(Signals)
    BY DEF TypeOK
  <2>2. Elements(channel)' = Elements(channel) \cup {c}
    BY <1>1, <1>3, <2>1, ElementsOfAppend DEF Elements
  <2>3. /\ fate'[c] = "accepted"
        /\ \A s \in Signals \ {c} : fate'[s] = fate[s]
    BY <1>1, <1>3 DEF Accepted, TypeOK
  <2>4. c \notin Elements(channel) /\ c \notin hands /\ c \notin Elements(stream)
    BY <1>1 DEF Buffer, AcceptedIsKept, Buffered
  <2>5. ChannelInOrder'
    <3>1. NoRepeats(channel)'
      <4>1. NoRepeats(Append(channel, c))
        BY <1>1, <2>1, <2>4, NoRepeatsOfAppend DEF Buffer, ChannelInOrder
      <4>2. QED
        BY <1>3, <4>1 DEF NoRepeats
    <3>2. QED
      BY <1>2, <2>2, <2>4, <3>1 DEF Buffer, ChannelInOrder
  <2>6. Buffered' = Buffered \cup {c} /\ Elements(stream)' = Elements(stream)
    BY <1>2, <2>2 DEF Buffered, Elements
  <2>7. AcceptedIsKept'
    BY <1>1, <1>2, <2>3, <2>6 DEF Buffer, AcceptedIsKept
  <2>8. WrittenOnce'
    BY <1>2, <2>4, <2>6 DEF Buffer, WrittenOnce
  <2>9. QED
    BY <2>5, <2>7, <2>8 DEF Buffer
<1>4. CASE fate' = [fate EXCEPT ![c] = "dropped"] /\ UNCHANGED channel
  <2>1. \A s \in Signals : fate'[s] = "accepted" <=> fate[s] = "accepted"
    BY <1>1, <1>4 DEF TypeOK
  <2>2. QED
    BY <1>2, <1>4, <2>1, BufferRest DEF bufferVars
<1>5. QED
  BY <1>3, <1>4 DEF Push

LEMMA BufferTake ==
    ASSUME TypeOK, Buffer, Take
    PROVE  Buffer'
<1>1. channel \in Seq(Signals) /\ channel # <<>>
  BY DEF TypeOK, Take
<1>2. channel' = Tail(channel) /\ hands' = hands \cup {Head(channel)}
      /\ stream' = stream /\ resent' = resent /\ fate' = fate /\ faults' = faults
  BY DEF Take
<1>3. /\ Elements(channel) = Elements(Tail(channel)) \cup {Head(channel)}
      /\ NoRepeats(Tail(channel)) /\ Head(channel) \notin Elements(Tail(channel))
  BY <1>1, ElementsOfTail DEF Buffer, ChannelInOrder
<1>4. Elements(channel)' = Elements(Tail(channel)) /\ NoRepeats(channel)'
  BY <1>2, <1>3 DEF Elements, NoRepeats
<1>5. ChannelInOrder'
  BY <1>2, <1>3, <1>4 DEF Buffer, ChannelInOrder
<1>6. Buffered' = Buffered /\ Elements(stream)' = Elements(stream)
  <2>1. Elements(stream)' = Elements(stream)
    BY <1>2 DEF Elements
  <2>2. QED
    BY <1>2, <1>3, <1>4, <2>1 DEF Buffered
<1>7. AcceptedIsKept' /\ WrittenOnce'
  BY <1>2, <1>6 DEF Buffer, AcceptedIsKept, WrittenOnce
<1>8. QED
  BY <1>5, <1>7 DEF Buffer

LEMMA BufferWrite ==
    ASSUME TypeOK, Buffer, NEW s \in Signals, Write(s)
    PROVE  Buffer'
<1>1. /\ s \in hands /\ hands' = hands \ {s} /\ channel' = channel /\ fate' = fate
      /\ s \notin Elements(channel) /\ s \notin Elements(stream)
      /\ stream \in Seq(Signals) /\ Len(stream) \in Nat /\ resent \in Nat
  <2>1. stream \in Seq(Signals) /\ resent \in Nat
    BY DEF TypeOK
  <2>2. s \in hands /\ s \notin Elements(channel) /\ s \notin Elements(stream)
    BY DEF Write, Buffer, ChannelInOrder, WrittenOnce, Buffered
  <2>3. QED
    BY <2>1, <2>2, LenProperties DEF Write
<1>2. Elements(channel)' = Elements(channel) /\ NoRepeats(channel)'
  BY <1>1 DEF Elements, NoRepeats, Buffer, ChannelInOrder
<1>3. ChannelInOrder' /\ Buffered' = Buffered \ {s}
  BY <1>1, <1>2 DEF Buffer, ChannelInOrder, Buffered
<1>4. /\ IsFiniteSet(Elements(stream)) /\ Cardinality(Elements(stream)) \in Nat
      /\ Cardinality(Elements(stream) \cup {s}) = Cardinality(Elements(stream)) + 1
  BY <1>1, ElementsOf, FS_AddElement
<1>5. CASE stream' = stream /\ resent' = resent /\ faults' = faults + 1
  <2>1. Elements(stream)' = Elements(stream) /\ Len(stream') = Len(stream)
    BY <1>5 DEF Elements
  <2>2. faults' # 0
    BY <1>5 DEF TypeOK
  <2>3. QED
    BY <1>1, <1>3, <1>5, <2>1, <2>2 DEF Buffer, AcceptedIsKept, WrittenOnce
<1>6. CASE stream' = Append(stream, s) /\ resent' = resent /\ faults' \in {faults, faults + 1}
  <2>1. Elements(stream)' = Elements(stream) \cup {s}
    BY <1>1, <1>6, ElementsOfAppend DEF Elements
  <2>2. Len(stream') = Len(stream) + 1
    BY <1>1, <1>6, AppendProperties
  <2>3. WrittenOnce'
    BY <1>1, <1>3, <1>4, <1>6, <2>1, <2>2 DEF Buffer, WrittenOnce
  <2>4. faults' = 0 => faults = 0
    BY <1>6 DEF TypeOK
  <2>5. AcceptedIsKept'
    BY <1>1, <1>3, <2>1, <2>4 DEF Buffer, AcceptedIsKept, Buffered
  <2>6. QED
    BY <1>3, <2>3, <2>5 DEF Buffer
<1>7. CASE stream' = stream \o <<s, s>> /\ resent' = resent + 1 /\ faults' = faults + 1
  <2>1. /\ Elements(stream \o <<s, s>>) = Elements(stream) \cup {s}
        /\ Len(stream \o <<s, s>>) = Len(stream) + 2
    BY <1>1, ElementsOfTwice
  <2>2. Elements(stream)' = Elements(stream) \cup {s}
    BY <1>7, <2>1 DEF Elements
  <2>3. WrittenOnce'
    <3>1. PICK l \in Nat, c \in Nat, r \in Nat :
              /\ l = Len(stream) /\ c = Cardinality(Elements(stream)) /\ r = resent
              /\ l = c + r
      BY <1>1, <1>4 DEF Buffer, WrittenOnce
    <3>2. /\ Len(stream') = l + 2 /\ Cardinality(Elements(stream)') = c + 1
          /\ resent' = r + 1
      BY <1>4, <1>7, <2>1, <2>2, <3>1
    <3>3. Len(stream') = Cardinality(Elements(stream)') + resent'
      BY <3>1, <3>2
    <3>4. Buffered' \cap Elements(stream)' = {}
      BY <1>1, <1>3, <2>2 DEF Buffer, WrittenOnce
    <3>5. QED
      BY <3>3, <3>4 DEF WrittenOnce
  <2>4. faults' # 0
    BY <1>7 DEF TypeOK
  <2>5. AcceptedIsKept'
    BY <1>1, <1>3, <2>2, <2>4 DEF Buffer, AcceptedIsKept, Buffered
  <2>6. QED
    BY <1>3, <2>3, <2>5 DEF Buffer
<1>8. QED
  BY <1>5, <1>6, <1>7 DEF Write, Fault

LEMMA BufferEnds ==
    ASSUME TypeOK, Buffer, ApiEnds
    PROVE  Buffer'
<1>1. /\ channel' = <<>> /\ hands' = {} /\ Len(<<>>) = 0
      /\ stream' = stream /\ resent' = resent /\ faults' # 0
      /\ \A s \in Signals : fate[s] = "accepted" => fate'[s] = "accepted"
  BY EmptySeq DEF ApiEnds, Fault, TypeOK
<1>2. Elements(channel)' = {} /\ NoRepeats(channel)' /\ Elements(stream)' = Elements(stream)
  BY <1>1 DEF Elements, NoRepeats
<1>3. Buffered' = {}
  BY <1>1, <1>2 DEF Buffered
<1>4. QED
  BY <1>1, <1>2, <1>3 DEF Buffer, ChannelInOrder, AcceptedIsKept, WrittenOnce

LEMMA StepBuffer ==
    ASSUME TypeOK, Requests, Buffer, Step
    PROVE  Buffer'
<1>1. ASSUME NEW h \in Handlers, NEW b \in Batches, Receive(h, b) PROVE Buffer'
  <2>1. \A s \in Signals : fate'[s] = "accepted" <=> fate[s] = "accepted"
    BY <1>1 DEF Receive, AllBecome
  <2>2. QED
    BY <1>1, <2>1, BufferRest DEF Receive
<1>2. ASSUME NEW h \in Handlers, Limit(h) PROVE Buffer'
  <2>1. pc[h] = "limit" /\ BodyInOrder(h) /\ Len(body[h]) \in Nat
    BY <1>2, BodyOfHandler DEF Limit, Requests, BodiesInOrder
  <2>2. \A s \in Elements(body[h]) : fate[s] # "accepted"
    BY <2>1 DEF BodyInOrder, Elements
  <2>3. \A s \in Signals : fate'[s] = "accepted" <=> fate[s] = "accepted"
    BY <1>2, <2>2 DEF Limit, AllBecome
  <2>4. QED
    BY <1>2, <2>3, BufferRest DEF Limit
<1>3. ASSUME NEW h \in Handlers, IncrementIngested(h) \/ Reply(h) PROVE Buffer'
  BY <1>3, BufferRest DEF IncrementIngested, Reply
<1>4. ASSUME WriterStep PROVE Buffer'
  BY <1>4, BufferTake, BufferWrite DEF WriterStep
<1>5. ASSUME Refill \/ Swap \/ ApiStarts PROVE Buffer'
  BY <1>5, BufferRest DEF Refill, Swap, ApiStarts
<1>6. ASSUME OtherFault \/ UNCHANGED vars PROVE Buffer'
  <2>1. faults' = 0 => faults = 0
    <3>1. PICK f \in 0 .. MaxFaults : f = faults
      BY DEF TypeOK
    <3>2. faults' \in f .. MaxFaults \/ faults' = f
      BY <1>6, <3>1 DEF OtherFault, vars
    <3>3. QED
      BY <3>1, <3>2
  <2>2. QED
    BY <1>6, <2>1, BufferRest DEF OtherFault, vars
<1>7. QED
  BY <1>1, <1>2, <1>3, <1>4, <1>5, <1>6, BufferPush, BufferEnds DEF Step, Next, HandlerStep

-----------------------------------------------------------------------------
(* The limiter.                                                            *)

(* The signals that got past it. *)
Past ==
    {s \in Signals :
        \/ fate[s] \in {"dropped", "accepted"}
        \/ \E h \in Handlers : pc[h] \in {"push", "count"} /\ s \in Elements(body[h])}

LEMMA LimitOfPast == LimitIsPerSignal <=> Cardinality(Past) + tokens <= granted
BY DEF LimitIsPerSignal, Past

LEMMA PastIsFinite ==
    /\ IsFiniteSet(Past) /\ Cardinality(Past) \in Nat
    /\ \A S \in SUBSET Past : Cardinality(S) \in Nat /\ Cardinality(S) <= Cardinality(Past)
<1>1. IsFiniteSet(Past)
  BY SetsAreFinite, FS_Subset DEF Past
<1>2. QED
  BY <1>1, FS_Subset, FS_CardinalityType

(* Nobody new gets past, and no token is there that was not granted. *)
LEMMA LimitOfOthers ==
    ASSUME TypeOK, LimitIsPerSignal, NEW gain \in Int,
           tokens' = tokens + gain, granted' = granted + gain,
           \A s \in Signals : fate'[s] \in {"dropped", "accepted"} => s \in Past,
           \A h \in Handlers : pc'[h] \in {"push", "count"} =>
               pc[h] \in {"push", "count"} /\ body'[h] = body[h]
    PROVE  LimitIsPerSignal'
<1> DEFINE past == Past'
<1>1. past \in SUBSET Past
  BY DEF Past, Elements
<1> HIDE DEF past
<1>2. Cardinality(past) \in Nat /\ Cardinality(past) <= Cardinality(Past)
  BY <1>1, PastIsFinite
<1>3. PICK t \in Nat, g \in Nat : t = tokens /\ g = granted
  BY SizesAreNat DEF TypeOK
<1>4. Cardinality(Past) + t <= g
  BY <1>3, LimitOfPast
<1>5. Cardinality(past) + (t + gain) <= g + gain
  BY <1>2, <1>3, <1>4, PastIsFinite
<1>6. Cardinality(past) + tokens' <= granted'
  BY <1>3, <1>5
<1>7. QED
  BY <1>6 DEF past, Past, LimitIsPerSignal

LEMMA LimitOfLimit ==
    ASSUME TypeOK, Requests, LimitIsPerSignal, NEW h \in Handlers, Limit(h)
    PROVE  LimitIsPerSignal'
<1> DEFINE n == Len(body[h])
<1>1. CASE /\ n <= tokens /\ tokens' = tokens - n
           /\ pc' = [pc EXCEPT ![h] = "push"]
           /\ UNCHANGED <<body, next, count, fate, answer>>
  <2> DEFINE past == Past'
             S == Past \cup Elements(body[h])
  <2>1. past \subseteq S
    BY <1>1 DEF Past, Elements, TypeOK
  <2>2. /\ n \in Nat /\ IsFiniteSet(Elements(body[h]))
        /\ Cardinality(Elements(body[h])) \in Nat /\ Cardinality(Elements(body[h])) <= n
    BY BodyOfHandler, ElementsOf
  <2> HIDE DEF past, n
  <2>3. /\ IsFiniteSet(S)
        /\ Cardinality(S) <= Cardinality(Past) + Cardinality(Elements(body[h]))
    <3>1. IsFiniteSet(Past \cap Elements(body[h]))
          /\ Cardinality(Past \cap Elements(body[h])) \in Nat
      BY <2>2, FS_Subset, FS_CardinalityType
    <3>2. /\ IsFiniteSet(S)
          /\ Cardinality(S) = Cardinality(Past) + Cardinality(Elements(body[h]))
                              - Cardinality(Past \cap Elements(body[h]))
      BY <2>2, PastIsFinite, FS_Union
    <3>3. QED
      BY <2>2, <3>1, <3>2, PastIsFinite
  <2>4. Cardinality(past) \in Nat /\ Cardinality(past) <= Cardinality(S)
        /\ Cardinality(S) \in Nat
    BY <2>1, <2>3, FS_Subset, FS_CardinalityType
  <2>5. PICK t \in Nat, g \in Nat : t = tokens /\ g = granted
    BY SizesAreNat DEF TypeOK
  <2>6. Cardinality(past) + (t - n) <= g
    <3>1. Cardinality(Past) + t <= g
      BY <2>5, LimitOfPast
    <3>2. QED
      BY <2>2, <2>3, <2>4, <2>5, <3>1, PastIsFinite
  <2>7. tokens' = t - n /\ granted' = g
    BY <1>1, <2>5 DEF Limit
  <2>8. QED
    BY <2>6, <2>7 DEF past, Past, LimitIsPerSignal
<1>2. CASE /\ Answer(h, "429") /\ AllBecome(Elements(body[h]), "limited")
           /\ UNCHANGED tokens
  <2>1. /\ pc'[h] = "idle"
        /\ \A g \in Handlers \ {h} : pc'[g] = pc[g] /\ body'[g] = body[g]
        /\ \A s \in Signals : fate'[s] \in {"limited", fate[s]}
    BY <1>2 DEF Answer, AllBecome, TypeOK
  <2>2. tokens' = tokens + 0 /\ granted' = granted + 0
    BY <1>2, SizesAreNat DEF Limit, TypeOK
  <2>3. QED
    BY <2>1, <2>2, LimitOfOthers DEF Past
<1>3. QED
  BY <1>1, <1>2 DEF Limit

LEMMA LimitOfEnd ==
    ASSUME TypeOK, Requests, LimitIsPerSignal, ApiEnds
    PROVE  LimitIsPerSignal'
<1>1. tokens' = tokens + 0 /\ granted' = granted + 0
  BY SizesAreNat DEF ApiEnds, limiterVars, TypeOK
<1>2. ASSUME NEW s \in Signals, fate'[s] \in {"dropped", "accepted"} PROVE s \in Past
  <2>1. CASE fate[s] # "arriving"
    BY <1>2, <2>1 DEF ApiEnds, Past
  <2>2. CASE fate[s] = "arriving"
    <3>1. ~ \E h \in Handlers : pc[h] = "limit" /\ s \in Elements(body[h])
      BY <1>2, <2>2 DEF ApiEnds
    <3>2. PICK h \in Handlers : s \in Elements(body[h])
      BY <2>2 DEF Requests, ArrivingIsInHand
    <3>3. pc[h] \in {"push", "count"}
      BY <3>1, <3>2, BodyFates DEF Requests, TypeOK
    <3>4. QED
      BY <3>2, <3>3 DEF Past
  <2>3. QED
    BY <2>1, <2>2
<1>3. QED
  BY <1>1, <1>2, LimitOfOthers DEF ApiEnds

LEMMA StepLimit ==
    ASSUME TypeOK, Requests, LimitIsPerSignal, Step
    PROVE  LimitIsPerSignal'
<1> DEFINE NobodyNew ==
        /\ \A s \in Signals : fate'[s] \in {"dropped", "accepted"} => s \in Past
        /\ \A h \in Handlers : pc'[h] \in {"push", "count"} =>
               pc[h] \in {"push", "count"} /\ body'[h] = body[h]
<1>1. tokens = tokens + 0 /\ granted = granted + 0
  BY SizesAreNat DEF TypeOK
<1>2. ASSUME NobodyNew, UNCHANGED limiterVars PROVE LimitIsPerSignal'
  BY <1>1, <1>2, LimitOfOthers DEF limiterVars
<1>3. ASSUME NEW h \in Handlers, Push(h) \/ IncrementIngested(h) \/ Reply(h)
      PROVE  LimitIsPerSignal'
  <2>1. \A g \in Handlers : pc'[g] \in {"push", "count"} =>
            pc[g] \in {"push", "count"} /\ body'[g] = body[g]
    BY <1>3 DEF Push, Accepted, IncrementIngested, Reply, Answer, TypeOK
  <2>2. ASSUME NEW s \in Signals, fate'[s] \in {"dropped", "accepted"} PROVE s \in Past
    <3>1. CASE fate'[s] = fate[s]
      BY <2>2, <3>1 DEF Past
    <3>2. CASE fate'[s] # fate[s]
      <4>1. Push(h) /\ s = Current(h)
        BY <1>3, <3>2 DEF Push, Accepted, IncrementIngested, Reply, TypeOK
      <4>2. pc[h] = "push" /\ s \in Elements(body[h])
        BY <4>1, CurrentArrives DEF Push
      <4>3. QED
        BY <4>2 DEF Past
    <3>3. QED
      BY <3>1, <3>2
  <2>3. QED
    BY <1>2, <1>3, <2>1, <2>2 DEF Push, IncrementIngested, Reply
<1>4. ASSUME NEW h \in Handlers, NEW b \in Batches, Receive(h, b) PROVE LimitIsPerSignal'
  <2>1. \A g \in Handlers : pc'[g] \in {"push", "count"} =>
            pc[g] \in {"push", "count"} /\ body'[g] = body[g]
    BY <1>4 DEF Receive, TypeOK
  <2>2. \A s \in Signals : fate'[s] \in {"arriving", fate[s]}
    BY <1>4 DEF Receive, AllBecome
  <2>3. QED
    BY <1>2, <1>4, <2>1, <2>2 DEF Receive, Past
<1>5. ASSUME UNCHANGED <<requestVars, fate>> PROVE NobodyNew
  BY <1>5 DEF requestVars, Past
<1>6. ASSUME WriterStep \/ Swap \/ OtherFault \/ UNCHANGED vars PROVE LimitIsPerSignal'
  BY <1>2, <1>5, <1>6 DEF WriterStep, Take, Write, Swap, OtherFault, vars
<1>7. ASSUME Refill PROVE LimitIsPerSignal'
  BY <1>5, <1>7, LimitOfOthers DEF Refill
<1>8. ASSUME ApiStarts PROVE LimitIsPerSignal'
  <2> DEFINE gain == Burst - tokens
  <2>1. gain \in Int /\ Burst = tokens + gain
    BY SizesAreNat DEF TypeOK
  <2> HIDE DEF gain
  <2>2. tokens' = tokens + gain /\ granted' = granted + gain
    BY <1>8, <2>1 DEF ApiStarts, gain
  <2>3. QED
    BY <1>5, <1>8, <2>1, <2>2, LimitOfOthers DEF ApiStarts
<1>9. QED
  BY <1>3, <1>4, <1>6, <1>7, <1>8, LimitOfLimit, LimitOfEnd DEF Step, Next, HandlerStep

-----------------------------------------------------------------------------
(* The throughput.                                                         *)

AcceptedSignals == {s \in Signals : fate[s] = "accepted"}

Counting == {h \in Handlers : pc[h] = "count"}

(* With the counters as constants. *)
AddsUp(r, i, c, a, f) == r + i + c <= a /\ (f = 0 => r + i + c = a)

LEMMA ThroughputOfSets ==
    ThroughputAddsUp <=> AddsUp(reported, ingested, Cardinality(Counting),
                                Cardinality(AcceptedSignals), faults)
BY DEF ThroughputAddsUp, AddsUp, Counting, AcceptedSignals

LEMMA CountsAreFinite ==
    /\ IsFiniteSet(Counting) /\ Cardinality(Counting) \in Nat
    /\ IsFiniteSet(AcceptedSignals) /\ Cardinality(AcceptedSignals) \in Nat
<1>1. IsFiniteSet(Counting) /\ IsFiniteSet(AcceptedSignals)
  BY SetsAreFinite, FS_Subset DEF Counting, AcceptedSignals
<1>2. QED
  BY <1>1, FS_CardinalityType

LEMMA CountersOf ==
    ASSUME TypeOK, ThroughputAddsUp
    PROVE  /\ reported \in Nat /\ ingested \in Nat /\ faults \in Nat
           /\ AddsUp(reported, ingested, Cardinality(Counting),
                     Cardinality(AcceptedSignals), faults)
<1>1. reported \in Nat /\ ingested \in Nat /\ faults \in Nat
  BY SizesAreNat DEF TypeOK
<1>2. QED
  BY <1>1, ThroughputOfSets

LEMMA ThroughputOfOthers ==
    ASSUME TypeOK, ThroughputAddsUp, UNCHANGED metricVars,
           faults' = 0 => faults = 0,
           \A s \in Signals : fate'[s] = "accepted" <=> fate[s] = "accepted",
           \A h \in Handlers : pc'[h] = "count" <=> pc[h] = "count"
    PROVE  ThroughputAddsUp'
<1>1. AcceptedSignals' = AcceptedSignals /\ Counting' = Counting
  BY DEF AcceptedSignals, Counting
<1>2. AddsUp(reported, ingested, Cardinality(Counting), Cardinality(AcceptedSignals), faults)
  BY ThroughputOfSets
<1>3. AddsUp(reported, ingested, Cardinality(Counting), Cardinality(AcceptedSignals), faults)'
  BY <1>1, <1>2 DEF AddsUp, metricVars
<1>4. QED
  BY <1>3 DEF ThroughputAddsUp, AddsUp, Counting, AcceptedSignals

LEMMA ThroughputOfPush ==
    ASSUME TypeOK, Requests, ThroughputAddsUp, NEW h \in Handlers, Push(h)
    PROVE  ThroughputAddsUp'
<1> DEFINE c == Current(h)
<1>1. c \in Signals /\ fate[c] = "arriving" /\ pc[h] = "push"
  BY CurrentArrives DEF Push
<1>2. UNCHANGED metricVars /\ faults' = faults
  BY DEF Push
<1>3. CASE Accepted(h)
  <2>1. /\ AcceptedSignals' = AcceptedSignals \cup {c} /\ c \notin AcceptedSignals
        /\ Counting' = Counting \cup {h} /\ h \notin Counting
    BY <1>1, <1>3 DEF Accepted, AcceptedSignals, Counting, TypeOK
  <2>2. /\ Cardinality(AcceptedSignals') = Cardinality(AcceptedSignals) + 1
        /\ Cardinality(Counting') = Cardinality(Counting) + 1
    BY <2>1, CountsAreFinite, FS_AddElement
  <2>3. \A r \in Nat, i \in Nat, n \in Nat, a \in Nat, f \in Nat :
            AddsUp(r, i, n, a, f) => AddsUp(r, i, n + 1, a + 1, f)
    BY DEF AddsUp
  <2>4. AddsUp(reported, ingested, Cardinality(Counting) + 1,
               Cardinality(AcceptedSignals) + 1, faults)
    BY <2>3, CountsAreFinite, CountersOf
  <2>5. QED
    BY <1>2, <2>2, <2>4 DEF ThroughputAddsUp, AddsUp, Counting, AcceptedSignals, metricVars
<1>4. CASE fate' = [fate EXCEPT ![c] = "dropped"] /\ UNCHANGED pc
  <2>1. \A s \in Signals : fate'[s] = "accepted" <=> fate[s] = "accepted"
    BY <1>1, <1>4 DEF TypeOK
  <2>2. QED
    BY <1>2, <1>4, <2>1, ThroughputOfOthers
<1>5. QED
  BY <1>3, <1>4 DEF Push

LEMMA ThroughputOfIncrement ==
    ASSUME TypeOK, ThroughputAddsUp, NEW h \in Handlers, IncrementIngested(h)
    PROVE  ThroughputAddsUp'
<1>1. /\ Counting' = Counting \ {h} /\ h \in Counting
      /\ AcceptedSignals' = AcceptedSignals
  BY DEF IncrementIngested, Counting, AcceptedSignals, TypeOK
<1>2. Cardinality(Counting') = Cardinality(Counting) - 1
  BY <1>1, CountsAreFinite, FS_RemoveElement
<1>3. \A r \in Nat, i \in Nat, n \in Nat, a \in Nat, f \in Nat :
          AddsUp(r, i, n, a, f) => AddsUp(r, i + 1, n - 1, a, f)
  BY DEF AddsUp
<1>4. AddsUp(reported, ingested + 1, Cardinality(Counting) - 1,
             Cardinality(AcceptedSignals), faults)
  BY <1>3, CountsAreFinite, CountersOf
<1>5. /\ reported' = reported /\ ingested' = ingested + 1 /\ faults' = faults
  BY DEF IncrementIngested
<1>6. QED
  BY <1>1, <1>2, <1>4, <1>5 DEF ThroughputAddsUp, AddsUp, Counting, AcceptedSignals

LEMMA ThroughputOfSwap ==
    ASSUME TypeOK, ThroughputAddsUp, Swap
    PROVE  ThroughputAddsUp'
<1>1. Counting' = Counting /\ AcceptedSignals' = AcceptedSignals
  BY DEF Swap, requestVars, Counting, AcceptedSignals
<1>2. \A r \in Nat, i \in Nat, n \in Nat, a \in Nat, f \in Nat :
          AddsUp(r, i, n, a, f) => AddsUp(r + i, 0, n, a, f)
  BY DEF AddsUp
<1>3. AddsUp(reported + ingested, 0, Cardinality(Counting),
             Cardinality(AcceptedSignals), faults)
  BY <1>2, CountsAreFinite, CountersOf
<1>4. reported' = reported + ingested /\ ingested' = 0 /\ faults' = faults
  BY DEF Swap
<1>5. QED
  BY <1>1, <1>3, <1>4 DEF ThroughputAddsUp, AddsUp, Counting, AcceptedSignals

LEMMA ThroughputOfEnd ==
    ASSUME TypeOK, ThroughputAddsUp, ApiEnds
    PROVE  ThroughputAddsUp'
<1>1. Counting' = {} /\ AcceptedSignals' = AcceptedSignals /\ Cardinality({}) = 0
  BY FS_EmptySet DEF ApiEnds, Counting, AcceptedSignals
<1>2. faults' # 0
  BY DEF ApiEnds, Fault, TypeOK
<1>3. \A r \in Nat, i \in Nat, n \in Nat, a \in Nat, f \in Nat, g \in Nat \ {0} :
          AddsUp(r, i, n, a, f) => AddsUp(r, 0, 0, a, g)
  BY DEF AddsUp
<1>4. faults + 1 \in Nat \ {0} /\ faults \in Nat /\ faults' = faults + 1
  BY SizesAreNat DEF ApiEnds, Fault, TypeOK
<1>5. AddsUp(reported, 0, 0, Cardinality(AcceptedSignals), faults + 1)
  BY <1>3, <1>4, CountsAreFinite, CountersOf
<1>6. reported' = reported /\ ingested' = 0
  BY DEF ApiEnds
<1>7. QED
  BY <1>1, <1>4, <1>5, <1>6 DEF ThroughputAddsUp, AddsUp, Counting, AcceptedSignals

LEMMA StepThroughput ==
    ASSUME TypeOK, Requests, ThroughputAddsUp, Step
    PROVE  ThroughputAddsUp'
<1>1. ASSUME NEW h \in Handlers, Limit(h) PROVE ThroughputAddsUp'
  <2>1. BodyInOrder(h) /\ pc[h] = "limit"
    BY <1>1 DEF Limit, Requests, BodiesInOrder
  <2>2. \A s \in Elements(body[h]) : fate[s] # "accepted"
    BY <2>1 DEF BodyInOrder, Elements
  <2>3. /\ \A s \in Signals : fate'[s] = "accepted" <=> fate[s] = "accepted"
        /\ \A g \in Handlers : pc'[g] = "count" <=> pc[g] = "count"
    BY <1>1, <2>1, <2>2 DEF Limit, AllBecome, Answer, TypeOK
  <2>4. QED
    BY <1>1, <2>3, ThroughputOfOthers DEF Limit
<1>2. ASSUME NEW h \in Handlers, Reply(h) PROVE ThroughputAddsUp'
  <2>1. \A g \in Handlers : pc'[g] = "count" <=> pc[g] = "count"
    BY <1>2 DEF Reply, Answer, TypeOK
  <2>2. QED
    BY <1>2, <2>1, ThroughputOfOthers DEF Reply
<1>3. ASSUME NEW h \in Handlers, NEW b \in Batches, Receive(h, b) PROVE ThroughputAddsUp'
  <2>1. /\ \A s \in Signals : fate'[s] = "accepted" <=> fate[s] = "accepted"
        /\ \A g \in Handlers : pc'[g] = "count" <=> pc[g] = "count"
    BY <1>3 DEF Receive, AllBecome, TypeOK
  <2>2. QED
    BY <1>3, <2>1, ThroughputOfOthers DEF Receive
<1>4. ASSUME UNCHANGED <<requestVars, fate, metricVars>>, faults' = 0 => faults = 0
      PROVE  ThroughputAddsUp'
  BY <1>4, ThroughputOfOthers DEF requestVars
<1>5. ASSUME WriterStep PROVE ThroughputAddsUp'
  <2>1. faults' = 0 => faults = 0
    <3>1. faults' = faults \/ faults' = faults + 1
      BY <1>5 DEF WriterStep, Take, Write, Fault
    <3>2. QED
      BY <3>1, CountersOf
  <2>2. QED
    BY <1>4, <1>5, <2>1 DEF WriterStep, Take, Write
<1>6. ASSUME Refill \/ ApiStarts PROVE ThroughputAddsUp'
  BY <1>4, <1>6 DEF Refill, ApiStarts
<1>7. ASSUME OtherFault \/ UNCHANGED vars PROVE ThroughputAddsUp'
  <2>1. faults' = 0 => faults = 0
    <3>1. PICK f \in 0 .. MaxFaults : f = faults
      BY DEF TypeOK
    <3>2. faults' \in f .. MaxFaults \/ faults' = f
      BY <1>7, <3>1 DEF OtherFault, vars
    <3>3. QED
      BY <3>1, <3>2
  <2>2. QED
    BY <1>4, <1>7, <2>1 DEF OtherFault, vars
<1>8. QED
  BY <1>1, <1>2, <1>3, <1>5, <1>6, <1>7, ThroughputOfPush, ThroughputOfIncrement,
     ThroughputOfSwap, ThroughputOfEnd
  DEF Step, Next, HandlerStep

-----------------------------------------------------------------------------
(* The invariant.                                                          *)

LEMMA InitInv == Init => IngInv
<1> SUFFICES ASSUME Init PROVE IngInv
  OBVIOUS
<1>1. TypeOK
  BY InitType
<1>2. /\ Len(<<>>) = 0 /\ Elements(<<>>) = {} /\ Cardinality({}) = 0
      /\ NoRepeats(<<>>)
  BY EmptySeq, FS_EmptySet DEF Elements, NoRepeats
<1>3. Requests
  BY <1>2 DEF Init, Requests, BodiesInOrder, BodyInOrder, BodiesAreApart,
              ArrivingIsInHand, AnsweredIsDone, RefusedIsRetriable
<1>4. ChannelInOrder /\ AcceptedIsKept /\ WrittenOnce
  <2>1. /\ Elements(channel) = {} /\ Elements(stream) = {} /\ hands = {} /\ Buffered = {}
        /\ NoRepeats(channel) /\ Len(stream) = 0 /\ resent = 0
    BY <1>2 DEF Init, Buffered
  <2>2. \A s \in Signals : fate[s] # "accepted"
    BY DEF Init
  <2>3. QED
    BY <1>2, <2>1, <2>2 DEF ChannelInOrder, AcceptedIsKept, WrittenOnce
<1>5. LimitIsPerSignal
  <2>1. Past = {}
    BY DEF Init, Past
  <2>2. Cardinality(Past) + tokens <= granted
    BY <1>2, <2>1, SizesAreNat DEF Init
  <2>3. QED
    BY <2>2, LimitOfPast
<1>6. ThroughputAddsUp
  <2>1. Counting = {} /\ AcceptedSignals = {}
    BY DEF Init, Counting, AcceptedSignals
  <2>2. AddsUp(reported, ingested, Cardinality(Counting), Cardinality(AcceptedSignals), faults)
    BY <1>2, <2>1 DEF Init, AddsUp
  <2>3. QED
    BY <2>2, ThroughputOfSets
<1>7. QED
  BY <1>1, <1>3, <1>4, <1>5, <1>6 DEF IngInv

(* A step of the API, or a fault outside of it. *)
LEMMA StepInv == IngInv /\ Step => IngInv'
BY StepType, StepRequests, StepBuffer, StepLimit, StepThroughput DEF IngInv, Buffer

(* In every state of every behaviour the invariant holds: what the         *)
(* handlers, the buffer, the limiter and the reporter keep together.       *)
THEOREM IngestionInvariant == Spec => []IngInv
<1>1. IngInv /\ [Next]_vars => IngInv'
  BY StepInv DEF Step
<1>2. QED
  BY InitInv, <1>1, PTL DEF Spec

(* Nothing that was accepted is thrown away while it waits, and nothing    *)
(* else gets into the stream (stream.go:44-76).                            *)
THEOREM AcceptedStaysKept == Spec => []AcceptedIsKept
<1>1. IngInv => AcceptedIsKept
  BY DEF IngInv
<1>2. QED
  BY <1>1, IngestionInvariant, PTL

(* The concurrent writers share no signal and repeat none: it is in the    *)
(* stream once, and once more for a resent XADD (stream.go:55-76).         *)
THEOREM WrittenOnlyOnce == Spec => []WrittenOnce
<1>1. IngInv => WrittenOnce
  BY DEF IngInv
<1>2. QED
  BY <1>1, IngestionInvariant, PTL

(* The limiter counts signals and not requests (ingestion.go:46).          *)
THEOREM LimitCountsSignals == Spec => []LimitIsPerSignal
<1>1. IngInv => LimitIsPerSignal
  BY DEF IngInv
<1>2. QED
  BY <1>1, IngestionInvariant, PTL

(* A client that was told 429 or 503 may send its signals again: none of   *)
(* them was accepted (ingestion.go:46-71).                                 *)
THEOREM RefusedMayRetry == Spec => []RefusedIsRetriable
<1>1. IngInv => RefusedIsRetriable
  BY DEF IngInv, Requests
<1>2. QED
  BY <1>1, IngestionInvariant, PTL

(* Every accepted signal is counted once by the throughput reporter        *)
(* (ingestion.go:57-61, metrics.go:31-51).                                 *)
THEOREM ThroughputIsComplete == Spec => []ThroughputAddsUp
<1>1. IngInv => ThroughputAddsUp
  BY DEF IngInv
<1>2. QED
  BY <1>1, IngestionInvariant, PTL

-----------------------------------------------------------------------------
(* What is decided for good.                                               *)

Verdicts == {"limited", "dropped", "accepted"}

(* What a step leaves of a verdict and of an answer. *)
LEMMA VerdictStep ==
    ASSUME IngInv, Step, NEW s \in Signals
    PROVE  /\ fate[s] \in Verdicts => fate'[s] = fate[s]
           /\ answer[s] # "none" => answer'[s] = answer[s]
<1>1. TypeOK /\ Requests
  BY DEF IngInv
<1>2. ASSUME NEW h \in Handlers, s \in Elements(body[h])
      PROVE  answer[s] = "none" /\ (pc[h] = "limit" => fate[s] = "arriving")
  <2>1. BodyInOrder(h) /\ Len(body[h]) \in Nat
    BY <1>1, BodyOfHandler DEF Requests, BodiesInOrder
  <2>2. pc[h] = "limit" => fate[s] = "arriving"
    BY <1>2, <2>1 DEF BodyInOrder, Elements
  <2>3. answer[s] = "none"
    BY <1>1, <1>2 DEF Requests, AnsweredIsDone
  <2>4. QED
    BY <2>2, <2>3
<1>3. ASSUME NEW h \in Handlers, NEW status, Answer(h, status), answer[s] # "none"
      PROVE  answer'[s] = answer[s]
  BY <1>2, <1>3 DEF Answer
<1>4. ASSUME NEW h \in Handlers, Limit(h)
      PROVE  /\ fate[s] \in Verdicts => fate'[s] = fate[s]
             /\ answer[s] # "none" => answer'[s] = answer[s]
  BY <1>2, <1>3, <1>4 DEF Limit, AllBecome, Verdicts
<1>5. ASSUME NEW h \in Handlers, Push(h)
      PROVE  fate[s] \in Verdicts => fate'[s] = fate[s]
  <2>1. fate[Current(h)] = "arriving"
    BY <1>1, <1>5, CurrentArrives DEF Push
  <2>2. fate'[s] = fate[s] \/ s = Current(h)
    BY <1>1, <1>5 DEF Push, Accepted, TypeOK
  <2>3. QED
    BY <2>1, <2>2 DEF Verdicts
<1>6. ASSUME NEW h \in Handlers, NEW b \in Batches, Receive(h, b)
      PROVE  fate[s] \in Verdicts => fate'[s] = fate[s]
  BY <1>6 DEF Receive, AllBecome, Verdicts
<1>7. ASSUME ApiEnds PROVE fate[s] \in Verdicts => fate'[s] = fate[s]
  BY <1>7 DEF ApiEnds, Verdicts
<1>8. ASSUME NEW h \in Handlers, IncrementIngested(h) \/ Reply(h) PROVE fate' = fate
  BY <1>8 DEF IncrementIngested, Reply
<1>9. ASSUME NEW h \in Handlers, NEW b \in Batches,
             Push(h) \/ IncrementIngested(h) \/ Receive(h, b)
      PROVE  answer' = answer
  BY <1>9 DEF Push, IncrementIngested, Receive
<1>10. ASSUME NEW h \in Handlers, Push(h) \/ IncrementIngested(h) PROVE answer' = answer
  BY <1>10 DEF Push, IncrementIngested
<1>11. ASSUME NEW h \in Handlers, Reply(h), answer[s] # "none"
       PROVE  answer'[s] = answer[s]
  BY <1>3, <1>11 DEF Reply
<1>12. ASSUME WriterStep \/ Refill \/ Swap \/ ApiStarts \/ OtherFault \/ UNCHANGED vars
       PROVE  fate' = fate /\ answer' = answer
  BY <1>12 DEF WriterStep, Take, Write, Refill, Swap, ApiStarts, OtherFault, vars
<1>13. ApiEnds => answer' = answer
  BY DEF ApiEnds
<1>14. ASSUME NEW h \in Handlers, HandlerStep(h)
       PROVE  /\ fate[s] \in Verdicts => fate'[s] = fate[s]
              /\ answer[s] # "none" => answer'[s] = answer[s]
  BY <1>4, <1>5, <1>8, <1>10, <1>11, <1>14 DEF HandlerStep
<1>15. QED
  BY <1>6, <1>7, <1>9, <1>12, <1>13, <1>14 DEF Step, Next

(* The verdict on a signal is final: once it is limited, dropped or        *)
(* accepted it stays so, and the answer its client got is the only one.    *)
(* A request has one verdict, whatever the other requests, the writers and *)
(* a restart of the API do meanwhile (ingestion.go:46-77).                 *)
THEOREM VerdictsAreFinal ==
    Spec => [][\A s \in Signals :
                  /\ fate[s] \in Verdicts => fate'[s] = fate[s]
                  /\ answer[s] # "none" => answer'[s] = answer[s]]_vars
<1>1. IngInv /\ [Next]_vars => [\A s \in Signals :
                  /\ fate[s] \in Verdicts => fate'[s] = fate[s]
                  /\ answer[s] # "none" => answer'[s] = answer[s]]_vars
  BY VerdictStep DEF Step
<1>2. QED
  BY <1>1, IngestionInvariant, PTL DEF Spec

(* Accepted, and neither buffered nor in the stream: a failed XADD lost    *)
(* it, or the end of the API did.                                          *)
Lost(s) == fate[s] = "accepted" /\ s \notin Buffered /\ s \notin Elements(stream)

LEMMA LostStep ==
    ASSUME IngInv, Step, NEW s \in Signals, Lost(s)
    PROVE  Lost(s)'
<1>1. TypeOK /\ Requests
  BY DEF IngInv
<1>2. fate[s] = "accepted" /\ fate'[s] = "accepted"
  BY VerdictStep DEF Lost, Verdicts
<1>3. s \notin Elements(channel) /\ s \notin hands /\ s \notin Elements(stream)
  BY DEF Lost, Buffered
<1>4. channel \in Seq(Signals) /\ stream \in Seq(Signals)
  BY <1>1 DEF TypeOK
<1>5. Lost(s)' <=> s \notin Elements(channel') /\ s \notin hands' /\ s \notin Elements(stream')
  BY <1>2 DEF Lost, Buffered, Elements
<1>6. ASSUME UNCHANGED <<channel, hands, stream>> PROVE Lost(s)'
  BY <1>3, <1>5, <1>6
<1>7. ASSUME NEW h \in Handlers, Push(h) PROVE Lost(s)'
  <2>1. /\ fate[Current(h)] = "arriving" /\ Current(h) \in Signals
        /\ hands' = hands /\ stream' = stream
    BY <1>1, <1>7, CurrentArrives DEF Push
  <2>2. channel' = channel \/ channel' = Append(channel, Current(h))
    BY <1>7 DEF Push
  <2>3. Elements(Append(channel, Current(h))) = Elements(channel) \cup {Current(h)}
    BY <1>4, <2>1, ElementsOfAppend
  <2>4. s # Current(h)
    BY <1>2, <2>1
  <2>5. QED
    BY <1>3, <1>5, <2>1, <2>2, <2>3, <2>4
<1>8. ASSUME Take PROVE Lost(s)'
  <2>1. /\ hands' = hands \cup {Head(channel)} /\ channel' = Tail(channel)
        /\ stream' = stream /\ channel # <<>>
    BY <1>8 DEF Take
  <2>2. Elements(channel) = Elements(Tail(channel)) \cup {Head(channel)}
    BY <1>4, <2>1, ElementsOfTail
  <2>3. QED
    BY <1>3, <1>5, <2>1, <2>2
<1>9. ASSUME NEW t \in Signals, Write(t) PROVE Lost(s)'
  <2>1. t # s /\ hands' = hands \ {t} /\ channel' = channel
    BY <1>3, <1>9 DEF Write
  <2>2. \/ stream' = stream \/ stream' = Append(stream, t) \/ stream' = stream \o <<t, t>>
    BY <1>9 DEF Write
  <2>3. /\ Elements(Append(stream, t)) = Elements(stream) \cup {t}
        /\ Elements(stream \o <<t, t>>) = Elements(stream) \cup {t}
    BY <1>4, ElementsOfAppend, ElementsOfTwice
  <2>4. s \notin Elements(stream')
    <3>1. CASE stream' = stream
      BY <1>3, <3>1
    <3>2. CASE stream' = Append(stream, t)
      BY <1>3, <2>1, <2>3, <3>2
    <3>3. CASE stream' = stream \o <<t, t>>
      BY <1>3, <2>1, <2>3, <3>3
    <3>4. QED
      BY <2>2, <3>1, <3>2, <3>3
  <2>5. QED
    BY <1>3, <1>5, <2>1, <2>4
<1>10. ASSUME ApiEnds PROVE Lost(s)'
  <2>1. channel' = <<>> /\ hands' = {} /\ stream' = stream
    BY <1>10 DEF ApiEnds
  <2>2. Elements(channel') = {}
    BY <2>1, EmptySeq DEF Elements
  <2>3. QED
    BY <1>3, <1>5, <2>1, <2>2
<1>11. ASSUME NEW h \in Handlers, HandlerStep(h) \/ \E b \in Batches : Receive(h, b)
       PROVE  Lost(s)'
  <2>1. Push(h) \/ UNCHANGED <<channel, hands, stream>>
    BY <1>11 DEF HandlerStep, Limit, IncrementIngested, Reply, Receive, bufferVars
  <2>2. QED
    BY <1>6, <1>7, <2>1
<1>12. ASSUME Refill \/ Swap \/ ApiStarts \/ OtherFault \/ UNCHANGED vars
       PROVE  UNCHANGED <<channel, hands, stream>>
  BY <1>12 DEF Refill, Swap, ApiStarts, OtherFault, vars, bufferVars
<1>13. QED
  BY <1>6, <1>8, <1>9, <1>10, <1>11, <1>12 DEF Step, Next, WriterStep

(* A signal that was answered 202 and lost afterwards, in the channel of   *)
(* an API that ended or in an XADD that failed, is lost for good: nothing  *)
(* buffers or writes it later (stream.go:55-76, cmd/api/main.go:116-126).   *)
THEOREM LostForGood ==
    ASSUME NEW CONSTANT s \in Signals
    PROVE  Spec => [](Lost(s) => []Lost(s))
<1>1. IngInv /\ [Next]_vars /\ Lost(s) => Lost(s)'
  BY LostStep DEF Step
<1>2. QED
  BY <1>1, IngestionInvariant, PTL DEF Spec

-----------------------------------------------------------------------------
(* The handlers come to an end.                                            *)

(* How many steps handler h may still take with its request. *)
Work(h) ==
    LET left == Len(body[h]) + 1 - next[h]
    IN  CASE pc[h] = "idle"  -> 0
          [] pc[h] = "count" -> 2 * left
          [] pc[h] = "push"  -> 2 * left + 1
          [] pc[h] = "limit" -> 2 * left + 2

LEMMA WorkOf ==
    ASSUME TypeOK, BodiesInOrder, NEW h \in Handlers
    PROVE  /\ Len(body[h]) \in Nat /\ next[h] \in 1 .. Len(body[h]) + 1
           /\ pc[h] \in {"idle", "limit", "push", "count"}
           /\ pc[h] = "count" => next[h] <= Len(body[h])
           /\ Work(h) \in Nat
           /\ Work(h) = 0 <=> pc[h] = "idle"
<1>1. /\ Len(body[h]) \in Nat /\ next[h] \in 1 .. Len(body[h]) + 1
      /\ pc[h] = "count" => next[h] <= Len(body[h])
  BY BodyOfHandler DEF BodiesInOrder, BodyInOrder
<1>2. pc[h] \in {"idle", "limit", "push", "count"}
  BY DEF TypeOK
<1>3. PICK left \in Nat : left = Len(body[h]) + 1 - next[h]
  BY <1>1
<1>4. pc[h] = "count" => left > 0
  BY <1>1, <1>3
<1>5. QED
  BY <1>1, <1>2, <1>3, <1>4 DEF Work

LEMMA HandlerWorks ==
    ASSUME IngInv, NEW h \in Handlers, HandlerStep(h)
    PROVE  /\ Work(h)' < Work(h)
           /\ \A g \in Handlers \ {h} : Work(g)' = Work(g)
<1>1. TypeOK /\ BodiesInOrder
  BY DEF IngInv, Requests
<1>2. /\ Len(body[h]) \in Nat /\ next[h] \in 1 .. Len(body[h]) + 1
      /\ pc[h] \in {"idle", "limit", "push", "count"}
  BY <1>1, WorkOf
<1>3. PICK left \in Nat : left = Len(body[h]) + 1 - next[h]
  BY <1>2
<1>4. \/ pc[h] = "limit" /\ Work(h) = 2 * left + 2
      \/ pc[h] = "push" /\ Work(h) = 2 * left + 1
      \/ pc[h] = "count" /\ Work(h) = 2 * left
  BY <1>2, <1>3 DEF Work, HandlerStep, Limit, Push, IncrementIngested, Reply
<1>5. ASSUME NEW status, Answer(h, status) PROVE Work(h)' = 0
  BY <1>1, <1>5 DEF Answer, Work, TypeOK
<1>6. ASSUME Limit(h) PROVE Work(h)' < Work(h)
  <2>1. pc[h] = "limit" /\ Work(h) = 2 * left + 2
    BY <1>4, <1>6 DEF Limit
  <2>2. CASE Answer(h, "429")
    BY <1>5, <2>1, <2>2
  <2>3. CASE pc' = [pc EXCEPT ![h] = "push"] /\ UNCHANGED <<body, next>>
    <3>1. pc'[h] = "push" /\ body'[h] = body[h] /\ next'[h] = next[h]
      BY <1>1, <2>3 DEF TypeOK
    <3>2. Work(h)' = 2 * left + 1
      BY <1>3, <3>1 DEF Work
    <3>3. QED
      BY <2>1, <3>2
  <2>4. QED
    BY <1>6, <2>2, <2>3 DEF Limit
<1>7. ASSUME Push(h) PROVE Work(h)' < Work(h)
  <2>1. pc[h] = "push" /\ Work(h) = 2 * left + 1
    BY <1>4, <1>7 DEF Push
  <2>2. CASE Accepted(h)
    <3>1. pc'[h] = "count" /\ body'[h] = body[h] /\ next'[h] = next[h]
      BY <1>1, <1>7, <2>2 DEF Push, Accepted, TypeOK
    <3>2. Work(h)' = 2 * left
      BY <1>3, <3>1 DEF Work
    <3>3. QED
      BY <2>1, <3>2
  <2>3. CASE next' = [next EXCEPT ![h] = @ + 1] /\ pc' = pc
    <3>1. pc'[h] = "push" /\ body'[h] = body[h] /\ next'[h] = next[h] + 1
      BY <1>1, <1>7, <2>1, <2>3 DEF Push, TypeOK
    <3>2. Len(body[h]) + 1 - (next[h] + 1) = left - 1
      BY <1>2, <1>3
    <3>3. Work(h)' = 2 * (left - 1) + 1
      BY <3>1, <3>2 DEF Work
    <3>4. QED
      BY <2>1, <3>3
  <2>4. QED
    BY <1>7, <2>2, <2>3 DEF Push
<1>8. ASSUME IncrementIngested(h) PROVE Work(h)' < Work(h)
  <2>1. Work(h) = 2 * left
    BY <1>4, <1>8 DEF IncrementIngested
  <2>2. pc'[h] = "push" /\ body'[h] = body[h] /\ next'[h] = next[h] + 1
    BY <1>1, <1>8 DEF IncrementIngested, TypeOK
  <2>3. Len(body[h]) + 1 - (next[h] + 1) = left - 1
    BY <1>2, <1>3
  <2>4. Work(h)' = 2 * (left - 1) + 1
    BY <2>2, <2>3 DEF Work
  <2>5. QED
    BY <2>1, <2>4
<1>9. ASSUME Reply(h) PROVE Work(h)' < Work(h)
  <2>1. Work(h) = 2 * left + 1
    BY <1>4, <1>9 DEF Reply
  <2>2. Work(h)' = 0
    BY <1>5, <1>9 DEF Reply
  <2>3. QED
    BY <2>1, <2>2
<1>10. ASSUME NEW g \in Handlers \ {h} PROVE Work(g)' = Work(g)
  <2>1. pc'[g] = pc[g] /\ body'[g] = body[g] /\ next'[g] = next[g]
    BY <1>1 DEF HandlerStep, Limit, Push, Accepted, IncrementIngested, Reply, Answer, TypeOK
  <2>2. QED
    BY <2>1 DEF Work
<1>11. QED
  BY <1>6, <1>7, <1>8, <1>9, <1>10 DEF HandlerStep

(* Every step of a handler brings its request nearer to the answer: one    *)
(* with n signals takes at most 2n + 2 of them, however full the channel   *)
(* is and whatever Redis does, for a handler waits for nothing but its     *)
(* own turn (ingestion.go:46-77, stream.go:44-51).                         *)
THEOREM HandlersComeToAnEnd ==
    Spec => /\ [](\A h \in Handlers : /\ Work(h) \in Nat
                                      /\ Work(h) <= 2 * Len(body[h]) + 2
                                      /\ Work(h) = 0 <=> pc[h] = "idle")
            /\ [][\A h \in Handlers : HandlerStep(h) =>
                     /\ Work(h)' < Work(h)
                     /\ \A g \in Handlers \ {h} : Work(g)' = Work(g)]_vars
<1>1. ASSUME IngInv, NEW h \in Handlers
      PROVE  /\ Work(h) \in Nat
             /\ Work(h) <= 2 * Len(body[h]) + 2
             /\ Work(h) = 0 <=> pc[h] = "idle"
  <2>1. /\ Len(body[h]) \in Nat /\ next[h] \in 1 .. Len(body[h]) + 1
        /\ pc[h] \in {"idle", "limit", "push", "count"}
        /\ Work(h) \in Nat /\ (Work(h) = 0 <=> pc[h] = "idle")
    <3>1. TypeOK /\ BodiesInOrder
      BY <1>1 DEF IngInv, Requests
    <3>2. QED
      BY <3>1, WorkOf
  <2>2. PICK n \in Nat : n = Len(body[h])
    BY <2>1
  <2>3. PICK left \in 0 .. n : left = n + 1 - next[h]
    BY <2>1, <2>2
  <2>4. Work(h) \in {0, 2 * left, 2 * left + 1, 2 * left + 2}
    BY <2>1, <2>2, <2>3 DEF Work
  <2>5. QED
    BY <2>1, <2>2, <2>3, <2>4
<1>2. IngInv => \A h \in Handlers : /\ Work(h) \in Nat
                                    /\ Work(h) <= 2 * Len(body[h]) + 2
                                    /\ Work(h) = 0 <=> pc[h] = "idle"
  BY <1>1
<1>3. IngInv => \A h \in Handlers : HandlerStep(h) =>
                     /\ Work(h)' < Work(h)
                     /\ \A g \in Handlers \ {h} : Work(g)' = Work(g)
  BY HandlerWorks
<1>4. QED
  BY <1>2, <1>3, IngestionInvariant, PTL
=============================================================================
