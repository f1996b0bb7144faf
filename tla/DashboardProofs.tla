-------------------------- MODULE DashboardProofs --------------------------
(***************************************************************************)
(* The dashboard shows nothing that it was told is gone: proved for any    *)
(* number of incidents, polls, fetches, closures and faults.               *)
(***************************************************************************)
EXTENDS Dashboard, SequenceTheorems, FiniteSetTheorems, TLAPS

(* The dashboard knows of no incident that was never listed. *)
SeenHasAppeared ==
    /\ \A p \in Panels : /\ shown[p] \subseteq appeared
                         /\ \A k \in 1 .. Len(polls[p]) : polls[p][k] \subseteq appeared
    /\ {selected, rca} \subseteq appeared \cup {None}
    /\ \A k \in 1 .. Len(closes) : closes[k].id \in appeared

(* What was closed and purged does not come back. *)
GoneIsUnlisted ==
    /\ gone \cap listed = {}
    /\ \A k \in 1 .. Len(polls["feed"]) : polls["feed"][k] \cap gone = {}
    /\ \A k \in 1 .. Len(closes) :
          closes[k].reply = "closed" => closes[k].id \in closed \ listed

(* The last fetch is for what the pane is headed by. *)
PaneInOrder ==
    /\ loading => fetches # <<>>
    /\ inOrder /\ selected # None =>
          /\ fetches = <<>> => signals = selected
          /\ fetches # <<>> => fetches[Len(fetches)] = selected

(* One modal, one request, one disabled button. *)
ModalInOrder ==
    /\ \A j, k \in 1 .. Len(closes) : closes[j].mounted /\ closes[k].mounted => j = k
    /\ submitting <=> \E k \in 1 .. Len(closes) : closes[k].mounted

(* The inductive invariant. *)
DashInv ==
    /\ TypeOK
    /\ SeenHasAppeared
    /\ GoneIsUnlisted
    /\ ClosedStaysAway
    /\ ClosedIsPutAway
    /\ PaneInOrder
    /\ ModalInOrder

-----------------------------------------------------------------------------
(* Sequences that lose an element.                                         *)

LEMMA RemoveAtOf ==
    ASSUME NEW S, NEW q \in Seq(S), NEW k \in 1 .. Len(q)
    PROVE  /\ RemoveAt(q, k) \in Seq(S)
           /\ Len(q) \in Nat /\ Len(RemoveAt(q, k)) = Len(q) - 1
           /\ \A i \in 1 .. Len(q) - 1 :
                 RemoveAt(q, k)[i] = IF i < k THEN q[i] ELSE q[i + 1]
<1> DEFINE a == SubSeq(q, 1, k - 1)
           z == SubSeq(q, k + 1, Len(q))
<1>1. Len(q) \in Nat /\ k \in Nat /\ 1 <= k /\ k <= Len(q)
      /\ \A i \in 1 .. Len(q) : q[i] \in S
  BY LenProperties, ElementOfSeq
<1>2. a \in Seq(S) /\ Len(a) = k - 1 /\ \A i \in 1 .. k - 1 : a[i] = q[i]
  <2>1. 1 \in Int /\ k - 1 \in Int /\ \A i \in 1 .. k - 1 : q[i] \in S
    BY <1>1
  <2>2. /\ a \in Seq(S) /\ Len(a) = IF 1 <= k - 1 THEN (k - 1) - 1 + 1 ELSE 0
        /\ \A i \in 1 .. (k - 1) - 1 + 1 : a[i] = q[1 + i - 1]
    BY <2>1, SubSeqProperties
  <2> HIDE DEF a
  <2>3. QED
    BY <1>1, <2>2
<1>3. z \in Seq(S) /\ Len(z) = Len(q) - k /\ \A i \in 1 .. Len(q) - k : z[i] = q[k + i]
  <2>1. k + 1 \in Int /\ Len(q) \in Int /\ \A i \in k + 1 .. Len(q) : q[i] \in S
    BY <1>1
  <2>2. /\ z \in Seq(S) /\ Len(z) = IF k + 1 <= Len(q) THEN Len(q) - (k + 1) + 1 ELSE 0
        /\ \A i \in 1 .. Len(q) - (k + 1) + 1 : z[i] = q[k + 1 + i - 1]
    BY <2>1, SubSeqProperties
  <2> HIDE DEF z
  <2>3. QED
    BY <1>1, <2>2
<1> HIDE DEF a, z
<1>4. /\ a \o z \in Seq(S) /\ Len(a \o z) = Len(a) + Len(z)
      /\ \A i \in 1 .. Len(a) + Len(z) :
            (a \o z)[i] = IF i <= Len(a) THEN a[i] ELSE z[i - Len(a)]
  BY <1>2, <1>3, ConcatProperties
<1>5. ASSUME NEW i \in 1 .. Len(q) - 1
      PROVE  (a \o z)[i] = IF i < k THEN q[i] ELSE q[i + 1]
  <2>1. (a \o z)[i] = IF i <= k - 1 THEN a[i] ELSE z[i - (k - 1)]
    BY <1>1, <1>2, <1>3, <1>4
  <2>2. CASE i < k
    <3>1. i \in 1 .. k - 1 /\ i <= k - 1
      BY <1>1, <2>2
    <3>2. QED
      BY <1>2, <2>1, <2>2, <3>1
  <2>3. CASE ~(i < k)
    <3>1. i - (k - 1) \in 1 .. Len(q) - k /\ ~(i <= k - 1) /\ k + (i - (k - 1)) = i + 1
      BY <1>1, <2>3
    <3>2. QED
      BY <1>3, <2>1, <2>3, <3>1
  <2>4. QED
    BY <2>2, <2>3
<1>6. RemoveAt(q, k) = a \o z
  BY DEF RemoveAt, a, z
<1>7. Len(a) + Len(z) = Len(q) - 1
  BY <1>1, <1>2, <1>3
<1>8. QED
  BY <1>1, <1>4, <1>5, <1>6, <1>7

(* Where the element at place i of what is left was before. *)
Kept(i, k) == IF i < k THEN i ELSE i + 1

LEMMA KeptOf ==
    ASSUME NEW S, NEW q \in Seq(S), NEW k \in 1 .. Len(q)
    PROVE  /\ RemoveAt(q, k) \in Seq(S)
           /\ Len(RemoveAt(q, k)) \in Nat /\ Len(RemoveAt(q, k)) = Len(q) - 1
           /\ \A i \in 1 .. Len(RemoveAt(q, k)) :
                 Kept(i, k) \in 1 .. Len(q) \ {k} /\ RemoveAt(q, k)[i] = q[Kept(i, k)]
           /\ \A i, j \in 1 .. Len(RemoveAt(q, k)) : Kept(i, k) = Kept(j, k) => i = j
           /\ \A j \in 1 .. Len(q) \ {k} : \E i \in 1 .. Len(RemoveAt(q, k)) : Kept(i, k) = j
<1> DEFINE r == RemoveAt(q, k)
<1>1. /\ r \in Seq(S) /\ Len(q) \in Nat /\ Len(r) = Len(q) - 1
      /\ \A i \in 1 .. Len(q) - 1 : r[i] = IF i < k THEN q[i] ELSE q[i + 1]
  BY RemoveAtOf
<1> HIDE DEF r
<1>2. k \in Nat /\ 1 <= k /\ k <= Len(q) /\ Len(r) \in Nat
  BY <1>1
<1>3. ASSUME NEW i \in 1 .. Len(r)
      PROVE  Kept(i, k) \in 1 .. Len(q) \ {k} /\ r[i] = q[Kept(i, k)]
  BY <1>1, <1>2 DEF Kept
<1>4. ASSUME NEW i \in 1 .. Len(r), NEW j \in 1 .. Len(r), Kept(i, k) = Kept(j, k)
      PROVE  i = j
  BY <1>1, <1>2, <1>4 DEF Kept
<1>5. ASSUME NEW j \in 1 .. Len(q) \ {k}
      PROVE  \E i \in 1 .. Len(r) : Kept(i, k) = j
  <2>1. CASE j < k
    <3>1. j \in 1 .. Len(r) /\ Kept(j, k) = j
      BY <1>1, <1>2, <2>1 DEF Kept
    <3>2. QED
      BY <3>1
  <2>2. CASE j > k
    <3>1. j - 1 \in 1 .. Len(r) /\ Kept(j - 1, k) = j
      BY <1>1, <1>2, <2>2 DEF Kept
    <3>2. QED
      BY <3>1
  <2>3. QED
    BY <1>1, <1>2, <2>1, <2>2
<1>6. QED
  BY <1>1, <1>2, <1>3, <1>4, <1>5 DEF r

-----------------------------------------------------------------------------
(* The requests of the modals.                                             *)

LEMMA RequestsOf ==
    ASSUME TypeOK
    PROVE  /\ closes \in Seq(Closure) /\ Len(closes) \in Nat
           /\ DOMAIN closes = 1 .. Len(closes)
           /\ \A k \in 1 .. Len(closes) : closes[k] \in Closure
           /\ fetches \in Seq(Incidents) /\ Len(fetches) \in Nat
           /\ DOMAIN fetches = 1 .. Len(fetches)
           /\ \A k \in 1 .. Len(fetches) : fetches[k] \in Incidents
BY LenProperties, ElementOfSeq DEF TypeOK

LEMMA PollsOf ==
    ASSUME TypeOK, NEW p \in Panels
    PROVE  /\ polls[p] \in Seq(SUBSET Incidents) /\ Len(polls[p]) \in Nat
           /\ DOMAIN polls[p] = 1 .. Len(polls[p])
           /\ \A k \in 1 .. Len(polls[p]) : polls[p][k] \subseteq Incidents
           /\ Overlap[p] \in Nat /\ Len(polls[p]) <= Overlap[p]
<1>1. polls[p] \in Seq(SUBSET Incidents) /\ Len(polls[p]) <= Overlap[p]
  BY DEF TypeOK
<1>2. QED
  BY <1>1, LenProperties, ElementOfSeq, BoundsAreNat

LEMMA RepliedOf ==
    ASSUME TypeOK, NEW k \in 1 .. Len(closes),
           NEW reply \in {"none", "closed", "kept", "refused"}, Replied(k, reply)
    PROVE  /\ closes' \in Seq(Closure) /\ Len(closes') = Len(closes)
           /\ \A j \in 1 .. Len(closes) :
                 /\ closes'[j].id = closes[j].id /\ closes'[j].mounted = closes[j].mounted
                 /\ closes'[j].reply = IF j = k THEN reply ELSE closes[j].reply
<1> DEFINE c == [closes[k] EXCEPT !.reply = reply]
<1>1. closes[k] \in Closure /\ closes \in Seq(Closure)
  BY RequestsOf
<1>2. /\ c \in Closure /\ c.id = closes[k].id /\ c.mounted = closes[k].mounted
      /\ c.reply = reply
  BY <1>1 DEF Closure
<1>3. closes' = [closes EXCEPT ![k] = c]
  BY DEF Replied
<1> HIDE DEF c
<1>4. /\ [closes EXCEPT ![k] = c] \in Seq(Closure)
      /\ Len([closes EXCEPT ![k] = c]) = Len(closes)
      /\ \A j \in 1 .. Len(closes) :
            [closes EXCEPT ![k] = c][j] = IF j = k THEN c ELSE closes[j]
  BY <1>1, <1>2, ExceptSeq
<1>5. QED
  BY <1>2, <1>3, <1>4

LEMMA UnmountedOf ==
    ASSUME NEW cs \in Seq(Closure)
    PROVE  /\ Unmounted(cs) \in Seq(Closure) /\ Len(Unmounted(cs)) = Len(cs)
           /\ \A j \in 1 .. Len(cs) :
                 /\ Unmounted(cs)[j].id = cs[j].id /\ ~Unmounted(cs)[j].mounted
                 /\ Unmounted(cs)[j].reply = cs[j].reply
<1>1. /\ Len(cs) \in Nat /\ DOMAIN cs = 1 .. Len(cs)
      /\ \A j \in 1 .. Len(cs) : cs[j] \in Closure
  BY LenProperties, ElementOfSeq
<1>2. \A j \in 1 .. Len(cs) :
          /\ [cs[j] EXCEPT !.mounted = FALSE] \in Closure
          /\ [cs[j] EXCEPT !.mounted = FALSE].id = cs[j].id
          /\ ~[cs[j] EXCEPT !.mounted = FALSE].mounted
          /\ [cs[j] EXCEPT !.mounted = FALSE].reply = cs[j].reply
  BY <1>1 DEF Closure
<1>3. /\ Unmounted(cs) \in [1 .. Len(cs) -> Closure]
      /\ \A j \in 1 .. Len(cs) : Unmounted(cs)[j] = [cs[j] EXCEPT !.mounted = FALSE]
  BY <1>1, <1>2 DEF Unmounted
<1>4. Unmounted(cs) \in Seq(Closure)
  BY <1>1, <1>3, SeqDef
<1>5. Len(Unmounted(cs)) = Len(cs)
  BY <1>1, <1>3, <1>4, LenProperties
<1>6. QED
  BY <1>2, <1>3, <1>4, <1>5

-----------------------------------------------------------------------------
(* Types.                                                                  *)

LEMMA InitDash == Init => DashInv
<1> SUFFICES ASSUME Init PROVE DashInv
  OBVIOUS
<1>1. <<>> \in Seq(Incidents) /\ <<>> \in Seq(Closure) /\ <<>> \in Seq(SUBSET Incidents)
      /\ Len(<<>>) = 0
  BY EmptySeq
<1>2. \A p \in Panels : polls[p] = <<>> /\ Len(polls[p]) <= Overlap[p]
  BY <1>1, BoundsAreNat DEF Init
<1>3. TypeOK
  <2>1. polls \in [Panels -> Seq(SUBSET Incidents)]
        /\ \A p \in Panels : Len(polls[p]) <= Overlap[p]
    BY <1>1, <1>2 DEF Init
  <2>2. fetches \in Seq(Incidents) /\ closes \in Seq(Closure)
        /\ Len(fetches) + Len(closes) <= MaxInFlight
    BY <1>1, BoundsAreNat DEF Init
  <2>3. shown \in [Panels -> SUBSET Incidents]
    BY DEF Init
  <2>4. faults \in 0 .. MaxFaults
    BY BoundsAreNat DEF Init
  <2>5. listed \subseteq appeared /\ appeared \subseteq Incidents /\ closed \subseteq appeared
        /\ gone \subseteq closed
    BY EarlyAreIncidents DEF Init
  <2>6. {selected, signals, rca} \subseteq Incidents \cup {None}
    BY DEF Init
  <2>7. loading \in BOOLEAN /\ inOrder \in BOOLEAN /\ submitting \in BOOLEAN
    BY DEF Init
  <2>8. QED
    BY <2>1, <2>2, <2>3, <2>4, <2>5, <2>6, <2>7 DEF TypeOK
<1>4. SeenHasAppeared /\ GoneIsUnlisted /\ ClosedStaysAway /\ ClosedIsPutAway
  BY <1>1, <1>2, FeedIsOpen DEF Init, SeenHasAppeared, GoneIsUnlisted, ClosedStaysAway, ClosedIsPutAway
<1>5. PaneInOrder /\ ModalInOrder
  BY <1>1 DEF Init, PaneInOrder, ModalInOrder
<1>6. QED
  BY <1>3, <1>4, <1>5 DEF DashInv

LEMMA FaultsOf ==
    ASSUME TypeOK, (\E kind \in {"http", "redis"} : Fault(kind)) \/ NoFault
    PROVE  faults' \in 0 .. MaxFaults
<1>1. PICK f \in 0 .. MaxFaults : f = faults
  BY DEF TypeOK
<1>2. faults' = f \/ (f < MaxFaults /\ faults' = f + 1)
  BY <1>1 DEF Fault, NoFault
<1>3. QED
  BY <1>1, <1>2, BoundsAreNat

(* What closing a row leaves of the server's part. *)
LEMMA CloseRowOf ==
    ASSUME TypeOK, NEW i \in Incidents, CloseRow(i)
    PROVE  /\ listed' \subseteq listed /\ closed' = closed \cup {i} /\ appeared' = appeared
           /\ listed' \subseteq appeared /\ closed' \subseteq appeared
           /\ faults' \in 0 .. MaxFaults
<1>1. faults' \in 0 .. MaxFaults
  BY FaultsOf DEF CloseRow
<1>2. QED
  BY <1>1 DEF CloseRow, TypeOK

(* What serving a request does. *)
LEMMA ServeOf ==
    ASSUME TypeOK, SeenHasAppeared, NEW k \in 1 .. Len(closes), Serve(k)
    PROVE  /\ listed' \subseteq listed /\ closed \subseteq closed' /\ appeared' = appeared
           /\ closed' \subseteq appeared /\ faults' \in 0 .. MaxFaults
           /\ \E reply \in {"closed", "kept", "refused"} :
                 /\ Replied(k, reply)
                 /\ reply = "closed" => closes[k].id \in closed' \ listed'
<1>1. closes[k].id \in Incidents
  BY RequestsOf DEF Closure
<1>2. CASE /\ CloseRow(closes[k].id)
           /\ Replied(k, IF closes[k].id \in listed' THEN "kept" ELSE "closed")
  BY <1>1, <1>2, CloseRowOf DEF TypeOK
<1>3. CASE /\ closes[k].id \in closed /\ Replied(k, "refused")
           /\ UNCHANGED <<serverVars, faults>>
  BY <1>3 DEF TypeOK, serverVars
<1>4. CASE /\ Fault("http")
           /\ Replied(k, "refused")
           /\ \/ /\ closes[k].id \notin closed
                 /\ closed' = closed \cup {closes[k].id}
                 /\ listed' = listed \ {closes[k].id}
                 /\ UNCHANGED appeared
              \/ UNCHANGED serverVars
  <2>1. faults' \in 0 .. MaxFaults
    BY <1>4, FaultsOf
  <2>2. closes[k].id \in appeared
    BY DEF SeenHasAppeared
  <2>3. QED
    BY <1>4, <2>1, <2>2 DEF TypeOK, serverVars
<1>5. QED
  BY <1>2, <1>3, <1>4 DEF Serve

(* An answer to a request of a modal is taken. *)
LEMMA AnswerOf ==
    ASSUME TypeOK, NEW k \in 1 .. Len(closes), Answer(k)
    PROVE  /\ closes' \in Seq(Closure) /\ Len(closes') = Len(closes) - 1
           /\ \A i \in 1 .. Len(closes') :
                 /\ Kept(i, k) \in 1 .. Len(closes) \ {k}
                 /\ closes'[i].id = closes[Kept(i, k)].id
                 /\ closes'[i].reply = closes[Kept(i, k)].reply
           /\ \/ /\ closes[k].reply \in {"closed", "kept"}
                 /\ rca' = None /\ selected' = None /\ submitting' = FALSE
                 /\ shown' = [shown EXCEPT !["feed"] = {}]
                 /\ polls' = [polls EXCEPT !["feed"] = <<>>]
                 /\ gone' = gone \cup (IF closes[k].reply = "closed" THEN {closes[k].id} ELSE {})
                 /\ \A i \in 1 .. Len(closes') : ~closes'[i].mounted
              \/ /\ submitting' = (submitting /\ ~closes[k].mounted)
                 /\ UNCHANGED <<selected, rca, panelVars, gone>>
                 /\ closes' = RemoveAt(closes, k)
<1> DEFINE r == RemoveAt(closes, k)
<1>0. closes \in Seq(Closure)
  BY RequestsOf
<1>1. /\ r \in Seq(Closure) /\ Len(r) = Len(closes) - 1
      /\ \A i \in 1 .. Len(r) :
            Kept(i, k) \in 1 .. Len(closes) \ {k} /\ r[i] = closes[Kept(i, k)]
  <2>1. r \in Seq(Closure) /\ Len(r) = Len(closes) - 1
    BY <1>0, KeptOf
  <2>2. \A i \in 1 .. Len(r) : Kept(i, k) \in 1 .. Len(closes) \ {k}
    BY <1>0, KeptOf
  <2>3. \A i \in 1 .. Len(r) : r[i] = closes[Kept(i, k)]
    BY <1>0, KeptOf
  <2>4. QED
    BY <2>1, <2>2, <2>3
<1>2. /\ Unmounted(r) \in Seq(Closure) /\ Len(Unmounted(r)) = Len(r)
      /\ \A j \in 1 .. Len(r) : /\ Unmounted(r)[j].id = r[j].id /\ ~Unmounted(r)[j].mounted
                                /\ Unmounted(r)[j].reply = r[j].reply
  BY <1>1, UnmountedOf
<1>3. \/ /\ closes[k].reply \in {"closed", "kept"}
         /\ HandleIncidentClosed(r)
         /\ gone' = gone \cup (IF closes[k].reply = "closed" THEN {closes[k].id} ELSE {})
      \/ /\ closes' = r
         /\ submitting' = (submitting /\ ~closes[k].mounted)
         /\ UNCHANGED <<selected, rca, panelVars, gone>>
  BY DEF Answer
<1> HIDE DEF r
<1>4. CASE /\ closes[k].reply \in {"closed", "kept"}
           /\ HandleIncidentClosed(r)
           /\ gone' = gone \cup (IF closes[k].reply = "closed" THEN {closes[k].id} ELSE {})
  <2>1. closes' = Unmounted(r)
    BY <1>4 DEF HandleIncidentClosed
  <2>2. QED
    BY <1>1, <1>2, <1>4, <2>1 DEF HandleIncidentClosed
<1>5. CASE /\ closes' = r
           /\ submitting' = (submitting /\ ~closes[k].mounted)
           /\ UNCHANGED <<selected, rca, panelVars, gone>>
  BY <1>1, <1>5 DEF r
<1>6. QED
  BY <1>3, <1>4, <1>5

(* A poll whose answer is delivered. *)
LEMMA PollLeft ==
    ASSUME TypeOK, NEW p \in Panels, NEW k \in 1 .. Len(polls[p]),
           polls' = [polls EXCEPT ![p] = RemoveAt(@, k)]
    PROVE  /\ \A o \in Panels \ {p} : polls'[o] = polls[o]
           /\ polls'[p] \in Seq(SUBSET Incidents) /\ Len(polls'[p]) <= Overlap[p]
           /\ \A i \in 1 .. Len(polls'[p]) :
                 \E j \in 1 .. Len(polls[p]) : polls'[p][i] = polls[p][j]
<1> DEFINE r == RemoveAt(polls[p], k)
<1>1. polls[p] \in Seq(SUBSET Incidents) /\ Len(polls[p]) \in Nat
      /\ Overlap[p] \in Nat /\ Len(polls[p]) <= Overlap[p]
  BY PollsOf
<1>2. r \in Seq(SUBSET Incidents) /\ Len(r) = Len(polls[p]) - 1
  BY <1>1, KeptOf
<1>3. \A i \in 1 .. Len(r) : Kept(i, k) \in 1 .. Len(polls[p])
  BY <1>1, KeptOf
<1>4. \A i \in 1 .. Len(r) : r[i] = polls[p][Kept(i, k)]
  BY <1>1, KeptOf
<1> HIDE DEF r
<1>5. polls'[p] = r /\ \A o \in Panels \ {p} : polls'[o] = polls[o]
  BY DEF TypeOK, r
<1>6. Len(r) <= Overlap[p]
  BY <1>1, <1>2
<1>7. QED
  BY <1>2, <1>3, <1>4, <1>5, <1>6

(* A fetch whose answer comes. *)
LEMMA FetchLeft ==
    ASSUME TypeOK, NEW k \in 1 .. Len(fetches), fetches' = RemoveAt(fetches, k)
    PROVE  /\ fetches' \in Seq(Incidents) /\ Len(fetches') = Len(fetches) - 1
           /\ k = 1 /\ Len(fetches) > 1 => fetches'[Len(fetches')] = fetches[Len(fetches)]
<1>1. fetches \in Seq(Incidents) /\ Len(fetches) \in Nat
  BY RequestsOf
<1>2. fetches' \in Seq(Incidents) /\ Len(fetches') = Len(fetches) - 1
  BY <1>1, KeptOf
<1>3. \A i \in 1 .. Len(fetches) - 1 :
          fetches'[i] = IF i < k THEN fetches[i] ELSE fetches[i + 1]
  BY <1>1, RemoveAtOf
<1>4. ASSUME k = 1, Len(fetches) > 1
      PROVE  fetches'[Len(fetches')] = fetches[Len(fetches)]
  <2> DEFINE n == Len(fetches) - 1
  <2>1. n \in 1 .. Len(fetches) - 1 /\ ~(n < k) /\ n + 1 = Len(fetches)
    BY <1>1, <1>4
  <2>2. fetches'[n] = fetches[n + 1]
    BY <1>3, <2>1
  <2>3. QED
    BY <1>2, <2>1, <2>2
<1>5. QED
  BY <1>2, <1>4

LEMMA StepType ==
    ASSUME TypeOK, SeenHasAppeared, GoneIsUnlisted, [Next]_vars
    PROVE  TypeOK'
<1>1. /\ Len(fetches) \in Nat /\ Len(closes) \in Nat /\ MaxInFlight \in Nat
      /\ fetches \in Seq(Incidents) /\ closes \in Seq(Closure)
      /\ DOMAIN fetches = 1 .. Len(fetches) /\ DOMAIN closes = 1 .. Len(closes)
  BY RequestsOf, BoundsAreNat
<1>2. ASSUME NEW i \in Incidents, Appear(i) PROVE TypeOK'
  BY <1>2 DEF Appear, TypeOK, panelVars, paneVars, modalVars
<1>3. ASSUME NEW i \in Incidents, CloseElsewhere(i) PROVE TypeOK'
  BY <1>3, CloseRowOf DEF CloseElsewhere, TypeOK, panelVars, paneVars, modalVars
<1>4. ASSUME NEW k \in 1 .. Len(closes), Serve(k) PROVE TypeOK'
  <2>1. closes' \in Seq(Closure) /\ Len(closes') = Len(closes)
    BY <1>4, ServeOf, RepliedOf
  <2>2. /\ listed' \subseteq appeared' /\ appeared' \subseteq Incidents
        /\ closed' \subseteq appeared' /\ gone' \subseteq closed'
        /\ faults' \in 0 .. MaxFaults
    BY <1>4, ServeOf DEF Serve, TypeOK
  <2>3. UNCHANGED <<panelVars, paneVars, rca, submitting>>
    BY <1>4 DEF Serve
  <2>4. QED
    BY <2>1, <2>2, <2>3 DEF TypeOK, panelVars, paneVars
<1>5. ASSUME NEW p \in Panels, Poll(p) PROVE TypeOK'
  <2>1. polls[p] \in Seq(SUBSET Incidents) /\ Len(polls[p]) \in Nat
        /\ Overlap[p] \in Nat /\ Len(polls[p]) < Overlap[p] /\ listed \in SUBSET Incidents
    BY <1>5, PollsOf DEF Poll, TypeOK
  <2>2. Append(polls[p], listed) \in Seq(SUBSET Incidents)
        /\ Len(Append(polls[p], listed)) = Len(polls[p]) + 1
    BY <2>1, AppendProperties
  <2>3. Len(Append(polls[p], listed)) <= Overlap[p]
    BY <2>1, <2>2
  <2>4. polls' \in [Panels -> Seq(SUBSET Incidents)]
        /\ \A o \in Panels : Len(polls'[o]) <= Overlap[o]
    BY <1>5, <2>2, <2>3 DEF Poll, TypeOK
  <2>5. QED
    BY <1>5, <2>4 DEF Poll, TypeOK, serverVars, paneVars, modalVars
<1>6. ASSUME NEW p \in Panels, NEW k \in 1 .. Len(polls[p]), Deliver(p, k) PROVE TypeOK'
  <2>1. /\ polls'[p] \in Seq(SUBSET Incidents) /\ Len(polls'[p]) <= Overlap[p]
        /\ \A o \in Panels \ {p} : polls'[o] = polls[o]
    BY <1>6, PollLeft DEF Deliver
  <2>2. polls' \in [Panels -> Seq(SUBSET Incidents)]
        /\ \A o \in Panels : Len(polls'[o]) <= Overlap[o]
    BY <1>6, <2>1 DEF Deliver, TypeOK
  <2>3. shown' \in [Panels -> SUBSET Incidents]
    BY <1>6, PollsOf DEF Deliver, TypeOK
  <2>4. faults' \in 0 .. MaxFaults
    BY <1>6, FaultsOf DEF Deliver
  <2>5. QED
    BY <1>6, <2>2, <2>3, <2>4 DEF Deliver, TypeOK, serverVars, paneVars, modalVars
<1>7. ASSUME NEW i \in Incidents, Select(i) PROVE TypeOK'
  <2>1. fetches' \in Seq(Incidents) /\ Len(fetches') = Len(fetches) + 1
    BY <1>1, <1>7, AppendProperties DEF Select
  <2>2. Len(fetches') + Len(closes) <= MaxInFlight
    BY <1>1, <1>7, <2>1 DEF Select, RoomForOne
  <2>3. inOrder' \in BOOLEAN
    BY <1>7 DEF Select
  <2>4. QED
    BY <1>7, <2>1, <2>2, <2>3 DEF Select, TypeOK, serverVars, panelVars, modalVars
<1>8. ASSUME Unselect PROVE TypeOK'
  BY <1>8 DEF Unselect, TypeOK, serverVars, panelVars, modalVars
<1>9. ASSUME NEW k \in 1 .. Len(fetches), Fetched(k) PROVE TypeOK'
  <2>1. fetches' \in Seq(Incidents) /\ Len(fetches') = Len(fetches) - 1
    BY <1>9, FetchLeft DEF Fetched
  <2>2. Len(fetches') + Len(closes) <= MaxInFlight
    BY <1>1, <2>1 DEF TypeOK
  <2>3. faults' \in 0 .. MaxFaults
    BY <1>9, FaultsOf DEF Fetched, SignalsArrive, SignalsFail
  <2>4. signals' \in Incidents \cup {None} /\ inOrder' \in BOOLEAN
    BY <1>9, RequestsOf DEF Fetched, SignalsArrive, SignalsFail, TypeOK
  <2>5. QED
    BY <1>9, <2>1, <2>2, <2>3, <2>4 DEF Fetched, TypeOK, serverVars, panelVars, modalVars
<1>10. ASSUME OpenRCA PROVE TypeOK'
  BY <1>10 DEF OpenRCA, TypeOK, serverVars, panelVars, paneVars
<1>11. ASSUME Submit PROVE TypeOK'
  <2> DEFINE c == [id |-> rca, mounted |-> TRUE, reply |-> "none"]
  <2>1. c \in Closure
    BY <1>11 DEF Submit, Closure, TypeOK
  <2>2. closes' = Append(closes, c)
    BY <1>11 DEF Submit, Post
  <2> HIDE DEF c
  <2>3. closes' \in Seq(Closure) /\ Len(closes') = Len(closes) + 1
    BY <1>1, <2>1, <2>2, AppendProperties
  <2>4. Len(fetches) + Len(closes') <= MaxInFlight
    BY <1>1, <1>11, <2>3 DEF Submit, RoomForOne
  <2>5. QED
    BY <1>11, <2>3, <2>4 DEF Submit, TypeOK, serverVars, panelVars, paneVars
<1>12. ASSUME Cancel PROVE TypeOK'
  <2>1. closes' \in Seq(Closure) /\ Len(closes') = Len(closes)
    BY <1>1, <1>12, UnmountedOf DEF Cancel
  <2>2. QED
    BY <1>12, <2>1 DEF Cancel, TypeOK, serverVars, panelVars, paneVars
<1>13. ASSUME NEW k \in 1 .. Len(closes), Answer(k) PROVE TypeOK'
  <2>1. closes' \in Seq(Closure) /\ Len(closes') = Len(closes) - 1
    BY <1>13, AnswerOf
  <2>2. Len(fetches) + Len(closes') <= MaxInFlight
    BY <1>1, <2>1 DEF TypeOK
  <2>3. UNCHANGED <<serverVars, signals, loading, fetches, inOrder, faults>>
    BY <1>13 DEF Answer
  <2>4. CASE UNCHANGED <<selected, rca, panelVars, gone>>
             /\ submitting' = (submitting /\ ~closes[k].mounted)
    BY <2>1, <2>2, <2>3, <2>4 DEF TypeOK, serverVars, panelVars
  <2>5. CASE /\ rca' = None /\ selected' = None /\ submitting' = FALSE
             /\ shown' = [shown EXCEPT !["feed"] = {}]
             /\ polls' = [polls EXCEPT !["feed"] = <<>>]
    <3>1. shown' \in [Panels -> SUBSET Incidents]
      BY <2>5 DEF TypeOK
    <3>2. polls' \in [Panels -> Seq(SUBSET Incidents)]
          /\ \A p \in Panels : Len(polls'[p]) <= Overlap[p]
      <4>1. <<>> \in Seq(SUBSET Incidents) /\ Len(<<>>) = 0
        BY EmptySeq
      <4>2. polls \in [Panels -> Seq(SUBSET Incidents)]
            /\ \A p \in Panels : Len(polls[p]) <= Overlap[p] /\ Overlap[p] \in Nat
        BY BoundsAreNat DEF TypeOK
      <4>3. polls' \in [Panels -> Seq(SUBSET Incidents)]
        BY <2>5, <4>1, <4>2
      <4>4. \A p \in Panels : polls'[p] = IF p = "feed" THEN <<>> ELSE polls[p]
        BY <2>5, <4>2
      <4>5. ASSUME NEW p \in Panels PROVE Len(polls'[p]) <= Overlap[p]
        <5>1. Len(polls'[p]) = 0 \/ Len(polls'[p]) = Len(polls[p])
          BY <4>1, <4>4
        <5>2. QED
          BY <4>2, <5>1
      <4>6. QED
        BY <4>3, <4>5
    <3>3. gone' \subseteq closed'
      <4>1. closes[k].reply = "closed" => closes[k].id \in closed
        BY DEF GoneIsUnlisted
      <4>2. \/ gone' = gone
            \/ gone' = gone \cup (IF closes[k].reply = "closed" THEN {closes[k].id} ELSE {})
        BY <1>13 DEF Answer
      <4>3. gone \subseteq closed /\ closed' = closed
        BY <2>3 DEF TypeOK, serverVars
      <4>4. QED
        BY <4>1, <4>2, <4>3
    <3>4. QED
      BY <2>1, <2>2, <2>3, <2>5, <3>1, <3>2, <3>3 DEF TypeOK, serverVars
  <2>6. QED
    BY <1>13, <2>4, <2>5, AnswerOf
<1>14. ASSUME UNCHANGED vars PROVE TypeOK'
  BY <1>14 DEF vars, TypeOK, serverVars, panelVars, paneVars, modalVars
<1>15. QED
  BY <1>1, <1>2, <1>3, <1>4, <1>5, <1>6, <1>7, <1>8, <1>9, <1>10, <1>11, <1>12, <1>13, <1>14,
     PollsOf
  DEF Next

-----------------------------------------------------------------------------
(* What a poll, a new feed and a submission leave.                         *)

LEMMA PollAdded ==
    ASSUME TypeOK, NEW p \in Panels, Poll(p)
    PROVE  /\ \A o \in Panels \ {p} : polls'[o] = polls[o]
           /\ \A k \in 1 .. Len(polls'[p]) :
                 \/ polls'[p][k] = listed
                 \/ \E j \in 1 .. Len(polls[p]) : polls'[p][k] = polls[p][j]
<1>1. /\ polls[p] \in Seq(SUBSET Incidents) /\ Len(polls[p]) \in Nat
      /\ listed \in SUBSET Incidents
  BY PollsOf DEF TypeOK
<1>2. polls'[p] = Append(polls[p], listed) /\ \A o \in Panels \ {p} : polls'[o] = polls[o]
  BY DEF Poll, TypeOK
<1>3. /\ Len(Append(polls[p], listed)) = Len(polls[p]) + 1
      /\ \A k \in 1 .. Len(polls[p]) : Append(polls[p], listed)[k] = polls[p][k]
      /\ Append(polls[p], listed)[Len(polls[p]) + 1] = listed
  BY <1>1, AppendProperties
<1>4. ASSUME NEW k \in 1 .. Len(polls'[p]), polls'[p][k] # listed
      PROVE  k \in 1 .. Len(polls[p]) /\ polls'[p][k] = polls[p][k]
  <2>1. k \in 1 .. Len(polls[p]) + 1 /\ k # Len(polls[p]) + 1
    BY <1>2, <1>3, <1>4
  <2>2. k \in 1 .. Len(polls[p])
    BY <1>1, <2>1
  <2>3. QED
    BY <1>2, <1>3, <2>2
<1>5. QED
  BY <1>2, <1>4

LEMMA FeedIsNew ==
    ASSUME TypeOK, shown' = [shown EXCEPT !["feed"] = {}],
           polls' = [polls EXCEPT !["feed"] = <<>>]
    PROVE  /\ shown'["feed"] = {} /\ \A k \in 1 .. Len(polls'["feed"]) : FALSE
           /\ \A p \in Panels \ {"feed"} : shown'[p] = shown[p] /\ polls'[p] = polls[p]
<1>1. Len(<<>>) = 0
  BY EmptySeq
<1>2. polls'["feed"] = <<>>
  BY FeedIsOpen DEF TypeOK
<1>3. \A k \in 1 .. Len(polls'["feed"]) : FALSE
  BY <1>1, <1>2
<1>4. QED
  BY <1>3, FeedIsOpen DEF TypeOK

LEMMA SubmitOf ==
    ASSUME TypeOK, Submit
    PROVE  /\ Len(closes') = Len(closes) + 1
           /\ \A k \in 1 .. Len(closes') :
                 \/ k \in 1 .. Len(closes) /\ closes'[k] = closes[k]
                 \/ /\ k = Len(closes) + 1 /\ closes'[k].id = rca
                    /\ closes'[k].mounted /\ closes'[k].reply = "none"
           /\ closes'[Len(closes')].mounted
<1> DEFINE c == [id |-> rca, mounted |-> TRUE, reply |-> "none"]
<1>1. closes \in Seq(Closure) /\ Len(closes) \in Nat
  BY RequestsOf
<1>2. c \in Closure
  BY DEF Submit, Closure, TypeOK
<1>3. closes' = Append(closes, c)
  BY DEF Submit, Post
<1>4. c.id = rca /\ c.mounted /\ c.reply = "none"
  OBVIOUS
<1> HIDE DEF c
<1>5. /\ Len(closes') = Len(closes) + 1 /\ closes'[Len(closes) + 1] = c
      /\ \A k \in 1 .. Len(closes) : closes'[k] = closes[k]
  BY <1>1, <1>2, <1>3, AppendProperties
<1>6. ASSUME NEW k \in 1 .. Len(closes')
      PROVE  k \in 1 .. Len(closes) \/ k = Len(closes) + 1
  <2>1. k \in 1 .. Len(closes) + 1
    BY <1>5
  <2>2. QED
    BY <1>1, <2>1
<1>7. QED
  BY <1>4, <1>5, <1>6

-----------------------------------------------------------------------------
(* Nothing is seen that was never listed.                                  *)

LEMMA StepSeen ==
    ASSUME TypeOK, SeenHasAppeared, [Next]_vars
    PROVE  SeenHasAppeared'
<1>1. DOMAIN fetches = 1 .. Len(fetches) /\ DOMAIN closes = 1 .. Len(closes)
  BY RequestsOf
<1>2. ASSUME NEW i \in Incidents, Appear(i) PROVE SeenHasAppeared'
  BY <1>2 DEF Appear, SeenHasAppeared, panelVars, paneVars, modalVars
<1>3. ASSUME NEW i \in Incidents, CloseElsewhere(i) PROVE SeenHasAppeared'
  BY <1>3, CloseRowOf DEF CloseElsewhere, SeenHasAppeared, panelVars, paneVars, modalVars
<1>4. ASSUME NEW k \in 1 .. Len(closes), Serve(k) PROVE SeenHasAppeared'
  <2>1. /\ appeared' = appeared /\ Len(closes') = Len(closes)
        /\ \A j \in 1 .. Len(closes) : closes'[j].id = closes[j].id
    BY <1>4, ServeOf, RepliedOf
  <2>2. UNCHANGED <<panelVars, paneVars, rca>>
    BY <1>4 DEF Serve
  <2>3. QED
    BY <2>1, <2>2 DEF SeenHasAppeared, panelVars, paneVars
<1>5. ASSUME NEW p \in Panels, Poll(p) PROVE SeenHasAppeared'
  <2>1. listed \subseteq appeared
    BY DEF TypeOK
  <2>2. \A o \in Panels : \A k \in 1 .. Len(polls'[o]) : polls'[o][k] \subseteq appeared
    BY <1>5, <2>1, PollAdded DEF SeenHasAppeared
  <2>3. QED
    BY <1>5, <2>2 DEF Poll, SeenHasAppeared, serverVars, paneVars, modalVars
<1>6. ASSUME NEW p \in Panels, NEW k \in 1 .. Len(polls[p]), Deliver(p, k)
      PROVE  SeenHasAppeared'
  <2>1. /\ \A o \in Panels \ {p} : polls'[o] = polls[o]
        /\ \A i \in 1 .. Len(polls'[p]) :
              \E j \in 1 .. Len(polls[p]) : polls'[p][i] = polls[p][j]
    BY <1>6, PollLeft DEF Deliver
  <2>2. \A o \in Panels : shown'[o] \subseteq appeared
    BY <1>6 DEF Deliver, SeenHasAppeared, TypeOK
  <2>3. \A o \in Panels : \A i \in 1 .. Len(polls'[o]) : polls'[o][i] \subseteq appeared
    BY <2>1 DEF SeenHasAppeared
  <2>4. UNCHANGED <<serverVars, paneVars, modalVars>>
    BY <1>6 DEF Deliver
  <2>5. QED
    BY <2>2, <2>3, <2>4 DEF SeenHasAppeared, serverVars, paneVars, modalVars
<1>7. ASSUME NEW i \in Incidents, Select(i) PROVE SeenHasAppeared'
  BY <1>7, FeedIsOpen DEF Select, SeenHasAppeared, serverVars, panelVars, modalVars
<1>8. ASSUME Unselect PROVE SeenHasAppeared'
  BY <1>8 DEF Unselect, SeenHasAppeared, serverVars, panelVars, modalVars
<1>9. ASSUME NEW k \in 1 .. Len(fetches), Fetched(k) PROVE SeenHasAppeared'
  BY <1>9 DEF Fetched, SeenHasAppeared, serverVars, panelVars, modalVars
<1>10. ASSUME OpenRCA PROVE SeenHasAppeared'
  BY <1>10 DEF OpenRCA, SeenHasAppeared, serverVars, panelVars, paneVars
<1>11. ASSUME Submit PROVE SeenHasAppeared'
  <2>1. rca \in appeared
    BY <1>11 DEF Submit, SeenHasAppeared
  <2>2. \A k \in 1 .. Len(closes') : closes'[k].id \in appeared
    BY <1>11, <2>1, SubmitOf DEF SeenHasAppeared
  <2>3. QED
    BY <1>11, <2>2 DEF Submit, SeenHasAppeared, serverVars, panelVars, paneVars
<1>12. ASSUME Cancel PROVE SeenHasAppeared'
  <2>1. /\ Len(closes') = Len(closes)
        /\ \A j \in 1 .. Len(closes) : closes'[j].id = closes[j].id
    BY <1>12, RequestsOf, UnmountedOf DEF Cancel
  <2>2. QED
    BY <1>12, <2>1 DEF Cancel, SeenHasAppeared, serverVars, panelVars, paneVars
<1>13. ASSUME NEW k \in 1 .. Len(closes), Answer(k) PROVE SeenHasAppeared'
  <2>1. \A i \in 1 .. Len(closes') : closes'[i].id \in appeared
    BY <1>13, AnswerOf DEF SeenHasAppeared
  <2>2. UNCHANGED serverVars
    BY <1>13 DEF Answer
  <2>3. CASE UNCHANGED <<selected, rca, panelVars>>
    BY <2>1, <2>2, <2>3 DEF SeenHasAppeared, serverVars, panelVars
  <2>4. CASE /\ rca' = None /\ selected' = None
             /\ shown' = [shown EXCEPT !["feed"] = {}]
             /\ polls' = [polls EXCEPT !["feed"] = <<>>]
    <3>1. \A p \in Panels : /\ shown'[p] \subseteq appeared
                            /\ \A i \in 1 .. Len(polls'[p]) : polls'[p][i] \subseteq appeared
      BY <2>4, FeedIsNew DEF SeenHasAppeared
    <3>2. QED
      BY <2>1, <2>2, <2>4, <3>1 DEF SeenHasAppeared, serverVars
  <2>5. QED
    BY <1>13, <2>3, <2>4, AnswerOf
<1>14. ASSUME UNCHANGED vars PROVE SeenHasAppeared'
  BY <1>14 DEF vars, SeenHasAppeared, serverVars, panelVars, paneVars, modalVars
<1>15. QED
  BY <1>1, <1>2, <1>3, <1>4, <1>5, <1>6, <1>7, <1>8, <1>9, <1>10, <1>11, <1>12, <1>13, <1>14,
     PollsOf
  DEF Next

-----------------------------------------------------------------------------
(* What is gone stays gone.                                                *)

(* The three that keep it away, together. *)
StaysGone == GoneIsUnlisted /\ ClosedStaysAway /\ ClosedIsPutAway

LEMMA StepGone ==
    ASSUME TypeOK, SeenHasAppeared, StaysGone, [Next]_vars
    PROVE  StaysGone'
<1>1. DOMAIN fetches = 1 .. Len(fetches) /\ DOMAIN closes = 1 .. Len(closes)
  BY RequestsOf
<1>2. /\ gone \subseteq closed /\ closed \subseteq appeared /\ appeared \subseteq Incidents
      /\ None \notin Incidents /\ None \notin gone /\ "feed" \in Panels
  BY NoneIsNoIncident, FeedIsOpen DEF TypeOK
<1> USE DEF StaysGone
<1>3. ASSUME NEW i \in Incidents, Appear(i) PROVE StaysGone'
  <2>1. i \notin closed /\ i \notin gone
    BY <1>2, <1>3 DEF Appear
  <2>2. QED
    BY <1>3, <2>1 DEF Appear, GoneIsUnlisted, ClosedStaysAway, ClosedIsPutAway, panelVars, paneVars, modalVars
<1>4. ASSUME NEW i \in Incidents, CloseElsewhere(i) PROVE StaysGone'
  BY <1>4, CloseRowOf
  DEF CloseElsewhere, GoneIsUnlisted, ClosedStaysAway, ClosedIsPutAway, panelVars, paneVars, modalVars
<1>5. ASSUME NEW k \in 1 .. Len(closes), Serve(k) PROVE StaysGone'
  <2>1. PICK reply \in {"closed", "kept", "refused"} :
            /\ Replied(k, reply)
            /\ reply = "closed" => closes[k].id \in closed' \ listed'
    BY <1>5, ServeOf
  <2>2. /\ Len(closes') = Len(closes)
        /\ \A j \in 1 .. Len(closes) :
              /\ closes'[j].id = closes[j].id
              /\ closes'[j].reply = IF j = k THEN reply ELSE closes[j].reply
    BY <2>1, RepliedOf
  <2>3. listed' \subseteq listed /\ closed \subseteq closed'
    BY <1>5, ServeOf
  <2>4. UNCHANGED <<panelVars, paneVars, rca, gone>>
    BY <1>5 DEF Serve
  <2>5. \A j \in 1 .. Len(closes') :
            closes'[j].reply = "closed" => closes'[j].id \in closed' \ listed'
    BY <2>1, <2>2, <2>3 DEF GoneIsUnlisted
  <2>6. QED
    BY <2>3, <2>4, <2>5 DEF GoneIsUnlisted, ClosedStaysAway, ClosedIsPutAway, panelVars, paneVars
<1>6. ASSUME NEW p \in Panels, Poll(p) PROVE StaysGone'
  <2>1. \A k \in 1 .. Len(polls'["feed"]) : polls'["feed"][k] \cap gone = {}
    BY <1>2, <1>6, PollAdded DEF GoneIsUnlisted
  <2>2. UNCHANGED <<serverVars, shown, paneVars, modalVars, gone>>
    BY <1>6 DEF Poll
  <2>3. QED
    BY <2>1, <2>2
    DEF GoneIsUnlisted, ClosedStaysAway, ClosedIsPutAway, serverVars, paneVars, modalVars
<1>7. ASSUME NEW p \in Panels, NEW k \in 1 .. Len(polls[p]), Deliver(p, k)
      PROVE  StaysGone'
  <2>1. /\ \A o \in Panels \ {p} : polls'[o] = polls[o]
        /\ \A i \in 1 .. Len(polls'[p]) :
              \E j \in 1 .. Len(polls[p]) : polls'[p][i] = polls[p][j]
    BY <1>7, PollLeft DEF Deliver
  <2>2. \A i \in 1 .. Len(polls'["feed"]) : polls'["feed"][i] \cap gone = {}
    BY <1>2, <2>1 DEF GoneIsUnlisted
  <2>3. gone \cap shown'["feed"] = {}
    BY <1>2, <1>7 DEF Deliver, GoneIsUnlisted, ClosedStaysAway, TypeOK
  <2>4. UNCHANGED <<serverVars, paneVars, modalVars, gone>>
    BY <1>7 DEF Deliver
  <2>5. QED
    BY <2>2, <2>3, <2>4
    DEF GoneIsUnlisted, ClosedStaysAway, ClosedIsPutAway, serverVars, paneVars, modalVars
<1>8. ASSUME NEW i \in Incidents, Select(i) PROVE StaysGone'
  <2>1. i \notin gone /\ selected' = i /\ UNCHANGED <<serverVars, panelVars, modalVars, gone>>
    BY <1>8 DEF Select, ClosedStaysAway
  <2>2. QED
    BY <2>1 DEF GoneIsUnlisted, ClosedStaysAway, ClosedIsPutAway, serverVars, panelVars, modalVars
<1>9. ASSUME Unselect PROVE StaysGone'
  BY <1>2, <1>9
  DEF Unselect, GoneIsUnlisted, ClosedStaysAway, ClosedIsPutAway, serverVars, panelVars, modalVars
<1>10. ASSUME NEW k \in 1 .. Len(fetches), Fetched(k) PROVE StaysGone'
  BY <1>10
  DEF Fetched, GoneIsUnlisted, ClosedStaysAway, ClosedIsPutAway, serverVars, panelVars, modalVars
<1>11. ASSUME OpenRCA PROVE StaysGone'
  BY <1>11
  DEF OpenRCA, GoneIsUnlisted, ClosedStaysAway, ClosedIsPutAway, serverVars, panelVars, paneVars
<1>12. ASSUME Submit PROVE StaysGone'
  <2>1. \A k \in 1 .. Len(closes') :
            closes'[k].reply = "closed" => closes'[k].id \in closed \ listed
    BY <1>12, SubmitOf DEF GoneIsUnlisted
  <2>2. UNCHANGED <<serverVars, panelVars, paneVars, rca, gone>>
    BY <1>12 DEF Submit
  <2>3. QED
    BY <2>1, <2>2
    DEF GoneIsUnlisted, ClosedStaysAway, ClosedIsPutAway, serverVars, panelVars, paneVars
<1>13. ASSUME Cancel PROVE StaysGone'
  <2>1. /\ Len(closes') = Len(closes)
        /\ \A j \in 1 .. Len(closes) :
              closes'[j].id = closes[j].id /\ closes'[j].reply = closes[j].reply
    BY <1>13, RequestsOf, UnmountedOf DEF Cancel
  <2>2. rca' = None /\ UNCHANGED <<serverVars, panelVars, paneVars, gone>>
    BY <1>13 DEF Cancel
  <2>3. QED
    BY <1>2, <2>1, <2>2
    DEF GoneIsUnlisted, ClosedStaysAway, ClosedIsPutAway, serverVars, panelVars, paneVars
<1>14. ASSUME NEW k \in 1 .. Len(closes), Answer(k) PROVE StaysGone'
  <2>1. UNCHANGED serverVars
    BY <1>14 DEF Answer
  <2>2. \A i \in 1 .. Len(closes') :
            closes'[i].reply = "closed" => closes'[i].id \in closed \ listed
    BY <1>14, AnswerOf DEF GoneIsUnlisted
  <2>3. CASE UNCHANGED <<selected, rca, panelVars, gone>>
    BY <2>1, <2>2, <2>3
    DEF GoneIsUnlisted, ClosedStaysAway, ClosedIsPutAway, serverVars, panelVars
  <2>4. CASE /\ rca' = None /\ selected' = None
             /\ shown' = [shown EXCEPT !["feed"] = {}]
             /\ polls' = [polls EXCEPT !["feed"] = <<>>]
             /\ gone' = gone \cup (IF closes[k].reply = "closed" THEN {closes[k].id} ELSE {})
    <3>1. gone' \subseteq closed \ listed
      BY <1>2, <2>4 DEF GoneIsUnlisted
    <3>2. shown'["feed"] = {} /\ \A i \in 1 .. Len(polls'["feed"]) : FALSE
      BY <2>4, FeedIsNew
    <3>3. None \notin gone'
      BY <1>2, <3>1
    <3>4. QED
      BY <2>1, <2>2, <2>4, <3>1, <3>2, <3>3
      DEF GoneIsUnlisted, ClosedStaysAway, ClosedIsPutAway, serverVars
  <2>5. QED
    BY <1>14, <2>3, <2>4, AnswerOf
<1>15. ASSUME UNCHANGED vars PROVE StaysGone'
  BY <1>15
  DEF vars, GoneIsUnlisted, ClosedStaysAway, ClosedIsPutAway, serverVars, panelVars, paneVars, modalVars
<1>16. QED
  BY <1>1, <1>3, <1>4, <1>5, <1>6, <1>7, <1>8, <1>9, <1>10, <1>11, <1>12, <1>13, <1>14, <1>15,
     PollsOf
  DEF Next

-----------------------------------------------------------------------------
(* The pane.                                                               *)

LEMMA StepPane ==
    ASSUME TypeOK, PaneInOrder, [Next]_vars
    PROVE  PaneInOrder'
<1>1. /\ fetches \in Seq(Incidents) /\ Len(fetches) \in Nat
      /\ DOMAIN fetches = 1 .. Len(fetches) /\ DOMAIN closes = 1 .. Len(closes)
  BY RequestsOf
<1>2. ASSUME UNCHANGED paneVars PROVE PaneInOrder'
  BY <1>2 DEF PaneInOrder, paneVars
<1>3. ASSUME NEW i \in Incidents, Select(i) PROVE PaneInOrder'
  <2>1. /\ fetches' = Append(fetches, i) /\ selected' = i /\ loading'
    BY <1>3 DEF Select
  <2>2. /\ Len(fetches') = Len(fetches) + 1 /\ fetches'[Len(fetches) + 1] = i
    BY <1>1, <2>1, AppendProperties
  <2>3. Len(fetches') # 0 /\ Len(<<>>) = 0
    BY <1>1, <2>2, EmptySeq
  <2>4. fetches' # <<>>
    BY <2>3
  <2>5. QED
    BY <2>1, <2>2, <2>4 DEF PaneInOrder
<1>4. ASSUME Unselect PROVE PaneInOrder'
  BY <1>4 DEF Unselect, PaneInOrder
<1>5. ASSUME NEW k \in 1 .. Len(fetches), Fetched(k) PROVE PaneInOrder'
  <2>1. ~loading' /\ selected' = selected
    BY <1>5 DEF Fetched
  <2>2. inOrder' => inOrder /\ k = 1 /\ signals' = fetches[1]
    BY <1>5 DEF Fetched, SignalsArrive, SignalsFail
  <2>3. /\ Len(fetches') = Len(fetches) - 1
        /\ k = 1 /\ Len(fetches) > 1 => fetches'[Len(fetches')] = fetches[Len(fetches)]
    BY <1>5, FetchLeft DEF Fetched
  <2>4. fetches # <<>>
    BY <1>1, EmptySeq
  <2>5. ASSUME inOrder', selected # None PROVE fetches[Len(fetches)] = selected
    BY <2>2, <2>4, <2>5 DEF PaneInOrder
  <2>6. ASSUME inOrder', selected # None, fetches' = <<>> PROVE signals' = selected
    <3>1. Len(fetches) - 1 = 0
      BY <2>3, <2>6, EmptySeq
    <3>2. Len(fetches) = 1
      <4>1. PICK n \in Nat : n = Len(fetches)
        BY <1>1
      <4>2. n - 1 = 0
        BY <3>1, <4>1
      <4>3. n = 1
        BY <4>2
      <4>4. QED
        BY <4>1, <4>3
    <3>3. QED
      BY <2>2, <2>5, <2>6, <3>2
  <2>7. ASSUME inOrder', selected # None, fetches' # <<>>
        PROVE  fetches'[Len(fetches')] = selected
    <3>1. Len(fetches') # 0
      BY <1>5, <2>7, FetchLeft, EmptySeq DEF Fetched
    <3>2. Len(fetches) > 1
      BY <1>1, <2>3, <3>1
    <3>3. QED
      BY <2>2, <2>3, <2>5, <2>7, <3>2
  <2>8. QED
    BY <2>1, <2>6, <2>7 DEF PaneInOrder
<1>6. ASSUME NEW k \in 1 .. Len(closes), Answer(k) PROVE PaneInOrder'
  <2>1. UNCHANGED <<signals, loading, fetches, inOrder>> /\ selected' \in {None, selected}
    BY <1>6, AnswerOf DEF Answer
  <2>2. QED
    BY <2>1 DEF PaneInOrder
<1>7. QED
  BY <1>1, <1>2, <1>3, <1>4, <1>5, <1>6
  DEF Next, vars, Appear, CloseElsewhere, Poll, Deliver, Serve, OpenRCA, Submit, Cancel

-----------------------------------------------------------------------------
(* The modal.                                                              *)

LEMMA ServedKeeps ==
    ASSUME TypeOK, NEW k \in 1 .. Len(closes), Serve(k)
    PROVE  /\ Len(closes') = Len(closes)
           /\ \A j \in 1 .. Len(closes) : closes'[j].mounted = closes[j].mounted
<1>1. PICK reply \in {"closed", "kept", "refused"} : Replied(k, reply)
  BY DEF Serve
<1>2. QED
  BY <1>1, RepliedOf

LEMMA StepModal ==
    ASSUME TypeOK, ModalInOrder, [Next]_vars
    PROVE  ModalInOrder'
<1>1. /\ closes \in Seq(Closure) /\ Len(closes) \in Nat
      /\ DOMAIN fetches = 1 .. Len(fetches) /\ DOMAIN closes = 1 .. Len(closes)
  BY RequestsOf
<1>2. ASSUME UNCHANGED <<submitting, closes>> PROVE ModalInOrder'
  BY <1>2 DEF ModalInOrder
<1>3. ASSUME NEW k \in 1 .. Len(closes), Serve(k) PROVE ModalInOrder'
  <2>1. /\ Len(closes') = Len(closes)
        /\ \A j \in 1 .. Len(closes) : closes'[j].mounted = closes[j].mounted
    BY <1>3, ServedKeeps
  <2>2. submitting' = submitting
    BY <1>3 DEF Serve
  <2>3. QED
    BY <2>1, <2>2 DEF ModalInOrder
<1>4. ASSUME Submit PROVE ModalInOrder'
  <2>1. \A k \in 1 .. Len(closes) : ~closes[k].mounted
    BY <1>4 DEF Submit, ModalInOrder
  <2>2. /\ Len(closes') = Len(closes) + 1 /\ closes'[Len(closes')].mounted
        /\ \A k \in 1 .. Len(closes') : closes'[k].mounted => k = Len(closes) + 1
    BY <1>4, <2>1, SubmitOf
  <2>3. Len(closes') \in 1 .. Len(closes')
    BY <1>1, <2>2
  <2>4. submitting'
    BY <1>4 DEF Submit
  <2>5. QED
    BY <2>2, <2>3, <2>4 DEF ModalInOrder
<1>5. ASSUME Cancel PROVE ModalInOrder'
  <2>1. /\ Len(closes') = Len(closes) /\ \A k \in 1 .. Len(closes) : ~closes'[k].mounted
    BY <1>1, <1>5, UnmountedOf DEF Cancel
  <2>2. submitting' = FALSE
    BY <1>5 DEF Cancel
  <2>3. QED
    BY <2>1, <2>2 DEF ModalInOrder
<1>6. ASSUME NEW k \in 1 .. Len(closes), Answer(k) PROVE ModalInOrder'
  <2>1. CASE submitting' = FALSE /\ \A i \in 1 .. Len(closes') : ~closes'[i].mounted
    BY <2>1 DEF ModalInOrder
  <2>2. CASE closes' = RemoveAt(closes, k) /\ submitting' = (submitting /\ ~closes[k].mounted)
    <3>1. \A i \in 1 .. Len(closes') : Kept(i, k) \in 1 .. Len(closes) \ {k}
      BY <1>1, <2>2, KeptOf
    <3>2. \A i \in 1 .. Len(closes') : closes'[i] = closes[Kept(i, k)]
      BY <1>1, <2>2, KeptOf
    <3>3. \A i, j \in 1 .. Len(closes') : Kept(i, k) = Kept(j, k) => i = j
      BY <1>1, <2>2, KeptOf
    <3>4. \A j \in 1 .. Len(closes) \ {k} : \E i \in 1 .. Len(closes') : Kept(i, k) = j
      BY <1>1, <2>2, KeptOf
    <3>5. \A i, j \in 1 .. Len(closes') :
              closes'[i].mounted /\ closes'[j].mounted => i = j
      BY <3>1, <3>2, <3>3 DEF ModalInOrder
    <3>6. ASSUME submitting' PROVE \E i \in 1 .. Len(closes') : closes'[i].mounted
      <4>1. PICK j \in 1 .. Len(closes) \ {k} : closes[j].mounted
        BY <2>2, <3>6 DEF ModalInOrder
      <4>2. QED
        BY <3>2, <3>4, <4>1
    <3>7. ASSUME NEW i \in 1 .. Len(closes'), closes'[i].mounted PROVE submitting'
      <4>1. Kept(i, k) \in 1 .. Len(closes) \ {k} /\ closes[Kept(i, k)].mounted
        BY <3>1, <3>2, <3>7
      <4>2. submitting /\ ~closes[k].mounted
        BY <4>1 DEF ModalInOrder
      <4>3. QED
        BY <2>2, <4>2
    <3>8. QED
      BY <3>5, <3>6, <3>7 DEF ModalInOrder
  <2>3. QED
    BY <1>6, <2>1, <2>2, AnswerOf
<1>7. QED
  BY <1>1, <1>2, <1>3, <1>4, <1>5, <1>6
  DEF Next, vars, modalVars, Appear, CloseElsewhere, Poll, Deliver, Select, Unselect, Fetched, OpenRCA

-----------------------------------------------------------------------------
(* The theorems.                                                           *)

(* The inductive invariant: every state the dashboard reaches, with any    *)
(* number of incidents, answers and faults, fulfils it (App.jsx,           *)
(* LiveFeed.jsx, IncidentDetail.jsx, RCAModal.jsx).                        *)
THEOREM DashboardInvariant == Spec => []DashInv
<1>1. Init => DashInv
  BY InitDash
<1>2. DashInv /\ [Next]_vars => DashInv'
  <2> SUFFICES ASSUME DashInv, [Next]_vars PROVE DashInv'
    OBVIOUS
  <2>1. TypeOK /\ SeenHasAppeared /\ GoneIsUnlisted /\ StaysGone /\ PaneInOrder /\ ModalInOrder
    BY DEF DashInv, StaysGone
  <2>2. TypeOK'
    BY <2>1, StepType
  <2>3. SeenHasAppeared'
    BY <2>1, StepSeen
  <2>4. StaysGone'
    BY <2>1, StepGone
  <2>5. PaneInOrder' /\ ModalInOrder'
    BY <2>1, StepPane, StepModal
  <2>6. QED
    BY <2>2, <2>3, <2>4, <2>5 DEF DashInv, StaysGone
<1>3. QED
  BY <1>1, <1>2, PTL DEF Spec

(* The state of the dashboard has its types, within its bounds.            *)
THEOREM DashboardTypeCorrect == Spec => []TypeOK
BY DashboardInvariant, PTL DEF DashInv

(* An incident that this dashboard was told is closed and purged does not  *)
(* come back to its feed (App.jsx:13-17, LiveFeed.jsx:20-29).              *)
THEOREM ClosedNeverReturns == Spec => []ClosedStaysAway
BY DashboardInvariant, PTL DEF DashInv

(* Nor is it in the pane or in the modal (App.jsx:13-17, 42-64).           *)
THEOREM ClosedIsNeverOffered == Spec => []ClosedIsPutAway
BY DashboardInvariant, PTL DEF DashInv

(* A quiet pane has stopped loading and shows the signals of its incident, *)
(* if nothing failed or was overtaken (IncidentDetail.jsx:11-20).          *)
THEOREM PaneTellsTheTruth == Spec => []PaneSettles
<1>1. DashInv => PaneSettles
  BY DEF DashInv, PaneInOrder, PaneSettles
<1>2. QED
  BY <1>1, DashboardInvariant, PTL

(* A modal has one closure under way, and the button is disabled while it  *)
(* has (RCAModal.jsx:11-19).                                               *)
THEOREM OneClosurePerModal == Spec => []OneSubmissionAtATime
<1>1. DashInv => OneSubmissionAtATime
  <2> SUFFICES ASSUME DashInv PROVE OneSubmissionAtATime
    OBVIOUS
  <2> DEFINE own == {k \in DOMAIN closes : closes[k].mounted}
  <2>1. DOMAIN closes = 1 .. Len(closes) /\ ModalInOrder
    BY RequestsOf DEF DashInv
  <2>2. CASE submitting
    <3>1. PICK k \in DOMAIN closes : closes[k].mounted
      BY <2>1, <2>2 DEF ModalInOrder
    <3>2. own = {k}
      BY <2>1, <3>1 DEF ModalInOrder
    <3>3. Cardinality(own) = 1
      BY <3>2, FS_Singleton
    <3>4. QED
      BY <2>2, <3>3 DEF OneSubmissionAtATime
  <2>3. CASE ~submitting
    <3>1. own = {}
      BY <2>1, <2>3 DEF ModalInOrder
    <3>2. Cardinality(own) = 0
      BY <3>1, FS_EmptySet
    <3>3. QED
      BY <2>3, <3>2 DEF OneSubmissionAtATime
  <2>4. QED
    BY <2>2, <2>3
<1>2. QED
  BY <1>1, DashboardInvariant, PTL

-----------------------------------------------------------------------------
(* What stays off the panels.                                              *)

(* The row of i is closed and the hot path is rid of it.                   *)
Purged(i) == i \in closed \ listed

(* Of the answers on their way to p, only the first n may still carry i.   *)
Behind(p, i, n) == \A k \in 1 .. Len(polls[p]) : i \in polls[p][k] => k <= n

(* The panel does not show i, and nothing on its way does.                 *)
Off(p, i) == Purged(i) /\ i \notin shown[p] /\ Behind(p, i, 0)

(* What was purged stays so: nothing lists an incident twice.              *)
LEMMA StepPurged ==
    ASSUME TypeOK, [Next]_vars, NEW i \in Incidents, Purged(i)
    PROVE  Purged(i)'
<1>1. i \in closed /\ i \in appeared /\ i \notin listed
  BY DEF TypeOK, Purged
<1>2. \A j \in Incidents : CloseRow(j) => Purged(i)'
  BY <1>1 DEF CloseRow, Purged
<1>3. \A j \in Incidents : Appear(j) => Purged(i)'
  BY <1>1 DEF Appear, Purged
<1>4. \A k \in DOMAIN closes : Serve(k) => Purged(i)'
  <2> SUFFICES ASSUME NEW k \in DOMAIN closes, Serve(k) PROVE Purged(i)'
    OBVIOUS
  <2>1. CASE CloseRow(closes[k].id)
    BY <1>1, <2>1 DEF CloseRow, Purged
  <2>2. CASE UNCHANGED serverVars
    BY <1>1, <2>2 DEF serverVars, Purged
  <2>3. CASE closed' = closed \cup {closes[k].id} /\ listed' = listed \ {closes[k].id}
    BY <1>1, <2>3 DEF Purged
  <2>4. QED
    BY <2>1, <2>2, <2>3 DEF Serve
<1>5. UNCHANGED serverVars => Purged(i)'
  BY <1>1 DEF serverVars, Purged
<1>6. QED
  BY <1>2, <1>3, <1>4, <1>5
     DEF Next, CloseElsewhere, Select, Poll, Deliver, Fetched, SignalsArrive, SignalsFail, Answer,
         Unselect, OpenRCA, Submit, Cancel, vars

(* The answers that carry it only move forward, and no new one does: a     *)
(* poll asks for what is listed by then (LiveFeed.jsx:20-29).              *)
LEMMA StepBehind ==
    ASSUME TypeOK, [Next]_vars, NEW i \in Incidents, NEW p \in Panels, NEW n \in Nat,
           Purged(i), Behind(p, i, n)
    PROVE  Behind(p, i, n)'
<1>0. polls \in [Panels -> Seq(SUBSET Incidents)] /\ polls[p] \in Seq(SUBSET Incidents)
      /\ Len(polls[p]) \in Nat /\ i \notin listed /\ listed \in SUBSET Incidents
  BY DEF TypeOK, Purged
<1>1. CASE UNCHANGED polls
  BY <1>1 DEF Behind
<1>2. ASSUME NEW q \in Panels, Poll(q) PROVE Behind(p, i, n)'
  <2>1. polls' = [polls EXCEPT ![q] = Append(polls[q], listed)]
    BY <1>2 DEF Poll
  <2>2. CASE q # p
    <3>1. polls'[p] = polls[p]
      BY <1>0, <2>1, <2>2
    <3>2. QED
      BY <3>1 DEF Behind
  <2>3. CASE q = p
    <3>1. polls'[p] = Append(polls[p], listed)
      BY <1>0, <2>1, <2>3
    <3>2. /\ Len(polls'[p]) = Len(polls[p]) + 1
          /\ \A k \in 1 .. Len(polls[p]) : polls'[p][k] = polls[p][k]
          /\ polls'[p][Len(polls[p]) + 1] = listed
      BY <1>0, <3>1, AppendProperties
    <3>3. ASSUME NEW k \in 1 .. Len(polls'[p]), i \in polls'[p][k] PROVE k <= n
      <4>1. k # Len(polls[p]) + 1
        BY <1>0, <3>2, <3>3
      <4>2. k \in 1 .. Len(polls[p])
        BY <1>0, <3>2, <4>1
      <4>3. QED
        BY <3>2, <3>3, <4>2 DEF Behind
    <3>4. QED
      BY <3>3 DEF Behind
  <2>4. QED
    BY <2>2, <2>3
<1>3. ASSUME NEW q \in Panels, NEW k \in DOMAIN polls[q], Deliver(q, k) PROVE Behind(p, i, n)'
  <2>1. polls' = [polls EXCEPT ![q] = RemoveAt(polls[q], k)]
    BY <1>3 DEF Deliver
  <2>2. CASE q # p
    <3>1. polls'[p] = polls[p]
      BY <1>0, <2>1, <2>2
    <3>2. QED
      BY <3>1 DEF Behind
  <2>3. CASE q = p
    <3>1. polls'[p] = RemoveAt(polls[p], k) /\ k \in 1 .. Len(polls[p])
      BY <1>0, <2>1, <2>3
    <3>2. ASSUME NEW j \in 1 .. Len(polls'[p]), i \in polls'[p][j] PROVE j <= n
      <4>1. Kept(j, k) \in 1 .. Len(polls[p]) /\ i \in polls[p][Kept(j, k)]
        BY <1>0, <3>1, <3>2, KeptOf
      <4>2. Kept(j, k) <= n
        BY <4>1 DEF Behind
      <4>3. j \in Nat /\ (Kept(j, k) = j \/ Kept(j, k) = j + 1)
        BY DEF Kept
      <4>4. QED
        BY <4>2, <4>3
    <3>3. QED
      BY <3>2 DEF Behind
  <2>4. QED
    BY <2>2, <2>3
<1>4. ASSUME NEW k \in DOMAIN closes, Answer(k) PROVE Behind(p, i, n)'
  <2>1. polls' = polls \/ polls' = [polls EXCEPT !["feed"] = <<>>]
    BY <1>4 DEF Answer, HandleIncidentClosed, panelVars
  <2>2. CASE p = "feed" /\ polls' = [polls EXCEPT !["feed"] = <<>>]
    <3>1. polls'[p] = <<>> /\ Len(polls'[p]) = 0
      BY <1>0, <2>2, EmptySeq
    <3>2. QED
      BY <3>1 DEF Behind
  <2>3. CASE p # "feed" \/ polls' = polls
    <3>1. polls'[p] = polls[p]
      BY <1>0, <2>1, <2>3
    <3>2. QED
      BY <3>1 DEF Behind
  <2>4. QED
    BY <2>1, <2>2, <2>3
<1>5. QED
  BY <1>1, <1>2, <1>3, <1>4
     DEF Next, Appear, CloseElsewhere, Select, Fetched, Serve, Unselect, OpenRCA, Submit, Cancel,
         panelVars, vars

(* The step that fairness promises brings the last of them nearer.         *)
LEMMA OldestAnswerGoes ==
    ASSUME TypeOK, NEW i \in Incidents, NEW p \in Panels, NEW n \in Nat,
           Behind(p, i, n + 1), 1 \in DOMAIN polls[p], Deliver(p, 1)
    PROVE  Behind(p, i, n)'
<1>1. polls[p] \in Seq(SUBSET Incidents) /\ 1 \in 1 .. Len(polls[p])
      /\ polls'[p] = RemoveAt(polls[p], 1)
  BY DEF TypeOK, Deliver
<1>a. PICK first \in 1 .. Len(polls[p]) : first = 1 /\ polls'[p] = RemoveAt(polls[p], first)
  BY <1>1
<1>2. ASSUME NEW j \in 1 .. Len(polls'[p]), i \in polls'[p][j] PROVE j <= n
  <2>0. Kept(j, first) \in 1 .. Len(polls[p]) /\ i \in polls[p][Kept(j, first)]
    BY <1>1, <1>a, <1>2, KeptOf
  <2>1. Kept(j, 1) \in 1 .. Len(polls[p]) /\ i \in polls[p][Kept(j, 1)]
    BY <1>a, <2>0
  <2>2. Kept(j, 1) = j + 1 /\ j \in Nat
    BY DEF Kept
  <2>3. j + 1 <= n + 1
    BY <2>1, <2>2 DEF Behind
  <2>4. QED
    BY <2>2, <2>3
<1>3. QED
  BY <1>2 DEF Behind

(* A panel that shows it no more does not begin to.                        *)
LEMMA StepOff ==
    ASSUME TypeOK, [Next]_vars, NEW i \in Incidents, NEW p \in Panels, Off(p, i)
    PROVE  Off(p, i)'
<1>1. Purged(i)' /\ Behind(p, i, 0)'
  BY StepPurged, StepBehind DEF Off
<1>2. shown \in [Panels -> SUBSET Incidents] /\ i \notin shown[p]
  BY DEF TypeOK, Off
<1>3. ASSUME NEW q \in Panels, NEW k \in DOMAIN polls[q], Deliver(q, k) PROVE i \notin shown'[p]
  <2>1. shown' = shown \/ shown' = [shown EXCEPT ![q] = polls[q][k]]
    BY <1>3 DEF Deliver
  <2>2. q = p => i \notin polls[q][k]
    <3> SUFFICES ASSUME q = p PROVE i \notin polls[p][k]
      OBVIOUS
    <3>1. k \in 1 .. Len(polls[p]) /\ ~(k <= 0)
      BY DEF TypeOK
    <3>2. QED
      BY <3>1 DEF Off, Behind
  <2>3. QED
    BY <1>2, <2>1, <2>2
<1>4. ASSUME NEW k \in DOMAIN closes, Answer(k) PROVE i \notin shown'[p]
  BY <1>2, <1>4 DEF Answer, HandleIncidentClosed, panelVars
<1>5. i \notin shown'[p]
  BY <1>2, <1>3, <1>4
     DEF Next, Appear, CloseElsewhere, Select, Poll, Fetched, Serve, Unselect, OpenRCA, Submit,
         Cancel, panelVars, vars
<1>6. QED
  BY <1>1, <1>5 DEF Off

(* The safety half of PanelsCatchUp: an incident that is closed and        *)
(* purged, that a panel shows no more and that no answer under way to it   *)
(* carries, stays off the panel for good, whatever order answers come in   *)
(* and whoever closes what (LiveFeed.jsx:20-29, Analytics.jsx:13-28).      *)
THEOREM OffForGood ==
    ASSUME NEW i \in Incidents, NEW p \in Panels
    PROVE  Spec => [](Off(p, i) => []Off(p, i))
<1>1. TypeOK /\ [Next]_vars /\ Off(p, i) => Off(p, i)'
  BY StepOff
<1>2. DashInv => TypeOK
  BY DEF DashInv
<1>3. QED
  BY <1>1, <1>2, DashboardInvariant, PTL DEF Spec

(* And the measure by which it catches up: once the incident is purged, no *)
(* answer that carries it joins the queue of a panel, none of them falls   *)
(* back, and each delivery of the oldest answer, which fairness promises,  *)
(* moves the last of them one place forward (LiveFeed.jsx:20-29).          *)
THEOREM StaleAnswersRunOut ==
    ASSUME NEW i \in Incidents, NEW p \in Panels, NEW CONSTANT n \in Nat
    PROVE  /\ Spec => [](Purged(i) /\ Behind(p, i, n) => [](Purged(i) /\ Behind(p, i, n)))
           /\ Spec => [][1 \in DOMAIN polls[p] /\ Deliver(p, 1) /\ Behind(p, i, n + 1)
                            => Behind(p, i, n)']_vars
<1>1. TypeOK /\ [Next]_vars /\ Purged(i) /\ Behind(p, i, n) => (Purged(i) /\ Behind(p, i, n))'
  BY StepPurged, StepBehind
<1>2. TypeOK => [1 \in DOMAIN polls[p] /\ Deliver(p, 1) /\ Behind(p, i, n + 1)
                    => Behind(p, i, n)']_vars
  BY OldestAnswerGoes
<1>3. DashInv => TypeOK
  BY DEF DashInv
<1>4. Spec => [](Purged(i) /\ Behind(p, i, n) => [](Purged(i) /\ Behind(p, i, n)))
  BY <1>1, <1>3, DashboardInvariant, PTL DEF Spec
<1>5. Spec => [][1 \in DOMAIN polls[p] /\ Deliver(p, 1) /\ Behind(p, i, n + 1)
                    => Behind(p, i, n)']_vars
  BY <1>2, <1>3, DashboardInvariant, PTL DEF Spec
<1>6. QED
  BY <1>4, <1>5

(* What this dashboard was told is closed never comes back to the feed, to *)
(* the pane or to the modal (App.jsx:13-17, 42-64, LiveFeed.jsx:20-29).    *)
THEOREM ToldOnceForAll ==
    ASSUME NEW i \in Incidents
    PROVE  Spec => [](i \in gone => [](i \notin shown["feed"] /\ i \notin {selected, rca}))
<1>1. [Next]_vars /\ i \in gone => (i \in gone)'
  BY DEF Next, Appear, CloseElsewhere, Select, Poll, Deliver, Fetched, Serve, Answer,
         Unselect, OpenRCA, Submit, Cancel, vars
<1>2. DashInv /\ i \in gone => i \notin shown["feed"] /\ i \notin {selected, rca}
  BY DEF DashInv, ClosedStaysAway, ClosedIsPutAway
<1>3. QED
  BY <1>1, <1>2, DashboardInvariant, PTL DEF Spec
=============================================================================
