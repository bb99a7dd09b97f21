-------------------------- MODULE UemBackendProofs --------------------------
(***************************************************************************)
(* For any number of threads and any finite set of uploads: what the       *)
(* control plane's answers are worth.  An iteration sees a list that grows *)
(* and is cleared under it, so that its position alone does not say what   *)
(* has been counted.  Tallied says it: there is a set of uploads, each     *)
(* counted once, that has no member ahead of the iteration and, with what  *)
(* is ahead, contains all that stayed listed.                              *)
(***************************************************************************)
EXTENDS UemBackend, SequenceTheorems, FiniteSetTheorems, TLAPS

(* What an iteration has yet to reach.                                     *)
Rest(t) == {received_incidents[j] : j \in (position[t] + 1)..Len(received_incidents)}

(* An upload is listed at most once, and only if it was posted.            *)
ListedOnce ==
  /\ Len(received_incidents) <= Cardinality(posted)
  /\ \A i, j \in DOMAIN received_incidents :
       received_incidents[i] = received_incidents[j] => i = j

(* The high risks that thread t has counted are those of a set of uploads. *)
Counts(t, S) ==
  /\ counted[t] = Cardinality(High(S))
  /\ S \intersect Rest(t) = {}
  /\ stayed[t] \subseteq S \union Rest(t)
  /\ pc[t] = "total" => stayed[t] \subseteq S

Tallied ==
  \A t \in Thread : pc[t] \in {"scan", "total"} => \E S \in SUBSET posted : Counts(t, S)

(* Nothing was counted ahead of the list that is there, unless it was      *)
(* cleared in between.                                                     *)
InStep ==
  \A t \in Thread :
    /\ pc[t] = "scan" => counted[t] <= position[t]
    /\ ~disturbed[t] =>
         /\ pc[t] = "scan" => position[t] <= Len(received_incidents)
         /\ pc[t] \in {"total", "encode"} => counted[t] <= Len(received_incidents)

StayedWerePosted == \A t \in Thread : stayed[t] \subseteq posted

BackendInv ==
  /\ TypeOK
  /\ ListedOnce
  /\ StayedWerePosted
  /\ InStep
  /\ Tallied
  /\ SummaryCountsWhatStayed
  /\ UndisturbedSummaryAddsUp
  /\ UndisturbedListHasItsCount
-----------------------------------------------------------------------------
(* What the sets of uploads weigh.                                         *)
LEMMA HighMonotone ==
  ASSUME NEW T, IsFiniteSet(T), NEW S \in SUBSET T
  PROVE  /\ Cardinality(High(S)) \in Nat /\ Cardinality(High(T)) \in Nat
         /\ Cardinality(High(S)) <= Cardinality(High(T))
         /\ Cardinality(High(T)) <= Cardinality(T)
<1>1. High(T) \in SUBSET T /\ High(S) \in SUBSET High(T)
  BY DEF High
<1>2. IsFiniteSet(High(T)) /\ Cardinality(High(T)) <= Cardinality(T)
  BY <1>1, FS_Subset
<1>3. IsFiniteSet(High(S)) /\ Cardinality(High(S)) <= Cardinality(High(T))
  BY <1>1, <1>2, FS_Subset
<1> QED BY <1>2, <1>3, FS_CardinalityType

LEMMA HighOfOneMore ==
  ASSUME NEW S, IsFiniteSet(S), NEW x, x \notin S
  PROVE  Cardinality(High(S \union {x})) = IF HighRisk(x) THEN Cardinality(High(S)) + 1
                                           ELSE Cardinality(High(S))
<1>1. IsFiniteSet(High(S)) /\ x \notin High(S)
  <2>1. High(S) \in SUBSET S
    BY DEF High
  <2> QED BY <2>1, FS_Subset
<1>2. CASE HighRisk(x)
  <2>1. High(S \union {x}) = High(S) \union {x}
    BY <1>2 DEF High
  <2> QED BY <1>1, <1>2, <2>1, FS_AddElement
<1>3. CASE ~HighRisk(x)
  <2>1. High(S \union {x}) = High(S)
    BY <1>3 DEF High
  <2> QED BY <1>3, <2>1
<1> QED BY <1>2, <1>3

(* The list is no longer than there are uploads.                           *)
LEMMA ListIsBounded ==
  ASSUME TypeOK, ListedOnce
  PROVE  /\ IsFiniteSet(posted)
         /\ Cardinality(Incident) \in Nat /\ Cardinality(posted) \in Count
         /\ Len(received_incidents) \in Count
         /\ DOMAIN received_incidents = 1..Len(received_incidents)
<1>1. /\ IsFiniteSet(posted) /\ Cardinality(posted) <= Cardinality(Incident)
      /\ Cardinality(posted) \in Nat /\ Cardinality(Incident) \in Nat
  BY IncidentIsFinite, FS_Subset, FS_CardinalityType DEF TypeOK
<1>2. Len(received_incidents) \in Nat /\ DOMAIN received_incidents = 1..Len(received_incidents)
  BY LenProperties DEF TypeOK
<1> QED BY <1>1, <1>2 DEF Count, ListedOnce

(* What a request, a response and a step on the list do to the types.      *)
LEMMA TypeOKStart ==
  ASSUME TypeOK, ListedOnce, NEW t \in Thread, NEW step \in {"append", "count", "scan", "clear"},
         Start(t, step)
  PROVE  TypeOK'
<1>1. Range(received_incidents) \subseteq Incident
  BY RangeOfSeq DEF TypeOK
<1>2. 0 \in Count
  BY ListIsBounded DEF Count
<1>3. NoReply \in Response
  BY DEF Response
<1> QED BY <1>1, <1>2, <1>3 DEF TypeOK, Start, GoTo, Count

LEMMA TypeOKRespond ==
  ASSUME TypeOK, ListedOnce, NEW t \in Thread, NEW response \in Response, Respond(t, response)
  PROVE  TypeOK'
<1>1. 0 \in Count
  BY ListIsBounded DEF Count
<1> QED BY <1>1 DEF TypeOK, Respond, GoTo, Count, Response

LEMMA TypeOKHandle ==
  ASSUME TypeOK, ListedOnce, InStep, NEW t \in Thread, Handle(t)
  PROVE  TypeOK'
<1> USE DEF GoTo
<1>1. Len(received_incidents) \in Count /\ Cardinality(Incident) \in Nat
  BY ListIsBounded
<1>2. CASE ReceiveAppend(t)
  <2>1. PICK i \in Incident \ posted : /\ received_incidents' = Append(received_incidents, i)
                                       /\ posted' = posted \union {i}
    BY <1>2 DEF ReceiveAppend
  <2>2. received_incidents \in Seq(posted')
    BY <2>1, SeqMonotonic DEF TypeOK
  <2>3. received_incidents' \in Seq(posted')
    BY <2>1, <2>2, AppendProperties
  <2> QED BY <1>2, <2>1, <2>3 DEF ReceiveAppend, TypeOK, Count, Response
<1>3. CASE ReceiveRespond(t)
  <2>1. [of |-> "receive", total_received |-> Len(received_incidents)] \in Response
    BY <1>1 DEF Response
  <2> QED BY <1>3, <2>1, TypeOKRespond DEF ReceiveRespond
<1>4. CASE ListCount(t)
  BY <1>1, <1>4 DEF ListCount, TypeOK, Count, Response
<1>5. CASE ListEncode(t)
  <2>1. position[t] + 1 \in Count
    BY <1>1, <1>5 DEF ListEncode, TypeOK, Count
  <2> QED BY <1>5, <2>1 DEF ListEncode, TypeOK, Count, Response
<1>6. CASE ListRespond(t)
  <2>1. [of |-> "list", count |-> counted[t], items |-> position[t]] \in Response
    BY DEF Response, TypeOK
  <2> QED BY <1>6, <2>1, TypeOKRespond DEF ListRespond
<1>7. CASE ResetClear(t)
  <2>1. <<>> \in Seq(posted)
    BY EmptySeq
  <2> QED BY <1>7, <2>1 DEF ResetClear, TypeOK, Count, Response
<1>8. CASE ResetRespond(t)
  <2>1. [of |-> "reset", incidents_received |-> Len(received_incidents)] \in Response
    BY <1>1 DEF Response
  <2> QED BY <1>8, <2>1, TypeOKRespond DEF ResetRespond
<1>9. CASE SummaryScan(t)
  <2>1. position[t] + 1 \in Count /\ counted[t] + 1 \in Count
    BY <1>1, <1>9 DEF SummaryScan, TypeOK, Count, InStep
  <2> QED BY <1>9, <2>1 DEF SummaryScan, TypeOK, Count, Response
<1>10. CASE SummaryScanned(t)
  BY <1>10 DEF SummaryScanned, TypeOK, Count, Response
<1>11. CASE SummaryRespond(t)
  <2>1. [of |-> "summary", total_incidents |-> Len(received_incidents),
         high_risk_incidents |-> counted[t],
         status |-> IF counted[t] > 0 THEN "HIGH_RISK" ELSE "HEALTHY"] \in Response
    BY <1>1 DEF Response, TypeOK
  <2> QED BY <1>11, <2>1, TypeOKRespond DEF SummaryRespond
<1> QED BY <1>2, <1>3, <1>4, <1>5, <1>6, <1>7, <1>8, <1>9, <1>10, <1>11 DEF Handle

(* An upload that is appended was not listed, and what is listed was posted.*)
LEMMA ListedOnceNext ==
  ASSUME TypeOK, ListedOnce, StayedWerePosted, NEW t \in Thread, Request(t) \/ Handle(t)
  PROVE  ListedOnce' /\ StayedWerePosted'
<1>1. /\ DOMAIN received_incidents = 1..Len(received_incidents)
      /\ Len(received_incidents) \in Nat /\ IsFiniteSet(posted)
  BY ListIsBounded DEF Count
<1>2. CASE ReceiveAppend(t)
  <2>1. PICK i \in Incident \ posted : /\ received_incidents' = Append(received_incidents, i)
                                       /\ posted' = posted \union {i}
    BY <1>2 DEF ReceiveAppend
  <2>2. received_incidents \in Seq(posted') /\ \A k \in 1..Len(received_incidents) :
                                                 received_incidents[k] \in posted
    BY <2>1, SeqMonotonic, ElementOfSeq DEF TypeOK
  <2>3. /\ Len(received_incidents') = Len(received_incidents) + 1
        /\ \A k \in 1..Len(received_incidents) : received_incidents'[k] = received_incidents[k]
        /\ received_incidents'[Len(received_incidents) + 1] = i
        /\ DOMAIN received_incidents' = 1..Len(received_incidents) + 1
    BY <2>1, <2>2, AppendProperties, LenProperties
  <2>4. Cardinality(posted') = Cardinality(posted) + 1
    BY <1>1, <2>1, FS_AddElement
  <2>5. Len(received_incidents') <= Cardinality(posted')
    BY <1>1, <2>3, <2>4, FS_CardinalityType DEF ListedOnce
  <2>6. \A j, k \in DOMAIN received_incidents' :
          received_incidents'[j] = received_incidents'[k] => j = k
    BY <1>1, <2>1, <2>2, <2>3 DEF ListedOnce
  <2>7. StayedWerePosted'
    BY <1>2, <2>1 DEF ReceiveAppend, StayedWerePosted, TypeOK
  <2> QED BY <2>5, <2>6, <2>7 DEF ListedOnce
<1>3. CASE ResetClear(t)
  <2>1. Len(<<>>) = 0 /\ DOMAIN <<>> = {} /\ Cardinality(posted) \in Nat
    BY <1>1, FS_CardinalityType
  <2> QED BY <1>3, <2>1 DEF ResetClear, ListedOnce, StayedWerePosted
<1>4. ASSUME NEW step, Start(t, step)
      PROVE  ListedOnce' /\ StayedWerePosted'
  <2>1. Range(received_incidents) \subseteq posted
    BY RangeOfSeq DEF TypeOK
  <2> QED BY <1>4, <2>1 DEF Start, ListedOnce, StayedWerePosted, TypeOK
<1>5. CASE UNCHANGED <<received_incidents, posted, stayed>>
  BY <1>5 DEF ListedOnce, StayedWerePosted
<1> QED BY <1>2, <1>3, <1>4, <1>5
       DEF Request, Handle, ReceiveRespond, ListCount, ListEncode, ListRespond, ResetRespond,
           SummaryScan, SummaryScanned, SummaryRespond, Respond

(* The list only shrinks when every iteration is marked as disturbed.      *)
LEMMA InStepNext ==
  ASSUME TypeOK, ListedOnce, InStep, NEW t \in Thread, Request(t) \/ Handle(t)
  PROVE  InStep'
<1> USE DEF GoTo
<1>1. Len(received_incidents) \in Nat /\ Cardinality(Incident) \in Nat
  BY ListIsBounded DEF Count
<1>2. CASE ReceiveAppend(t)
  <2>1. Len(received_incidents') = Len(received_incidents) + 1
    BY <1>2 DEF ReceiveAppend, TypeOK
  <2> QED BY <1>1, <1>2, <2>1 DEF ReceiveAppend, InStep, TypeOK, Count
<1>3. CASE ResetClear(t)
  BY <1>3 DEF ResetClear, InStep, TypeOK
<1>4. ASSUME NEW step \in {"append", "count", "scan", "clear"}, Start(t, step)
      PROVE  InStep'
  BY <1>1, <1>4 DEF Start, InStep, TypeOK
<1>5. ASSUME NEW response, Respond(t, response)
      PROVE  InStep'
  BY <1>1, <1>5 DEF Respond, InStep, TypeOK
<1>6. CASE ListCount(t)
  BY <1>1, <1>6 DEF ListCount, InStep, TypeOK
<1>7. CASE ListEncode(t)
  BY <1>1, <1>7 DEF ListEncode, InStep, TypeOK
<1>8. CASE SummaryScan(t)
  BY <1>1, <1>8 DEF SummaryScan, InStep, TypeOK, Count
<1>9. CASE SummaryScanned(t)
  BY <1>1, <1>9 DEF SummaryScanned, InStep, TypeOK, Count
<1> QED BY <1>2, <1>3, <1>4, <1>5, <1>6, <1>7, <1>8, <1>9
       DEF Request, Handle, ReceiveRespond, ListRespond, ResetRespond, SummaryRespond

(* Each step that an iteration makes adds the upload that it reached, and  *)
(* no step of another thread puts one that was counted ahead of it.        *)
LEMMA TalliedNext ==
  ASSUME TypeOK, ListedOnce, StayedWerePosted, Tallied, NEW t \in Thread, Request(t) \/ Handle(t)
  PROVE  Tallied'
<1> USE DEF GoTo
<1>1. /\ Len(received_incidents) \in Nat /\ IsFiniteSet(posted)
      /\ DOMAIN received_incidents = 1..Len(received_incidents)
      /\ \A k \in 1..Len(received_incidents) : received_incidents[k] \in posted
  BY ListIsBounded, ElementOfSeq DEF Count, TypeOK
<1> SUFFICES ASSUME NEW u \in Thread, pc'[u] \in {"scan", "total"}
             PROVE  \E S \in SUBSET posted' : Counts(u, S)'
  BY DEF Tallied
<1>0. ASSUME pc'[u] = pc[u],
             UNCHANGED <<received_incidents, posted, position[u], counted[u], stayed[u]>>
      PROVE  \E S \in SUBSET posted' : Counts(u, S)'
  <2>1. PICK S \in SUBSET posted : Counts(u, S)
    BY <1>0 DEF Tallied
  <2>2. Rest(u)' = Rest(u)
    BY <1>0 DEF Rest
  <2> QED BY <1>0, <2>1, <2>2 DEF Counts
<1>2. CASE ReceiveAppend(t)
  <2>1. PICK i \in Incident \ posted : /\ received_incidents' = Append(received_incidents, i)
                                       /\ posted' = posted \union {i}
    BY <1>2 DEF ReceiveAppend
  <2>2. received_incidents \in Seq(posted')
    BY <2>1, SeqMonotonic DEF TypeOK
  <2>3. /\ Len(received_incidents') = Len(received_incidents) + 1
        /\ \A k \in 1..Len(received_incidents) : received_incidents'[k] = received_incidents[k]
        /\ received_incidents'[Len(received_incidents) + 1] = i
    BY <2>1, <2>2, AppendProperties
  <2>4. UNCHANGED <<counted, stayed, position>> /\ pc'[u] = pc[u]
    BY <1>2 DEF ReceiveAppend, TypeOK
  <2>5. PICK S \in SUBSET posted : Counts(u, S)
    BY <2>4 DEF Tallied
  <2>6. position[u] \in Nat
    BY DEF TypeOK, Count
  <2>7. Rest(u) \subseteq Rest(u)' /\ Rest(u)' \subseteq Rest(u) \union {i}
    BY <1>1, <2>3, <2>4, <2>6 DEF Rest
  <2> QED BY <2>1, <2>4, <2>5, <2>7 DEF Counts
<1>3. CASE ResetClear(t)
  <2>1. Len(received_incidents') = 0 /\ stayed'[u] = {}
    BY <1>3 DEF ResetClear
  <2>2. UNCHANGED <<counted, position, posted>> /\ pc'[u] = pc[u] /\ position[u] \in Nat
    BY <1>3 DEF ResetClear, TypeOK, Count
  <2>3. PICK S \in SUBSET posted : Counts(u, S)
    BY <2>2 DEF Tallied
  <2>4. Rest(u)' = {}
    BY <2>1, <2>2 DEF Rest
  <2> QED BY <2>1, <2>2, <2>3, <2>4 DEF Counts
<1>4. ASSUME NEW step \in {"append", "count", "scan", "clear"}, Start(t, step)
      PROVE  \E S \in SUBSET posted' : Counts(u, S)'
  <2>1. CASE u = t
    <3>1. /\ counted'[u] = 0 /\ position'[u] = 0 /\ UNCHANGED received_incidents
          /\ stayed'[u] = Range(received_incidents) /\ pc'[u] # "total"
      BY <1>4, <2>1 DEF Start, TypeOK
    <3>2. Rest(u)' = Range(received_incidents)
      BY <1>1, <3>1 DEF Rest, Range
    <3>3. Cardinality(High({})) = 0
      BY FS_EmptySet DEF High
    <3> QED BY <3>1, <3>2, <3>3 DEF Counts
  <2>2. CASE u # t
    BY <1>0, <1>4, <2>2 DEF Start, TypeOK
  <2> QED BY <2>1, <2>2
<1>5. ASSUME NEW response, Respond(t, response)
      PROVE  \E S \in SUBSET posted' : Counts(u, S)'
  <2>1. u # t
    BY <1>5 DEF Respond, TypeOK
  <2> QED BY <1>0, <1>5, <2>1 DEF Respond, TypeOK
<1>6. CASE ListCount(t) \/ ListEncode(t)
  <2>1. u # t
    BY <1>6 DEF ListCount, ListEncode, TypeOK
  <2> QED BY <1>0, <1>6, <2>1 DEF ListCount, ListEncode, TypeOK
<1>7. CASE SummaryScan(t)
  <2>1. CASE u = t
    <3>0. PICK p, i : p = position[u] /\ i = received_incidents[p + 1]
      OBVIOUS
    <3>1. /\ pc[u] = "scan" /\ p \in Nat /\ p < Len(received_incidents) /\ position'[u] = p + 1
          /\ counted'[u] = IF HighRisk(i) THEN counted[u] + 1 ELSE counted[u]
          /\ UNCHANGED <<received_incidents, posted, pc, stayed>>
      BY <1>7, <2>1, <3>0 DEF SummaryScan, TypeOK, Count
    <3>2. PICK S \in SUBSET posted : Counts(u, S)
      BY <3>1 DEF Tallied
    <3>3. Rest(u) = {i} \union Rest(u)' /\ i \notin Rest(u)' /\ i \in posted
      <4>1. p + 1 \in 1..Len(received_incidents)
        BY <1>1, <3>1
      <4>2. Rest(u) = {received_incidents[j] : j \in (p + 1)..Len(received_incidents)}
        BY <3>0 DEF Rest
      <4>3. Rest(u)' = {received_incidents[j] : j \in (p + 2)..Len(received_incidents)}
        BY <3>1 DEF Rest
      <4>4. (p + 1)..Len(received_incidents) = {p + 1} \union (p + 2)..Len(received_incidents)
        BY <1>1, <3>1
      <4>5. \A j \in (p + 2)..Len(received_incidents) : received_incidents[j] # i
        BY <1>1, <3>0, <3>1, <4>1 DEF ListedOnce
      <4> QED BY <1>1, <3>0, <4>1, <4>2, <4>3, <4>4, <4>5
    <3>4. IsFiniteSet(S) /\ i \notin S
      BY <1>1, <3>2, <3>3, FS_Subset DEF Counts
    <3>5. counted'[u] = Cardinality(High(S \union {i}))
      BY <3>1, <3>2, <3>4, HighOfOneMore DEF Counts
    <3>6. Counts(u, S \union {i})'
      BY <3>1, <3>2, <3>3, <3>5 DEF Counts
    <3> QED BY <3>1, <3>3, <3>6
  <2>2. CASE u # t
    BY <1>0, <1>7, <2>2 DEF SummaryScan, TypeOK
  <2> QED BY <2>1, <2>2
<1>8. CASE SummaryScanned(t)
  <2>1. UNCHANGED <<received_incidents, posted, position, counted, stayed>>
    BY <1>8 DEF SummaryScanned
  <2>2. pc[u] \in {"scan", "total"} /\ (u # t => pc'[u] = pc[u])
    BY <1>8 DEF SummaryScanned, TypeOK
  <2>3. PICK S \in SUBSET posted : Counts(u, S)
    BY <2>2 DEF Tallied
  <2>4. u = t => Rest(u) = {}
    <3>1. u = t => position[u] \in Nat /\ position[u] >= Len(received_incidents)
      BY <1>8 DEF SummaryScanned, TypeOK, Count
    <3>2. u = t => (position[u] + 1)..Len(received_incidents) = {}
      BY <1>1, <3>1
    <3> QED BY <3>2 DEF Rest
  <2>5. Rest(u)' = Rest(u)
    BY <2>1 DEF Rest
  <2>6. Counts(u, S)'
    BY <2>1, <2>2, <2>3, <2>4, <2>5 DEF Counts
  <2> QED BY <2>1, <2>6
<1> QED BY <1>2, <1>3, <1>4, <1>5, <1>6, <1>7, <1>8
       DEF Request, Handle, ReceiveRespond, ListRespond, ResetRespond, SummaryRespond

(* What the answers say when they are given.                               *)
Answers == SummaryCountsWhatStayed /\ UndisturbedSummaryAddsUp /\ UndisturbedListHasItsCount

LEMMA SummaryCounts ==
  ASSUME NEW response \in Response, response.of = "summary"
  PROVE  response.high_risk_incidents \in Count
<1>1. response # NoReply
  BY DEF NoReply
<1> QED BY <1>1 DEF Response

LEMMA AnswersRespond ==
  ASSUME TypeOK, Answers, NEW t \in Thread, NEW response \in Response, Respond(t, response),
         response.of = "summary" =>
           /\ response.high_risk_incidents >= Cardinality(High(stayed[t]))
           /\ response.high_risk_incidents <= Cardinality(High(posted))
           /\ ~disturbed[t] => response.high_risk_incidents <= response.total_incidents,
         response.of = "list" => (~disturbed[t] => response.count <= response.items)
  PROVE  Answers'
<1>1. /\ reply'[t] = response /\ \A u \in Thread \ {t} : reply'[u] = reply[u]
      /\ UNCHANGED <<posted, stayed, disturbed>>
  BY DEF Respond, TypeOK
<1> QED BY <1>1 DEF Answers, SummaryCountsWhatStayed, UndisturbedSummaryAddsUp,
                    UndisturbedListHasItsCount

LEMMA AnswersNext ==
  ASSUME TypeOK, ListedOnce, StayedWerePosted, InStep, Tallied, Answers,
         NEW t \in Thread, Request(t) \/ Handle(t)
  PROVE  Answers'
<1> USE DEF Answers, SummaryCountsWhatStayed, UndisturbedSummaryAddsUp, UndisturbedListHasItsCount
<1>1. IsFiniteSet(posted) /\ Len(received_incidents) \in Count
  BY ListIsBounded
<1>2. CASE ReceiveAppend(t)
  <2>1. /\ UNCHANGED <<stayed, disturbed, reply>>
        /\ IsFiniteSet(posted') /\ posted \subseteq posted'
    BY <1>1, <1>2, FS_AddElement DEF ReceiveAppend
  <2>2. /\ Cardinality(High(posted)) <= Cardinality(High(posted'))
        /\ Cardinality(High(posted)) \in Nat /\ Cardinality(High(posted')) \in Nat
    BY <2>1, HighMonotone
  <2>3. \A u \in Thread : reply[u].of = "summary" => reply[u].high_risk_incidents \in Nat
    BY SummaryCounts DEF TypeOK, Count
  <2> QED BY <2>1, <2>2, <2>3
<1>3. CASE ResetClear(t)
  <2>1. /\ UNCHANGED <<reply, posted>> /\ \A u \in Thread : disturbed'[u] /\ stayed'[u] = {}
    BY <1>3 DEF ResetClear
  <2>2. Cardinality(High({})) = 0
    BY FS_EmptySet DEF High
  <2>3. \A u \in Thread : reply[u].of = "summary" => reply[u].high_risk_incidents \in Nat
    BY SummaryCounts DEF TypeOK, Count
  <2>4. SummaryCountsWhatStayed'
    <3>1. \A u \in Thread : Cardinality(High(stayed'[u])) = 0
      BY <2>1, <2>2
    <3>2. Cardinality(High(posted')) = Cardinality(High(posted))
      BY <2>1
    <3> QED BY <2>1, <2>3, <3>1, <3>2
  <2>5. UndisturbedSummaryAddsUp' /\ UndisturbedListHasItsCount'
    BY <2>1
  <2> QED BY <2>4, <2>5
<1>4. ASSUME NEW step, Start(t, step)
      PROVE  Answers'
  <2>1. /\ reply'[t].of = "nothing" /\ UNCHANGED posted
        /\ \A u \in Thread \ {t} : /\ reply'[u] = reply[u] /\ stayed'[u] = stayed[u]
                                   /\ disturbed'[u] = disturbed[u]
    BY <1>4 DEF Start, TypeOK, NoReply
  <2> QED BY <2>1
<1>5. CASE ReceiveRespond(t)
  <2>1. [of |-> "receive", total_received |-> Len(received_incidents)] \in Response
    BY <1>1 DEF Response
  <2> QED BY <1>5, <2>1, AnswersRespond DEF ReceiveRespond
<1>6. CASE ResetRespond(t)
  <2>1. [of |-> "reset", incidents_received |-> Len(received_incidents)] \in Response
    BY <1>1 DEF Response
  <2> QED BY <1>6, <2>1, AnswersRespond DEF ResetRespond
<1>7. CASE ListRespond(t)
  <2> DEFINE r == [of |-> "list", count |-> counted[t], items |-> position[t]]
  <2>1. r \in Response
    BY DEF Response, TypeOK
  <2>2. ~disturbed[t] => r.count <= r.items
    BY <1>1, <1>7 DEF ListRespond, InStep, TypeOK, Count
  <2>3. Respond(t, r) /\ r.of = "list"
    BY <1>7 DEF ListRespond
  <2> QED BY <2>1, <2>2, <2>3, AnswersRespond
<1>8. CASE SummaryRespond(t)
  <2> DEFINE r == [of |-> "summary", total_incidents |-> Len(received_incidents),
                   high_risk_incidents |-> counted[t],
                   status |-> IF counted[t] > 0 THEN "HIGH_RISK" ELSE "HEALTHY"]
  <2>1. r \in Response
    BY <1>1 DEF Response, TypeOK
  <2>2. PICK S \in SUBSET posted : /\ counted[t] = Cardinality(High(S))
                                   /\ stayed[t] \subseteq S
    BY <1>8 DEF SummaryRespond, Tallied, Counts
  <2>3. /\ counted[t] <= Cardinality(High(posted))
        /\ counted[t] >= Cardinality(High(stayed[t]))
    <3>1. IsFiniteSet(S)
      BY <1>1, FS_Subset
    <3>2. /\ Cardinality(High(S)) <= Cardinality(High(posted))
          /\ Cardinality(High(S)) \in Nat
      BY <1>1, HighMonotone
    <3>3. /\ Cardinality(High(stayed[t])) <= Cardinality(High(S))
          /\ Cardinality(High(stayed[t])) \in Nat
      BY <2>2, <3>1, HighMonotone
    <3> QED BY <2>2, <3>2, <3>3
  <2>4. ~disturbed[t] => counted[t] <= Len(received_incidents)
    BY <1>8 DEF SummaryRespond, InStep
  <2>5. Respond(t, r) /\ r.of = "summary"
    BY <1>8 DEF SummaryRespond
  <2>6. r.high_risk_incidents = counted[t] /\ r.total_incidents = Len(received_incidents)
    OBVIOUS
  <2> HIDE DEF r
  <2> QED BY <2>1, <2>3, <2>4, <2>5, <2>6, AnswersRespond
<1>9. CASE UNCHANGED <<posted, stayed, disturbed, reply>>
  BY <1>9
<1> QED BY <1>2, <1>3, <1>4, <1>5, <1>6, <1>7, <1>8, <1>9
       DEF Request, Handle, ListCount, ListEncode, SummaryScan, SummaryScanned
-----------------------------------------------------------------------------
(* An empty list of incidents answers nobody.                              *)
THEOREM BackendInvInit == Init => BackendInv
<1> SUFFICES ASSUME Init PROVE BackendInv
  OBVIOUS
<1>1. Cardinality(Incident) \in Nat /\ Cardinality({}) = 0
  BY IncidentIsFinite, FS_CardinalityType, FS_EmptySet
<1>2. <<>> \in Seq({}) /\ Len(<<>>) = 0 /\ DOMAIN <<>> = {}
  BY EmptySeq
<1> QED BY <1>1, <1>2
       DEF Init, BackendInv, TypeOK, Count, Response, NoReply, ListedOnce, StayedWerePosted,
           InStep, Tallied, SummaryCountsWhatStayed, UndisturbedSummaryAddsUp,
           UndisturbedListHasItsCount

(* Each step of a request thread keeps what the answers say of the list it *)
(* read.                                                                   *)
THEOREM BackendInvNext == BackendInv /\ [Next]_vars => BackendInv'
<1> SUFFICES ASSUME BackendInv, [Next]_vars PROVE BackendInv'
  OBVIOUS
<1>1. ASSUME NEW t \in Thread, Request(t) \/ Handle(t)
      PROVE  BackendInv'
  <2>1. TypeOK'
    BY <1>1, TypeOKStart, TypeOKHandle DEF BackendInv, Request
  <2>2. /\ ListedOnce' /\ StayedWerePosted' /\ InStep' /\ Tallied' /\ Answers'
    BY <1>1, ListedOnceNext, InStepNext, TalliedNext, AnswersNext DEF BackendInv, Answers
  <2> QED BY <2>1, <2>2 DEF BackendInv, Answers
<1>2. CASE UNCHANGED vars
  <2>1. Tallied'
    <3>1. \A t \in Thread : Rest(t)' = Rest(t)
      BY <1>2 DEF vars, Rest
    <3>2. \A t \in Thread : \A S \in SUBSET posted : Counts(t, S) => Counts(t, S)'
      BY <1>2, <3>1 DEF vars, Counts
    <3>3. UNCHANGED <<pc, posted>>
      BY <1>2 DEF vars
    <3> QED BY <3>2, <3>3 DEF Tallied, BackendInv
  <2>2. TypeOK' /\ ListedOnce' /\ StayedWerePosted' /\ InStep'
    BY <1>2 DEF vars, BackendInv, TypeOK, ListedOnce, StayedWerePosted, InStep
  <2>3. Answers'
    BY <1>2 DEF vars, BackendInv, Answers, SummaryCountsWhatStayed, UndisturbedSummaryAddsUp,
                UndisturbedListHasItsCount
  <2> QED BY <2>1, <2>2, <2>3 DEF BackendInv, Answers
<1> QED BY <1>1, <1>2 DEF Next

(* The types, and what the answers say of the list, hold in every          *)
(* behaviour of the threads.                                               *)
THEOREM BackendInvariant == Spec => []BackendInv
<1> QED BY BackendInvInit, BackendInvNext, PTL DEF Spec

(* The types of the control plane's list, its threads and its answers; no  *)
(* iteration runs past the uploads (main.py:46-89).                        *)
THEOREM BackendTypeCorrect == Spec => []TypeOK
<1>1. BackendInv => TypeOK
  BY DEF BackendInv
<1> QED BY <1>1, BackendInvariant, PTL

(* Whatever appends and resets come between the steps of an iteration, a   *)
(* summary counts every high risk that stayed listed, and none twice       *)
(* (main.py:80-83).                                                        *)
THEOREM SummaryIsHonest == Spec => []SummaryCountsWhatStayed
<1>1. BackendInv => SummaryCountsWhatStayed
  BY DEF BackendInv
<1> QED BY <1>1, BackendInvariant, PTL

(* Only a reset can make a summary count more high risks than incidents    *)
(* (main.py:80-88).                                                        *)
THEOREM OnlyResetsUpsetSummaries == Spec => []UndisturbedSummaryAddsUp
<1>1. BackendInv => UndisturbedSummaryAddsUp
  BY DEF BackendInv
<1> QED BY <1>1, BackendInvariant, PTL

(* Only a reset can make a list shorter than it says it is (main.py:61-66). *)
THEOREM OnlyResetsUpsetLists == Spec => []UndisturbedListHasItsCount
<1>1. BackendInv => UndisturbedListHasItsCount
  BY DEF BackendInv
<1> QED BY <1>1, BackendInvariant, PTL
=============================================================================
