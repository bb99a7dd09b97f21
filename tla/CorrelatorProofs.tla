-------------------------- MODULE CorrelatorProofs --------------------------
(***************************************************************************)
(* For every policy and every sequence of events: the incidents of a run   *)
(* hold exactly its suspicious events, and the three sums that a run makes *)
(* of its points (by event, by incident, over all) agree.                  *)
(***************************************************************************)
EXTENDS Correlator, RiskEvaluatorProofs

(* A policy that a run may load is typed.                                  *)
LEMMA PoliciesAreTyped == \A p \in Policies : TypedRules(p)
BY InputsAreTyped, Zenon DEF TypedRules

-----------------------------------------------------------------------------
(* The inductive invariant.  The results of the whole file are fixed once  *)
(* it is loaded; what a run has computed so far is about the first n.      *)
Results == [i \in 1..Len(events) |-> Evaluate(policy, events[i])]
First(results, n) == [i \in 1..n |-> results[i]]

Totals(results) == [i \in DOMAIN results |-> results[i].total_risk_score]

(* The points of an event before they were put into an int.                *)
Points(results) ==
  [i \in DOMAIN results |-> SumUpTo(MatchPoints(results[i].matches), Len(results[i].matches))]

(* The points behind a sequence of matches, match by match.                *)
PointsAt(results, rules) ==
  [k \in DOMAIN rules |-> results[rules[k][1]].matches[rules[k][2]].risk_points]

IncidentFields == {"incident_id", "verdict", "pid", "process_path", "first_seen",
                   "last_seen", "events", "total_risk_score", "matched_rules"}

(* The incident of a process holds its events among the first n,           *)
HoldsItsEvents(results, n, pid, incident) ==
  LET own == incident.events
  IN /\ own \in Seq(1..n) /\ Len(own) > 0
     /\ Range(own) = EventsOf(First(results, n), pid)
     /\ \A j \in 1..(Len(own) - 1) : own[j] < own[j + 1]
     /\ incident.pid = pid
     /\ incident.process_path = results[own[1]].event.process_path
     /\ incident.first_seen = results[own[1]].event.timestamp
     /\ incident.last_seen = results[own[Len(own)]].event.timestamp

(* and their matches,                                                      *)
HoldsItsMatches(results, n, pid, incident) ==
  LET rules == incident.matched_rules
  IN /\ rules \in Seq((1..n) \X Nat)
     /\ Range(rules) = EvidenceOf(First(results, n), pid)
     /\ \A j \in 1..(Len(rules) - 1) : Precedes(rules[j], rules[j + 1])

(* and their score, in which the overflow of a total does not show: the    *)
(* points before any overflow are those of the matches, and the score is   *)
(* what is left of either sum in an int.                                   *)
HoldsItsScore(results, n, pid, incident) ==
  LET own == EventsOf(First(results, n), pid)
      rules == incident.matched_rules
      points == SumUpTo(PointsAt(results, rules), Len(rules))
  IN /\ incident.total_risk_score \in Int
     /\ incident.total_risk_score = Wrap(SumFunctionOnSet(Totals(results), own))
     /\ points = SumFunctionOnSet(Points(results), own)
     /\ incident.total_risk_score = Wrap(points)

Open(results, n, open) ==
  /\ DOMAIN open = PidsOf(First(results, n))
  /\ \A pid \in DOMAIN open :
       /\ DOMAIN open[pid] = IncidentFields
       /\ HoldsItsEvents(results, n, pid, open[pid])
       /\ HoldsItsMatches(results, n, pid, open[pid])
       /\ HoldsItsScore(results, n, pid, open[pid])

(* The scores of the open incidents add up to the totals of all events.    *)
Scores(open) == [pid \in DOMAIN open |-> open[pid].total_risk_score]

Balanced(results, n, open) ==
  /\ IsFiniteSet(DOMAIN open)
  /\ Wrap(SumFunctionOnSet(Scores(open), DOMAIN open)) = Wrap(SumUpTo(Totals(results), n))

(* The walk over the map has numbered its smallest keys.                   *)
Numbered(thresholds, open, done) ==
  /\ done \in Seq(Range(done))
  /\ \A k \in DOMAIN done :
       /\ done[k].pid \in DOMAIN open
       /\ done[k] = [open[done[k].pid] EXCEPT
                       !.incident_id = k,
                       !.verdict = IncidentVerdict(thresholds, open[done[k].pid].total_risk_score)]
       /\ \A pid \in DOMAIN open :
            pid <= done[k].pid => \E j \in 1..k : done[j].pid = pid
  /\ \A j, k \in DOMAIN done : j < k => done[j].pid < done[k].pid

CorrelatorInv ==
  /\ policy \in Policies /\ events \in EventFiles
  /\ \E n \in 0..Len(events) : Len(evaluated) = n /\ evaluated = First(Results, n)
  /\ aggregate = Wrap(SumUpTo(Totals(Results), Len(evaluated)))
  /\ folded \in 0..Len(evaluated)
  /\ folded > 0 => Len(evaluated) = Len(events)
  /\ Open(Results, folded, by_pid)
  /\ Balanced(Results, folded, by_pid)
  /\ Numbered(policy.risk_thresholds, by_pid, incidents)
  /\ incidents # <<>> => folded = Len(events)
-----------------------------------------------------------------------------
(* What belongs to the sets of module Incidents for the first n results,   *)
(* and what one more result adds to them.                                  *)
LEMMA FirstResults ==
  ASSUME NEW results, NEW n \in Nat
  PROVE  DOMAIN First(results, n) = 1..n /\ \A i \in 1..n : First(results, n)[i] = results[i]
BY DEF First

LEMMA FirstPids ==
  ASSUME NEW results, NEW n \in Nat, NEW pid
  PROVE  pid \in PidsOf(First(results, n))
           <=> \E i \in 1..n : results[i].matches # <<>> /\ results[i].event.pid = pid
<1>1. PICK F : F = First(results, n)
  OBVIOUS
<1>2. DOMAIN F = 1..n /\ \A i \in 1..n : F[i] = results[i]
  BY <1>1, FirstResults
<1>3. pid \in PidsOf(F)
        <=> \E i \in 1..n : results[i].matches # <<>> /\ results[i].event.pid = pid
  BY <1>2 DEF PidsOf, Suspicious
<1> QED BY <1>1, <1>3, Zenon

LEMMA FirstEvents ==
  ASSUME NEW results, NEW n \in Nat, NEW pid, NEW i
  PROVE  i \in EventsOf(First(results, n), pid)
           <=> i \in 1..n /\ results[i].matches # <<>> /\ results[i].event.pid = pid
<1>1. PICK F : F = First(results, n)
  OBVIOUS
<1>2. DOMAIN F = 1..n /\ \A j \in 1..n : F[j] = results[j]
  BY <1>1, FirstResults
<1>3. i \in EventsOf(F, pid)
        <=> i \in 1..n /\ results[i].matches # <<>> /\ results[i].event.pid = pid
  BY <1>2 DEF EventsOf, Suspicious
<1> QED BY <1>1, <1>3, Zenon

LEMMA FirstEvidence ==
  ASSUME NEW results, NEW n \in Nat, NEW pid, NEW m
  PROVE  m \in EvidenceOf(First(results, n), pid)
           <=> \E i \in EventsOf(First(results, n), pid) :
                 \E k \in DOMAIN results[i].matches : m = <<i, k>>
<1>1. PICK F : F = First(results, n)
  OBVIOUS
<1>2. \A i \in EventsOf(F, pid) : i \in 1..n
  BY <1>1, FirstEvents, Zenon
<1>3. \A i \in EventsOf(F, pid) : F[i] = results[i]
  BY <1>1, <1>2, FirstResults, Zenon
<1>4. m \in EvidenceOf(F, pid)
        <=> \E i \in EventsOf(F, pid) : m \in {i} \X DOMAIN F[i].matches
  BY DEF EvidenceOf
<1>5. \A i : m \in {i} \X DOMAIN F[i].matches <=> \E k \in DOMAIN F[i].matches : m = <<i, k>>
  OBVIOUS
<1>6. m \in EvidenceOf(F, pid)
        <=> \E i \in EventsOf(F, pid) : \E k \in DOMAIN results[i].matches : m = <<i, k>>
  BY <1>3, <1>4, <1>5, Zenon
<1> QED BY <1>1, <1>6, Zenon

LEMMA OwnEventsAreFinite ==
  ASSUME NEW results, NEW n \in Nat, NEW pid
  PROVE  /\ EventsOf(First(results, n), pid) \in SUBSET (1..n)
         /\ IsFiniteSet(EventsOf(First(results, n), pid))
         /\ n + 1 \notin EventsOf(First(results, n), pid)
         /\ pid \notin PidsOf(First(results, n)) => EventsOf(First(results, n), pid) = {}
<1>1. PICK E : E = EventsOf(First(results, n), pid)
  OBVIOUS
<1>2. \A i : i \in E
        <=> i \in 1..n /\ results[i].matches # <<>> /\ results[i].event.pid = pid
  BY <1>1, FirstEvents
<1>3. E \in SUBSET (1..n) /\ n + 1 \notin E
  BY <1>2
<1>4. IsFiniteSet(E)
  <2>1. PICK S : S = 1..n /\ IsFiniteSet(S)
    BY FS_Interval
  <2> QED BY <1>3, <2>1, FS_Subset
<1>5. pid \notin PidsOf(First(results, n)) => E = {}
  BY <1>2, FirstPids
<1> QED BY <1>1, <1>3, <1>4, <1>5, Zenon

LEMMA NextResultClean ==
  ASSUME NEW results, NEW n \in Nat, results[n + 1].matches = <<>>
  PROVE  /\ PidsOf(First(results, n + 1)) = PidsOf(First(results, n))
         /\ \A pid : EventsOf(First(results, n + 1), pid) = EventsOf(First(results, n), pid)
         /\ \A pid : EvidenceOf(First(results, n + 1), pid) = EvidenceOf(First(results, n), pid)
<1>0. n + 1 \in Nat /\ \A i : i \in 1..(n + 1) <=> i \in 1..n \/ i = n + 1
  OBVIOUS
<1>1. PidsOf(First(results, n + 1)) = PidsOf(First(results, n))
  <2>1. \A pid : pid \in PidsOf(First(results, n + 1)) <=> pid \in PidsOf(First(results, n))
    BY <1>0, FirstPids
  <2> QED BY <2>1
<1>2. \A pid : EventsOf(First(results, n + 1), pid) = EventsOf(First(results, n), pid)
  <2> TAKE pid
  <2>1. \A i : i \in EventsOf(First(results, n + 1), pid)
                 <=> i \in EventsOf(First(results, n), pid)
    BY <1>0, FirstEvents
  <2> QED BY <2>1
<1>3. \A pid : EvidenceOf(First(results, n + 1), pid) = EvidenceOf(First(results, n), pid)
  <2> TAKE pid
  <2>1. \A m : m \in EvidenceOf(First(results, n + 1), pid)
                 <=> m \in EvidenceOf(First(results, n), pid)
    BY <1>0, <1>2, FirstEvidence
  <2> QED BY <2>1
<1> QED BY <1>1, <1>2, <1>3

LEMMA NextResultMatches ==
  ASSUME NEW results, NEW n \in Nat, results[n + 1].matches # <<>>,
         NEW own, own = results[n + 1].event.pid
  PROVE  /\ PidsOf(First(results, n + 1)) = PidsOf(First(results, n)) \union {own}
         /\ EventsOf(First(results, n + 1), own) = EventsOf(First(results, n), own) \union {n + 1}
         /\ \A pid : pid # own =>
              EventsOf(First(results, n + 1), pid) = EventsOf(First(results, n), pid)
         /\ \A pid : pid # own =>
              EvidenceOf(First(results, n + 1), pid) = EvidenceOf(First(results, n), pid)
<1>0. n + 1 \in Nat /\ \A i : i \in 1..(n + 1) <=> i \in 1..n \/ i = n + 1
  OBVIOUS
<1>1. PidsOf(First(results, n + 1)) = PidsOf(First(results, n)) \union {own}
  <2>1. \A pid : pid \in PidsOf(First(results, n + 1))
                   <=> pid \in PidsOf(First(results, n)) \/ pid = own
    BY <1>0, FirstPids
  <2> QED BY <2>1
<1>2. \A pid, i : i \in EventsOf(First(results, n + 1), pid)
                    <=> i \in EventsOf(First(results, n), pid) \/ (pid = own /\ i = n + 1)
  BY <1>0, FirstEvents
<1>3. EventsOf(First(results, n + 1), own) = EventsOf(First(results, n), own) \union {n + 1}
  BY <1>2
<1>4. \A pid : pid # own =>
        EventsOf(First(results, n + 1), pid) = EventsOf(First(results, n), pid)
  <2> SUFFICES ASSUME NEW pid, pid # own
               PROVE  EventsOf(First(results, n + 1), pid) = EventsOf(First(results, n), pid)
    OBVIOUS
  <2>1. \A i : i \in EventsOf(First(results, n + 1), pid)
                 <=> i \in EventsOf(First(results, n), pid)
    BY <1>2
  <2> QED BY <2>1
<1>5. \A pid : pid # own =>
        EvidenceOf(First(results, n + 1), pid) = EvidenceOf(First(results, n), pid)
  <2> SUFFICES ASSUME NEW pid, pid # own
               PROVE  EvidenceOf(First(results, n + 1), pid) = EvidenceOf(First(results, n), pid)
    OBVIOUS
  <2>1. \A m : m \in EvidenceOf(First(results, n + 1), pid)
                 <=> m \in EvidenceOf(First(results, n), pid)
    BY <1>0, <1>4, FirstEvidence
  <2> QED BY <2>1
<1> QED BY <1>1, <1>3, <1>4, <1>5

LEMMA NextEvidence ==
  ASSUME NEW results, NEW n \in Nat, NEW next, next = n + 1, results[next].matches # <<>>,
         NEW own, own = results[next].event.pid, NEW m
  PROVE  m \in EvidenceOf(First(results, next), own)
           <=> \/ m \in EvidenceOf(First(results, n), own)
               \/ \E k \in DOMAIN results[next].matches : m = <<next, k>>
<1>1. next \in Nat /\ \A i : i \in 1..next <=> i \in 1..n \/ i = next
  OBVIOUS
<1>2. \A i : i \in EventsOf(First(results, next), own)
               <=> i \in EventsOf(First(results, n), own) \/ i = next
  BY <1>1, FirstEvents
<1> QED BY <1>1, <1>2, FirstEvidence
-----------------------------------------------------------------------------
(* One more result: an incident takes the event of its own process, and    *)
(* the incident of any other process stays what it has to be.              *)
LEMMA EventIsAppended ==
  ASSUME NEW results, NEW n \in Nat, results[n + 1].matches # <<>>,
         NEW own, own = results[n + 1].event.pid, NEW before, NEW after,
         \/ HoldsItsEvents(results, n, own, before)
         \/ /\ before.events = <<>> /\ EventsOf(First(results, n), own) = {}
            /\ before.pid = own
            /\ before.process_path = results[n + 1].event.process_path
            /\ before.first_seen = results[n + 1].event.timestamp,
         after.events = Append(before.events, n + 1),
         after.pid = before.pid, after.process_path = before.process_path,
         after.first_seen = before.first_seen,
         after.last_seen = results[n + 1].event.timestamp
  PROVE  HoldsItsEvents(results, n + 1, own, after)
<1>1. PICK s, t : s = before.events /\ t = after.events
  OBVIOUS
<1>2. PICK E, G : E = EventsOf(First(results, n), own) /\ G = EventsOf(First(results, n + 1), own)
  OBVIOUS
<1>3. G = E \union {n + 1}
  BY <1>2, NextResultMatches
<1>4. s \in Seq(1..n) /\ Len(s) \in Nat
  <2>1. <<>> \in Seq(1..n)
    BY EmptySeq
  <2>2. s \in Seq(1..n)
    BY <1>1, <2>1, Zenon DEF HoldsItsEvents
  <2> QED BY <2>2, LenProperties
<1>5. Range(s) = E
  <2>1. CASE HoldsItsEvents(results, n, own, before)
    BY <1>1, <1>2, <2>1, Zenon DEF HoldsItsEvents
  <2>2. CASE before.events = <<>> /\ EventsOf(First(results, n), own) = {}
    <3>1. s = <<>> /\ E = {}
      BY <1>1, <1>2, <2>2, Zenon
    <3> QED BY <3>1 DEF Range
  <2> QED BY <2>1, <2>2
<1>6. \A j \in 1..(Len(s) - 1) : s[j] < s[j + 1]
  <2>1. CASE HoldsItsEvents(results, n, own, before)
    BY <1>1, <2>1, Zenon DEF HoldsItsEvents
  <2>2. CASE before.events = <<>>
    BY <1>1, <2>2
  <2> QED BY <2>1, <2>2
<1>7. PICK N : N = 1..(n + 1)
  OBVIOUS
<1>8. s \in Seq(N) /\ n + 1 \in N
  <2>1. 1..n \subseteq N /\ n + 1 \in N
    BY <1>7
  <2> QED BY <1>4, <2>1, SeqMonotonic
<1>9. /\ t \in Seq(N) /\ Len(t) = Len(s) + 1
      /\ \A j \in 1..Len(s) : t[j] = s[j]
      /\ t[Len(s) + 1] = n + 1
  BY <1>1, <1>8, AppendProperties
<1>10. \A j \in 1..Len(s) : s[j] \in 1..n
  BY <1>4, ElementOfSeq
<1>11. Range(t) = G
  <2>1. \A x : x \in Range(t) <=> \E j \in 1..(Len(s) + 1) : x = t[j]
    BY <1>9, LenProperties DEF Range
  <2>2. \A x : x \in E <=> \E j \in 1..Len(s) : x = s[j]
    BY <1>4, <1>5, LenProperties DEF Range
  <2>3. \A j : j \in 1..(Len(s) + 1) <=> j \in 1..Len(s) \/ j = Len(s) + 1
    BY <1>4
  <2>4. \A x : x \in Range(t) <=> x \in E \/ x = n + 1
    <3>1. PICK last : last = Len(s) + 1
      OBVIOUS
    <3>2. \A j \in 1..Len(s) : t[j] = s[j]
      BY <1>9
    <3>3. t[last] = n + 1
      BY <1>9, <3>1
    <3>4. \A x : (\E j \in 1..(Len(s) + 1) : x = t[j])
                  <=> (\E j \in 1..Len(s) : x = t[j]) \/ x = t[last]
      BY <2>3, <3>1, Zenon
    <3>5. \A x : (\E j \in 1..Len(s) : x = t[j]) <=> (\E j \in 1..Len(s) : x = s[j])
      BY <3>2, Zenon
    <3> TAKE x
    <3>6. x \in Range(t) <=> (\E j \in 1..Len(s) : x = s[j]) \/ x = t[last]
      <4>1. x \in Range(t) <=> \E j \in 1..(Len(s) + 1) : x = t[j]
        BY <2>1, Zenon
      <4>2. (\E j \in 1..(Len(s) + 1) : x = t[j])
              <=> (\E j \in 1..Len(s) : x = t[j]) \/ x = t[last]
        BY <3>4, Zenon
      <4>3. (\E j \in 1..Len(s) : x = t[j]) <=> (\E j \in 1..Len(s) : x = s[j])
        BY <3>5, Zenon
      <4> QED BY <4>1, <4>2, <4>3, Zenon
    <3>7. x \in E <=> \E j \in 1..Len(s) : x = s[j]
      BY <2>2, Zenon
    <3> QED BY <3>3, <3>6, <3>7, Zenon
  <2> QED BY <1>3, <2>4
<1>12. \A j \in 1..(Len(t) - 1) : t[j] < t[j + 1]
  <2>1. ASSUME NEW j \in 1..(Len(t) - 1) PROVE t[j] < t[j + 1]
    <3>1. j \in 1..Len(s)
      BY <1>4, <1>9
    <3>2. CASE j = Len(s)
      BY <1>4, <1>9, <1>10, <3>1, <3>2
    <3>3. CASE j # Len(s)
      <4>1. j \in 1..(Len(s) - 1) /\ j + 1 \in 1..Len(s)
        BY <1>4, <3>1, <3>3
      <4> QED BY <1>6, <1>9, <3>1, <4>1
    <3> QED BY <3>2, <3>3
  <2> QED BY <2>1
<1>13. /\ after.pid = own
       /\ after.process_path = results[t[1]].event.process_path
       /\ after.first_seen = results[t[1]].event.timestamp
  <2>1. CASE HoldsItsEvents(results, n, own, before)
    <3>1. Len(s) > 0
      BY <1>1, <2>1 DEF HoldsItsEvents
    <3>2. t[1] = s[1]
      BY <1>4, <1>9, <3>1
    <3> QED BY <1>1, <2>1, <3>2, Zenon DEF HoldsItsEvents
  <2>2. CASE /\ before.events = <<>> /\ before.pid = own
             /\ before.process_path = results[n + 1].event.process_path
             /\ before.first_seen = results[n + 1].event.timestamp
    <3>1. Len(s) = 0
      BY <1>1, <2>2
    <3>2. t[1] = n + 1
      BY <1>9, <3>1
    <3> QED BY <2>2, <3>2, Zenon
  <2> QED BY <2>1, <2>2
<1>14. after.last_seen = results[t[Len(t)]].event.timestamp
  <2>1. t[Len(t)] = n + 1
    BY <1>9
  <2> QED BY <2>1, Zenon
<1>15. Len(t) > 0
  BY <1>4, <1>9
<1> QED BY <1>1, <1>2, <1>7, <1>9, <1>11, <1>12, <1>13, <1>14, <1>15, Zenon DEF HoldsItsEvents

LEMMA MatchesAreAppended ==
  ASSUME NEW results, NEW n \in Nat, NEW p, AddsUp(results[n + 1], p),
         results[n + 1].matches # <<>>,
         NEW own, own = results[n + 1].event.pid, NEW before, NEW after,
         HoldsItsMatches(results, n, own, before),
         after.matched_rules = before.matched_rules
           \o [k \in DOMAIN results[n + 1].matches |-> <<n + 1, k>>]
  PROVE  HoldsItsMatches(results, n + 1, own, after)
<1>1. PICK s, t : s = before.matched_rules /\ t = after.matched_rules
  OBVIOUS
<1>2. PICK E, G : E = EvidenceOf(First(results, n), own)
                  /\ G = EvidenceOf(First(results, n + 1), own)
  OBVIOUS
<1>3. PICK M, m : M = results[n + 1].matches /\ m = Len(M)
  OBVIOUS
<1>4. m \in Nat /\ DOMAIN M = 1..m
  <2>1. M \in Seq(Range(M))
    BY <1>3, Zenon DEF AddsUp
  <2> QED BY <1>3, <2>1, LenProperties
<1>5. \A x : x \in G <=> x \in E \/ \E k \in 1..m : x = <<n + 1, k>>
  <2>1. PICK next : next = n + 1
    OBVIOUS
  <2>2. \A x : x \in EvidenceOf(First(results, next), own)
              <=> \/ x \in EvidenceOf(First(results, n), own)
                  \/ \E k \in DOMAIN results[next].matches : x = <<next, k>>
    <3>1. results[next].matches # <<>> /\ own = results[next].event.pid
      BY <2>1, Zenon
    <3> TAKE x
    <3> QED BY <2>1, <3>1, NextEvidence
  <2> QED BY <1>2, <1>3, <1>4, <2>1, <2>2, Zenon
<1>6. /\ s \in Seq((1..n) \X Nat) /\ Range(s) = E
      /\ \A j \in 1..(Len(s) - 1) : Precedes(s[j], s[j + 1])
  BY <1>1, <1>2, Zenon DEF HoldsItsMatches
<1>7. Len(s) \in Nat /\ \A j \in 1..Len(s) : s[j] \in (1..n) \X Nat
  BY <1>6, LenProperties, ElementOfSeq
<1>8. PICK N : N = (1..(n + 1)) \X Nat
  OBVIOUS
<1>9. s \in Seq(N)
  <2>1. (1..n) \X Nat \subseteq N
    BY <1>8
  <2> QED BY <1>6, <2>1, SeqMonotonic
<1>10. PICK u : u = [k \in 1..m |-> <<n + 1, k>>]
  OBVIOUS
<1>11. u \in Seq(N) /\ Len(u) = m /\ \A k \in 1..m : u[k] = <<n + 1, k>>
  <2>1. u \in [1..m -> N]
    BY <1>4, <1>8, <1>10
  <2> QED BY <1>4, <1>10, <2>1
<1>12. t = s \o u
  BY <1>1, <1>3, <1>4, <1>10, Zenon
<1>13. /\ t \in Seq(N) /\ Len(t) = Len(s) + m
       /\ \A j \in 1..(Len(s) + m) : t[j] = IF j <= Len(s) THEN s[j] ELSE u[j - Len(s)]
  BY <1>9, <1>11, <1>12, ConcatProperties
<1>14. Range(t) = G
  <2>1. Range(t) = Range(s) \union Range(u)
    BY <1>9, <1>11, <1>12, RangeConcatenation
  <2>2. \A x : x \in Range(u) <=> \E k \in 1..m : x = <<n + 1, k>>
    BY <1>10, <1>11 DEF Range
  <2> QED BY <1>5, <1>6, <2>1, <2>2
<1>15. \A j \in 1..(Len(t) - 1) : Precedes(t[j], t[j + 1])
  <2>1. ASSUME NEW j \in 1..(Len(t) - 1) PROVE Precedes(t[j], t[j + 1])
    <3>1. CASE j < Len(s)
      <4>1. j \in 1..(Len(s) - 1) /\ t[j] = s[j] /\ t[j + 1] = s[j + 1]
        BY <1>4, <1>7, <1>13, <3>1
      <4> QED BY <1>6, <4>1
    <3>2. CASE j = Len(s)
      <4>0. /\ j \in 1..(Len(s) + m) /\ j + 1 \in 1..(Len(s) + m)
            /\ j <= Len(s) /\ ~(j + 1 <= Len(s)) /\ (j + 1) - Len(s) = 1 /\ 1 \in 1..m
            /\ j \in 1..Len(s)
        BY <1>4, <1>7, <1>13, <3>2
      <4>1. t[j] = s[j] /\ t[j + 1] = u[1] /\ s[j] \in (1..n) \X Nat /\ 1 \in 1..m
        <5>1. PICK i : i = j + 1 /\ i \in 1..(Len(s) + m) /\ ~(i <= Len(s)) /\ i - Len(s) = 1
          BY <4>0
        <5> QED BY <1>7, <1>13, <4>0, <5>1, Zenon
      <4>2. t[j][1] \in 1..n /\ t[j + 1][1] = n + 1
        BY <1>11, <4>1
      <4> QED BY <4>2 DEF Precedes
    <3>3. CASE j > Len(s)
      <4>1. PICK k \in 1..m : k = j - Len(s) /\ k + 1 \in 1..m /\ t[j] = u[k] /\ t[j + 1] = u[k + 1]
        <5>1. PICK i : /\ i = j + 1 /\ i \in 1..(Len(s) + m) /\ ~(i <= Len(s))
                       /\ j \in 1..(Len(s) + m) /\ ~(j <= Len(s))
          BY <1>4, <1>7, <1>13, <3>3
        <5>2. PICK k \in 1..m : j - Len(s) = k /\ i - Len(s) = k + 1 /\ k + 1 \in 1..m
          <6>1. j - Len(s) \in 1..m /\ i - Len(s) = (j - Len(s)) + 1 /\ (j - Len(s)) + 1 \in 1..m
            BY <1>4, <1>7, <5>1
          <6> QED BY <6>1
        <5> QED BY <1>13, <5>1, <5>2, Zenon
      <4>2. t[j] = <<n + 1, k>> /\ t[j + 1] = <<n + 1, k + 1>>
        BY <1>11, <4>1
      <4> QED BY <4>1, <4>2 DEF Precedes
    <3> QED BY <1>7, <1>13, <3>1, <3>2, <3>3
  <2> QED BY <2>1
<1> QED BY <1>1, <1>2, <1>8, <1>13, <1>14, <1>15, Zenon DEF HoldsItsMatches
-----------------------------------------------------------------------------
(* The results of a file all add up.                                       *)
Adequate(results, len, p) ==
  /\ DOMAIN results = 1..len
  /\ \A i \in 1..len : AddsUp(results[i], p) /\ results[i].event.pid \in Int

LEMMA TotalsAreIntegers ==
  ASSUME NEW results, NEW len \in Nat, NEW p, Adequate(results, len, p), NEW i \in 1..len
  PROVE  /\ Totals(results)[i] = results[i].total_risk_score
         /\ Totals(results)[i] \in Int /\ Points(results)[i] \in Int
         /\ Totals(results)[i] = Wrap(Points(results)[i])
<1>1. PICK M, m : M = results[i].matches /\ m = Len(M)
  OBVIOUS
<1>2. /\ M \in Seq(Range(M)) /\ \A k \in DOMAIN M : M[k].risk_points \in Int
      /\ results[i].total_risk_score = Wrap(SumUpTo(MatchPoints(M), m))
      /\ results[i].total_risk_score \in -(IntMax + 1)..IntMax
  BY <1>1, Zenon DEF Adequate, AddsUp
<1>3. m \in Nat /\ DOMAIN M = 1..m
  BY <1>1, <1>2, LenProperties
<1>4. \A k \in 1..m : MatchPoints(M)[k] \in Int
  BY <1>2, <1>3 DEF MatchPoints
<1>5. SumUpTo(MatchPoints(M), m) \in Int
  BY <1>3, <1>4, SumUpToIsInteger
<1>6. Totals(results)[i] = results[i].total_risk_score
  BY Zenon DEF Adequate, Totals
<1>7. Points(results)[i] = SumUpTo(MatchPoints(M), m)
  BY <1>1, Zenon DEF Adequate, Points
<1>8. results[i].total_risk_score \in Int
  BY <1>2, IntMaxIsNatural
<1> QED BY <1>2, <1>5, <1>6, <1>7, <1>8, Zenon

LEMMA MatchesHavePoints ==
  ASSUME NEW results, NEW len \in Nat, NEW p, Adequate(results, len, p), NEW n \in 0..len,
         NEW pid, NEW incident, HoldsItsMatches(results, n, pid, incident),
         NEW rules, rules = incident.matched_rules
  PROVE  \A k \in 1..Len(rules) : PointsAt(results, rules)[k] \in Int
<1> TAKE k \in 1..Len(rules)
<1>1. PICK m : m = rules[k]
  OBVIOUS
<1>2. rules \in Seq((1..n) \X Nat) /\ Range(rules) = EvidenceOf(First(results, n), pid)
  BY Zenon DEF HoldsItsMatches
<1>3. DOMAIN rules = 1..Len(rules)
  BY <1>2, LenProperties
<1>4. m \in EvidenceOf(First(results, n), pid)
  <2>1. m \in Range(rules)
    BY <1>1, <1>3, Zenon DEF Range
  <2> QED BY <1>2, <2>1, Zenon
<1>5. PICK i, j : /\ i \in EventsOf(First(results, n), pid)
                   /\ j \in DOMAIN results[i].matches /\ m = <<i, j>>
  <2>1. \E i \in EventsOf(First(results, n), pid) :
          \E j \in DOMAIN results[i].matches : m = <<i, j>>
    BY <1>4, FirstEvidence
  <2> QED BY <2>1, Zenon
<1>6. i \in 1..n /\ i \in 1..len
  BY <1>5, FirstEvents
<1>7. results[i].matches[j].risk_points \in Int
  BY <1>5, <1>6, Zenon DEF Adequate, AddsUp
<1>8. m[1] = i /\ m[2] = j
  BY <1>5
<1>9. PointsAt(results, rules)[k] = results[m[1]].matches[m[2]].risk_points
  BY <1>1, <1>3, Zenon DEF PointsAt
<1> QED BY <1>7, <1>8, <1>9, Zenon

(* The points of a sequence of matches that b matches of one event end.    *)
HasPoints(M, b) == \A k \in 1..b : k \in DOMAIN M /\ M[k].risk_points \in Int
PointTo(results, s, a) == \A k \in 1..a : k \in DOMAIN s /\ PointsAt(results, s)[k] \in Int
EndsIn(u, s, a, b, i) ==
  /\ \A k \in 1..(a + b) : k \in DOMAIN u
  /\ \A k \in 1..a : u[k] = s[k]
  /\ \A k \in 1..b : u[a + k] = <<i, k>>

LEMMA PointsOfAppended ==
  ASSUME NEW results, NEW next, NEW M, M = results[next].matches,
         NEW s, NEW u, NEW a \in Nat, NEW b \in Nat,
         HasPoints(M, b), PointTo(results, s, a), EndsIn(u, s, a, b, next)
  PROVE  SumUpTo(PointsAt(results, u), a + b)
           = SumUpTo(PointsAt(results, s), a) + SumUpTo(MatchPoints(M), b)
<1>0. /\ \A k \in 1..b : k \in DOMAIN M /\ M[k].risk_points \in Int
      /\ \A k \in 1..a : k \in DOMAIN s /\ PointsAt(results, s)[k] \in Int
      /\ \A k \in 1..(a + b) : k \in DOMAIN u
      /\ \A k \in 1..a : u[k] = s[k]
      /\ \A k \in 1..b : u[a + k] = <<next, k>>
  BY Zenon DEF HasPoints, PointTo, EndsIn
<1>1. PICK f, g, v : /\ f = PointsAt(results, s) /\ g = MatchPoints(M)
                     /\ v = PointsAt(results, u)
  OBVIOUS
<1>2. \A k \in 1..b : g[k] = M[k].risk_points /\ g[k] \in Int
  BY <1>0, <1>1 DEF MatchPoints
<1>3. \A k \in 1..a : v[k] = f[k]
  <2>1. ASSUME NEW k \in 1..a PROVE v[k] = f[k]
    <3>1. k \in 1..(a + b)
      OBVIOUS
    <3> QED BY <1>0, <1>1, <3>1, Zenon DEF PointsAt
  <2> QED BY <2>1
<1>4. \A k \in 1..b : v[a + k] = g[k]
  <2>1. ASSUME NEW k \in 1..b PROVE v[a + k] = g[k]
    <3>1. PICK j : j = a + k /\ j \in 1..(a + b)
      OBVIOUS
    <3>2. u[j][1] = next /\ u[j][2] = k
      <4>1. u[j] = <<next, k>>
        BY <1>0, <3>1, Zenon
      <4> QED BY <4>1
    <3>3. v[j] = results[u[j][1]].matches[u[j][2]].risk_points
      BY <1>0, <1>1, <3>1, Zenon DEF PointsAt
    <3> QED BY <1>2, <3>1, <3>2, <3>3, Zenon
  <2> QED BY <2>1
<1>5. \A k \in 1..a : f[k] \in Int
  BY <1>0, <1>1, Zenon
<1>6. \A k \in 1..b : g[k] \in Int
  BY <1>2, Zenon
<1>7. SumUpTo(v, a + b) = SumUpTo(f, a) + SumUpTo(g, b)
  BY <1>3, <1>4, <1>5, <1>6, SumOfConcatenation
<1> QED BY <1>1, <1>7, Zenon

(* What AddEvent does to the matches and the score.                        *)
Takes(results, i, before, after) ==
  /\ after.matched_rules
       = before.matched_rules \o [k \in DOMAIN results[i].matches |-> <<i, k>>]
  /\ after.total_risk_score
       = Wrap(before.total_risk_score + results[i].total_risk_score)

LEMMA ScoreIsAdded ==
  ASSUME NEW results, NEW len \in Nat, NEW p, Adequate(results, len, p),
         NEW n \in Nat, n + 1 <= len, results[n + 1].matches # <<>>,
         NEW own, own = results[n + 1].event.pid, NEW before, NEW after,
         HoldsItsMatches(results, n, own, before), HoldsItsScore(results, n, own, before),
         Takes(results, n + 1, before, after)
  PROVE  HoldsItsScore(results, n + 1, own, after)
<1>1. PICK next : next = n + 1 /\ next \in 1..len /\ n \in 0..len
  OBVIOUS
<1>2. PICK E, G : E = EventsOf(First(results, n), own) /\ G = EventsOf(First(results, next), own)
  OBVIOUS
<1>3. G = E \union {next} /\ next \notin E /\ IsFiniteSet(E) /\ E \in SUBSET (1..n)
  <2>1. G = E \union {next}
    <3>1. \A i : i \in 1..next <=> i \in 1..n \/ i = next
      BY <1>1
    <3>2. results[next].matches # <<>> /\ results[next].event.pid = own /\ next \in Nat
      BY <1>1
    <3>3. \A i : i \in E <=> i \in 1..n /\ results[i].matches # <<>> /\ results[i].event.pid = own
      BY <1>2, FirstEvents
    <3>4. \A i : i \in G <=> i \in 1..next /\ results[i].matches # <<>> /\ results[i].event.pid = own
      BY <1>2, <3>2, FirstEvents
    <3> QED BY <3>1, <3>2, <3>3, <3>4
  <2> QED BY <1>1, <1>2, <2>1, OwnEventsAreFinite
<1>4. \A i \in G : i \in 1..len
  BY <1>1, <1>3
<1>5. PICK T, P : T = Totals(results) /\ P = Points(results)
  OBVIOUS
<1>6. \A i \in 1..len : T[i] \in Int /\ P[i] \in Int /\ T[i] = Wrap(P[i])
  BY <1>5, TotalsAreIntegers
<1>7. SumFunctionOnSet(T, G) = SumFunctionOnSet(T, E) + T[next]
  BY <1>3, <1>4, <1>6, SumAdded
<1>8. SumFunctionOnSet(P, G) = SumFunctionOnSet(P, E) + P[next]
  BY <1>3, <1>4, <1>6, SumAdded
<1>9. PICK t \in Int, q \in Int : t = SumFunctionOnSet(T, E) /\ q = SumFunctionOnSet(P, E)
  BY <1>3, <1>4, <1>6, SumIsInteger
<1>10. PICK s, u : s = before.matched_rules /\ u = after.matched_rules
  OBVIOUS
<1>11. /\ before.total_risk_score = Wrap(t) /\ before.total_risk_score = Wrap(q)
       /\ SumUpTo(PointsAt(results, s), Len(s)) = q
  BY <1>2, <1>5, <1>9, <1>10, Zenon DEF HoldsItsScore
<1>12. results[next].total_risk_score = T[next] /\ T[next] \in Int /\ P[next] \in Int
       /\ T[next] = Wrap(P[next])
  BY <1>1, <1>5, TotalsAreIntegers
<1>13. after.total_risk_score = Wrap(t + T[next])
  <2>1. Wrap(Wrap(t) + T[next]) = Wrap(t + T[next])
    BY <1>12, WrapOfSum
  <2> QED BY <1>1, <1>11, <1>12, <2>1, Zenon DEF Takes
<1>14. after.total_risk_score = Wrap(q + P[next])
  <2>1. Wrap(q) \in Int /\ Wrap(P[next]) \in Int
    BY <1>12, WrapsAround, IntMaxIsNatural
  <2>2. Wrap(Wrap(q) + Wrap(P[next])) = Wrap(q + Wrap(P[next]))
    BY <2>1, WrapOfSum
  <2>3. Wrap(Wrap(P[next]) + q) = Wrap(P[next] + q)
    BY <1>12, WrapOfSum
  <2>4. q + Wrap(P[next]) = Wrap(P[next]) + q /\ P[next] + q = q + P[next]
    BY <1>12, <2>1
  <2>5. after.total_risk_score = Wrap(Wrap(q) + Wrap(P[next]))
    BY <1>1, <1>11, <1>12, Zenon DEF Takes
  <2> QED BY <2>2, <2>3, <2>4, <2>5, Zenon
<1>15. after.total_risk_score \in Int
  <2>1. PICK x \in Int : x = t + T[next]
    BY <1>12
  <2>2. Wrap(x) \in Int
    BY WrapsAround, IntMaxIsNatural
  <2> QED BY <1>13, <2>1, <2>2, Zenon
<1>16. SumUpTo(PointsAt(results, u), Len(u)) = q + P[next]
  <2>1. PICK M, m : M = results[next].matches /\ m = Len(M)
    OBVIOUS
  <2>2. /\ m \in Nat /\ DOMAIN M = 1..m
        /\ \A k \in 1..m : M[k].risk_points \in Int
    <3>1. M \in Seq(Range(M)) /\ \A k \in DOMAIN M : M[k].risk_points \in Int
      BY <1>1, <2>1, Zenon DEF Adequate, AddsUp
    <3> QED BY <2>1, <3>1, LenProperties
  <2>3. PICK h : h = [k \in 1..m |-> <<next, k>>]
    OBVIOUS
  <2>4. PICK N : N = (1..len) \X Nat
    OBVIOUS
  <2>5. s \in Seq(N) /\ Len(s) \in Nat
    <3>1. s \in Seq((1..n) \X Nat)
      BY <1>10, Zenon DEF HoldsItsMatches
    <3>2. (1..n) \X Nat \subseteq N
      BY <1>1, <2>4
    <3> QED BY <3>1, <3>2, SeqMonotonic, LenProperties
  <2>6. h \in Seq(N) /\ Len(h) = m /\ \A k \in 1..m : h[k] = <<next, k>>
    <3>1. h \in [1..m -> N]
      BY <1>1, <2>2, <2>3, <2>4
    <3> QED BY <2>2, <2>3, <3>1
  <2>7. u = s \o h
    BY <1>1, <1>10, <2>1, <2>2, <2>3, Zenon DEF Takes
  <2>8. /\ u \in Seq(N) /\ Len(u) = Len(s) + m
        /\ \A j \in 1..(Len(s) + m) : u[j] = IF j <= Len(s) THEN s[j] ELSE h[j - Len(s)]
    BY <2>5, <2>6, <2>7, ConcatProperties
  <2>9. DOMAIN u = 1..(Len(s) + m) /\ DOMAIN s = 1..Len(s)
    BY <2>5, <2>8, LenProperties
  <2>10. PICK a \in Nat, b \in Nat : a = Len(s) /\ b = m
    BY <2>2, <2>5
  <2>11. \A k \in 1..a : PointsAt(results, s)[k] \in Int
    <3>1. \A k \in 1..Len(s) : PointsAt(results, s)[k] \in Int
      BY <1>1, <1>10, MatchesHavePoints
    <3> QED BY <2>10, <3>1, Zenon
  <2>12. /\ DOMAIN M = 1..b /\ \A k \in 1..b : M[k].risk_points \in Int
         /\ DOMAIN s = 1..a /\ DOMAIN u = 1..(a + b)
    BY <2>2, <2>9, <2>10, Zenon
  <2>13. \A k \in 1..a : u[k] = s[k]
    <3>1. ASSUME NEW k \in 1..a PROVE u[k] = s[k]
      <4>1. k \in 1..(a + b) /\ k <= a
        OBVIOUS
      <4> QED BY <2>8, <2>10, <4>1, Zenon
    <3> QED BY <3>1
  <2>14. \A k \in 1..b : u[a + k] = <<next, k>>
    <3>1. ASSUME NEW k \in 1..b PROVE u[a + k] = <<next, k>>
      <4>1. PICK j : j = a + k /\ j \in 1..(a + b) /\ ~(j <= a) /\ j - a = k
        OBVIOUS
      <4>2. u[j] = h[k]
        BY <2>8, <2>10, <4>1, Zenon
      <4> QED BY <2>6, <2>10, <4>1, <4>2, Zenon
    <3> QED BY <3>1
  <2>15. SumUpTo(PointsAt(results, u), a + b)
           = SumUpTo(PointsAt(results, s), a) + SumUpTo(MatchPoints(M), b)
    <3>1. M = results[next].matches
      BY <2>1
    <3>2. HasPoints(M, b)
      BY <2>12, Zenon DEF HasPoints
    <3>3. PointTo(results, s, a)
      BY <2>11, <2>12, Zenon DEF PointTo
    <3>4. EndsIn(u, s, a, b, next)
      BY <2>12, <2>13, <2>14, Zenon DEF EndsIn
    <3> QED BY <3>1, <3>2, <3>3, <3>4, PointsOfAppended
  <2>16. P[next] = SumUpTo(MatchPoints(M), b)
    BY <1>1, <1>5, <2>1, <2>10, Zenon DEF Points, Adequate
  <2> QED BY <1>11, <2>8, <2>10, <2>15, <2>16, Zenon
<1>17. /\ after.total_risk_score = Wrap(SumFunctionOnSet(T, G))
       /\ SumUpTo(PointsAt(results, u), Len(u)) = SumFunctionOnSet(P, G)
       /\ after.total_risk_score = Wrap(SumUpTo(PointsAt(results, u), Len(u)))
  BY <1>7, <1>8, <1>9, <1>13, <1>14, <1>16, Zenon
<1> QED BY <1>1, <1>2, <1>5, <1>10, <1>15, <1>17, Zenon DEF HoldsItsScore
-----------------------------------------------------------------------------
(* An incident that gets nothing stays what it has to be.                  *)
LEMMA OthersStay ==
  ASSUME NEW results, NEW n \in Nat, NEW next, next = n + 1, NEW pid, NEW incident,
         EventsOf(First(results, next), pid) = EventsOf(First(results, n), pid),
         EvidenceOf(First(results, next), pid) = EvidenceOf(First(results, n), pid),
         HoldsItsEvents(results, n, pid, incident),
         HoldsItsMatches(results, n, pid, incident),
         HoldsItsScore(results, n, pid, incident)
  PROVE  /\ HoldsItsEvents(results, next, pid, incident)
         /\ HoldsItsMatches(results, next, pid, incident)
         /\ HoldsItsScore(results, next, pid, incident)
<1>1. HoldsItsEvents(results, next, pid, incident)
  <2>1. PICK s, S, T : s = incident.events /\ S = 1..n /\ T = 1..next
    OBVIOUS
  <2>2. s \in Seq(S)
    BY <2>1, Zenon DEF HoldsItsEvents
  <2>3. S \subseteq T
    BY <2>1
  <2>4. s \in Seq(T)
    BY <2>2, <2>3, SeqMonotonic
  <2> QED BY <2>1, <2>4, Zenon DEF HoldsItsEvents
<1>2. HoldsItsMatches(results, next, pid, incident)
  <2>1. PICK s, S, T : s = incident.matched_rules /\ S = (1..n) \X Nat /\ T = (1..next) \X Nat
    OBVIOUS
  <2>2. s \in Seq(S)
    BY <2>1, Zenon DEF HoldsItsMatches
  <2>3. S \subseteq T
    BY <2>1
  <2>4. s \in Seq(T)
    BY <2>2, <2>3, SeqMonotonic
  <2> QED BY <2>1, <2>4, Zenon DEF HoldsItsMatches
<1>3. HoldsItsScore(results, next, pid, incident)
  BY Zenon DEF HoldsItsScore
<1> QED BY <1>1, <1>2, <1>3

(* A default-constructed incident has no matches and no score.             *)
LEMMA EmptyIncident ==
  ASSUME NEW results, NEW n \in Nat, NEW pid, pid \notin PidsOf(First(results, n)),
         NEW incident, incident.matched_rules = <<>>, incident.total_risk_score = 0
  PROVE  HoldsItsMatches(results, n, pid, incident) /\ HoldsItsScore(results, n, pid, incident)
<1>1. EventsOf(First(results, n), pid) = {}
  BY OwnEventsAreFinite
<1>2. EvidenceOf(First(results, n), pid) = {}
  <2>1. \A m : m \notin EvidenceOf(First(results, n), pid)
    BY <1>1, FirstEvidence
  <2> QED BY <2>1
<1>3. HoldsItsMatches(results, n, pid, incident)
  <2>1. PICK s : s = <<>>
    OBVIOUS
  <2>2. s \in Seq((1..n) \X Nat) /\ Range(s) = {} /\ 1..(Len(s) - 1) = {}
    BY <2>1 DEF Range
  <2>3. incident.matched_rules = s
    BY <2>1
  <2> QED BY <1>2, <2>2, <2>3, Zenon DEF HoldsItsMatches
<1>4. HoldsItsScore(results, n, pid, incident)
  <2>1. Wrap(0) = 0
    <3>1. 0 \in -(IntMax + 1)..IntMax
      BY IntMaxIsNatural
    <3> QED BY <3>1, WrapOfSmall
  <2>2. Len(<<>>) = 0
    OBVIOUS
  <2>3. SumUpTo(PointsAt(results, <<>>), Len(<<>>)) = 0
    BY <2>2, SumUpToZero, Zenon
  <2>4. SumFunctionOnSet(Totals(results), {}) = 0 /\ SumFunctionOnSet(Points(results), {}) = 0
    BY SumEmpty, Zenon
  <2>5. 0 \in Int
    OBVIOUS
  <2> QED BY <1>1, <2>1, <2>3, <2>4, <2>5, Zenon DEF HoldsItsScore
<1> QED BY <1>3, <1>4

(* What AddEvent does to the rest of an incident.                          *)
Joins(results, i, before, after) ==
  /\ DOMAIN after = IncidentFields
  /\ Takes(results, i, before, after)
  /\ after.events = Append(before.events, i)
  /\ after.pid = before.pid
  /\ after.process_path = before.process_path
  /\ after.first_seen = before.first_seen
  /\ after.last_seen = results[i].event.timestamp

Fresh(incident, event) ==
  /\ incident.events = <<>> /\ incident.matched_rules = <<>> /\ incident.total_risk_score = 0
  /\ incident.pid = event.pid
  /\ incident.process_path = event.process_path
  /\ incident.first_seen = event.timestamp

LEMMA OpenAfterClean ==
  ASSUME NEW results, NEW n \in Nat, results[n + 1].matches = <<>>, NEW open,
         Open(results, n, open)
  PROVE  Open(results, n + 1, open)
<1>1. PICK next : next = n + 1
  OBVIOUS
<1>2. /\ PidsOf(First(results, next)) = PidsOf(First(results, n))
      /\ \A pid : EventsOf(First(results, next), pid) = EventsOf(First(results, n), pid)
      /\ \A pid : EvidenceOf(First(results, next), pid) = EvidenceOf(First(results, n), pid)
  BY <1>1, NextResultClean, Zenon
<1>3. DOMAIN open = PidsOf(First(results, next))
  BY <1>2, Zenon DEF Open
<1>4. ASSUME NEW pid \in DOMAIN open
      PROVE  /\ DOMAIN open[pid] = IncidentFields
             /\ HoldsItsEvents(results, next, pid, open[pid])
             /\ HoldsItsMatches(results, next, pid, open[pid])
             /\ HoldsItsScore(results, next, pid, open[pid])
  <2>1. PICK incident : incident = open[pid]
    OBVIOUS
  <2>2. /\ DOMAIN incident = IncidentFields
        /\ HoldsItsEvents(results, n, pid, incident)
        /\ HoldsItsMatches(results, n, pid, incident)
        /\ HoldsItsScore(results, n, pid, incident)
    BY <2>1, Zenon DEF Open
  <2>3. /\ EventsOf(First(results, next), pid) = EventsOf(First(results, n), pid)
        /\ EvidenceOf(First(results, next), pid) = EvidenceOf(First(results, n), pid)
    BY <1>2, Zenon
  <2> QED BY <1>1, <2>1, <2>2, <2>3, OthersStay, Zenon
<1> QED BY <1>1, <1>3, <1>4, Zenon DEF Open

(* The map before and after the incident of a process took an event.       *)
Replaces(new, open, own, after) ==
  new = [q \in DOMAIN open \union {own} |-> IF q = own THEN after ELSE open[q]]
StartsFrom(open, own, before, event) ==
  IF own \in DOMAIN open THEN before = open[own] ELSE Fresh(before, event)

LEMMA OpenAfterMatch ==
  ASSUME NEW results, NEW len \in Nat, NEW p, Adequate(results, len, p),
         NEW n \in Nat, n + 1 <= len, results[n + 1].matches # <<>>,
         NEW own, own = results[n + 1].event.pid,
         NEW open, Open(results, n, open), NEW before, NEW after,
         StartsFrom(open, own, before, results[n + 1].event),
         Joins(results, n + 1, before, after),
         NEW new, Replaces(new, open, own, after)
  PROVE  Open(results, n + 1, new)
<1>1. PICK next : next = n + 1 /\ results[next].matches # <<>> /\ own = results[next].event.pid
  OBVIOUS
<1>2. /\ PidsOf(First(results, next)) = PidsOf(First(results, n)) \union {own}
      /\ \A pid : pid # own =>
           /\ EventsOf(First(results, next), pid) = EventsOf(First(results, n), pid)
           /\ EvidenceOf(First(results, next), pid) = EvidenceOf(First(results, n), pid)
  <2>1. PICK P, Q : P = PidsOf(First(results, n + 1)) /\ Q = PidsOf(First(results, n))
    OBVIOUS
  <2>2. P = Q \union {own}
    BY <2>1, NextResultMatches
  <2>3. \A pid : pid # own =>
          EventsOf(First(results, n + 1), pid) = EventsOf(First(results, n), pid)
    BY NextResultMatches
  <2>4. \A pid : pid # own =>
          EvidenceOf(First(results, n + 1), pid) = EvidenceOf(First(results, n), pid)
    BY NextResultMatches
  <2> QED BY <1>1, <2>1, <2>2, <2>3, <2>4, Zenon
<1>3. DOMAIN open = PidsOf(First(results, n)) /\ DOMAIN new = DOMAIN open \union {own}
  BY Zenon DEF Open, Replaces
<1>4. DOMAIN new = PidsOf(First(results, next))
  BY <1>2, <1>3, Zenon
<1>5. ASSUME NEW pid \in DOMAIN new, pid # own
      PROVE  /\ DOMAIN new[pid] = IncidentFields
             /\ HoldsItsEvents(results, next, pid, new[pid])
             /\ HoldsItsMatches(results, next, pid, new[pid])
             /\ HoldsItsScore(results, next, pid, new[pid])
  <2>1. PICK incident : incident = open[pid]
    OBVIOUS
  <2>2. pid \in DOMAIN open
    BY <1>3, <1>5
  <2>3. new[pid] = incident
    BY <1>3, <1>5, <2>1, Zenon DEF Replaces
  <2>4. /\ DOMAIN incident = IncidentFields
        /\ HoldsItsEvents(results, n, pid, incident)
        /\ HoldsItsMatches(results, n, pid, incident)
        /\ HoldsItsScore(results, n, pid, incident)
    BY <2>1, <2>2, Zenon DEF Open
  <2>5. /\ EventsOf(First(results, next), pid) = EventsOf(First(results, n), pid)
        /\ EvidenceOf(First(results, next), pid) = EvidenceOf(First(results, n), pid)
    BY <1>2, <1>5, Zenon
  <2> QED BY <1>1, <2>3, <2>4, <2>5, OthersStay, Zenon
<1>6. new[own] = after
  BY <1>3, Zenon DEF Replaces
<1>7. /\ HoldsItsMatches(results, n, own, before) /\ HoldsItsScore(results, n, own, before)
      /\ \/ HoldsItsEvents(results, n, own, before)
         \/ /\ before.events = <<>> /\ EventsOf(First(results, n), own) = {}
            /\ before.pid = own
            /\ before.process_path = results[next].event.process_path
            /\ before.first_seen = results[next].event.timestamp
  <2>1. CASE own \in DOMAIN open
    BY <2>1, Zenon DEF Open, StartsFrom
  <2>2. CASE own \notin DOMAIN open
    <3>1. own \notin PidsOf(First(results, n))
      BY <1>3, <2>2, Zenon
    <3>2. Fresh(before, results[next].event)
      BY <1>1, <2>2, Zenon DEF StartsFrom
    <3>3. EventsOf(First(results, n), own) = {}
      BY <3>1, OwnEventsAreFinite
    <3>4. before.matched_rules = <<>> /\ before.total_risk_score = 0
      BY <3>2, Zenon DEF Fresh
    <3>5. HoldsItsMatches(results, n, own, before) /\ HoldsItsScore(results, n, own, before)
      BY <3>1, <3>4, EmptyIncident
    <3> QED BY <1>1, <3>2, <3>3, <3>5, Zenon DEF Fresh
  <2> QED BY <2>1, <2>2
<1>8. AddsUp(results[next], p)
  <2>1. next \in 1..len
    BY <1>1
  <2> QED BY <2>1, Zenon DEF Adequate
<1>9. HoldsItsEvents(results, next, own, after)
  <2>1. /\ after.events = Append(before.events, n + 1)
        /\ after.pid = before.pid /\ after.process_path = before.process_path
        /\ after.first_seen = before.first_seen
        /\ after.last_seen = results[n + 1].event.timestamp
    BY Zenon DEF Joins
  <2> QED BY <1>1, <1>7, <2>1, EventIsAppended, Zenon
<1>10. HoldsItsMatches(results, next, own, after)
  <2>1. after.matched_rules = before.matched_rules
          \o [k \in DOMAIN results[n + 1].matches |-> <<n + 1, k>>]
    BY Zenon DEF Joins, Takes
  <2> QED BY <1>1, <1>7, <1>8, <2>1, MatchesAreAppended, Zenon
<1>11. HoldsItsScore(results, next, own, after)
  <2>1. Takes(results, n + 1, before, after)
    BY Zenon DEF Joins
  <2> QED BY <1>1, <1>7, <2>1, ScoreIsAdded, Zenon
<1>12. DOMAIN after = IncidentFields
  BY Zenon DEF Joins
<1>13. \A pid \in DOMAIN new :
         /\ DOMAIN new[pid] = IncidentFields
         /\ HoldsItsEvents(results, next, pid, new[pid])
         /\ HoldsItsMatches(results, next, pid, new[pid])
         /\ HoldsItsScore(results, next, pid, new[pid])
  BY <1>5, <1>6, <1>9, <1>10, <1>11, <1>12, Zenon
<1> QED BY <1>1, <1>4, <1>13, Zenon DEF Open
-----------------------------------------------------------------------------
(* The sum over the incidents keeps up with the sum over the events.       *)
LEMMA OpenScoresAreIntegers ==
  ASSUME NEW results, NEW n, NEW open, Open(results, n, open)
  PROVE  \A pid \in DOMAIN open :
           Scores(open)[pid] = open[pid].total_risk_score /\ Scores(open)[pid] \in Int
BY Zenon DEF Open, HoldsItsScore, Scores

LEMMA BalancedAfterClean ==
  ASSUME NEW results, NEW len \in Nat, NEW p, Adequate(results, len, p),
         NEW n \in Nat, n + 1 <= len, results[n + 1].matches = <<>>,
         NEW open, Balanced(results, n, open)
  PROVE  Balanced(results, n + 1, open)
<1>1. PICK next : next = n + 1 /\ next \in 1..len
  OBVIOUS
<1>2. results[next].total_risk_score = Wrap(SumUpTo(MatchPoints(<<>>), Len(<<>>)))
  BY <1>1, Zenon DEF Adequate, AddsUp
<1>3. Len(<<>>) = 0
  OBVIOUS
<1>4. results[next].total_risk_score = Wrap(0)
  BY <1>2, <1>3, SumUpToZero, Zenon
<1>5. Wrap(0) = 0
  <2>1. 0 \in -(IntMax + 1)..IntMax
    BY IntMaxIsNatural
  <2> QED BY <2>1, WrapOfSmall
<1>6. PICK T : T = Totals(results)
  OBVIOUS
<1>7. \A i \in 1..len : T[i] \in Int
  BY <1>6, TotalsAreIntegers
<1>8. T[next] = 0
  BY <1>1, <1>4, <1>5, <1>6, TotalsAreIntegers
<1>9. \A i \in 1..(n + 1) : T[i] \in Int
  BY <1>1, <1>7
<1>10. SumUpTo(T, n + 1) = SumUpTo(T, n) + T[n + 1] /\ SumUpTo(T, n) \in Int
  BY <1>9, SumUpToNext, SumUpToIsInteger
<1>11. SumUpTo(T, next) = SumUpTo(T, n)
  BY <1>1, <1>8, <1>10
<1> QED BY <1>1, <1>6, <1>11, Zenon DEF Balanced

LEMMA BalancedAfterMatch ==
  ASSUME NEW results, NEW len \in Nat, NEW p, Adequate(results, len, p),
         NEW n \in Nat, n + 1 <= len,
         NEW open, Open(results, n, open), Balanced(results, n, open),
         NEW own, NEW before, NEW after,
         StartsFrom(open, own, before, results[n + 1].event),
         Joins(results, n + 1, before, after),
         NEW new, Replaces(new, open, own, after)
  PROVE  Balanced(results, n + 1, new)
<1>0. /\ IF own \in DOMAIN open THEN before = open[own] ELSE before.total_risk_score = 0
      /\ Takes(results, n + 1, before, after)
      /\ new = [q \in DOMAIN open \union {own} |-> IF q = own THEN after ELSE open[q]]
  BY Zenon DEF StartsFrom, Joins, Fresh, Replaces
<1>1. PICK next : next = n + 1 /\ next \in 1..len
  OBVIOUS
<1>2. PICK S, A, B : S = DOMAIN open /\ A = Scores(open) /\ B = Scores(new)
  OBVIOUS
<1>3. PICK t \in Int : t = results[next].total_risk_score /\ t = Totals(results)[next]
  BY <1>1, TotalsAreIntegers
<1>4. PICK u \in Int : u = SumUpTo(Totals(results), n)
                       /\ SumUpTo(Totals(results), next) = u + t
  <2>1. PICK T : T = Totals(results)
    OBVIOUS
  <2>2. \A i \in 1..len : T[i] \in Int
    BY <2>1, TotalsAreIntegers
  <2>3. \A i \in 1..(n + 1) : T[i] \in Int
    BY <1>1, <2>2
  <2>4. SumUpTo(T, n + 1) = SumUpTo(T, n) + T[n + 1] /\ SumUpTo(T, n) \in Int
    BY <2>3, SumUpToNext, SumUpToIsInteger
  <2> QED BY <1>1, <1>3, <2>1, <2>4, Zenon
<1>5. IsFiniteSet(S) /\ Wrap(SumFunctionOnSet(A, S)) = Wrap(u)
  BY <1>2, <1>4, Zenon DEF Balanced
<1>6. PICK R : R = S \ {own} /\ IsFiniteSet(R)
  BY <1>5, FS_RemoveElement
<1>7. \A q \in S : A[q] = open[q].total_risk_score /\ A[q] \in Int
  BY <1>2, OpenScoresAreIntegers
<1>8. PICK c \in Int : c = SumFunctionOnSet(A, R)
  <2>1. \A q \in R : A[q] \in Int
    BY <1>6, <1>7
  <2> QED BY <1>6, <2>1, SumIsInteger
<1>9. PICK b \in Int : b = before.total_risk_score /\ Wrap(b + c) = Wrap(u)
  <2>1. CASE own \in S
    <3>1. before.total_risk_score = A[own] /\ A[own] \in Int
      BY <1>0, <1>2, <1>7, <2>1, Zenon
    <3>2. SumFunctionOnSet(A, S) = A[own] + SumFunctionOnSet(A, S \ {own})
      BY <1>5, <1>7, <2>1, SumWithout
    <3> QED BY <1>5, <1>6, <1>8, <3>1, <3>2, Zenon
  <2>2. CASE own \notin S
    <3>1. R = S
      BY <1>6, <2>2
    <3>2. before.total_risk_score = 0
      BY <1>0, <1>2, <2>2, Zenon
    <3>3. 0 + c = c /\ 0 \in Int
      OBVIOUS
    <3> QED BY <1>5, <1>8, <3>1, <3>2, <3>3, Zenon
  <2> QED BY <2>1, <2>2
<1>10. DOMAIN new = R \union {own} /\ own \notin R
  BY <1>0, <1>2, <1>6
<1>11. /\ \A q \in R : B[q] = A[q]
       /\ B[own] = Wrap(b + t)
  <2>1. ASSUME NEW q \in R PROVE B[q] = A[q]
    <3>1. q \in S /\ q # own /\ q \in DOMAIN new /\ q \in DOMAIN open \union {own}
      BY <1>2, <1>6, <1>10
    <3>2. new[q] = open[q]
      BY <1>0, <3>1, Zenon
    <3> QED BY <1>2, <3>1, <3>2, Zenon DEF Scores
  <2>2. B[own] = Wrap(b + t)
    <3>1. own \in DOMAIN new /\ new[own] = after
      BY <1>0, <1>10, Zenon
    <3>2. after.total_risk_score = Wrap(b + t)
      BY <1>0, <1>1, <1>3, <1>9, Zenon DEF Takes
    <3> QED BY <1>2, <3>1, <3>2, Zenon DEF Scores
  <2> QED BY <2>1, <2>2
<1>12. Wrap(b + t) \in Int
  <2>1. PICK x \in Int : x = b + t
    OBVIOUS
  <2>2. Wrap(x) \in Int
    BY WrapsAround, IntMaxIsNatural
  <2> QED BY <2>1, <2>2, Zenon
<1>13. SumFunctionOnSet(B, R \union {own}) = c + Wrap(b + t)
  <2>1. \A q \in R : A[q] \in Int
    BY <1>6, <1>7
  <2>2. SumFunctionOnSet(B, R) = SumFunctionOnSet(A, R)
    BY <1>6, <1>11, <2>1, SumsAgree
  <2>3. \A q \in R \union {own} : B[q] \in Int
    BY <1>11, <1>12, <2>1
  <2>4. SumFunctionOnSet(B, R \union {own}) = SumFunctionOnSet(B, R) + B[own]
    BY <1>6, <1>10, <2>3, SumAdded
  <2> QED BY <1>8, <1>11, <2>2, <2>4, Zenon
<1>14. Wrap(c + Wrap(b + t)) = Wrap(u + t)
  <2>1. PICK w \in Int : w = Wrap(b + t)
    BY <1>12
  <2>2. PICK x \in Int : x = b + t
    OBVIOUS
  <2>3. Wrap(Wrap(x) + c) = Wrap(x + c)
    BY WrapOfSum
  <2>4. PICK y \in Int : y = b + c
    OBVIOUS
  <2>5. Wrap(Wrap(y) + t) = Wrap(y + t)
    BY WrapOfSum
  <2>6. Wrap(Wrap(u) + t) = Wrap(u + t)
    BY WrapOfSum
  <2>7. c + w = w + c /\ x + c = y + t
    BY <2>1, <2>2, <2>4
  <2>8. Wrap(y) = Wrap(u) /\ w = Wrap(x)
    BY <1>9, <2>1, <2>2, <2>4, Zenon
  <2> QED BY <2>1, <2>3, <2>5, <2>6, <2>7, <2>8, Zenon
<1>15. IsFiniteSet(DOMAIN new)
  BY <1>6, <1>10, FS_AddElement
<1> QED BY <1>1, <1>2, <1>4, <1>10, <1>13, <1>14, <1>15, Zenon DEF Balanced
-----------------------------------------------------------------------------
(* The loaded inputs, and the results of the whole file.                   *)
LEMMA ResultsAreAdequate ==
  ASSUME policy \in Policies, events \in EventFiles
  PROVE  /\ Len(events) \in Nat
         /\ Adequate(Results, Len(events), policy)
         /\ \A i \in 1..Len(events) : Results[i] = Evaluate(policy, events[i])
         /\ \A i \in 1..Len(events) : Results[i].event = events[i]
<1>1. events \in Seq(Range(events)) /\ \A i \in DOMAIN events : events[i].pid \in Int
  BY InputsAreTyped, Zenon
<1>2. PICK len : len = Len(events) /\ len \in Nat /\ DOMAIN events = 1..len
  BY <1>1, LenProperties
<1>3. PICK R : R = Results
  OBVIOUS
<1>4. R = [i \in 1..len |-> Evaluate(policy, events[i])]
  BY <1>2, <1>3, Zenon DEF Results
<1>5. DOMAIN R = 1..len /\ \A i \in 1..len : R[i] = Evaluate(policy, events[i])
  BY <1>4, Zenon
<1>6. ASSUME NEW i \in 1..len
      PROVE  AddsUp(R[i], policy) /\ R[i].event = events[i] /\ R[i].event.pid \in Int
  <2>1. AddsUp(Evaluate(policy, events[i]), policy) /\ Evaluate(policy, events[i]).event = events[i]
    BY PoliciesAreTyped, EvaluationAddsUp, Zenon
  <2> QED BY <1>1, <1>2, <1>5, <2>1, Zenon
<1> QED BY <1>2, <1>3, <1>5, <1>6, Zenon DEF Adequate

LEMMA OpenPidsAreIntegers ==
  ASSUME NEW results, NEW len \in Nat, NEW p, Adequate(results, len, p), NEW n \in 0..len,
         NEW open, Open(results, n, open), NEW pid \in DOMAIN open
  PROVE  pid \in Int /\ open[pid].pid = pid /\ DOMAIN open[pid] = IncidentFields
<1>1. pid \in PidsOf(First(results, n))
  BY Zenon DEF Open
<1>2. PICK i \in 1..n : results[i].event.pid = pid
  BY <1>1, FirstPids
<1>3. i \in 1..len
  OBVIOUS
<1>4. pid \in Int
  BY <1>2, <1>3, Zenon DEF Adequate
<1>5. open[pid].pid = pid /\ DOMAIN open[pid] = IncidentFields
  BY Zenon DEF Open, HoldsItsEvents
<1> QED BY <1>4, <1>5

LEMMA FirstAppended ==
  ASSUME NEW results, NEW n \in Nat
  PROVE  /\ First(results, n) \in Seq(Range(First(results, n))) /\ Len(First(results, n)) = n
         /\ Append(First(results, n), results[n + 1]) = First(results, n + 1)
<1>1. PICK F : F = First(results, n)
  OBVIOUS
<1>2. F = [i \in 1..n |-> results[i]]
  BY <1>1, Zenon DEF First
<1>3. DOMAIN F = 1..n /\ F = [i \in 1..n |-> F[i]]
  BY <1>2
<1>4. F \in Seq(Range(F)) /\ Len(F) = n
  BY <1>3, SequenceOfItsRange
<1>5. Append(F, results[n + 1]) = [i \in 1..(n + 1) |-> results[i]]
  BY <1>2, <1>4
<1> QED BY <1>1, <1>4, <1>5, Zenon DEF First

(* One more incident is numbered.                                          *)
LEMMA NumberedNext ==
  ASSUME NEW thresholds, NEW open, NEW done, Numbered(thresholds, open, done),
         \A q \in DOMAIN open : /\ q \in Int /\ open[q].pid = q
                                /\ DOMAIN open[q] = IncidentFields,
         NEW ahead, ahead = DOMAIN open \ {done[k].pid : k \in DOMAIN done},
         NEW pid \in ahead, \A q \in ahead : pid <= q,
         NEW new, new = [open[pid] EXCEPT
                           !.incident_id = Len(done) + 1,
                           !.verdict = IncidentVerdict(thresholds, open[pid].total_risk_score)]
  PROVE  Numbered(thresholds, open, Append(done, new))
<1>1. PICK n \in Nat : n = Len(done) /\ DOMAIN done = 1..n
  <2>1. done \in Seq(Range(done))
    BY Zenon DEF Numbered
  <2> QED BY <2>1, LenProperties
<1>2. PICK after : after = Append(done, new)
  OBVIOUS
<1>3. /\ after \in Seq(Range(after)) /\ DOMAIN after = 1..(n + 1)
      /\ \A k \in 1..n : after[k] = done[k]
      /\ after[n + 1] = new
  <2>1. PICK S : S = Range(done) \union {new}
    OBVIOUS
  <2>2. done \in Seq(Range(done))
    BY Zenon DEF Numbered
  <2>3. Range(done) \subseteq S /\ new \in S
    BY <2>1
  <2>4. done \in Seq(S)
    BY <2>2, <2>3, SeqMonotonic
  <2>5. /\ after \in Seq(S) /\ Len(after) = n + 1
        /\ \A k \in 1..n : after[k] = done[k]
        /\ after[n + 1] = new
    BY <1>1, <1>2, <2>3, <2>4, AppendProperties
  <2>6. after \in Seq(Range(after)) /\ DOMAIN after = 1..Len(after)
    BY <2>5, SeqOfRange, LenProperties
  <2> QED BY <2>5, <2>6, Zenon
<1>4. pid \in DOMAIN open /\ \A k \in 1..n : done[k].pid # pid
  BY <1>1
<1>5. new.pid = pid
  <2>1. open[pid].pid = pid /\ DOMAIN open[pid] = IncidentFields
    BY <1>4
  <2> QED BY <2>1 DEF IncidentFields
<1>6. /\ \A k \in 1..n :
           /\ done[k].pid \in DOMAIN open
           /\ done[k] = [open[done[k].pid] EXCEPT
                           !.incident_id = k,
                           !.verdict = IncidentVerdict(thresholds, open[done[k].pid].total_risk_score)]
           /\ \A q \in DOMAIN open : q <= done[k].pid => \E j \in 1..k : done[j].pid = q
      /\ \A j, k \in 1..n : j < k => done[j].pid < done[k].pid
  BY <1>1, Zenon DEF Numbered
<1>7. \A k \in 1..n : done[k].pid < pid
  <2>1. ASSUME NEW k \in 1..n PROVE done[k].pid < pid
    <3>1. SUFFICES ASSUME pid <= done[k].pid PROVE FALSE
      <4>1. pid \in Int /\ done[k].pid \in Int
        BY <1>4, <1>6
      <4> QED BY <4>1
    <3>2. PICK j \in 1..k : done[j].pid = pid
      BY <1>4, <1>6, <3>1
    <3>3. j \in 1..n
      OBVIOUS
    <3> QED BY <1>4, <3>2, <3>3
  <2> QED BY <2>1
<1>8. n + 1 \in 1..(n + 1) /\ \A k : k \in 1..(n + 1) <=> k \in 1..n \/ k = n + 1
  OBVIOUS
<1>9. ASSUME NEW q \in DOMAIN open, q <= pid
      PROVE  \E j \in 1..(n + 1) : after[j].pid = q
  <2>1. CASE q = pid
    BY <1>3, <1>5, <1>8, <2>1
  <2>2. CASE q # pid
    <3>1. q \in Int /\ pid \in Int
      BY <1>4
    <3>2. q \notin ahead
      BY <1>9, <2>2, <3>1
    <3>3. PICK j \in 1..n : done[j].pid = q
      BY <1>1, <3>2
    <3> QED BY <1>3, <1>8, <3>3
  <2> QED BY <2>1, <2>2
<1>10. ASSUME NEW k \in 1..(n + 1)
       PROVE  /\ after[k].pid \in DOMAIN open
              /\ after[k] = [open[after[k].pid] EXCEPT
                               !.incident_id = k,
                               !.verdict = IncidentVerdict(thresholds,
                                                           open[after[k].pid].total_risk_score)]
              /\ \A q \in DOMAIN open : q <= after[k].pid => \E j \in 1..k : after[j].pid = q
  <2>1. CASE k \in 1..n
    <3>1. \A j \in 1..k : j \in 1..n
      BY <2>1
    <3>2. after[k] = done[k] /\ \A j \in 1..k : after[j] = done[j]
      BY <1>3, <2>1, <3>1, Zenon
    <3>3. PICK d : d = done[k] /\ d = after[k]
      BY <3>2, Zenon
    <3>4. /\ d.pid \in DOMAIN open
          /\ d = [open[d.pid] EXCEPT
                    !.incident_id = k,
                    !.verdict = IncidentVerdict(thresholds, open[d.pid].total_risk_score)]
      BY <1>6, <2>1, <3>3, Zenon
    <3>5. \A q \in DOMAIN open : q <= d.pid => \E j \in 1..k : done[j].pid = q
      BY <1>6, <2>1, <3>3, Zenon
    <3>6. \A q \in DOMAIN open : q <= d.pid => \E j \in 1..k : after[j].pid = q
      BY <3>2, <3>5, Zenon
    <3> QED BY <3>3, <3>4, <3>6, Zenon
  <2>2. CASE k = n + 1
    <3>1. after[k] = new /\ k = Len(done) + 1
      BY <1>1, <1>3, <2>2, Zenon
    <3>2. after[k].pid = pid
      BY <1>5, <3>1, Zenon
    <3> QED BY <1>4, <1>9, <2>2, <3>1, <3>2, Zenon
  <2> QED BY <1>8, <2>1, <2>2
<1>11. ASSUME NEW j \in 1..(n + 1), NEW k \in 1..(n + 1), j < k
       PROVE  after[j].pid < after[k].pid
  <2>1. j \in 1..n /\ after[j] = done[j]
    <3>1. j \in 1..n
      BY <1>11
    <3> QED BY <1>3, <3>1
  <2>2. CASE k \in 1..n
    BY <1>3, <1>6, <1>11, <2>1, <2>2, Zenon
  <2>3. CASE k = n + 1
    BY <1>3, <1>5, <1>7, <2>1, <2>3, Zenon
  <2> QED BY <1>8, <2>2, <2>3
<1>12. \A k \in DOMAIN after :
         /\ after[k].pid \in DOMAIN open
         /\ after[k] = [open[after[k].pid] EXCEPT
                          !.incident_id = k,
                          !.verdict = IncidentVerdict(thresholds,
                                                      open[after[k].pid].total_risk_score)]
         /\ \A q \in DOMAIN open : q <= after[k].pid => \E j \in 1..k : after[j].pid = q
  BY <1>3, <1>10, Zenon
<1>13. \A j, k \in DOMAIN after : j < k => after[j].pid < after[k].pid
  BY <1>3, <1>11, Zenon
<1>14. after \in Seq(Range(after))
  BY <1>3
<1>15. Numbered(thresholds, open, after)
  BY <1>12, <1>13, <1>14, Zenon DEF Numbered
<1> QED BY <1>2, <1>15, Zenon
-----------------------------------------------------------------------------
(* The invariant holds when a run starts (main.cpp:230-232).               *)
THEOREM CorrelatorInvInit == Init => CorrelatorInv
<1> SUFFICES ASSUME Init PROVE CorrelatorInv
  OBVIOUS
<1>1. /\ policy \in Policies /\ events \in EventFiles /\ evaluated = <<>> /\ aggregate = 0
      /\ folded = 0 /\ by_pid = <<>> /\ incidents = <<>>
  BY DEF Init
<1>2. Len(events) \in Nat
  BY <1>1, ResultsAreAdequate
<1>3. PICK R, e : R = Results /\ e = <<>> /\ Len(e) = 0 /\ DOMAIN e = {} /\ e \in Seq(Range(e))
  <2>1. <<>> \in Seq(Range(<<>>))
    BY EmptySeq
  <2>2. Len(<<>>) = 0 /\ DOMAIN <<>> = {}
    OBVIOUS
  <2> QED BY <2>1, <2>2, Zenon
<1>4. evaluated = First(R, 0)
  BY <1>1 DEF First
<1>5. SumUpTo(Totals(R), 0) = 0 /\ Wrap(0) = 0
  <2>1. 0 \in -(IntMax + 1)..IntMax
    BY IntMaxIsNatural
  <2> QED BY <2>1, SumUpToZero, WrapOfSmall
<1>6. Open(R, 0, e)
  <2>1. \A pid : pid \notin PidsOf(First(R, 0))
    BY FirstPids
  <2> QED BY <1>3, <2>1 DEF Open
<1>7. Balanced(R, 0, e)
  <2>1. IsFiniteSet(DOMAIN e)
    BY <1>3, FS_EmptySet
  <2>2. SumFunctionOnSet(Scores(e), DOMAIN e) = 0
    BY <1>3, SumEmpty, Zenon
  <2> QED BY <1>5, <2>1, <2>2, Zenon DEF Balanced
<1>8. Numbered(policy.risk_thresholds, e, e)
  BY <1>3, Zenon DEF Numbered
<1>9. Len(evaluated) = 0 /\ 0 \in 0..Len(events) /\ 0 \in 0..0 /\ ~(0 > 0)
  BY <1>1, <1>2
<1>10. \E n \in 0..Len(events) : Len(evaluated) = n /\ evaluated = First(Results, n)
  BY <1>3, <1>4, <1>9, Zenon
<1>11. aggregate = Wrap(SumUpTo(Totals(Results), Len(evaluated)))
  BY <1>1, <1>3, <1>5, <1>9, Zenon
<1> QED BY <1>1, <1>3, <1>6, <1>7, <1>8, <1>9, <1>10, <1>11, Zenon DEF CorrelatorInv

(* The rest of a run does not touch what was loaded.                       *)
LEMMA InputsStay ==
  ASSUME [Next]_vars
  PROVE  policy' = policy /\ events' = events /\ Results' = Results
<1>1. policy' = policy /\ events' = events
  BY DEF Next, vars, EvaluateNext, SkipClean, JoinIncident, Folding, NumberIncident, Return
<1>2. Results' = Results
  BY <1>1, Zenon DEF Results
<1> QED BY <1>1, <1>2

(* What the invariant says of a run of which some results are evaluated.   *)
LEMMA InvariantFacts ==
  ASSUME CorrelatorInv
  PROVE  /\ Len(events) \in Nat /\ Len(evaluated) \in 0..Len(events)
         /\ evaluated = First(Results, Len(evaluated))
         /\ \A i \in 1..Len(evaluated) : evaluated[i] = Results[i]
         /\ folded \in 0..Len(evaluated)
         /\ Adequate(Results, Len(events), policy)
<1>1. policy \in Policies /\ events \in EventFiles
  BY Zenon DEF CorrelatorInv
<1>2. Len(events) \in Nat /\ Adequate(Results, Len(events), policy)
  BY <1>1, ResultsAreAdequate
<1>3. PICK n \in 0..Len(events) : Len(evaluated) = n /\ evaluated = First(Results, n)
  BY Zenon DEF CorrelatorInv
<1>4. \A i \in 1..n : evaluated[i] = Results[i]
  BY <1>3, FirstResults
<1> QED BY <1>2, <1>3, <1>4, Zenon DEF CorrelatorInv

LEMMA EvaluateNextKeepsInv ==
  ASSUME CorrelatorInv, EvaluateNext
  PROVE  CorrelatorInv'
<1>1. policy' = policy /\ events' = events /\ Results' = Results
  BY InputsStay DEF Next
<1>2. PICK n : n = Len(evaluated) /\ n \in Nat /\ n < Len(events) /\ n + 1 \in 1..Len(events)
               /\ n + 1 \in 0..Len(events) /\ n # Len(events)
  BY InvariantFacts DEF EvaluateNext
<1>3. PICK R, r : R = Results /\ r = R[n + 1]
  OBVIOUS
<1>4. r = Evaluate(policy, events[n + 1])
  <2>1. policy \in Policies /\ events \in EventFiles
    BY Zenon DEF CorrelatorInv
  <2> QED BY <1>2, <1>3, <2>1, ResultsAreAdequate, Zenon
<1>5. evaluated' = First(R, n + 1) /\ Len(evaluated') = n + 1
  <2>1. evaluated = First(R, n) /\ evaluated' = Append(evaluated, r)
    BY <1>2, <1>3, <1>4, InvariantFacts, Zenon DEF EvaluateNext
  <2>2. Append(First(R, n), R[n + 1]) = First(R, n + 1)
    BY <1>2, FirstAppended
  <2>3. PICK m \in Nat : m = n + 1
    BY <1>2
  <2>4. Len(First(R, m)) = m
    BY FirstAppended
  <2> QED BY <1>3, <2>1, <2>2, <2>3, <2>4, Zenon
<1>6. aggregate' = Wrap(SumUpTo(Totals(R), n + 1))
  <2>1. aggregate' = Wrap(aggregate + r.total_risk_score)
    BY <1>2, <1>4, Zenon DEF EvaluateNext
  <2>2. aggregate = Wrap(SumUpTo(Totals(R), n))
    BY <1>2, <1>3, Zenon DEF CorrelatorInv
  <2>3. PICK len \in Nat : len = Len(events) /\ Adequate(R, len, policy)
    BY <1>3, InvariantFacts
  <2>4. PICK T : T = Totals(R)
    OBVIOUS
  <2>5. \A i \in 1..len : T[i] \in Int
    BY <2>3, <2>4, TotalsAreIntegers
  <2>6. T[n + 1] = r.total_risk_score
    BY <1>2, <1>3, <2>3, <2>4, TotalsAreIntegers
  <2>7. \A i \in 1..(n + 1) : T[i] \in Int
    BY <1>2, <2>3, <2>5
  <2>8. SumUpTo(T, n + 1) = SumUpTo(T, n) + T[n + 1] /\ SumUpTo(T, n) \in Int /\ T[n + 1] \in Int
    BY <1>2, <2>7, SumUpToNext, SumUpToIsInteger
  <2>9. Wrap(Wrap(SumUpTo(T, n)) + T[n + 1]) = Wrap(SumUpTo(T, n) + T[n + 1])
    BY <2>8, WrapOfSum
  <2> QED BY <2>1, <2>2, <2>4, <2>6, <2>8, <2>9, Zenon
<1>7. folded = 0
  <2>1. ~(folded > 0) /\ folded \in 0..n
    BY <1>2, Zenon DEF CorrelatorInv
  <2> QED BY <2>1
<1>8. /\ folded' = folded /\ by_pid' = by_pid /\ incidents' = incidents
  BY DEF EvaluateNext
<1>9. incidents = <<>>
  <2>1. incidents # <<>> => folded = Len(events)
    BY Zenon DEF CorrelatorInv
  <2> QED BY <1>2, <1>7, <2>1
<1>10. /\ Open(R, folded', by_pid') /\ Balanced(R, folded', by_pid')
       /\ Numbered(policy'.risk_thresholds, by_pid', incidents')
       /\ policy' \in Policies /\ events' \in EventFiles
  BY <1>1, <1>3, <1>8, Zenon DEF CorrelatorInv
<1>11. folded' \in 0..Len(evaluated') /\ ~(folded' > 0)
  BY <1>2, <1>5, <1>7, <1>8
<1>12. PICK m : m = n + 1 /\ m \in 0..Len(events')
  BY <1>1, <1>2
<1>13. /\ \E k \in 0..Len(events') : Len(evaluated') = k /\ evaluated' = First(Results', k)
       /\ aggregate' = Wrap(SumUpTo(Totals(Results'), Len(evaluated')))
  BY <1>1, <1>3, <1>5, <1>6, <1>12, Zenon
<1> QED BY <1>1, <1>3, <1>8, <1>9, <1>10, <1>11, <1>13, Zenon DEF CorrelatorInv

(* The two steps of the first loop of correlate, and the second loop.      *)
LEMMA FoldingFacts ==
  ASSUME CorrelatorInv, Folding
  PROVE  \E n \in Nat :
           /\ n = folded /\ folded' = n + 1 /\ n + 1 <= Len(events)
           /\ evaluated[n + 1] = Results[n + 1] /\ incidents = <<>>
           /\ Len(evaluated) = Len(events) /\ evaluated' = evaluated /\ aggregate' = aggregate
           /\ incidents' = incidents /\ policy' = policy /\ events' = events
<1>1. /\ Len(evaluated) = Len(events) /\ folded < Len(evaluated) /\ folded' = folded + 1
      /\ UNCHANGED <<policy, events, evaluated, aggregate, incidents>>
  BY DEF Folding
<1>2. PICK n \in Nat : n = folded /\ n + 1 <= Len(events) /\ n + 1 \in 1..Len(evaluated)
                       /\ n # Len(events)
  BY <1>1, InvariantFacts
<1>3. evaluated[n + 1] = Results[n + 1]
  BY <1>2, InvariantFacts, Zenon
<1>4. incidents = <<>>
  BY <1>2, Zenon DEF CorrelatorInv
<1> QED BY <1>1, <1>2, <1>3, <1>4

LEMMA FoldingKeepsInv ==
  ASSUME CorrelatorInv, Folding,
         Open(Results, folded + 1, by_pid'), Balanced(Results, folded + 1, by_pid')
  PROVE  CorrelatorInv'
<1>1. PICK n \in Nat :
           /\ n = folded /\ folded' = n + 1 /\ n + 1 <= Len(events) /\ incidents = <<>>
           /\ Len(evaluated) = Len(events) /\ evaluated' = evaluated /\ aggregate' = aggregate
           /\ incidents' = incidents /\ policy' = policy /\ events' = events
  BY FoldingFacts, Zenon
<1>2. Results' = Results
  BY <1>1, Zenon DEF Results
<1>3. Numbered(policy'.risk_thresholds, by_pid', incidents')
  <2>1. PICK e : e = <<>>
    OBVIOUS
  <2>2. e \in Seq(Range(e)) /\ DOMAIN e = {}
    <3>1. <<>> \in Seq(Range(<<>>))
      BY EmptySeq
    <3>2. DOMAIN <<>> = {}
      OBVIOUS
    <3> QED BY <2>1, <3>1, <3>2, Zenon
  <2>3. Numbered(policy'.risk_thresholds, by_pid', e)
    BY <2>2, Zenon DEF Numbered
  <2> QED BY <1>1, <2>1, <2>3, Zenon
<1>4. folded' \in 0..Len(evaluated') /\ Len(evaluated') = Len(events')
  BY <1>1
<1>5. /\ \E k \in 0..Len(events') : Len(evaluated') = k /\ evaluated' = First(Results', k)
      /\ aggregate' = Wrap(SumUpTo(Totals(Results'), Len(evaluated')))
      /\ policy' \in Policies /\ events' \in EventFiles
  BY <1>1, <1>2, Zenon DEF CorrelatorInv
<1>6. Open(Results', folded', by_pid') /\ Balanced(Results', folded', by_pid')
  BY <1>1, <1>2, Zenon
<1>7. incidents' = <<>>
  BY <1>1
<1> QED BY <1>3, <1>4, <1>5, <1>6, <1>7, Zenon DEF CorrelatorInv

LEMMA SkipCleanKeepsInv ==
  ASSUME CorrelatorInv, SkipClean
  PROVE  CorrelatorInv'
<1>1. PICK n \in Nat :
           n = folded /\ n + 1 <= Len(events) /\ evaluated[n + 1] = Results[n + 1]
  BY FoldingFacts, Zenon DEF SkipClean
<1>2. Results[n + 1].matches = <<>> /\ by_pid' = by_pid
  BY <1>1, Zenon DEF SkipClean
<1>3. PICK R, B, len :
        len \in Nat /\ R = Results /\ B = by_pid /\ len = Len(events) /\ Adequate(R, len, policy)
  BY InvariantFacts
<1>4. Open(R, n, B) /\ Balanced(R, n, B)
  BY <1>1, <1>3, Zenon DEF CorrelatorInv
<1>5. R[n + 1].matches = <<>> /\ n + 1 <= len
  BY <1>1, <1>2, <1>3, Zenon
<1>6. Open(R, n + 1, B)
  BY <1>4, <1>5, OpenAfterClean
<1>7. Balanced(R, n + 1, B)
  BY <1>3, <1>4, <1>5, BalancedAfterClean
<1>8. Open(Results, folded + 1, by_pid') /\ Balanced(Results, folded + 1, by_pid')
  BY <1>1, <1>2, <1>3, <1>6, <1>7, Zenon
<1> QED BY <1>8, FoldingKeepsInv DEF SkipClean

LEMMA AddEventJoins ==
  ASSUME NEW incident, DOMAIN incident = IncidentFields, NEW i
  PROVE  Joins(evaluated, i, incident, AddEvent(incident, i))
<1>1. PICK after : after = AddEvent(incident, i)
  OBVIOUS
<1>2. PICK s, t, u, v : /\ s = evaluated[i].event.timestamp
                        /\ t = Append(incident.events, i)
                        /\ u = Wrap(incident.total_risk_score + evaluated[i].total_risk_score)
                        /\ v = incident.matched_rules
                                 \o [k \in DOMAIN evaluated[i].matches |-> <<i, k>>]
  OBVIOUS
<1>3. after = [incident EXCEPT !.last_seen = s, !.events = t,
                               !.total_risk_score = u, !.matched_rules = v]
  BY <1>1, <1>2, Zenon DEF AddEvent
<1>4. /\ DOMAIN after = IncidentFields
      /\ after.last_seen = s /\ after.events = t /\ after.total_risk_score = u
      /\ after.matched_rules = v /\ after.pid = incident.pid
      /\ after.process_path = incident.process_path /\ after.first_seen = incident.first_seen
  BY <1>3 DEF IncidentFields
<1> QED BY <1>1, <1>2, <1>4, Zenon DEF Joins, Takes

LEMMA OpenIncidentIsFresh ==
  ASSUME NEW event
  PROVE  Fresh(OpenIncident(event), event) /\ DOMAIN OpenIncident(event) = IncidentFields
BY DEF OpenIncident, Fresh, IncidentFields

LEMMA JoinIncidentKeepsInv ==
  ASSUME CorrelatorInv, JoinIncident
  PROVE  CorrelatorInv'
<1>1. PICK n \in Nat :
           n = folded /\ n + 1 <= Len(events) /\ evaluated[n + 1] = Results[n + 1]
  BY FoldingFacts, Zenon DEF JoinIncident
<1>2. PICK R, B, C, len :
        len \in Nat /\ R = Results /\ B = by_pid /\ C = by_pid' /\ len = Len(events) /\ Adequate(R, len, policy)
  BY InvariantFacts
<1>3. PICK next, own, before, after :
        /\ next = n + 1
        /\ own = evaluated[next].event.pid
        /\ before = IF own \in DOMAIN B THEN B[own] ELSE OpenIncident(evaluated[next].event)
        /\ after = AddEvent(before, next)
  OBVIOUS
<1>4. /\ R[n + 1].matches # <<>> /\ n + 1 <= len /\ own = R[n + 1].event.pid
      /\ Replaces(C, B, own, after)
  <2>1. evaluated[next].matches # <<>>
    BY <1>1, <1>3, Zenon DEF JoinIncident
  <2>2. by_pid' = [q \in DOMAIN B \union {own} |-> IF q = own THEN after ELSE B[q]]
    BY <1>1, <1>2, <1>3, Zenon DEF JoinIncident
  <2> QED BY <1>1, <1>2, <1>3, <2>1, <2>2, Zenon DEF Replaces
<1>5. Open(R, n, B) /\ Balanced(R, n, B)
  BY <1>1, <1>2, Zenon DEF CorrelatorInv
<1>6. /\ DOMAIN before = IncidentFields
      /\ StartsFrom(B, own, before, R[n + 1].event)
  <2>1. CASE own \in DOMAIN B
    BY <1>3, <1>5, <2>1, Zenon DEF Open, StartsFrom
  <2>2. CASE own \notin DOMAIN B
    <3>1. before = OpenIncident(R[n + 1].event)
      BY <1>1, <1>2, <1>3, <2>2, Zenon
    <3> QED BY <2>2, <3>1, OpenIncidentIsFresh, Zenon DEF StartsFrom
  <2> QED BY <2>1, <2>2
<1>7. Joins(R, n + 1, before, after)
  <2>1. Joins(evaluated, next, before, after)
    BY <1>3, <1>6, AddEventJoins, Zenon
  <2> QED BY <1>1, <1>2, <1>3, <2>1, Zenon DEF Joins, Takes
<1>8. Open(R, n + 1, C)
  BY <1>2, <1>4, <1>5, <1>6, <1>7, OpenAfterMatch
<1>9. Balanced(R, n + 1, C)
  BY <1>2, <1>4, <1>5, <1>6, <1>7, BalancedAfterMatch
<1>10. Open(Results, folded + 1, by_pid') /\ Balanced(Results, folded + 1, by_pid')
  BY <1>1, <1>2, <1>8, <1>9, Zenon
<1> QED BY <1>10, FoldingKeepsInv DEF JoinIncident

LEMMA NumberIncidentKeepsInv ==
  ASSUME CorrelatorInv, NumberIncident
  PROVE  CorrelatorInv'
<1>1. PICK R, B, D, th : R = Results /\ B = by_pid /\ D = incidents /\ th = policy.risk_thresholds
  OBVIOUS
<1>2. /\ Numbered(th, B, D) /\ Open(R, folded, B)
      /\ Adequate(R, Len(events), policy) /\ Len(events) \in Nat /\ folded \in 0..Len(events)
  <2>1. folded \in 0..Len(events)
    BY InvariantFacts
  <2> QED BY <1>1, <2>1, InvariantFacts, Zenon DEF CorrelatorInv
<1>3. PICK ahead, pid, new :
        /\ ahead = DOMAIN B \ {D[k].pid : k \in DOMAIN D}
        /\ pid \in ahead /\ \A q \in ahead : pid <= q
        /\ new = [B[pid] EXCEPT
                    !.incident_id = Len(D) + 1,
                    !.verdict = IncidentVerdict(th, B[pid].total_risk_score)]
        /\ incidents' = Append(D, new)
  BY <1>1, Zenon DEF NumberIncident, NextPid, Ahead
<1>4. \A q \in DOMAIN B : q \in Int /\ B[q].pid = q /\ DOMAIN B[q] = IncidentFields
  BY <1>2, OpenPidsAreIntegers
<1>5. Numbered(th, B, incidents')
  BY <1>2, <1>3, <1>4, NumberedNext, Zenon
<1>6. /\ folded = Len(events)
      /\ policy' = policy /\ events' = events /\ evaluated' = evaluated
      /\ aggregate' = aggregate /\ folded' = folded /\ by_pid' = by_pid
  BY DEF NumberIncident
<1>7. Results' = Results
  BY <1>6, Zenon DEF Results
<1> QED BY <1>1, <1>5, <1>6, <1>7, Zenon DEF CorrelatorInv

(* Every step of a run keeps the invariant.                                *)
THEOREM CorrelatorInvNext == CorrelatorInv /\ [Next]_vars => CorrelatorInv'
<1> SUFFICES ASSUME CorrelatorInv, [Next]_vars PROVE CorrelatorInv'
  OBVIOUS
<1>1. CASE EvaluateNext
  BY <1>1, EvaluateNextKeepsInv
<1>2. CASE SkipClean
  BY <1>2, SkipCleanKeepsInv
<1>3. CASE JoinIncident
  BY <1>3, JoinIncidentKeepsInv
<1>4. CASE NumberIncident
  BY <1>4, NumberIncidentKeepsInv
<1>5. CASE UNCHANGED vars
  <2>1. /\ policy' = policy /\ events' = events /\ evaluated' = evaluated
        /\ aggregate' = aggregate /\ folded' = folded /\ by_pid' = by_pid
        /\ incidents' = incidents
    BY <1>5 DEF vars
  <2>2. Results' = Results
    BY <2>1, Zenon DEF Results
  <2> QED BY <2>1, <2>2, Zenon DEF CorrelatorInv
<1> QED BY <1>1, <1>2, <1>3, <1>4, <1>5 DEF Next, Return

(* So it holds in every state of every run.                                *)
THEOREM CorrelatorInvariant == Spec => []CorrelatorInv
BY CorrelatorInvInit, CorrelatorInvNext, PTL DEF Spec
-----------------------------------------------------------------------------
(* What the properties say, in terms of the first results.                 *)
LEMMA ConsumedIsFirst ==
  ASSUME CorrelatorInv
  PROVE  Consumed = First(Results, folded)
<1>1. PICK n, k, e : n = Len(evaluated) /\ k = folded /\ n \in Nat /\ k \in 0..n /\ e = evaluated
  BY InvariantFacts
<1>2. e = First(Results, n)
  BY <1>1, InvariantFacts, Zenon
<1>3. e \in Seq(Range(e))
  BY <1>1, <1>2, FirstAppended
<1>4. \A i \in 1..k : i \in 1..n /\ e[i] = Results[i]
  BY <1>1, InvariantFacts
<1>5. SubSeq(e, 1, k) = [i \in 1..k |-> e[i]]
  BY <1>1, <1>3
<1>6. SubSeq(e, 1, k) = [i \in 1..k |-> Results[i]]
  BY <1>4, <1>5
<1> QED BY <1>1, <1>6, Zenon DEF Consumed, First

(* The first loop of correlate groups exactly (Correlator.cpp:17-34).      *)
LEMMA GroupingFollows ==
  ASSUME CorrelatorInv
  PROVE  GroupingIsExact
<1>1. PICK F : F = First(Results, folded) /\ F = Consumed
  BY ConsumedIsFirst
<1>2. Open(Results, folded, by_pid)
  BY Zenon DEF CorrelatorInv
<1>3. DOMAIN by_pid = PidsOf(Consumed)
  BY <1>1, <1>2, Zenon DEF Open
<1>4. ASSUME NEW pid \in DOMAIN by_pid
      PROVE  LET own == by_pid[pid].events
             IN /\ by_pid[pid].pid = pid
                /\ Range(own) = EventsOf(Consumed, pid)
                /\ Increasing(own, <)
                /\ by_pid[pid].process_path = events[own[1]].process_path
                /\ by_pid[pid].first_seen = events[own[1]].timestamp
                /\ by_pid[pid].last_seen = events[own[Len(own)]].timestamp
  <2>1. PICK incident, own, n : incident = by_pid[pid] /\ own = incident.events /\ n = folded
    OBVIOUS
  <2>2. /\ own \in Seq(1..n) /\ Len(own) > 0
        /\ Range(own) = EventsOf(F, pid)
        /\ \A j \in 1..(Len(own) - 1) : own[j] < own[j + 1]
        /\ incident.pid = pid
        /\ incident.process_path = Results[own[1]].event.process_path
        /\ incident.first_seen = Results[own[1]].event.timestamp
        /\ incident.last_seen = Results[own[Len(own)]].event.timestamp
    BY <1>1, <1>2, <2>1, Zenon DEF Open, HoldsItsEvents
  <2>3. /\ own[1] \in 1..n /\ own[Len(own)] \in 1..n
    <3>1. Len(own) \in Nat /\ 1 \in 1..Len(own) /\ Len(own) \in 1..Len(own)
      BY <2>2, LenProperties
    <3> QED BY <2>2, <3>1, ElementOfSeq
  <2>4. \A i \in 1..n : Results[i].event = events[i]
    <3>1. \A i \in 1..n : i \in 1..Len(events)
      BY <2>1, InvariantFacts
    <3>2. policy \in Policies /\ events \in EventFiles
      BY Zenon DEF CorrelatorInv
    <3> QED BY <3>1, <3>2, ResultsAreAdequate, Zenon
  <2>5. /\ incident.process_path = events[own[1]].process_path
        /\ incident.first_seen = events[own[1]].timestamp
        /\ incident.last_seen = events[own[Len(own)]].timestamp
    BY <2>2, <2>3, <2>4, Zenon
  <2>6. Increasing(own, <)
    BY <2>2, Zenon DEF Increasing
  <2> QED BY <1>1, <2>1, <2>2, <2>5, <2>6, Zenon
<1> QED BY <1>3, <1>4, Zenon DEF GroupingIsExact

(* The points that ScoreIsExplained adds up are those of the matches.      *)
LEMMA PointsOfIncident ==
  ASSUME CorrelatorInv, NEW pid \in DOMAIN by_pid, NEW incident,
         incident.matched_rules = by_pid[pid].matched_rules
  PROVE  /\ PointsOf(incident)
              = SumFunctionOnSet(Points(Results), EventsOf(First(Results, folded), pid))
         /\ by_pid[pid].total_risk_score = Wrap(PointsOf(incident))
<1>1. PICK R, n, rules, m : /\ R = Results /\ n = folded /\ rules = incident.matched_rules
                            /\ m = Len(rules)
  OBVIOUS
<1>2. Open(R, n, by_pid)
  BY <1>1, Zenon DEF CorrelatorInv
<1>3. /\ rules \in Seq((1..n) \X Nat)
      /\ SumUpTo(PointsAt(R, rules), m)
           = SumFunctionOnSet(Points(R), EventsOf(First(R, n), pid))
      /\ by_pid[pid].total_risk_score = Wrap(SumUpTo(PointsAt(R, rules), m))
  BY <1>1, <1>2, Zenon DEF Open, HoldsItsMatches, HoldsItsScore
<1>4. m \in Nat /\ DOMAIN rules = 1..m /\ \A k \in 1..m : rules[k] \in (1..n) \X Nat
  BY <1>1, <1>3, LenProperties, ElementOfSeq
<1>5. \A k \in 1..m : rules[k][1] \in 1..n
  BY <1>4
<1>6. \A i \in 1..n : evaluated[i] = R[i]
  BY <1>1, InvariantFacts
<1>7. \A k \in 1..m : evaluated[rules[k][1]] = R[rules[k][1]]
  BY <1>5, <1>6, Zenon
<1>8. PICK f, g : /\ f = [k \in DOMAIN rules |->
                            evaluated[rules[k][1]].matches[rules[k][2]].risk_points]
                  /\ g = PointsAt(R, rules)
  OBVIOUS
<1>9. f = g
  BY <1>4, <1>7, <1>8, Zenon DEF PointsAt
<1>10. DOMAIN f = 1..m
  BY <1>4, <1>8, Zenon
<1>11. PointsOf(incident) = SumUpTo(g, m)
  BY <1>1, <1>8, <1>9, <1>10, Zenon DEF PointsOf, SumFunction, SumUpTo
<1> QED BY <1>1, <1>3, <1>8, <1>11, Zenon

(* The score of an incident is what its matches add up to                  *)
(* (Correlator.cpp:35-39).                                                 *)
LEMMA ScoreFollows ==
  ASSUME CorrelatorInv
  PROVE  ScoreIsExplained
<1>1. PICK F, R, n : F = First(R, n) /\ F = Consumed /\ R = Results /\ n = folded
  BY ConsumedIsFirst
<1>2. Open(R, n, by_pid)
  BY <1>1, Zenon DEF CorrelatorInv
<1>3. n \in Nat /\ n <= Len(events) /\ Len(events) \in Nat /\ Adequate(R, Len(events), policy)
  BY <1>1, InvariantFacts
<1>4. ASSUME NEW pid \in DOMAIN by_pid
      PROVE  LET rules == by_pid[pid].matched_rules
             IN /\ Range(rules) = EvidenceOf(Consumed, pid)
                /\ Increasing(rules, Precedes)
                /\ by_pid[pid].total_risk_score = Wrap(ScoreOf(Consumed, pid))
                /\ by_pid[pid].total_risk_score = Wrap(PointsOf(by_pid[pid]))
  <2>1. PICK incident, rules : incident = by_pid[pid] /\ rules = incident.matched_rules
    OBVIOUS
  <2>2. /\ Range(rules) = EvidenceOf(F, pid)
        /\ \A j \in 1..(Len(rules) - 1) : Precedes(rules[j], rules[j + 1])
        /\ incident.total_risk_score = Wrap(SumFunctionOnSet(Totals(R), EventsOf(F, pid)))
    BY <1>1, <1>2, <2>1, Zenon DEF Open, HoldsItsMatches, HoldsItsScore
  <2>3. Increasing(rules, Precedes)
    BY <2>2, Zenon DEF Increasing
  <2>4. SumFunctionOnSet(Totals(R), EventsOf(F, pid)) = ScoreOf(F, pid)
    <3>1. PICK E, f, g : /\ E = EventsOf(F, pid) /\ f = Totals(R)
                         /\ g = [i \in DOMAIN F |-> F[i].total_risk_score]
      OBVIOUS
    <3>2. IsFiniteSet(E) /\ E \in SUBSET (1..n)
      BY <1>1, <1>3, <3>1, OwnEventsAreFinite
    <3>3. \A i \in E : i \in 1..n /\ i \in 1..Len(events)
      BY <1>3, <3>2
    <3>4. \A i \in 1..Len(events) : f[i] = R[i].total_risk_score /\ f[i] \in Int
      BY <1>3, <3>1, TotalsAreIntegers
    <3>5. DOMAIN F = 1..n /\ \A i \in 1..n : F[i] = R[i]
      BY <1>1, <1>3, FirstResults
    <3>6. \A i \in E : g[i] = f[i] /\ f[i] \in Int
      BY <3>1, <3>3, <3>4, <3>5, Zenon
    <3>7. SumFunctionOnSet(g, E) = SumFunctionOnSet(f, E)
      BY <3>2, <3>6, SumsAgree
    <3> QED BY <3>1, <3>7, Zenon DEF ScoreOf
  <2>5. by_pid[pid].total_risk_score = Wrap(PointsOf(by_pid[pid]))
    BY PointsOfIncident, Zenon
  <2> QED BY <1>1, <2>1, <2>2, <2>3, <2>4, <2>5, Zenon
<1> QED BY <1>4, Zenon DEF ScoreIsExplained
-----------------------------------------------------------------------------
(* A numbered incident is the open incident of its process, with a number  *)
(* and a verdict.                                                          *)
LEMMA NumberedIncidents ==
  ASSUME CorrelatorInv
  PROVE  /\ DOMAIN incidents = 1..Len(incidents) /\ Len(incidents) \in Nat
         /\ \A k \in DOMAIN incidents :
              LET pid == incidents[k].pid
              IN /\ pid \in DOMAIN by_pid
                 /\ incidents[k].incident_id = k
                 /\ incidents[k].verdict = IncidentVerdict(policy.risk_thresholds,
                                                           by_pid[pid].total_risk_score)
                 /\ incidents[k].events = by_pid[pid].events
                 /\ incidents[k].matched_rules = by_pid[pid].matched_rules
                 /\ incidents[k].total_risk_score = by_pid[pid].total_risk_score
<1>1. PICK B, D, th : B = by_pid /\ D = incidents /\ th = policy.risk_thresholds
  OBVIOUS
<1>2. Numbered(th, B, D) /\ Open(Results, folded, B)
  BY <1>1, Zenon DEF CorrelatorInv
<1>3. D \in Seq(Range(D))
  BY <1>2, Zenon DEF Numbered
<1>4. DOMAIN D = 1..Len(D) /\ Len(D) \in Nat
  BY <1>3, LenProperties
<1>5. ASSUME NEW k \in DOMAIN D
      PROVE  /\ D[k].pid \in DOMAIN B
             /\ D[k].incident_id = k
             /\ D[k].verdict = IncidentVerdict(th, B[D[k].pid].total_risk_score)
             /\ D[k].events = B[D[k].pid].events
             /\ D[k].matched_rules = B[D[k].pid].matched_rules
             /\ D[k].total_risk_score = B[D[k].pid].total_risk_score
  <2>1. PICK d, pid, b, v : /\ d = D[k] /\ pid = d.pid /\ b = B[pid]
                            /\ v = IncidentVerdict(th, b.total_risk_score)
    OBVIOUS
  <2>2. pid \in DOMAIN B /\ d = [b EXCEPT !.incident_id = k, !.verdict = v]
    BY <1>2, <2>1, Zenon DEF Numbered
  <2>3. DOMAIN b = IncidentFields
    BY <1>2, <2>1, <2>2, Zenon DEF Open
  <2>4. /\ d.incident_id = k /\ d.verdict = v /\ d.events = b.events
        /\ d.matched_rules = b.matched_rules /\ d.total_risk_score = b.total_risk_score
    BY <2>2, <2>3 DEF IncidentFields
  <2> QED BY <2>1, <2>2, <2>4, Zenon
<1> QED BY <1>1, <1>4, <1>5, Zenon

(* Once an incident is numbered every result is consumed.                  *)
LEMMA AllConsumed ==
  ASSUME CorrelatorInv, folded = Len(events)
  PROVE  /\ Len(evaluated) = Len(events)
         /\ evaluated = First(Results, folded)
         /\ DOMAIN by_pid = PidsOf(evaluated)
<1>1. Len(evaluated) = Len(events)
  BY InvariantFacts
<1>2. evaluated = First(Results, folded)
  BY <1>1, InvariantFacts, Zenon
<1>3. Open(Results, folded, by_pid)
  BY Zenon DEF CorrelatorInv
<1> QED BY <1>1, <1>2, <1>3, Zenon DEF Open

(* The incidents are numbered in ascending order of pid, and all of them   *)
(* are (Correlator.cpp:42-53).                                             *)
LEMMA NumberingFollows ==
  ASSUME CorrelatorInv
  PROVE  NumberingIsExact
<1>1. PICK B, D, n : B = by_pid /\ D = incidents /\ n = Len(incidents)
  OBVIOUS
<1>2. Numbered(policy.risk_thresholds, B, D)
  BY <1>1, Zenon DEF CorrelatorInv
<1>3. /\ n \in Nat /\ DOMAIN D = 1..n
      /\ \A k \in 1..n : D[k].pid \in DOMAIN B /\ D[k].incident_id = k
  BY <1>1, NumberedIncidents
<1>4. \A q \in DOMAIN B : q \in Int
  <2>1. folded \in 0..Len(events)
    BY InvariantFacts
  <2>2. Open(Results, folded, B)
    BY <1>1, Zenon DEF CorrelatorInv
  <2> QED BY <2>1, <2>2, InvariantFacts, OpenPidsAreIntegers
<1>5. \A j, k \in 1..n : j < k => D[j].pid < D[k].pid
  BY <1>2, <1>3, Zenon DEF Numbered
<1>6. \A k \in 1..n : \A q \in DOMAIN B : q <= D[k].pid => \E j \in 1..k : D[j].pid = q
  BY <1>2, <1>3, Zenon DEF Numbered
<1>7. \A j, k \in 1..n : D[j].pid = D[k].pid => j = k
  <2>1. ASSUME NEW j \in 1..n, NEW k \in 1..n, D[j].pid = D[k].pid PROVE j = k
    <3>1. D[j].pid \in Int /\ ~(D[j].pid < D[k].pid) /\ ~(D[k].pid < D[j].pid)
      BY <1>3, <1>4, <2>1
    <3> QED BY <1>5, <3>1
  <2> QED BY <2>1
<1>8. ASSUME NEW k \in DOMAIN incidents
      PROVE  incidents[k].incident_id = IncidentNumber(evaluated, incidents[k].pid)
  <2>1. incidents # <<>>
    BY <1>8
  <2>2. folded = Len(events)
    BY <2>1, Zenon DEF CorrelatorInv
  <2>3. PICK S : S = {q \in PidsOf(evaluated) : q <= D[k].pid}
    OBVIOUS
  <2>4. DOMAIN B = PidsOf(evaluated)
    BY <1>1, <2>2, AllConsumed
  <2>5. k \in 1..n /\ \A j \in 1..k : j \in 1..n
    BY <1>1, <1>3
  <2>6. \A q : q \in S <=> q \in DOMAIN B /\ q <= D[k].pid
    BY <2>3, <2>4
  <2>7. ASSUME NEW j \in 1..k PROVE D[j].pid \in S
    <3>1. D[j].pid \in DOMAIN B /\ D[j].pid \in Int /\ D[k].pid \in Int
      BY <1>3, <1>4, <2>5
    <3>2. CASE j = k
      BY <2>6, <3>1, <3>2
    <3>3. CASE j # k
      <4>1. j < k
        BY <2>5, <3>3
      <4>2. D[j].pid < D[k].pid
        BY <1>5, <2>5, <4>1
      <4> QED BY <2>6, <3>1, <4>2
    <3> QED BY <3>2, <3>3
  <2>8. \A q \in S : \E j \in 1..k : D[j].pid = q
    BY <1>6, <2>5, <2>6
  <2>9. PICK f : f = [j \in 1..k |-> D[j].pid]
    OBVIOUS
  <2>10. f \in Bijection(1..k, S)
    <3>1. f \in [1..k -> S]
      BY <2>7, <2>9
    <3>2. \A i, j \in 1..k : f[i] = f[j] => i = j
      BY <1>7, <2>5, <2>9
    <3>3. \A q \in S : \E j \in 1..k : f[j] = q
      BY <2>8, <2>9
    <3> QED BY <3>1, <3>2, <3>3, Fun_IsBij
  <2>11. Cardinality(S) = k
    <3>1. PICK K : K = 1..k /\ IsFiniteSet(K) /\ Cardinality(K) = k
      BY <2>5, FS_Interval
    <3>2. ExistsBijection(K, S)
      BY <2>10, <3>1, Zenon DEF ExistsBijection
    <3> QED BY <3>1, <3>2, FS_Bijection
  <2>12. incidents[k].incident_id = k
    BY <1>1, <1>3, <2>5, Zenon
  <2> QED BY <1>1, <2>3, <2>11, <2>12, Zenon DEF IncidentNumber
<1>9. ASSUME Returned
      PROVE  {incidents[k].pid : k \in DOMAIN incidents} = PidsOf(evaluated)
  <2>1. folded = Len(events) /\ n = Cardinality(DOMAIN B)
    BY <1>1, <1>9, Zenon DEF Returned
  <2>2. PICK N : N = {D[k].pid : k \in DOMAIN D}
    OBVIOUS
  <2>3. N \in SUBSET DOMAIN B
    BY <1>3, <2>2
  <2>4. IsFiniteSet(DOMAIN B)
    BY <1>1, Zenon DEF CorrelatorInv, Balanced
  <2>5. Cardinality(N) = n
    <3>1. PICK f : f = [j \in 1..n |-> D[j].pid]
      OBVIOUS
    <3>2. f \in Bijection(1..n, N)
      <4>1. f \in [1..n -> N]
        BY <1>3, <2>2, <3>1
      <4>2. \A i, j \in 1..n : f[i] = f[j] => i = j
        BY <1>7, <3>1
      <4>3. \A q \in N : \E j \in 1..n : f[j] = q
        BY <1>3, <2>2, <3>1
      <4> QED BY <4>1, <4>2, <4>3, Fun_IsBij
    <3>3. PICK K : K = 1..n /\ IsFiniteSet(K) /\ Cardinality(K) = n
      BY <1>3, FS_Interval
    <3>4. ExistsBijection(K, N)
      BY <3>2, <3>3, Zenon DEF ExistsBijection
    <3> QED BY <3>3, <3>4, FS_Bijection
  <2>6. N = DOMAIN B
    BY <2>1, <2>3, <2>4, <2>5, FS_Subset
  <2> QED BY <1>1, <2>1, <2>2, <2>6, AllConsumed, Zenon
<1>10. \A k \in DOMAIN incidents : incidents[k].incident_id = k
  BY <1>1, <1>3, Zenon
<1> QED BY <1>8, <1>9, <1>10, Zenon DEF NumberingIsExact
-----------------------------------------------------------------------------
(* The three sums agree once correlate has returned (main.cpp:243,         *)
(* Correlator.cpp:35).                                                     *)
LEMMA AggregateFollows ==
  ASSUME CorrelatorInv
  PROVE  AggregateMatchesIncidents
<1> SUFFICES ASSUME Returned
             PROVE  aggregate = Wrap(SumFunction(
                      [k \in DOMAIN incidents |-> incidents[k].total_risk_score]))
  BY Zenon DEF AggregateMatchesIncidents
<1>1. PICK B, D, n : B = by_pid /\ D = incidents /\ n = Len(incidents)
  OBVIOUS
<1>2. /\ n \in Nat /\ DOMAIN D = 1..n
      /\ \A k \in 1..n : D[k].pid \in DOMAIN B
      /\ \A k \in 1..n : D[k].total_risk_score = B[D[k].pid].total_risk_score
  BY <1>1, NumberedIncidents
<1>3. folded = Len(events)
  BY Zenon DEF Returned
<1>4. {D[k].pid : k \in DOMAIN D} = DOMAIN B
  <2>1. {incidents[k].pid : k \in DOMAIN incidents} = PidsOf(evaluated)
    BY NumberingFollows, Zenon DEF NumberingIsExact
  <2>2. DOMAIN by_pid = PidsOf(evaluated)
    BY <1>3, AllConsumed, Zenon
  <2> QED BY <1>1, <2>1, <2>2, Zenon
<1>5. aggregate = Wrap(SumFunctionOnSet(Scores(B), DOMAIN B))
  <2>1. aggregate = Wrap(SumUpTo(Totals(Results), Len(evaluated)))
    BY Zenon DEF CorrelatorInv
  <2>2. Balanced(Results, folded, B)
    BY <1>1, Zenon DEF CorrelatorInv
  <2> QED BY <1>3, <2>1, <2>2, AllConsumed, Zenon DEF Balanced
<1>6. Open(Results, folded, B)
  BY <1>1, Zenon DEF CorrelatorInv
<1>7. PICK f, g, r, K : /\ f = [k \in DOMAIN D |-> D[k].total_risk_score]
                        /\ g = Scores(B) /\ r = [k \in 1..n |-> D[k].pid]
                        /\ K = 1..n /\ IsFiniteSet(K)
  <2>1. IsFiniteSet(1..n)
    BY <1>2, FS_Interval
  <2> QED BY <2>1, Zenon
<1>8. \A k \in K : f[k] = g[r[k]] /\ f[k] \in Int
  <2>1. ASSUME NEW k \in K PROVE f[k] = g[r[k]] /\ f[k] \in Int
    <3>1. D[k].pid \in DOMAIN B /\ f[k] = B[D[k].pid].total_risk_score /\ r[k] = D[k].pid
      BY <1>2, <1>7, Zenon
    <3>2. \A pid \in DOMAIN B : g[pid] = B[pid].total_risk_score /\ g[pid] \in Int
      BY <1>6, <1>7, OpenScoresAreIntegers
    <3> QED BY <3>1, <3>2, Zenon
  <2> QED BY <2>1
<1>9. \A j, k \in K : r[j] = r[k] => j = k
  <2>1. \A j, k \in 1..n : j < k => D[j].pid < D[k].pid
    BY <1>1, <1>2, Zenon DEF CorrelatorInv, Numbered
  <2>2. \A q \in DOMAIN B : q \in Int
    <3>1. folded \in 0..Len(events)
      BY InvariantFacts
    <3> QED BY <1>6, <3>1, InvariantFacts, OpenPidsAreIntegers
  <2>3. ASSUME NEW j \in 1..n, NEW k \in 1..n, D[j].pid = D[k].pid PROVE j = k
    <3>1. D[j].pid \in Int /\ ~(D[j].pid < D[k].pid) /\ ~(D[k].pid < D[j].pid)
      BY <1>2, <2>2, <2>3
    <3> QED BY <2>1, <3>1
  <2> QED BY <1>7, <2>3
<1>10. {r[k] : k \in K} = DOMAIN B
  <2>1. \A k \in K : r[k] = D[k].pid
    BY <1>7
  <2>2. {r[k] : k \in K} = {D[k].pid : k \in K}
    BY <2>1
  <2> QED BY <1>2, <1>4, <1>7, <2>2, Zenon
<1>11. SumFunctionOnSet(g, DOMAIN B) = SumFunctionOnSet(f, K)
  <2>1. IsFiniteSet(K)
    BY <1>7
  <2>2. Renames(r, K, DOMAIN B, f, g)
    BY <1>8, <1>9, <1>10, Zenon DEF Renames
  <2> QED BY <2>1, <2>2, SumOfRenaming
<1>12. SumFunction(f) = SumFunctionOnSet(f, K)
  BY <1>2, <1>7, Zenon DEF SumFunction
<1> QED BY <1>1, <1>5, <1>7, <1>11, <1>12, Zenon

(* The cascades are monotone in the score, whatever the thresholds are.    *)
LEMMA SeverityValues ==
  /\ Severity("CLEAN") = 1 /\ Severity("LOW") = 2 /\ Severity("WARNING") = 3
  /\ Severity("HIGH") = 4 /\ Severity("CRITICAL") = 5
<1>1. /\ DOMAIN Verdicts = 1..5
      /\ Verdicts[1] = "CLEAN" /\ Verdicts[2] = "LOW" /\ Verdicts[3] = "WARNING"
      /\ Verdicts[4] = "HIGH" /\ Verdicts[5] = "CRITICAL"
  BY DEF Verdicts
<1>2. \A k \in DOMAIN Verdicts : k = 1 \/ k = 2 \/ k = 3 \/ k = 4 \/ k = 5
  BY <1>1
<1>3. 1 \in DOMAIN Verdicts /\ 2 \in DOMAIN Verdicts /\ 3 \in DOMAIN Verdicts
      /\ 4 \in DOMAIN Verdicts /\ 5 \in DOMAIN Verdicts
  BY <1>1
<1> HIDE DEF Verdicts
<1>4. Severity("CLEAN") = 1
  BY <1>1, <1>2, <1>3 DEF Severity
<1>5. Severity("LOW") = 2
  BY <1>1, <1>2, <1>3 DEF Severity
<1>6. Severity("WARNING") = 3
  BY <1>1, <1>2, <1>3 DEF Severity
<1>7. Severity("HIGH") = 4
  BY <1>1, <1>2, <1>3 DEF Severity
<1>8. Severity("CRITICAL") = 5
  BY <1>1, <1>2, <1>3 DEF Severity
<1> QED BY <1>4, <1>5, <1>6, <1>7, <1>8

LEMMA CascadesAreMonotone ==
  ASSUME NEW w \in Int, NEW h \in Int, NEW c \in Int, NEW th,
         th.warning = w, th.high = h, th.critical = c,
         NEW small \in Int, NEW large \in Int, small <= large
  PROVE  Severity(IncidentVerdict(th, large)) >= Severity(VerdictForScore(th, small))
BY SeverityValues DEF IncidentVerdict, VerdictForScore

(* Correlating never plays a behaviour down (Correlator.cpp:56-74).        *)
LEMMA VerdictFollows ==
  ASSUME CorrelatorInv
  PROVE  VerdictNotBelowItsEvents
<1> SUFFICES ASSUME \A r \in DOMAIN policy.rules : policy.rules[r].risk_points >= 0,
                    NEW k \in DOMAIN incidents, FitsInt(PointsOf(incidents[k])),
                    NEW i \in Range(incidents[k].events)
             PROVE  Severity(incidents[k].verdict) >= Severity(evaluated[i].verdict)
  BY Zenon DEF VerdictNotBelowItsEvents
<1>1. PICK pid, R, n, len :
        /\ pid = incidents[k].pid /\ R = Results /\ n = folded /\ len = Len(events)
  OBVIOUS
<1>2. /\ pid \in DOMAIN by_pid
      /\ incidents[k].verdict
           = IncidentVerdict(policy.risk_thresholds, by_pid[pid].total_risk_score)
      /\ incidents[k].events = by_pid[pid].events
      /\ incidents[k].matched_rules = by_pid[pid].matched_rules
  BY <1>1, NumberedIncidents, Zenon
<1>3. /\ n \in Nat /\ len \in Nat /\ n \in 0..len /\ n <= len /\ n \in 0..Len(evaluated)
      /\ Adequate(R, len, policy)
      /\ \A j \in 1..n : evaluated[j] = R[j] /\ j \in 1..len
  BY <1>1, InvariantFacts
<1>4. PICK E, P : E = EventsOf(First(R, n), pid) /\ P = Points(R)
  OBVIOUS
<1>5. /\ PointsOf(incidents[k]) = SumFunctionOnSet(P, E)
      /\ by_pid[pid].total_risk_score = Wrap(PointsOf(incidents[k]))
  BY <1>1, <1>2, <1>4, PointsOfIncident, Zenon
<1>6. i \in E /\ E \in SUBSET (1..n) /\ IsFiniteSet(E)
  <2>1. Open(R, n, by_pid)
    BY <1>1, Zenon DEF CorrelatorInv
  <2>2. Range(by_pid[pid].events) = E
    BY <1>2, <1>4, <2>1, Zenon DEF Open, HoldsItsEvents
  <2>3. i \in E
    BY <1>2, <2>2, Zenon
  <2> QED BY <1>3, <1>4, <2>3, OwnEventsAreFinite
<1>7. \A j \in E : P[j] \in Nat
  <2>1. ASSUME NEW j \in E PROVE P[j] \in Nat
    <3>1. j \in 1..len
      BY <1>3, <1>6
    <3>2. PICK M, m : M = R[j].matches /\ m = Len(M)
      OBVIOUS
    <3>3. M \in Seq(Range(M)) /\ \A q \in DOMAIN M :
            /\ M[q].risk_points \in Int
            /\ \E r \in DOMAIN policy.rules : M[q].risk_points = policy.rules[r].risk_points
      BY <1>3, <3>1, <3>2, Zenon DEF Adequate, AddsUp
    <3>4. m \in Nat /\ DOMAIN M = 1..m
      BY <3>2, <3>3, LenProperties
    <3>5. \A q \in 1..m : MatchPoints(M)[q] \in Nat
      <4>1. ASSUME NEW q \in 1..m PROVE MatchPoints(M)[q] \in Nat
        <5>1. MatchPoints(M)[q] = M[q].risk_points
          BY <3>4, Zenon DEF MatchPoints
        <5>2. PICK x : x = M[q].risk_points
          OBVIOUS
        <5>3. x \in Int /\ x >= 0
          BY <3>3, <3>4, <5>2, Zenon
        <5>4. x \in Nat
          BY <5>3
        <5> QED BY <5>1, <5>2, <5>4, Zenon
      <4> QED BY <4>1
    <3>6. SumUpTo(MatchPoints(M), m) \in Nat
      <4>1. PICK K : K = 1..m /\ IsFiniteSet(K)
        BY <3>4, FS_Interval
      <4>2. SumFunctionOnSet(MatchPoints(M), K) \in Nat
        BY <3>5, <4>1, SumOfNaturals
      <4> QED BY <4>1, <4>2, Zenon DEF SumUpTo
    <3> QED BY <1>3, <1>4, <3>1, <3>2, <3>6, Zenon DEF Adequate, Points
  <2> QED BY <2>1
<1>8. PICK large \in Nat : large = PointsOf(incidents[k]) /\ P[i] <= large /\ P[i] \in Nat
  <2>1. SumFunctionOnSet(P, E) \in Nat /\ P[i] <= SumFunctionOnSet(P, E)
    BY <1>6, <1>7, SumOfNaturals
  <2> QED BY <1>5, <1>6, <1>7, <2>1, Zenon
<1>9. by_pid[pid].total_risk_score = large /\ large <= IntMax
  <2>1. Wrap(large) = large
    BY <1>8, Zenon DEF FitsInt
  <2>2. Wrap(large) \in -(IntMax + 1)..IntMax
    BY WrapsAround
  <2> QED BY <1>5, <1>8, <2>1, <2>2, IntMaxIsNatural
<1>10. R[i].total_risk_score = P[i]
  <2>1. i \in 1..len
    BY <1>3, <1>6
  <2>2. R[i].total_risk_score = Wrap(P[i])
    BY <1>3, <1>4, <2>1, TotalsAreIntegers, Zenon
  <2>3. PICK w \in -(IntMax + 1)..IntMax : w = P[i]
    BY <1>8, <1>9, IntMaxIsNatural
  <2>4. Wrap(w) = w
    BY WrapOfSmall
  <2> QED BY <2>2, <2>3, <2>4, Zenon
<1>11. evaluated[i].verdict = VerdictForScore(policy.risk_thresholds, P[i])
  <2>1. policy \in Policies /\ events \in EventFiles
    BY Zenon DEF CorrelatorInv
  <2>2. i \in 1..n
    BY <1>6
  <2>3. evaluated[i] = R[i] /\ i \in 1..len
    BY <1>3, <2>2, Zenon
  <2>4. R[i] = Evaluate(policy, events[i])
    BY <1>1, <2>1, <2>3, ResultsAreAdequate, Zenon
  <2>5. R[i].verdict = VerdictForScore(policy.risk_thresholds, R[i].total_risk_score)
    <3>1. PICK e : e = events[i] /\ R[i] = Evaluate(policy, e)
      BY <2>4, Zenon
    <3>2. Evaluate(policy, e).verdict
            = VerdictForScore(policy.risk_thresholds, Evaluate(policy, e).total_risk_score)
      BY <2>1, PoliciesAreTyped, EvaluationAddsUp
    <3> QED BY <3>1, <3>2, Zenon
  <2> QED BY <1>10, <2>3, <2>5, Zenon
<1>12. PICK th : th = policy.risk_thresholds
  OBVIOUS
<1>13. th \in [warning : Int, high : Int, critical : Int]
  <2>1. policy \in Policies
    BY Zenon DEF CorrelatorInv
  <2> QED BY <1>12, <2>1, InputsAreTyped, Zenon
<1>14. Severity(IncidentVerdict(th, large)) >= Severity(VerdictForScore(th, P[i]))
  <2>1. PICK w \in Int, h \in Int, c \in Int : th.warning = w /\ th.high = h /\ th.critical = c
    BY <1>13
  <2>2. P[i] \in Int /\ large \in Int
    BY <1>8
  <2> QED BY <1>8, <2>1, <2>2, CascadesAreMonotone
<1> QED BY <1>2, <1>9, <1>11, <1>12, <1>14, Zenon
-----------------------------------------------------------------------------
(* A text without a NUL is stored as it is, any other as a prefix of it    *)
(* (AuditStore.cpp:177-188).                                               *)
LEMMA TextWithoutNul ==
  ASSUME NEW text, Nul \notin Range(text)
  PROVE  BoundText(text) = text
BY Zenon DEF BoundText, Range

LEMMA StoredTextIsPrefix ==
  ASSUME NEW text \in Seq(STRING)
  PROVE  \E n \in 0..Len(text) : BoundText(text) = SubSeq(text, 1, n)
<1>1. PICK nuls : nuls = {i \in DOMAIN text : text[i] = Nul}
  OBVIOUS
<1>2. nuls \subseteq 1..Len(text) /\ Len(text) \in Nat
  BY <1>1
<1>3. CASE nuls = {}
  <2>1. BoundText(text) = text
    BY <1>1, <1>3, Zenon DEF BoundText
  <2>2. text = SubSeq(text, 1, Len(text))
    OBVIOUS
  <2>3. Len(text) \in 0..Len(text)
    BY <1>2
  <2> QED BY <2>1, <2>2, <2>3
<1>4. CASE nuls # {}
  <2>1. nuls \in SUBSET Nat
    BY <1>2
  <2>2. \E m \in nuls : \A k \in nuls : m <= k
    BY <1>4, <2>1, LeastNatural
  <2>3. Min(nuls) \in nuls
    BY <2>2 DEF Min
  <2>4. PICK m : m = Min(nuls)
    OBVIOUS
  <2>5. m \in 1..Len(text)
    BY <1>2, <2>3, <2>4
  <2>6. m - 1 \in 0..Len(text)
    BY <1>2, <2>5
  <2>7. BoundText(text) = SubSeq(text, 1, m - 1)
    BY <1>1, <1>4, <2>4, Zenon DEF BoundText
  <2> QED BY <2>6, <2>7
<1> QED BY <1>3, <1>4

(* A text that is found at the beginning of a prefix or anywhere in it is  *)
(* found there in the whole.                                               *)
LEMMA PrefixOfPrefix ==
  ASSUME NEW text \in Seq(STRING), NEW n \in 0..Len(text), NEW s \in Seq(STRING),
         NEW from \in 1..(n + 1), IsPrefix(s, SubSeq(SubSeq(text, 1, n), from, n))
  PROVE  IsPrefix(s, SubSeq(text, from, Len(text)))
<1>1. PICK len \in Nat, m \in Nat : len = Len(text) /\ m = Len(s)
  <2>1. Len(text) \in Nat /\ Len(s) \in Nat
    OBVIOUS
  <2> QED BY <2>1
<1>2. n \in 0..len /\ n \in Nat /\ from \in 1..(n + 1) /\ from \in 1..(len + 1)
  BY <1>1
<1>3. PICK cut : cut = SubSeq(SubSeq(text, 1, n), from, n)
  OBVIOUS
<1>4. PICK rest : rest = SubSeq(text, from, len)
  OBVIOUS
<1>5. cut \in Seq(STRING) /\ Len(cut) = n - from + 1
      /\ \A k \in 1..(n - from + 1) : cut[k] = text[from + k - 1]
  <2>1. PICK head : head = SubSeq(text, 1, n)
    OBVIOUS
  <2>2. /\ head \in Seq(STRING) /\ Len(head) = n
        /\ \A k \in 1..n : head[k] = text[k]
    BY <1>1, <1>2, <2>1
  <2>3. /\ cut \in Seq(STRING) /\ Len(cut) = n - from + 1
        /\ \A k \in 1..(n - from + 1) : cut[k] = head[from + k - 1]
    BY <1>2, <1>3, <2>1, <2>2
  <2>4. \A k \in 1..(n - from + 1) : from + k - 1 \in 1..n
    BY <1>2
  <2> QED BY <2>2, <2>3, <2>4
<1>6. rest \in Seq(STRING) /\ Len(rest) = len - from + 1
      /\ \A k \in 1..(len - from + 1) : rest[k] = text[from + k - 1]
  BY <1>1, <1>2, <1>4
<1>7. m <= Len(cut) /\ SubSeq(s, 1, m) = SubSeq(cut, 1, m)
  BY <1>1, <1>3 DEF IsPrefix
<1>8. \A k \in 1..m : cut[k] = rest[k]
  <2> TAKE k \in 1..m
  <2>1. k \in 1..(n - from + 1) /\ k \in 1..(len - from + 1)
    BY <1>1, <1>2, <1>5, <1>7
  <2> QED BY <1>5, <1>6, <2>1
<1>9. SubSeq(cut, 1, m) = SubSeq(rest, 1, m)
  <2>1. m <= Len(rest) /\ m <= Len(cut)
    BY <1>1, <1>2, <1>5, <1>6, <1>7
  <2>2. SubSeq(cut, 1, m) = [k \in 1..m |-> cut[k]] /\ SubSeq(rest, 1, m) = [k \in 1..m |-> rest[k]]
    BY <1>1, <1>5, <1>6, <2>1
  <2> QED BY <1>8, <2>2, Zenon
<1>10. m <= Len(rest)
  BY <1>1, <1>2, <1>5, <1>6, <1>7
<1>11. IsPrefix(s, rest)
  BY <1>1, <1>7, <1>9, <1>10 DEF IsPrefix
<1> QED BY <1>1, <1>4, <1>11, Zenon

LEMMA FoundInStoredText ==
  ASSUME NEW text \in Seq(STRING), NEW s \in Seq(STRING)
  PROVE  /\ StartsWith(BoundText(text), s) => StartsWith(text, s)
         /\ ContainsText(BoundText(text), s) => ContainsText(text, s)
<1>1. PICK n \in 0..Len(text) : BoundText(text) = SubSeq(text, 1, n)
  BY StoredTextIsPrefix
<1>2. PICK cut : cut = BoundText(text)
  OBVIOUS
<1>3. /\ Len(text) \in Nat /\ n \in Nat
      /\ cut \in Seq(STRING) /\ Len(cut) = n /\ cut = SubSeq(text, 1, n)
  BY <1>1, <1>2
<1>4. SubSeq(cut, 1, n) = cut /\ SubSeq(text, 1, Len(text)) = text
  BY <1>3
<1>5. ASSUME NEW from \in 1..(n + 1), IsPrefix(s, SubSeq(cut, from, n))
      PROVE  IsPrefix(s, SubSeq(text, from, Len(text)))
  BY <1>3, <1>5, PrefixOfPrefix, Zenon
<1>6. ASSUME StartsWith(cut, s) PROVE StartsWith(text, s)
  <2>1. 1 \in 1..(n + 1)
    BY <1>3
  <2>2. IsPrefix(s, SubSeq(cut, 1, n))
    BY <1>4, <1>6, Zenon DEF StartsWith
  <2>3. IsPrefix(s, SubSeq(text, 1, Len(text)))
    BY <1>5, <2>1, <2>2, Zenon
  <2> QED BY <1>4, <2>3, Zenon DEF StartsWith
<1>7. ASSUME ContainsText(cut, s) PROVE ContainsText(text, s)
  <2>1. PICK from \in 1..(n + 1) : IsPrefix(s, SubSeq(cut, from, n))
    BY <1>3, <1>7, Zenon DEF ContainsText
  <2>2. from \in 1..(Len(text) + 1)
    BY <1>3
  <2>3. IsPrefix(s, SubSeq(text, from, Len(text)))
    BY <1>5, <2>1, Zenon
  <2> QED BY <2>2, <2>3, Zenon DEF ContainsText
<1> QED BY <1>2, <1>6, <1>7, Zenon

(* The fields of the stored row.                                           *)
LEMMA StoredFields ==
  ASSUME NEW e, FieldsUsed \subseteq DOMAIN e, NEW s, s = StoredEvent(e)
  PROVE  /\ s.event_type = e.event_type
         /\ s.process_path = BoundText(e.process_path)
         /\ s.command_line = BoundText(e.command_line)
         /\ s.file_path = BoundText(OptionalStringValue(e.file_path))
         /\ s.dest_port = OptionalIntValue(e.dest_port)
BY DEF StoredEvent, FieldsUsed

(* The row that is stored of an event hits the same patterns, unless one   *)
(* of them is a sentinel, if the texts they look at have no NUL            *)
(* (AuditStore.cpp:141-151, 177-188).                                      *)
LEMMA StoredEventHits ==
  ASSUME NEW rule, ~NamesSentinel(rule), NEW e, FieldsUsed \subseteq DOMAIN e,
         \A text \in MatchedTexts(e) : Nul \notin Range(text)
  PROVE  Hits(rule, StoredEvent(e)) = Hits(rule, e)
<1>1. PICK s : s = StoredEvent(e)
  OBVIOUS
<1>2. /\ s.event_type = e.event_type
      /\ s.process_path = BoundText(e.process_path)
      /\ s.command_line = BoundText(e.command_line)
      /\ s.file_path = BoundText(OptionalStringValue(e.file_path))
      /\ s.dest_port = OptionalIntValue(e.dest_port)
  BY <1>1, StoredFields, Zenon
<1>3. CASE e.event_type = "EXEC"
  <2>1. MatchedTexts(e) = {e.process_path, e.command_line}
    BY <1>3 DEF MatchedTexts
  <2>2. s.process_path = e.process_path /\ s.command_line = e.command_line
    BY <1>2, <2>1, TextWithoutNul, Zenon
  <2>3. ExecHits(rule, s) = ExecHits(rule, e)
    BY <2>2, Zenon DEF ExecHits
  <2> QED BY <1>1, <1>2, <1>3, <2>3 DEF Hits
<1>4. CASE e.event_type = "FILE_ACCESS"
  <2>1. MatchedTexts(e) = {OptionalStringValue(e.file_path)}
    BY <1>4 DEF MatchedTexts
  <2>2. s.file_path = OptionalStringValue(e.file_path)
    BY <1>2, <2>1, TextWithoutNul, Zenon
  <2>3. \A h \in DOMAIN rule.sensitive_paths : rule.sensitive_paths[h] # <<>>
    BY Zenon DEF NamesSentinel, Range
  <2>4. \A h \in DOMAIN rule.sensitive_paths :
          (/\ s.file_path # NoValue
           /\ s.file_path = rule.sensitive_paths[h])
          <=> (/\ e.file_path # NoValue
               /\ e.file_path = rule.sensitive_paths[h])
    BY <2>2, <2>3, Zenon DEF OptionalStringValue
  <2>5. FileHits(rule, s) = FileHits(rule, e)
    BY <2>4, Zenon DEF FileHits
  <2> QED BY <1>1, <1>2, <1>4, <2>5 DEF Hits
<1>5. CASE e.event_type = "NET_CONNECT"
  <2>1. PICK none : none = -1
    OBVIOUS
  <2>2. \A h \in DOMAIN rule.restricted_ports : rule.restricted_ports[h] # none
    BY <2>1, Zenon DEF NamesSentinel, Range
  <2>3. s.dest_port = IF e.dest_port = NoValue THEN none ELSE e.dest_port
    BY <1>2, <2>1, Zenon DEF OptionalIntValue
  <2>4. \A h \in DOMAIN rule.restricted_ports :
          (/\ s.dest_port # NoValue
           /\ s.dest_port = rule.restricted_ports[h])
          <=> (/\ e.dest_port # NoValue
               /\ e.dest_port = rule.restricted_ports[h])
    BY <2>2, <2>3, Zenon
  <2>5. NetworkHits(rule, s) = NetworkHits(rule, e)
    BY <2>4, Zenon DEF NetworkHits
  <2> QED BY <1>1, <1>2, <1>5, <2>5 DEF Hits
<1>6. CASE e.event_type \notin {"EXEC", "FILE_ACCESS", "NET_CONNECT"}
  BY <1>1, <1>2, <1>6 DEF Hits
<1> QED BY <1>3, <1>4, <1>5, <1>6

(* The row of an execution hits nothing that the execution did not hit.    *)
LEMMA StoredExecHits ==
  ASSUME NEW rule, rule.match_path_prefix \in Seq(Seq(STRING)),
         NEW e, FieldsUsed \subseteq DOMAIN e, e.event_type = "EXEC",
         e.process_path \in Seq(STRING), e.command_line \in Seq(STRING)
  PROVE  Hits(rule, StoredEvent(e)) \subseteq Hits(rule, e)
<1>1. PICK s : s = StoredEvent(e)
  OBVIOUS
<1>2. /\ s.event_type = e.event_type
      /\ s.process_path = BoundText(e.process_path)
      /\ s.command_line = BoundText(e.command_line)
  BY <1>1, StoredFields, Zenon
<1>3. ASSUME NEW h \in ExecHits(rule, s) PROVE h \in ExecHits(rule, e)
  <2>1. PICK pattern : pattern = rule.match_path_prefix[h]
    OBVIOUS
  <2>2. h \in DOMAIN rule.match_path_prefix
        /\ \/ StartsWith(s.process_path, pattern)
           \/ ContainsText(s.command_line, pattern)
    BY <1>3, <2>1, Zenon DEF ExecHits
  <2>3. pattern \in Seq(STRING)
    BY <2>1, <2>2
  <2>4. \/ StartsWith(e.process_path, pattern)
        \/ ContainsText(e.command_line, pattern)
    BY <1>2, <2>2, <2>3, FoundInStoredText, Zenon
  <2> QED BY <2>1, <2>2, <2>4, Zenon DEF ExecHits
<1>4. ExecHits(rule, s) \subseteq ExecHits(rule, e)
  BY <1>3
<1> QED BY <1>1, <1>2, <1>4 DEF Hits

(* What the stored rows say of the recorded matches.                       *)
LEMMA StoredRowsFollow ==
  ASSUME CorrelatorInv
  PROVE  StoredRowsExplainMatches
<1> SUFFICES ASSUME \A r \in DOMAIN policy.rules : ~NamesSentinel(policy.rules[r]),
                    NEW i \in DOMAIN evaluated
             PROVE  /\ (\A text \in MatchedTexts(evaluated[i].event) : Nul \notin Range(text)) =>
                         Evaluate(policy, StoredEvent(evaluated[i].event)).matches
                           = evaluated[i].matches
                    /\ evaluated[i].event.event_type = "EXEC" =>
                         RulesOf(Evaluate(policy, StoredEvent(evaluated[i].event)).matches)
                           \subseteq RulesOf(evaluated[i].matches)
  BY Zenon DEF StoredRowsExplainMatches
<1>1. policy \in Policies /\ events \in EventFiles
  BY Zenon DEF CorrelatorInv
<1>2. PICK R, len : R = Results /\ len = Len(events)
  OBVIOUS
<1>3. /\ len \in Nat /\ DOMAIN events = 1..len
      /\ \A j \in DOMAIN events : /\ FieldsUsed \subseteq DOMAIN events[j]
                                 /\ events[j].process_path \in Seq(STRING)
                                 /\ events[j].command_line \in Seq(STRING)
  <2>1. /\ events \in Seq(Range(events))
        /\ \A j \in DOMAIN events : /\ FieldsUsed \subseteq DOMAIN events[j]
                                   /\ events[j].process_path \in Seq(STRING)
                                   /\ events[j].command_line \in Seq(STRING)
    BY <1>1, InputsAreTyped, Zenon
  <2>2. Len(events) \in Nat /\ DOMAIN events = 1..Len(events)
    BY <2>1, LenProperties
  <2> QED BY <1>2, <2>1, <2>2, Zenon
<1>4. i \in 1..len /\ evaluated[i] = R[i]
  <2>1. PICK n \in 0..len : evaluated = First(R, n)
    BY <1>2, Zenon DEF CorrelatorInv
  <2>2. i \in 1..n
    BY <2>1, Zenon DEF First
  <2>3. i \in 1..len
    BY <1>3, <2>2
  <2> QED BY <2>1, <2>2, <2>3, Zenon DEF First
<1>5. evaluated[i] = Evaluate(policy, events[i]) /\ evaluated[i].event = events[i]
  BY <1>1, <1>2, <1>4, ResultsAreAdequate, Zenon
<1>6. PICK e, s : /\ e = events[i] /\ s = StoredEvent(e) /\ FieldsUsed \subseteq DOMAIN e
                  /\ e.process_path \in Seq(STRING) /\ e.command_line \in Seq(STRING)
  BY <1>3, <1>4, Zenon
<1>7. ASSUME \A text \in MatchedTexts(e) : Nul \notin Range(text)
      PROVE  Evaluate(policy, s).matches = Evaluate(policy, e).matches
  <2>1. \A r \in DOMAIN policy.rules : Hits(policy.rules[r], s) = Hits(policy.rules[r], e)
    BY <1>6, <1>7, StoredEventHits, Zenon
  <2>2. [r \in DOMAIN policy.rules |-> Hits(policy.rules[r], s)]
          = [r \in DOMAIN policy.rules |-> Hits(policy.rules[r], e)]
    BY <2>1, Zenon
  <2> QED BY <1>1, <2>2, PoliciesAreTyped, MatchesComeFromHits, Zenon
<1>8. ASSUME e.event_type = "EXEC"
      PROVE  RulesOf(Evaluate(policy, s).matches) \subseteq RulesOf(Evaluate(policy, e).matches)
  <2>1. \A r \in DOMAIN policy.rules : policy.rules[r].match_path_prefix \in Seq(Seq(STRING))
    BY <1>1, InputsAreTyped, Zenon
  <2>2. \A r \in DOMAIN policy.rules : Hits(policy.rules[r], s) \subseteq Hits(policy.rules[r], e)
    BY <1>6, <1>8, <2>1, StoredExecHits, Zenon
  <2>3. /\ RulesOf(Evaluate(policy, s).matches)
             = {r \in DOMAIN policy.rules : Hits(policy.rules[r], s) # {}}
        /\ RulesOf(Evaluate(policy, e).matches)
             = {r \in DOMAIN policy.rules : Hits(policy.rules[r], e) # {}}
    BY <1>1, PoliciesAreTyped, MatchedRulesAreHit, Zenon DEF RulesOf
  <2> QED BY <2>2, <2>3
<1> QED BY <1>5, <1>6, <1>7, <1>8, Zenon
-----------------------------------------------------------------------------
(* Grouping by pid loses, duplicates, invents and reorders nothing, in     *)
(* every state of a run over any policy and any events (Correlator.cpp:17- *)
(* 40).                                                                    *)
THEOREM GroupingIsAlwaysExact == Spec => []GroupingIsExact
BY CorrelatorInvariant, GroupingFollows, PTL

(* The points of an incident are those of its matched rules, whatever      *)
(* overflows on the way (RiskEvaluator.cpp:27, Correlator.cpp:35-39).      *)
THEOREM ScoreIsAlwaysExplained == Spec => []ScoreIsExplained
BY CorrelatorInvariant, ScoreFollows, PTL

(* The printed aggregate is the sum of the stored incidents (main.cpp:243).*)
THEOREM AggregateAlwaysMatches == Spec => []AggregateMatchesIncidents
BY CorrelatorInvariant, AggregateFollows, PTL

(* Incidents are numbered by ascending pid, one per process with a         *)
(* suspicious event (Correlator.cpp:42-53).                                *)
THEOREM NumberingIsAlwaysExact == Spec => []NumberingIsExact
BY CorrelatorInvariant, NumberingFollows, PTL

(* Without negative points and overflow, correlating never lowers a        *)
(* verdict, in whatever order the thresholds are (Correlator.cpp:56-74).   *)
THEOREM VerdictIsNeverLowered == Spec => []VerdictNotBelowItsEvents
BY CorrelatorInvariant, VerdictFollows, PTL

(* What is stored of an event is enough to explain its matches, unless a   *)
(* rule names a sentinel or a text has a NUL; the row of an execution      *)
(* never shows a match that was not recorded, with a NUL or without        *)
(* (AuditStore.cpp:141-151, 177-188).                                      *)
THEOREM StoredRowsAlwaysExplain == Spec => []StoredRowsExplainMatches
BY CorrelatorInvariant, StoredRowsFollow, PTL
=============================================================================
