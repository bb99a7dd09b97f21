----------------------------- MODULE Incidents -----------------------------
(***************************************************************************)
(* What Correlator::correlate promises, stated without its loop: the       *)
(* incidents that a sequence of evaluation results stands for.  A result   *)
(* has at least the fields event (with a pid), matches (a sequence) and    *)
(* total_risk_score; include/RiskEvaluator.hpp, EvaluationResult.          *)
(* An event is named by its position in the sequence, a rule match by the  *)
(* pair of its event's position and its own position in the matches.       *)
(***************************************************************************)
EXTENDS Integers, Sequences, FiniteSets, FiniteSetsExt

(* The events that matched a rule; the others reach no incident.           *)
Suspicious(results) == {i \in DOMAIN results : results[i].matches # <<>>}

(* The processes that get an incident, and the events that go into it.     *)
PidsOf(results) == {results[i].event.pid : i \in Suspicious(results)}

EventsOf(results, pid) ==
  {i \in Suspicious(results) : results[i].event.pid = pid}

(* incident.matched_rules: every match of every event of the incident.     *)
EvidenceOf(results, pid) ==
  UNION {{i} \X DOMAIN results[i].matches : i \in EventsOf(results, pid)}

(* Mutant: the matches are taken from the back of the vector.              *)
PrecedesFromTheBack(m, n) == m[1] > n[1] \/ (m[1] = n[1] /\ m[2] > n[2])

(* The order of matched_rules: by event, then by rule.                     *)
Precedes(m, n) == m[1] < n[1] \/ (m[1] = n[1] /\ m[2] < n[2])

(* incident.total_risk_score.                                              *)
ScoreOf(results, pid) ==
  SumFunctionOnSet([i \in DOMAIN results |-> results[i].total_risk_score],
                   EventsOf(results, pid))

(* Mutant: the counter is not advanced.                                    *)
IncidentNumberOne(results, pid) == 1

(* The number in INC-nnn: the map is walked in ascending order of pid.     *)
IncidentNumber(results, pid) ==
  Cardinality({q \in PidsOf(results) : q <= pid})
=============================================================================
