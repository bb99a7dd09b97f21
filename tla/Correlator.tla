----------------------------- MODULE Correlator -----------------------------
(***************************************************************************)
(* The in-memory half of a run: every event is evaluated in file order     *)
(* (the loop of runDefaultPipeline, src/src/main.cpp), then the results    *)
(* are correlated (src/src/Correlator.cpp).  One action is one iteration   *)
(* of one of the three loops.  Module Incidents says what they compute.    *)
(***************************************************************************)
EXTENDS RiskEvaluator, Incidents

CONSTANTS
  Policies,     \* the policies a run may load
  EventFiles    \* the event sequences a run may load

(* Points, thresholds and pids are ints, rules, patterns and events come   *)
(* in vectors, texts are strings, and an event has all its fields          *)
(* (include/Policy.hpp, include/Event.hpp).                                *)
FieldsUsed == {"event_type", "pid", "timestamp", "process_path", "command_line",
                "file_path", "dest_port"}

ASSUME InputsAreTyped ==
  /\ \A p \in Policies :
       /\ p.risk_thresholds \in [warning : Int, high : Int, critical : Int]
       /\ p.rules \in Seq(Range(p.rules))
       /\ \A r \in DOMAIN p.rules : /\ p.rules[r].risk_points \in Int
                                    /\ p.rules[r].match_path_prefix \in Seq(Seq(STRING))
  /\ \A es \in EventFiles :
       /\ es \in Seq(Range(es))
       /\ \A i \in DOMAIN es :
            /\ FieldsUsed \subseteq DOMAIN es[i] /\ es[i].pid \in Int
            /\ es[i].process_path \in Seq(STRING) /\ es[i].command_line \in Seq(STRING)

VARIABLES
  policy,       \* the loaded policy
  events,       \* the loaded events
  evaluated,    \* evaluated_events: the results so far
  aggregate,    \* aggregate_risk_score
  folded,       \* how many results the first loop of correlate consumed
  by_pid,       \* incidents_by_pid: the open incident of each pid
  incidents     \* the numbered incidents, in the order they are returned

vars == <<policy, events, evaluated, aggregate, folded, by_pid, incidents>>

Init ==
  /\ policy \in Policies
  /\ events \in EventFiles
  /\ evaluated = <<>>
  /\ aggregate = 0
  /\ folded = 0
  /\ by_pid = <<>>
  /\ incidents = <<>>

(* Mutant: the score of the event before is added.                         *)
EvaluateNextLate ==
  /\ Len(evaluated) < Len(events)
  /\ evaluated' = Append(evaluated, Evaluate(policy, events[Len(evaluated) + 1]))
  /\ aggregate' = IF evaluated = <<>> THEN 0
                  ELSE Wrap(aggregate + evaluated[Len(evaluated)].total_risk_score)
  /\ UNCHANGED <<policy, events, folded, by_pid, incidents>>

(* One iteration of the loop over the events in runDefaultPipeline.        *)
EvaluateNext ==
  /\ Len(evaluated) < Len(events)
  /\ LET result == Evaluate(policy, events[Len(evaluated) + 1])
     IN /\ evaluated' = Append(evaluated, result)
        /\ aggregate' = Wrap(aggregate + result.total_risk_score)
  /\ UNCHANGED <<policy, events, folded, by_pid, incidents>>

(* correlate starts once every event is evaluated.                         *)
Folding ==
  /\ Len(evaluated) = Len(events)
  /\ folded < Len(evaluated)
  /\ folded' = folded + 1
  /\ UNCHANGED <<policy, events, evaluated, aggregate, incidents>>

(* An event without a match is skipped.                                    *)
SkipClean ==
  /\ Folding
  /\ evaluated[folded + 1].matches = <<>>
  /\ UNCHANGED by_pid

(* A default-constructed incident (its number 0 stands for an empty id)    *)
(* that takes the identity of its first event; process_path stands for     *)
(* uid, process_name and process_path.                                     *)
OpenIncident(event) ==
  [incident_id |-> 0,
   verdict |-> "CLEAN",
   pid |-> event.pid,
   process_path |-> event.process_path,
   first_seen |-> event.timestamp,
   last_seen |-> event.timestamp,
   events |-> <<>>,
   total_risk_score |-> 0,
   matched_rules |-> <<>>]

(* Mutants: last_seen stays that of the first event; the score of the last *)
(* event replaces the sum.                                                 *)
AddEventKeepingLastSeen(incident, i) ==
  [incident EXCEPT
     !.events = Append(@, i),
     !.total_risk_score = Wrap(@ + evaluated[i].total_risk_score),
     !.matched_rules = @ \o [k \in DOMAIN evaluated[i].matches |-> <<i, k>>]]

AddEventReplacingScore(incident, i) ==
  [incident EXCEPT
     !.last_seen = evaluated[i].event.timestamp,
     !.events = Append(@, i),
     !.total_risk_score = evaluated[i].total_risk_score,
     !.matched_rules = @ \o [k \in DOMAIN evaluated[i].matches |-> <<i, k>>]]

(* The event of the i-th result becomes part of an incident.               *)
AddEvent(incident, i) ==
  [incident EXCEPT
     !.last_seen = evaluated[i].event.timestamp,
     !.events = Append(@, i),
     !.total_risk_score = Wrap(@ + evaluated[i].total_risk_score),
     !.matched_rules = @ \o [k \in DOMAIN evaluated[i].matches |-> <<i, k>>]]

(* A suspicious event joins the incident of its pid.                       *)
JoinIncident ==
  /\ Folding
  /\ LET i == folded + 1
         pid == evaluated[i].event.pid
         incident == IF pid \in DOMAIN by_pid THEN by_pid[pid]
                     ELSE OpenIncident(evaluated[i].event)
     IN /\ evaluated[i].matches # <<>>
        /\ by_pid' = [p \in DOMAIN by_pid \union {pid} |->
                        IF p = pid THEN AddEvent(incident, i) ELSE by_pid[p]]

(* Mutant: a threshold that is met exactly does not count.                 *)
IncidentVerdictAbove(thresholds, score) ==
  IF score > thresholds.critical THEN "CRITICAL"
  ELSE IF score > thresholds.high THEN "HIGH"
  ELSE IF score > thresholds.warning THEN "WARNING"
  ELSE IF score > 0 THEN "LOW"
  ELSE "CLEAN"

(* Correlator::verdictForScore, a second copy of the evaluator's.          *)
IncidentVerdict(thresholds, score) ==
  IF score >= thresholds.critical THEN "CRITICAL"
  ELSE IF score >= thresholds.high THEN "HIGH"
  ELSE IF score >= thresholds.warning THEN "WARNING"
  ELSE IF score > 0 THEN "LOW"
  ELSE "CLEAN"

(* The pids that the walk over incidents_by_pid has yet to reach.          *)
Ahead == DOMAIN by_pid \ {incidents[k].pid : k \in DOMAIN incidents}

(* Mutant: an unordered map.                                               *)
NextPidUnordered(pid) == pid \in Ahead

(* A std::map is walked in ascending order of its key.                     *)
NextPid(pid) == pid \in Ahead /\ \A q \in Ahead : pid <= q

(* One iteration of the second loop of correlate.                          *)
NumberIncident ==
  /\ folded = Len(events)
  /\ \E pid \in Ahead :
       /\ NextPid(pid)
       /\ incidents' = Append(incidents,
            [by_pid[pid] EXCEPT
               !.incident_id = Len(incidents) + 1,
               !.verdict = IncidentVerdict(policy.risk_thresholds,
                                           by_pid[pid].total_risk_score)])
  /\ UNCHANGED <<policy, events, evaluated, aggregate, folded, by_pid>>

Returned == folded = Len(events) /\ Len(incidents) = Cardinality(DOMAIN by_pid)

(* correlate has returned; nothing changes any more.                       *)
Return == Returned /\ UNCHANGED vars

Next ==
  \/ EvaluateNext
  \/ SkipClean
  \/ JoinIncident
  \/ NumberIncident
  \/ Return

Spec == Init /\ [][Next]_vars

-----------------------------------------------------------------------------
(* buildChainSummary (src/src/Incident.cpp), as the sequence of the types. *)
ChainSummary(incident) ==
  [k \in DOMAIN incident.events |-> events[incident.events[k]].event_type]

(* The results that the first loop of correlate has consumed.              *)
Consumed == SubSeq(evaluated, 1, folded)

(* The points of an incident, rule match by rule match.                    *)
PointsOf(incident) ==
  LET rules == incident.matched_rules
  IN SumFunction([k \in DOMAIN rules |->
                    evaluated[rules[k][1]].matches[rules[k][2]].risk_points])

Increasing(s, before(_, _)) ==
  \A k \in 1..(Len(s) - 1) : before(s[k], s[k + 1])

-----------------------------------------------------------------------------
(* Grouping by pid loses, duplicates, invents and reorders nothing: after  *)
(* any number of iterations each process with a suspicious event has one   *)
(* open incident, that holds exactly its suspicious events in file order,  *)
(* under the identity of the first of them (Correlator.cpp:17-34).         *)
GroupingIsExact ==
  /\ DOMAIN by_pid = PidsOf(Consumed)
  /\ \A pid \in DOMAIN by_pid :
       LET own == by_pid[pid].events
       IN /\ by_pid[pid].pid = pid
          /\ Range(own) = EventsOf(Consumed, pid)
          /\ Increasing(own, <)
          /\ by_pid[pid].process_path = events[own[1]].process_path
          /\ by_pid[pid].first_seen = events[own[1]].timestamp
          /\ by_pid[pid].last_seen = events[own[Len(own)]].timestamp

(* The score of an open incident is explained by its matched rules: they   *)
(* are every match of its events, in order, and their points add up to it  *)
(* although the code sums per-event totals, each of which may already have *)
(* overflowed on its own (Correlator.cpp:35-39).                           *)
ScoreIsExplained ==
  \A pid \in DOMAIN by_pid :
    LET rules == by_pid[pid].matched_rules
    IN /\ Range(rules) = EvidenceOf(Consumed, pid)
       /\ Increasing(rules, Precedes)
       /\ by_pid[pid].total_risk_score = Wrap(ScoreOf(Consumed, pid))
       /\ by_pid[pid].total_risk_score
            = Wrap(PointsOf(by_pid[pid]))

(* The aggregate that is printed is the sum of the incidents that are      *)
(* stored: the three sums of a run, by event, incident and run, agree,     *)
(* also when some of them overflow (main.cpp:243, RiskEvaluator.cpp:27,    *)
(* Correlator.cpp:35).                                                     *)
AggregateMatchesIncidents ==
  Returned =>
    aggregate = Wrap(SumFunction([k \in DOMAIN incidents |-> incidents[k].total_risk_score]))

(* The returned incidents are numbered 1, 2, ... in ascending order of     *)
(* pid, one for every process with a suspicious event and none for any     *)
(* other (Correlator.cpp:42-53).                                           *)
NumberingIsExact ==
  /\ \A k \in DOMAIN incidents :
       /\ incidents[k].incident_id = k
       /\ incidents[k].incident_id = IncidentNumber(evaluated, incidents[k].pid)
  /\ Returned =>
       {incidents[k].pid : k \in DOMAIN incidents} = PidsOf(evaluated)

(* Correlating never plays a behaviour down: under a policy without        *)
(* negative points, and if the points of an incident fit into an int, its  *)
(* verdict is at least as severe as the evaluator's on each of its events, *)
(* although the cascade exists in two copies (RiskEvaluator.cpp:35-53,     *)
(* Correlator.cpp:56-74) and nothing orders the thresholds.                *)
VerdictNotBelowItsEvents ==
  (\A r \in DOMAIN policy.rules : policy.rules[r].risk_points >= 0) =>
    \A k \in DOMAIN incidents : FitsInt(PointsOf(incidents[k])) =>
      \A i \in Range(incidents[k].events) :
        Severity(incidents[k].verdict) >= Severity(evaluated[i].verdict)

(* A pattern equal to a value that the store writes for an absent field.   *)
NamesSentinel(rule) ==
  <<>> \in Range(rule.sensitive_paths) \/ -1 \in Range(rule.restricted_ports)

(* The texts that a rule can see of an event.                              *)
MatchedTexts(event) ==
  CASE event.event_type = "EXEC" -> {event.process_path, event.command_line}
    [] event.event_type = "FILE_ACCESS" -> {OptionalStringValue(event.file_path)}
    [] OTHER -> {}

RulesOf(matches) == {m.rule : m \in Range(matches)}

(* What the raw_events row of an event says of its matches, when the row   *)
(* is evaluated again, although an absent field is stored as "" or -1 and  *)
(* a text ends at its first NUL (AuditStore.cpp:141-151, 177-188).  Unless *)
(* a rule names one of these two values, it gives the recorded matches if  *)
(* no text the rules look at has a NUL; and the row of an execution never  *)
(* shows a match that was not recorded, with a NUL or without.             *)
StoredRowsExplainMatches ==
  (\A r \in DOMAIN policy.rules : ~NamesSentinel(policy.rules[r])) =>
    \A i \in DOMAIN evaluated :
      LET event == evaluated[i].event
          stored == Evaluate(policy, StoredEvent(event)).matches
      IN /\ (\A text \in MatchedTexts(event) : Nul \notin Range(text)) =>
              stored = evaluated[i].matches
         /\ event.event_type = "EXEC" =>
              RulesOf(stored) \subseteq RulesOf(evaluated[i].matches)
=============================================================================
