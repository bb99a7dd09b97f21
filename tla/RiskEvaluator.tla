--------------------------- MODULE RiskEvaluator ---------------------------
(***************************************************************************)
(* The pure rule evaluation of src/src/RiskEvaluator.cpp.                  *)
(*                                                                         *)
(* Data.  A text is a sequence of tokens, so that prefix and substring     *)
(* keep their meaning and nothing else of a string is left.  An event is a *)
(* record with the fields that evaluation and correlation read; an absent  *)
(* std::optional is NoValue.  A policy has thresholds and a sequence of    *)
(* rules; a rule's position stands for its id, name and severity, which    *)
(* evaluation only copies.  In place of the reason text a match keeps the  *)
(* position of the pattern that the text would quote.                      *)
(***************************************************************************)
EXTENDS Integers, Sequences, SequencesExt

CONSTANTS
  NoValue,      \* an absent std::optional (include/Event.hpp)
  IntMax        \* the largest int

ASSUME IntMaxIsNatural == IntMax \in Nat

(* What is left of a sum in an int: the addition of the builds wraps.      *)
Wrap(n) == ((n + IntMax + 1) % (2 * (IntMax + 1))) - (IntMax + 1)
FitsInt(n) == Wrap(n) = n

(* The verdicts in increasing order of severity.                           *)
Verdicts == <<"CLEAN", "LOW", "WARNING", "HIGH", "CRITICAL">>

(* The position of a verdict in that order.                                *)
Severity(verdict) == CHOOSE k \in DOMAIN Verdicts : Verdicts[k] = verdict

(* RiskEvaluator::verdictForScore: the first threshold reached decides.    *)
VerdictForScore(thresholds, score) ==
  IF score >= thresholds.critical THEN "CRITICAL"
  ELSE IF score >= thresholds.high THEN "HIGH"
  ELSE IF score >= thresholds.warning THEN "WARNING"
  ELSE IF score > 0 THEN "LOW"
  ELSE "CLEAN"

(* RiskEvaluator::startsWith and containsText.                             *)
StartsWith(value, prefix) == IsPrefix(prefix, value)

(* Mutant: the text has to be at the beginning.                            *)
ContainsTextAtStart(value, text) == IsPrefix(text, value)

ContainsText(value, text) ==
  \E from \in 1..(Len(value) + 1) :
    IsPrefix(text, SubSeq(value, from, Len(value)))

(* The three matchers: the patterns of the rule that the event hits.       *)
ExecHits(rule, event) ==
  {h \in DOMAIN rule.match_path_prefix :
     \/ StartsWith(event.process_path, rule.match_path_prefix[h])
     \/ ContainsText(event.command_line, rule.match_path_prefix[h])}

FileHits(rule, event) ==
  {h \in DOMAIN rule.sensitive_paths :
     /\ event.file_path # NoValue
     /\ event.file_path = rule.sensitive_paths[h]}

NetworkHits(rule, event) ==
  {h \in DOMAIN rule.restricted_ports :
     /\ event.dest_port # NoValue
     /\ event.dest_port = rule.restricted_ports[h]}

(* eventTypeToString (Event.cpp): an enumerator is named like its text.    *)
EventTypes == {"EXEC", "FILE_ACCESS", "NET_CONNECT"}
EventTypeToString(type) == IF type \in EventTypes THEN <<type>> ELSE <<"UNKNOWN">>

(* RiskEvaluator::ruleMatchesEvent: a rule only sees events of its own     *)
(* type, and an UNKNOWN event has no matcher even if a rule names it.      *)
Hits(rule, event) ==
  IF rule.event_type # EventTypeToString(event.event_type) THEN {}
  ELSE CASE event.event_type = "EXEC" -> ExecHits(rule, event)
         [] event.event_type = "FILE_ACCESS" -> FileHits(rule, event)
         [] event.event_type = "NET_CONNECT" -> NetworkHits(rule, event)
         [] OTHER -> {}

(* The members of S up to n, as a loop that goes from 1 to n collects them.*)
InOrder(S, n) ==
  LET upTo[k \in 0..n] == IF k = 0 THEN <<>>
                          ELSE IF k \in S THEN Append(upTo[k - 1], k) ELSE upTo[k - 1]
  IN upTo[n]

(* RiskEvaluator::evaluate: every rule of the policy in order, the first   *)
(* pattern hit being the reason; the points of the matches are added up.   *)
Evaluate(policy, event) ==
  LET rules == policy.rules
      matched == InOrder({r \in DOMAIN rules : Hits(rules[r], event) # {}}, Len(rules))
      matches == [k \in DOMAIN matched |->
                    [rule |-> matched[k],
                     risk_points |-> rules[matched[k]].risk_points,
                     reason |-> Min(Hits(rules[matched[k]], event))]]
      score == Wrap(SumFunction([k \in DOMAIN matches |-> matches[k].risk_points]))
  IN [event |-> event,
      matches |-> matches,
      total_risk_score |-> score,
      verdict |-> VerdictForScore(policy.risk_thresholds, score)]

(* What AuditStore::insertRawEvent keeps of an event: an absent optional   *)
(* becomes the empty text or -1 (optionalStringValue, optionalIntValue).   *)
OptionalStringValue(value) == IF value = NoValue THEN <<>> ELSE value

(* Mutant: the test of has_value is the wrong way round.                   *)
OptionalIntValueInverted(value) == IF value = NoValue THEN value ELSE -1

OptionalIntValue(value) == IF value = NoValue THEN -1 ELSE value

(* The character \u0000, that a text of the event file may contain.        *)
Nul == "NUL"

(* bindText: sqlite3_bind_text with c_str() and the length -1 stores what  *)
(* is before the first NUL.                                                *)
BoundText(text) ==
  LET nuls == {i \in DOMAIN text : text[i] = Nul}
  IN IF nuls = {} THEN text ELSE SubSeq(text, 1, Min(nuls) - 1)

StoredEvent(event) ==
  [event EXCEPT !.process_path = BoundText(@),
                !.command_line = BoundText(@),
                !.file_path = BoundText(OptionalStringValue(@)),
                !.dest_port = OptionalIntValue(@)]
=============================================================================
