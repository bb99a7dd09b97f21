------------------------------ MODULE Loaders ------------------------------
(***************************************************************************)
(* How policies and events are read from JSON and written as JSON          *)
(* (src/src/PolicyLoader.cpp, src/src/Event.cpp).  A JSON value is a pair  *)
(* of its kind and what it holds: a text (as in module RiskEvaluator), an  *)
(* integer of any size, the integral part of a float, 0 or 1 for a         *)
(* boolean, a sequence, or a function from keys to values.  A conversion   *)
(* has a condition under which the code throws, and a value otherwise.     *)
(***************************************************************************)
EXTENDS RiskEvaluator

CONSTANT Json   \* the values that files are made of, with all their parts

Text(text) == <<"string", text>>
Number(n) == <<"integer", n>>
Array(s) == <<"array", s>>
Object(members) == <<"object", members>>

IsObject(j) == j[1] = "object"
IsArray(j) == j[1] = "array"
Has(j, key) == IsObject(j) /\ key \in DOMAIN j[2]
At(j, key) == j[2][key]

NumberKinds == {"integer", "float", "boolean"}

ASSUME JsonIsTyped ==
  \A j \in Json :
    /\ j = <<j[1], j[2]>>
    /\ j[1] = "string" => j[2] \in Seq(STRING)
    /\ j[1] \in NumberKinds => j[2] \in Int
    /\ IsArray(j) => j[2] \in Seq(Json)
    /\ IsObject(j) => \A key \in DOMAIN j[2] : At(j, key) \in Json

(* The texts for a missing key and the names of enumerators are            *)
(* made of tokens, too; an absent std::optional is no text, no enumerator  *)
(* and no number.                                                          *)
ASSUME CodeTokens == EventTypes \union {"UNKNOWN", "unknown", "REPORT_ONLY"} \subseteq STRING
ASSUME NoValueIsNone ==
  NoValue \notin STRING /\ NoValue \notin Int /\ NoValue \notin Seq(STRING)

(* json::get: any number and any boolean converts to an int, which keeps   *)
(* its low bits; only a text converts to a std::string.                    *)
TextKinds == {"string"}
IsText(j) == j[1] \in TextKinds
TextOf(j) == j[2]
IntOf(j) == Wrap(j[2])

(* json::value: a missing key has the default, a null is no missing key.   *)
ValueThrows(j, key, kinds) == ~IsObject(j) \/ (Has(j, key) /\ At(j, key)[1] \notin kinds)
TextValue(j, key, default) == IF Has(j, key) THEN TextOf(At(j, key)) ELSE default
IntValue(j, key, default) == IF Has(j, key) THEN IntOf(At(j, key)) ELSE default
-----------------------------------------------------------------------------
(* Events.  event_type is a text in a file and an enumerator in an event.  *)
TextFields == {"event_id", "timestamp", "process_name", "process_path", "command_line"}
IntFields == {"pid", "ppid", "uid"}
OptionalTexts == {"file_path", "dest_ip"}
OptionalInts == {"dest_port"}
EventFields == {"event_type"} \union TextFields \union IntFields \union OptionalTexts
                 \union OptionalInts

EventTypeFromString(text) ==
  IF \E type \in EventTypes : text = <<type>> THEN text[1] ELSE "UNKNOWN"

(* An optional that is null is as good as missing.                         *)
Present(j, key) == Has(j, key) /\ At(j, key)[1] # "null"

EventThrows(j) ==
  \/ \E key \in {"event_type"} \union TextFields : ValueThrows(j, key, TextKinds)
  \/ \E key \in IntFields : ValueThrows(j, key, NumberKinds)
  \/ \E key \in OptionalTexts : Present(j, key) /\ At(j, key)[1] \notin TextKinds
  \/ \E key \in OptionalInts : Present(j, key) /\ At(j, key)[1] \notin NumberKinds

(* Mutant: the port is forgotten.                                          *)
EventFromJsonWithoutPort(j) ==
  [key \in EventFields |->
     CASE key = "event_type" -> EventTypeFromString(TextValue(j, key, <<"UNKNOWN">>))
       [] key \in TextFields -> TextValue(j, key, <<>>)
       [] key \in IntFields -> IntValue(j, key, -1)
       [] key \in OptionalTexts -> IF Present(j, key) THEN TextOf(At(j, key)) ELSE NoValue
       [] key \in OptionalInts -> NoValue]

EventFromJson(j) ==
  [key \in EventFields |->
     CASE key = "event_type" -> EventTypeFromString(TextValue(j, key, <<"UNKNOWN">>))
       [] key \in TextFields -> TextValue(j, key, <<>>)
       [] key \in IntFields -> IntValue(j, key, -1)
       [] key \in OptionalTexts -> IF Present(j, key) THEN TextOf(At(j, key)) ELSE NoValue
       [] key \in OptionalInts -> IF Present(j, key) THEN IntOf(At(j, key)) ELSE NoValue]

(* Mutant: an absent optional is written as the store writes it.           *)
EventToJsonStored(event) ==
  Object([key \in EventFields |->
     CASE key = "event_type" -> Text(EventTypeToString(event[key]))
       [] key \in IntFields -> Number(event[key])
       [] key \in OptionalInts -> Number(OptionalIntValue(event[key]))
       [] key \in OptionalTexts -> Text(OptionalStringValue(event[key]))
       [] OTHER -> Text(event[key])])

(* Optionals without a value are left out.                                 *)
EventToJson(event) ==
  Object([key \in {k \in EventFields : event[k] # NoValue} |->
     CASE key = "event_type" -> Text(EventTypeToString(event[key]))
       [] key \in IntFields \union OptionalInts -> Number(event[key])
       [] OTHER -> Text(event[key])])
-----------------------------------------------------------------------------
(* Policies.  A pattern list that is no array is taken for an empty one.   *)
List(j, key) == IF Has(j, key) /\ IsArray(At(j, key)) THEN At(j, key)[2] ELSE <<>>
ListThrows(j, key, kinds) == \E i \in DOMAIN List(j, key) : List(j, key)[i][1] \notin kinds

RuleTexts == {"rule_id", "name", "event_type", "severity"}
TextLists == {"match_path_prefix", "sensitive_paths"}
Lists == TextLists \union {"restricted_ports"}
RuleFields == RuleTexts \union {"risk_points"} \union Lists

RuleThrows(j) ==
  \/ \E key \in RuleTexts : ValueThrows(j, key, TextKinds)
  \/ ValueThrows(j, "risk_points", NumberKinds)
  \/ \E key \in TextLists : ListThrows(j, key, TextKinds)
  \/ ListThrows(j, "restricted_ports", NumberKinds)

RuleFromJson(j) ==
  [key \in RuleFields |->
     CASE key = "severity" -> TextValue(j, key, <<"UNKNOWN">>)
       [] key \in RuleTexts \ {"severity"} -> TextValue(j, key, <<>>)
       [] key = "risk_points" -> IntValue(j, key, 0)
       [] key \in TextLists -> [i \in DOMAIN List(j, key) |-> TextOf(List(j, key)[i])]
       [] key = "restricted_ports" -> [i \in DOMAIN List(j, key) |-> IntOf(List(j, key)[i])]]

DefaultThresholds == [warning |-> 40, high |-> 70, critical |-> 90]
Levels == DOMAIN DefaultThresholds

(* An int has 32 bits, more than the thresholds need.                      *)
ASSUME DefaultsFit == \A level \in Levels : FitsInt(DefaultThresholds[level])

PolicyThrows(j) ==
  \/ \E key \in {"policy_version", "mode"} : ValueThrows(j, key, TextKinds)
  \/ Has(j, "risk_thresholds") /\
       \E level \in Levels : ValueThrows(At(j, "risk_thresholds"), level, NumberKinds)
  \/ ~Has(j, "rules") \/ ~IsArray(At(j, "rules"))
  \/ \E r \in DOMAIN List(j, "rules") : RuleThrows(List(j, "rules")[r])

(* Mutant: the thresholds of a file that has not all of them are ignored.  *)
PolicyFromJsonAllThresholds(j) ==
  [policy_version |-> TextValue(j, "policy_version", <<"unknown">>),
   mode |-> TextValue(j, "mode", <<"REPORT_ONLY">>),
   risk_thresholds |->
     IF \A level \in Levels : Has(j, "risk_thresholds") /\ Has(At(j, "risk_thresholds"), level)
     THEN [level \in Levels |-> IntOf(At(At(j, "risk_thresholds"), level))]
     ELSE DefaultThresholds,
   rules |-> [r \in DOMAIN List(j, "rules") |-> RuleFromJson(List(j, "rules")[r])]]

PolicyFromJson(j) ==
  [policy_version |-> TextValue(j, "policy_version", <<"unknown">>),
   mode |-> TextValue(j, "mode", <<"REPORT_ONLY">>),
   risk_thresholds |->
     [level \in Levels |->
        IF Has(j, "risk_thresholds")
        THEN IntValue(At(j, "risk_thresholds"), level, DefaultThresholds[level])
        ELSE DefaultThresholds[level]],
   rules |-> [r \in DOMAIN List(j, "rules") |-> RuleFromJson(List(j, "rules")[r])]]

(* Empty pattern lists are left out.                                       *)
RuleToJson(rule) ==
  Object([key \in {k \in RuleFields : k \in RuleTexts \union {"risk_points"} \/ rule[k] # <<>>} |->
     CASE key \in RuleTexts -> Text(rule[key])
       [] key = "risk_points" -> Number(rule[key])
       [] key \in TextLists -> Array([i \in DOMAIN rule[key] |-> Text(rule[key][i])])
       [] OTHER -> Array([i \in DOMAIN rule[key] |-> Number(rule[key][i])])])

PolicyToJson(policy) ==
  Object([policy_version |-> Text(policy.policy_version),
          mode |-> Text(policy.mode),
          risk_thresholds |->
            Object([level \in Levels |-> Number(policy.risk_thresholds[level])]),
          rules |-> Array([r \in DOMAIN policy.rules |-> RuleToJson(policy.rules[r])])])
=============================================================================
