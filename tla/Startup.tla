------------------------------ MODULE Startup ------------------------------
(***************************************************************************)
(* What happens before a run has anything to work on: parseArgs, the mode  *)
(* that only inspects a process, the reset of the database and the loading *)
(* of the files, of both programs (src/src/main.cpp and                    *)
(* src/src/fanotify_demo.cpp).  One action is one iteration of a loop or   *)
(* one call.  An option is named by the flag that sets it.  The stores and *)
(* the failures in between are those of module Agent.                      *)
(***************************************************************************)
EXTENDS Loaders

CONSTANTS
  Inputs,       \* what a run starts with: program, argv and files
  Leading       \* text -> the number it begins with; other texts have none

VARIABLES
  input,        \* one of them: argv without the name, path -> its content
  arg_index,    \* how many arguments are consumed
  options,      \* flag -> operand or BOOLEAN
  stage,        \* where main is
  removed,      \* the databases that were removed
  policy,       \* the policy, or NoValue
  events        \* the loaded events

vars == <<input, arg_index, options, stage, removed, policy, events>>

(* The flags with an operand and its default; inspect_pid_mode is that the *)
(* pid is not NoValue.  The other flags have none.                         *)
Defaults ==
  [agent |-> [f \in {"--events", "--policy", "--db", "--inspect-pid", "--control-plane-url",
                     "--device-id"} |->
     CASE f = "--events" -> "sample_events/suspicious_chain.json"
       [] f = "--policy" -> "config/runtime_policy.json"
       [] f = "--db" -> "kernelgate.db"
       [] f = "--inspect-pid" -> NoValue
       [] f = "--control-plane-url" -> "http://127.0.0.1:8000"
       [] f = "--device-id" -> "kernelgate-endpoint-01"],
   fanotify |-> [f \in {"--watch-dir", "--target-file", "--duration", "--db"} |->
     CASE f = "--watch-dir" -> "/etc"
       [] f = "--target-file" -> "/etc/passwd"
       [] f = "--duration" -> 15
       [] f = "--db" -> "kernelgate_fanotify.db"]]
Switches == [agent |-> {"--reset-db", "--upload"}, fanotify |-> {"--reset-db"}]
Numeric == {"--inspect-pid", "--duration"}

Operands == DOMAIN Defaults[input.program]
Given == Switches[input.program]
Flags == Operands \union Given

(* The two programs; arguments are texts, and files hold JSON values, of   *)
(* which one kind says that a file is no JSON.                             *)
ASSUME InputsAreTexts ==
  /\ \A i \in Inputs : i.program \in DOMAIN Defaults /\ i.argv \in Seq(STRING)
  /\ UNION {Range(i.files) : i \in Inputs} \subseteq Json
  /\ \A text \in DOMAIN Leading : Leading[text] \in Int

(* std::stoi: leading digits are enough, but they have to fit.             *)
StoiThrows(text) == text \in DOMAIN Leading => ~FitsInt(Leading[text])
Operand(flag, text) == IF flag \in Numeric THEN Leading[text] ELSE text

Init ==
  /\ input \in Inputs
  /\ arg_index = 0
  /\ options = [f \in Flags |-> IF f \in Given THEN FALSE ELSE Defaults[input.program][f]]
  /\ stage = "args"
  /\ removed = {} /\ policy = NoValue /\ events = <<>>
-----------------------------------------------------------------------------
GoTo(where) == stage' = where
Arg == input.argv[arg_index + 1]
HasArg == stage = "args" /\ arg_index < Len(input.argv)

(* An exception: everything that was loaded is gone with the stack.        *)
Throw ==
  /\ GoTo("error") /\ policy' = NoValue /\ events' = <<>>
  /\ UNCHANGED <<input, arg_index, options, removed>>

ParseHelp ==
  /\ HasArg /\ Arg = "--help"
  /\ GoTo("help") /\ arg_index' = arg_index + 1
  /\ UNCHANGED <<input, options, removed, policy, events>>

(* Mutant: the operand is looked at but not consumed.                      *)
ParseOperandInPlace ==
  /\ HasArg /\ Arg \in Operands /\ arg_index + 1 < Len(input.argv)
  /\ LET operand == input.argv[arg_index + 2]
     IN IF Arg \in Numeric /\ StoiThrows(operand) THEN Throw
        ELSE /\ options' = [options EXCEPT ![Arg] = Operand(Arg, operand)]
             /\ arg_index' = arg_index + 1
             /\ UNCHANGED <<input, stage, removed, policy, events>>

(* The next argument is the operand, whatever it looks like.               *)
ParseOperand ==
  /\ HasArg /\ Arg \in Operands /\ arg_index + 1 < Len(input.argv)
  /\ LET operand == input.argv[arg_index + 2]
     IN IF Arg \in Numeric /\ StoiThrows(operand) THEN Throw
        ELSE /\ options' = [options EXCEPT ![Arg] = Operand(Arg, operand)]
             /\ arg_index' = arg_index + 2
             /\ UNCHANGED <<input, stage, removed, policy, events>>

(* Mutants: a switch consumes an operand, too; the database is removed as  *)
(* soon as the switch is read.                                             *)
ParseSwitchSkipping ==
  /\ HasArg /\ Arg \in Given
  /\ options' = [options EXCEPT ![Arg] = TRUE]
  /\ arg_index' = arg_index + 2
  /\ UNCHANGED <<input, stage, removed, policy, events>>

ParseSwitchResetting ==
  /\ HasArg /\ Arg \in Given
  /\ options' = [options EXCEPT ![Arg] = TRUE]
  /\ arg_index' = arg_index + 1
  /\ removed' = IF Arg = "--reset-db" THEN {options["--db"]} ELSE removed
  /\ UNCHANGED <<input, stage, policy, events>>

ParseSwitch ==
  /\ HasArg /\ Arg \in Given
  /\ options' = [options EXCEPT ![Arg] = TRUE]
  /\ arg_index' = arg_index + 1
  /\ UNCHANGED <<input, stage, removed, policy, events>>

(* No operand is left for the flag, or the argument is none of these.      *)
RejectArgument ==
  /\ HasArg /\ Arg \notin Given \union {"--help"}
  /\ Arg \in Operands => arg_index + 1 = Len(input.argv)
  /\ Throw

EndOfArguments ==
  /\ stage = "args" /\ arg_index = Len(input.argv)
  /\ GoTo(IF "--inspect-pid" \in Operands /\ options["--inspect-pid"] # NoValue
          THEN "inspect" ELSE "reset")
  /\ UNCHANGED <<input, arg_index, options, removed, policy, events>>

(* runInspectPidMode, with inspectPid as in module ProcEnricher.           *)
InspectPidMode ==
  /\ stage = "inspect"
  /\ \/ GoTo("inspected") /\ options["--inspect-pid"] > 0
     \/ GoTo("not_found")
  /\ UNCHANGED <<input, arg_index, options, removed, policy, events>>

(* resetDatabaseIfRequested.                                               *)
ResetDatabase ==
  /\ stage = "reset"
  /\ \/ /\ GoTo("policy")
        /\ removed' = IF options["--reset-db"] THEN {options["--db"]} ELSE {}
        /\ UNCHANGED <<input, arg_index, options, policy, events>>
     \/ options["--reset-db"] /\ Throw
-----------------------------------------------------------------------------
(* A file that is missing or no JSON has a content of that kind.           *)
Content(path) == IF path \in DOMAIN input.files THEN input.files[path] ELSE <<"missing", 0>>
Unreadable(path) == Content(path)[1] \in {"missing", "malformed"}

(* The fanotify program has no option for the policy file.                 *)
PolicyFile ==
  IF "--policy" \in Operands THEN options["--policy"] ELSE "config/runtime_policy.json"
EventFile == options["--events"]

LoadPolicy ==
  /\ stage = "policy"
  /\ IF Unreadable(PolicyFile) \/ PolicyThrows(Content(PolicyFile)) THEN Throw
     ELSE /\ policy' = PolicyFromJson(Content(PolicyFile))
          /\ GoTo(IF input.program = "agent" THEN "events" ELSE "ready")
          /\ UNCHANGED <<input, arg_index, options, removed, events>>

(* loadEventsFromFile: the root, then one item after the other.            *)
OpenEventFile ==
  /\ stage = "events"
  /\ IF Unreadable(EventFile) \/ ~IsArray(Content(EventFile)) THEN Throw
     ELSE /\ GoTo("items")
          /\ UNCHANGED <<input, arg_index, options, removed, policy, events>>

Items == Content(EventFile)[2]

LoadItem ==
  /\ stage = "items"
  /\ Len(events) < Len(Items)
  /\ LET item == Items[Len(events) + 1]
     IN IF EventThrows(item) THEN Throw
        ELSE /\ events' = Append(events, EventFromJson(item))
             /\ UNCHANGED <<input, arg_index, options, stage, removed, policy>>

EndOfItems ==
  /\ stage = "items" /\ Len(events) = Len(Items)
  /\ GoTo("ready")
  /\ UNCHANGED <<input, arg_index, options, removed, policy, events>>

Ended == {"help", "error", "inspected", "not_found", "ready"}
Returned == stage \in Ended /\ UNCHANGED vars

Next ==
  \/ ParseHelp \/ ParseOperand \/ ParseSwitch \/ RejectArgument \/ EndOfArguments
  \/ InspectPidMode \/ ResetDatabase \/ LoadPolicy \/ OpenEventFile \/ LoadItem
  \/ EndOfItems \/ Returned

Spec == Init /\ [][Next]_vars
-----------------------------------------------------------------------------
TypeOK ==
  /\ input \in Inputs /\ arg_index \in 0..Len(input.argv)
  /\ DOMAIN options = Flags
  /\ stage \in Ended \union {"args", "inspect", "reset", "policy", "events", "items"}
  /\ policy = NoValue \/ Len(policy.rules) >= 0
  /\ \A i \in DOMAIN events : DOMAIN events[i] = EventFields

(* Which arguments are flags follows from the positions before them: the   *)
(* first one is, and so is the one after a switch or after an operand.     *)
IsFlag ==
  LET argv == input.argv
      flag[k \in 1..Len(argv)] ==
        \/ k = 1
        \/ flag[k - 1] /\ argv[k - 1] \notin Operands
        \/ k > 2 /\ ~flag[k - 1]
  IN flag

(* The positions of a flag among the arguments consumed so far.            *)
Places(flag) == {k \in 1..arg_index : IsFlag[k] /\ input.argv[k] = flag}

(* The options are what the arguments say: a switch is set if and only if  *)
(* it is given as such and not as the operand of a flag, the last operand  *)
(* counts, and the rest has its default (main.cpp:50-124,                  *)
(* fanotify_demo.cpp:39-95).                                               *)
OptionsAreMeant ==
  \A flag \in Flags :
    options[flag] =
      IF flag \in Given THEN Places(flag) # {}
      ELSE IF Places(flag) = {} THEN Defaults[input.program][flag]
      ELSE Operand(flag, input.argv[Max(Places(flag)) + 1])

(* A mistake anywhere in the arguments, a request for help and an          *)
(* inspection cost no database: one is removed only when all arguments are *)
(* accepted, and then it is the one they name last, also if --db comes     *)
(* after --reset-db (main.cpp:308-316, 178; README.md:342).                *)
OnlyMeantIsRemoved ==
  removed # {} =>
    /\ arg_index = Len(input.argv) /\ stage \notin {"args", "help", "inspected", "not_found"}
    /\ Places("--reset-db") # {} /\ removed = {options["--db"]}
    /\ "--inspect-pid" \in Operands => Places("--inspect-pid") = {}

(* Values that a conversion cannot change: texts and integers that fit,    *)
(* and nonempty arrays of these where a list is expected.                  *)
Plain(j) == IsText(j) \/ (j[1] = "integer" /\ FitsInt(j[2]))
Kept(key, j) ==
  IF key \in Lists THEN IsArray(j) /\ j[2] # <<>> /\ \A i \in DOMAIN j[2] : Plain(j[2][i])
  ELSE Plain(j)

(* Of the given members, back has all that from has.                       *)
Repeats(back, from, keys) ==
  \A key \in keys : (Has(from, key) /\ Kept(key, At(from, key))) =>
    Has(back, key) /\ At(back, key) = At(from, key)

KnownType(j) == EventTypeFromString(TextValue(j, "event_type", <<>>)) # "UNKNOWN"

(* What was loaded says what the files say: written as JSON again, policy  *)
(* and events repeat every member that the code knows, in the same place;  *)
(* only numbers that do not fit, unknown types and pattern lists that are  *)
(* no arrays are lost (PolicyLoader.cpp:46-91, Event.cpp:37-119).          *)
LoadedSaysWhatFilesSay ==
  /\ policy # NoValue =>
       LET from == Content(PolicyFile)
           back == PolicyToJson(policy)
       IN /\ Repeats(back, from, {"policy_version", "mode"})
          /\ Has(from, "risk_thresholds") =>
               Repeats(At(back, "risk_thresholds"), At(from, "risk_thresholds"), Levels)
          /\ Len(policy.rules) = Len(At(from, "rules")[2])
          /\ \A r \in DOMAIN policy.rules :
               Repeats(At(back, "rules")[2][r], At(from, "rules")[2][r], RuleFields)
  /\ \A i \in DOMAIN events :
       Repeats(EventToJson(events[i]), Items[i],
               IF KnownType(Items[i]) THEN EventFields ELSE EventFields \ {"event_type"})

(* What is written can be read, and gives the same: absent optionals stay  *)
(* absent, empty lists empty, and defaults are written out                 *)
(* (Event.cpp:67-95, PolicyLoader.cpp:106-145).                            *)
RoundTrip ==
  /\ policy # NoValue => /\ ~PolicyThrows(PolicyToJson(policy))
                         /\ PolicyFromJson(PolicyToJson(policy)) = policy
  /\ \A i \in DOMAIN events : /\ ~EventThrows(EventToJson(events[i]))
                              /\ EventFromJson(EventToJson(events[i])) = events[i]

(* An item of the event file that is what a rule of the policy file lists; *)
(* and a port of one of them that need not be the number in the file.      *)
OfType(type, item, rule) ==
  /\ TextValue(item, "event_type", <<"UNKNOWN">>) = <<type>>
  /\ TextValue(rule, "event_type", <<>>) = <<type>>
NamesFile(item, rule) ==
  /\ OfType("FILE_ACCESS", item, rule) /\ Present(item, "file_path")
  /\ At(item, "file_path") \in Range(List(rule, "sensitive_paths"))
NamesPort(item, rule) ==
  /\ OfType("NET_CONNECT", item, rule) /\ Present(item, "dest_port")
  /\ At(item, "dest_port") \in Range(List(rule, "restricted_ports"))
NarrowsPort(item, rule) ==
  /\ OfType("NET_CONNECT", item, rule) /\ Present(item, "dest_port")
  /\ \E port \in Range(List(rule, "restricted_ports")) :
       ~(Plain(port) /\ Plain(At(item, "dest_port")))

(* The file and port patterns of a policy file are armed, and only they:   *)
(* once both files are loaded, an access or a connection that names one,   *)
(* in a rule of the event's type, matches that rule, and one that names    *)
(* none matches only if a port is concerned that is no integer or does not *)
(* fit an int (PolicyLoader.cpp:10-42, Event.cpp:52-62, RiskEvaluator.cpp: *)
(* 97-139).                                                                *)
PatternsAreArmed ==
  \A i \in DOMAIN events : \A r \in DOMAIN policy.rules :
    LET item == Items[i]
        rule == At(Content(PolicyFile), "rules")[2][r]
        matched == {m.rule : m \in Range(Evaluate(policy, events[i]).matches)}
    IN /\ (NamesFile(item, rule) \/ NamesPort(item, rule)) => r \in matched
       /\ (r \in matched /\ events[i].event_type \in {"FILE_ACCESS", "NET_CONNECT"}) =>
            NamesFile(item, rule) \/ NamesPort(item, rule) \/ NarrowsPort(item, rule)
=============================================================================
