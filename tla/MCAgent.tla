------------------------------ MODULE MCAgent ------------------------------
(***************************************************************************)
(* Two executions on one database and one control plane.  The cfg says     *)
(* which of them are the fanotify program, start with --reset-db, and      *)
(* upload.  Evaluation is that of module RiskEvaluator under a policy with *)
(* two rules that can match the same event.                                *)
(***************************************************************************)
EXTENDS AgentLedger

CONSTANTS a, b, NoValue, IntMax, Fanotify, Resetting, Uploading

R == INSTANCE RiskEvaluator

MCRun == {a, b}
MCPid == {-1, 7}
MCReport == MCRun \X MCPid
MCProgram == [x \in MCRun |-> IF x \in Fanotify THEN "fanotify" ELSE "agent"]
MCResetDb == [x \in MCRun |-> x \in Resetting]
MCUploadEnabled == [x \in MCRun |-> x \in Uploading]

Rule(type, paths, ports) ==
  [event_type |-> R!EventTypeToString(type), risk_points |-> 25, match_path_prefix |-> <<>>,
   sensitive_paths |-> paths, restricted_ports |-> ports]
Policy == [risk_thresholds |-> [warning |-> 40, high |-> 70, critical |-> 90],
           rules |-> <<Rule("FILE_ACCESS", <<<<"passwd">>>>, <<>>),
                       Rule("NET_CONNECT", <<>>, <<4444>>),
                       Rule("FILE_ACCESS", <<<<"shadow">>, <<"passwd">>>>, <<>>)>>]
Event(type, pid, file, port) ==
  [event_type |-> type, pid |-> pid, file_path |-> file, dest_port |-> port,
   process_path |-> <<"bash">>, command_line |-> <<"bash">>, timestamp |-> 0]

(* Process 7 reads a file that two rules name; the event without a pid     *)
(* matches one rule; a file that no rule names reaches no incident.        *)
MCEvents ==
  [x \in MCRun |->
     IF x = a THEN <<Event("FILE_ACCESS", 7, <<"passwd">>, NoValue),
                     Event("NET_CONNECT", -1, NoValue, 4444)>>
     ELSE <<Event("FILE_ACCESS", 7, <<"hosts">>, NoValue),
            Event("FILE_ACCESS", 7, <<"shadow">>, NoValue)>>]

(* Evaluated once for all events, since TLC would do it at every use.      *)
Evaluations == [event \in UNION {{MCEvents[x][i] : i \in DOMAIN MCEvents[x]} : x \in MCRun} |->
               R!Evaluate(Policy, event)]
MCEvaluationOf(event) == Evaluations[event]

MCPriorSchemas ==
  {[t \in Tables |-> IF t = "raw_events" THEN "current" ELSE "legacy"]}

(* Later seconds have later local times, as without a DST change.          *)
MCLocalTime == [second \in 0..MaxClock |-> second]
=============================================================================
