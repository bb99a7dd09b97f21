---------------------------- MODULE MCCorrelator ----------------------------
(***************************************************************************)
(* Small inputs for Correlator: the shipped policy and the shipped demo    *)
(* chain, and policies and events chosen for the corners of the code.      *)
(***************************************************************************)
EXTENDS Correlator

(* config/runtime_policy.json, with one restricted port and two paths.     *)
TmpRule == [event_type |-> <<"EXEC">>, risk_points |-> 30,
            match_path_prefix |-> <<<<"tmp">>, <<"dev", "shm">>>>,
            sensitive_paths |-> <<>>, restricted_ports |-> <<>>]
FileRule == [event_type |-> <<"FILE_ACCESS">>, risk_points |-> 25,
             match_path_prefix |-> <<>>,
             sensitive_paths |-> <<<<"passwd">>, <<"shadow">>>>,
             restricted_ports |-> <<>>]
PortRule == [event_type |-> <<"NET_CONNECT">>, risk_points |-> 25,
             match_path_prefix |-> <<>>, sensitive_paths |-> <<>>,
             restricted_ports |-> <<4444, 5555>>]
Thresholds == [warning |-> 40, high |-> 70, critical |-> 90]
ShippedPolicy == [risk_thresholds |-> Thresholds,
                  rules |-> <<TmpRule, FileRule, PortRule>>]

(* Two rules on one event, and a threshold that is met exactly.            *)
TwoRulesPerEvent ==
  [risk_thresholds |-> [warning |-> 30, high |-> 55, critical |-> 85],
   rules |-> <<TmpRule, [TmpRule EXCEPT !.risk_points = 25], FileRule,
               [FileRule EXCEPT !.sensitive_paths = <<<<"shadow">>>>]>>]

(* Thresholds out of order, a rule worth nothing, an unusable rule type.   *)
OddPolicy ==
  [risk_thresholds |-> [warning |-> 60, high |-> 20, critical |-> 50],
   rules |-> <<[TmpRule EXCEPT !.risk_points = 0],
               [PortRule EXCEPT !.event_type = <<"UNKNOWN">>], PortRule>>]

(* A rule that takes points away, and one that matches every execution.    *)
NegativePolicy ==
  [risk_thresholds |-> Thresholds,
   rules |-> <<[TmpRule EXCEPT !.match_path_prefix = <<<<>>>>],
               [FileRule EXCEPT !.risk_points = -40]>>]

(* Points that overflow in one event, or only in an incident or a run.     *)
HugePolicy ==
  [risk_thresholds |-> Thresholds,
   rules |-> <<[TmpRule EXCEPT !.risk_points = 5000],
               [TmpRule EXCEPT !.match_path_prefix = <<<<"tmp", "x">>>>, !.risk_points = 6000],
               [FileRule EXCEPT !.risk_points = 8000], [PortRule EXCEPT !.risk_points = 100]>>]

MCPolicies == {ShippedPolicy, TwoRulesPerEvent, OddPolicy, NegativePolicy, HugePolicy}

Event(type, pid, time) ==
  [event_type |-> type, pid |-> pid, timestamp |-> time,
   process_path |-> <<"usr", "bash">>,
   command_line |-> <<"bash", "tmp", "suspicious">>,
   file_path |-> NoValue, dest_port |-> NoValue]

(* sample_events/suspicious_chain.json.                                    *)
DemoChain ==
  <<Event("EXEC", 3101, 0),
    [Event("FILE_ACCESS", 3101, 2) EXCEPT !.file_path = <<"passwd">>],
    [Event("NET_CONNECT", 3101, 4) EXCEPT !.dest_port = 4444]>>

(* Events of two processes and of the pid -1 that stands for a missing     *)
(* one; times need not follow the file order; 22 is not restricted; a NUL  *)
(* hides the match of one stored row and shows a false one in another.     *)
MCEvents ==
  {DemoChain[k] : k \in 1..3} \union
  {[Event("EXEC", 7, 1) EXCEPT !.process_path = <<"tmp", "x">>, !.command_line = <<>>],
   [Event("EXEC", 3101, 1) EXCEPT !.command_line = <<"ls">>],
   [Event("EXEC", 7, 4) EXCEPT !.command_line = <<"sh", Nul, "tmp">>],
   [Event("FILE_ACCESS", 7, 6) EXCEPT !.file_path = <<"passwd", Nul>>],
   [Event("FILE_ACCESS", 7, 3) EXCEPT !.file_path = <<"shadow">>],
   Event("FILE_ACCESS", 7, 0),
   [Event("NET_CONNECT", -1, 2) EXCEPT !.dest_port = 5555],
   [Event("NET_CONNECT", 7, 2) EXCEPT !.dest_port = 22],
   [Event("UNKNOWN", 7, 5) EXCEPT !.dest_port = 4444]}

MCEventFiles == UNION {[1..n -> MCEvents] : n \in 0..3}

(* README.md:102-115 and scripts/final_smoke_test.sh:37-40: the shipped    *)
(* chain ends as INC-001, 80 points, HIGH, EXEC -> FILE_ACCESS ->          *)
(* NET_CONNECT, although each event alone stays below the warning level.   *)
DemoScenario ==
  (policy = ShippedPolicy /\ events = DemoChain /\ Returned) =>
    /\ Len(incidents) = 1
    /\ incidents[1].total_risk_score = 80
    /\ incidents[1].verdict = "HIGH"
    /\ ChainSummary(incidents[1]) = <<"EXEC", "FILE_ACCESS", "NET_CONNECT">>
    /\ \A i \in 1..3 : evaluated[i].verdict = "LOW"
=============================================================================
