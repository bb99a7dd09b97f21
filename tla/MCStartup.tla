----------------------------- MODULE MCStartup -----------------------------
(***************************************************************************)
(* All short command lines with files that load, and no arguments with all *)
(* combinations of policy and event files, good and bad.                   *)
(***************************************************************************)
EXTENDS Startup

Join(members, more) == Object(more @@ members[2])

File == Object([event_id |-> Text(<<"e">>), event_type |-> Text(<<"FILE_ACCESS">>),
                timestamp |-> Text(<<"t">>), pid |-> Number(7), ppid |-> Number(1),
                uid |-> Number(0), process_name |-> Text(<<"cat">>),
                process_path |-> Text(<<"usr", "cat">>), command_line |-> Text(<<"cat">>),
                file_path |-> Text(<<"passwd">>), dest_ip |-> <<"null", 0>>])
Net(port) == Object([event_type |-> Text(<<"NET_CONNECT">>), dest_ip |-> Text(<<"ip">>),
                     dest_port |-> port])

(* 2 * IntMax + 2 more is the same int.                                    *)
Wide(n) == Number(n + 2 * IntMax + 2)

MCItems ==
  {File, Object(<<>>), Net(Number(4444)), Net(<<"float", 4444>>), Net(Wide(4444)),
   Net(<<"null", 0>>), Join(File, [pid |-> Wide(7)]), Join(File, [pid |-> <<"boolean", 1>>]),
   Join(File, [event_type |-> Text(<<"exec">>)]), Join(File, [pid |-> <<"null", 0>>]),
   Join(File, [file_path |-> Number(1)]), Array(<<>>)}

Rule(type, list, patterns) ==
  Object([rule_id |-> Text(<<"R">>), event_type |-> Text(<<type>>),
          risk_points |-> Number(25)] @@ (list :> patterns))
FileRule == Rule("FILE_ACCESS", "sensitive_paths", Array(<<Text(<<"shadow">>), Text(<<"passwd">>)>>))
PortRule(ports) == Rule("NET_CONNECT", "restricted_ports", ports)
Policy(rules) == Object([policy_version |-> Text(<<"v1">>), rules |-> Array(rules)])

MCPolicyFiles ==
  LET ports == PortRule(Array(<<Number(22), Number(4444)>>))
      wide == PortRule(Array(<<Wide(4444), <<"boolean", 1>>>>))
      some == Object([high |-> Number(50), critical |-> Wide(1)])
  IN {Policy(<<FileRule, ports>>),
      Join(Policy(<<wide, Join(FileRule, [severity |-> Text(<<"HIGH">>)])>>),
           [risk_thresholds |-> some]),
      Join(Policy(<<PortRule(Number(4444)), FileRule>>), [mode |-> Text(<<"BLOCK">>)]),
      Policy(<<>>), Array(<<FileRule>>), Object([mode |-> Text(<<"BLOCK">>)]),
      Join(Policy(<<ports>>), [risk_thresholds |-> <<"null", 0>>]),
      Policy(<<FileRule, PortRule(Array(<<Number(22), Text(<<"4444">>)>>))>>),
      Policy(<<Number(1)>>), <<"malformed", 0>>}

MCEventFiles ==
  {Array(items) : items \in UNION {[1..n -> MCItems] : n \in 0..2}}
    \union {File, <<"missing", 0>>, <<"malformed", 0>>}

Files(policy_file, event_file) ==
  ("config/runtime_policy.json" :> policy_file) @@
  ("sample_events/suspicious_chain.json" :> event_file)

(* Files, and their parts down to the patterns of a rule.                  *)
Parts(j) == IF j[1] \in {"array", "object"} THEN Range(j[2]) ELSE {}
WithParts(values) == values \union UNION {Parts(j) : j \in values}
MCJson ==
  WithParts(WithParts(WithParts(WithParts(
    {Policy(<<FileRule>>)} \union MCPolicyFiles \union MCEventFiles))))

MCArgs == {"--help", "--db", "--reset-db", "--inspect-pid", "--duration", "7", "0", "99999", "x"}

MCInputs ==
  [program : {"agent", "fanotify"}, argv : UNION {[1..n -> MCArgs] : n \in 0..4},
   files : {Files(Policy(<<FileRule>>), Array(<<File>>))}]
  \union [program : {"agent", "fanotify"}, argv : {<<>>},
          files : {Files(p, e) : p \in MCPolicyFiles, e \in MCEventFiles}]

MCLeading == ("7" :> 7) @@ ("0" :> 0) @@ ("99999" :> 99999)
=============================================================================
