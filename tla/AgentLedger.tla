---------------------------- MODULE AgentLedger ----------------------------
(***************************************************************************)
(* The agent programs implement EvidenceLedger: what of the state of       *)
(* module Agent a reader of the database and of the control plane sees.    *)
(* And they implement AuditSessions: what of it their stores see.          *)
(***************************************************************************)
EXTENDS Agent

EventsAll(x) == 1..Len(Events[x])

(* Every rule match that any event of the run can have.                    *)
MatchesAll(x) ==
  UNION {{i} \X DOMAIN EvaluationOf(Events[x][i]).matches : i \in EventsAll(x)}

Noted == [x \in Run |-> {i \in EventsAll(x) : HasRow(x, "raw_events", RawKey(x, i))}]
Opened == [x \in Run |-> {p \in Pid : HasRow(x, "incidents", IncidentKey(x, p))}]
Proven == [x \in Run |-> {m \in MatchesAll(x) :
                            HasRow(x, "incident_rule_matches", MatchKey(x, m))}]

Ledger == INSTANCE EvidenceLedger WITH
  Count <- [x \in Run |-> Len(Events[x])],
  Subject <- [x \in Run |-> [i \in EventsAll(x) |-> EvaluationOf(Events[x][i]).event.pid]],
  Matches <- [x \in Run |-> [i \in EventsAll(x) |-> DOMAIN EvaluationOf(Events[x][i]).matches]],
  noted <- Noted,
  opened <- Opened,
  proven <- Proven,
  reported <- {m \in Report : request[m] # "none"},
  pending <- {m \in Report : request[m] = "sent"},
  listed <- received_incidents

(* Whatever the interleaving of runs, failures, kills and resets of either *)
(* store, each step shows a reader nothing or one step of the ledger: rows *)
(* come in the one order that makes a database of a stopped run readable,  *)
(* and a report only after its evidence (main.cpp:216-288,                 *)
(* AuditStore.cpp:242-282).                                                *)
ImplementsLedger == Ledger!Spec
-----------------------------------------------------------------------------
SessionOf(x) ==
  CASE pc[x] \in {"start", "reset"} -> "idle"
    [] pc[x] = "done" -> "returned"
    [] pc[x] \in {"failed", "crashed"} -> "stopped"
    [] OTHER -> IF handle[x] = NoFile THEN "reset" ELSE "open"

Sessions == INSTANCE AuditSessions WITH
  Resets <- {x \in Run : ResetDb[x]},
  MaxRows <- [x \in Run |-> Len(Events[x])],
  session <- [x \in Run |-> SessionOf(x)],
  inserted <- recorded,
  rows <- {row \in rows : row[2] = "raw_events"}

(* Both programs use the store as AuditSessions has it, although they load *)
(* their policy at different moments and may stop anywhere: a reset before *)
(* the open, no insert before initialize has returned, a row per event in  *)
(* order, and no return without an initialized store (main.cpp:148-217,    *)
(* fanotify_demo.cpp:82-160).                                              *)
ImplementsSessions == Sessions!Spec
=============================================================================
