-------------------------- MODULE MCAuditSessions --------------------------
(* Three runs on one path, one of them with --reset-db.                    *)
EXTENDS AuditSessions, TLC

CONSTANTS r1, r2, r3

MCRun == {r1, r2, r3}
MCResets == {r3}
MCMaxRows == [r \in MCRun |-> 1]

(* No table yet, all without run_id, a migration stopped half way, a       *)
(* creation stopped half way, nothing to do.                               *)
MCPriorSchemas ==
  LET Shape(raw, incidents, matches) ==
        [t \in Tables |-> CASE t = "raw_events" -> raw
                            [] t = "incidents" -> incidents
                            [] OTHER -> matches]
  IN {Shape("absent", "absent", "absent"), Shape("legacy", "legacy", "legacy"),
      Shape("current", "legacy", "legacy"), Shape("legacy", "absent", "absent"),
      Shape("current", "current", "current")}

MCSymmetry == Permutations({r1, r2})
=============================================================================
