----------------------------- MODULE AuditStore -----------------------------
(***************************************************************************)
(* The audit store of src/src/AuditStore.cpp as several runs use it on one *)
(* path at once.  Every statement is its own SQLite transaction: the code  *)
(* opens none and sets no busy timeout, so any statement may be refused    *)
(* while another run holds the lock, and it then throws.                   *)
(*                                                                         *)
(* A database file is named by the run that created it, or PriorFile if    *)
(* it was there before; unlinking the path leaves it to the runs that have *)
(* it open.  A row is <<file, table, key>>: the key stands for the values, *)
(* and the file and the table say where the row is.                        *)
(***************************************************************************)
EXTENDS Integers, FiniteSets

CONSTANTS
  Run,          \* the executions of the agent programs
  PriorFile,    \* the file at the path before the first of them
  PriorSchemas, \* what its tables may look like
  NoFile        \* no file: nothing at the path, or no open handle

VARIABLES
  path,         \* the file that the database path names, or NoFile
  schema,       \* file -> table -> "absent" | "legacy" | "current"
  rows,         \* the rows, each <<file, table, key>>
  handle,       \* run -> the file its AuditStore opened (kept after close)
  ddl,          \* run -> the next statement of initialize, 1..7
  inspected     \* run -> what ensureColumnExists read of the current table

storeVars == <<path, schema, rows, handle, ddl, inspected>>

File == Run \union {PriorFile}
Tables == {"raw_events", "incidents", "incident_rule_matches"}

(* The tables in the order in which initialize creates and migrates them.  *)
TableOrder == <<"raw_events", "incidents", "incident_rule_matches">>

(* initialize: statements 1..3 create, 4..6 migrate; 7 means it returned.  *)
Ready == 7

(* Mutant: the call for incidents names raw_events, as the one before it.  *)
TableAtCopied(position) ==
  TableOrder[IF position <= 3 THEN position ELSE IF position = 6 THEN 3 ELSE 1]

TableAt(position) == TableOrder[IF position <= 3 THEN position ELSE position - 3]

(* A table is absent, has no run_id column ("legacy"), or has one.         *)
Schemas == [Tables -> {"absent", "legacy", "current"}]

ASSUME NamesDiffer == PriorFile \notin Run /\ NoFile \notin File
ASSUME PriorAreSchemas == PriorSchemas \subseteq Schemas

StoreType ==
  /\ path \in File \union {NoFile}
  /\ schema \in [File -> Schemas]
  /\ handle \in [Run -> File \union {NoFile}]
  /\ ddl \in [Run -> 1..Ready]
  /\ inspected \in [Run -> {"unread", "lacking", "refused"}]

(* A prior file may come from a version whose tables had no run_id, or     *)
(* from a run that stopped half way; a new file is empty.                  *)
StoreInit ==
  /\ path \in {PriorFile, NoFile}
  /\ \E prior \in PriorSchemas :
       schema = [f \in File |-> IF f = PriorFile THEN prior
                                ELSE [t \in Tables |-> "absent"]]
  /\ rows = {}
  /\ handle = [r \in Run |-> NoFile]
  /\ ddl = [r \in Run |-> 1]
  /\ inspected = [r \in Run |-> "unread"]

(* The constructor: sqlite3_open opens what the path names or creates it.  *)
Open(r) ==
  /\ handle[r] = NoFile
  /\ path' = IF path = NoFile THEN r ELSE path
  /\ handle' = [handle EXCEPT ![r] = path']
  /\ UNCHANGED <<schema, rows, ddl, inspected>>

(* execute("CREATE TABLE IF NOT EXISTS ...") for the first three.          *)
CreateTable(r) ==
  /\ handle[r] # NoFile
  /\ ddl[r] <= 3
  /\ schema' = [schema EXCEPT ![handle[r]][TableAt(ddl[r])] =
                  IF @ = "absent" THEN "current" ELSE @]
  /\ ddl' = [ddl EXCEPT ![r] = @ + 1]
  /\ UNCHANGED <<path, rows, handle, inspected>>

(* ensureColumnExists, first half: if run_id is among the columns there is *)
(* nothing to alter.                                                       *)
ColumnExists(r) ==
  /\ handle[r] # NoFile
  /\ ddl[r] \in 4..6
  /\ inspected[r] = "unread"
  /\ schema[handle[r]][TableAt(ddl[r])] = "current"
  /\ ddl' = [ddl EXCEPT ![r] = @ + 1]
  /\ UNCHANGED <<path, schema, rows, handle, inspected>>

(* Mutant: the names of the columns are compared wrongly, so that run_id   *)
(* is not recognised.                                                      *)
ColumnMisread(r) ==
  /\ handle[r] # NoFile
  /\ ddl[r] \in 4..6
  /\ inspected[r] = "unread"
  /\ inspected' \in {[inspected EXCEPT ![r] = "lacking"],
                     [inspected EXCEPT ![r] = "refused"]}
  /\ UNCHANGED <<path, schema, rows, handle, ddl>>

(* Otherwise the table is to be altered.  The loop over the columns ends   *)
(* on anything but SQLITE_ROW, so a step that SQLite refuses counts as a   *)
(* missing column as well.                                                 *)
ColumnMissing(r) ==
  /\ handle[r] # NoFile
  /\ ddl[r] \in 4..6
  /\ inspected[r] = "unread"
  /\ \/ /\ schema[handle[r]][TableAt(ddl[r])] # "current"
        /\ inspected' = [inspected EXCEPT ![r] = "lacking"]
     \/ inspected' = [inspected EXCEPT ![r] = "refused"]
  /\ UNCHANGED <<path, schema, rows, handle, ddl>>

(* ensureColumnExists, second half: ALTER TABLE ... ADD COLUMN succeeds    *)
(* only on a table that still lacks the column,                            *)
AddColumn(r) ==
  /\ inspected[r] # "unread"
  /\ schema[handle[r]][TableAt(ddl[r])] = "legacy"
  /\ schema' = [schema EXCEPT ![handle[r]][TableAt(ddl[r])] = "current"]
  /\ ddl' = [ddl EXCEPT ![r] = @ + 1]
  /\ inspected' = [inspected EXCEPT ![r] = "unread"]
  /\ UNCHANGED <<path, rows, handle>>

(* and otherwise it fails with "duplicate column name" and throws.         *)
DuplicateColumn(r) ==
  /\ inspected[r] # "unread"
  /\ schema[handle[r]][TableAt(ddl[r])] = "current"
  /\ UNCHANGED storeVars

(* Mutants: the path is opened again for each insert; the result of        *)
(* sqlite3_step is not looked at.                                          *)
InsertRowAtPath(r, table, key) ==
  /\ ddl[r] = Ready
  /\ schema[handle[r]][table] = "current"
  /\ rows' = rows \union {<<path, table, key>>}
  /\ UNCHANGED <<path, schema, handle, ddl, inspected>>

InsertRowUnchecked(r, table, key) ==
  /\ ddl[r] = Ready
  /\ schema[handle[r]][table] = "current"
  /\ rows' \in {rows, rows \union {<<handle[r], table, key>>}}
  /\ UNCHANGED <<path, schema, handle, ddl, inspected>>

(* One INSERT, naming the run_id column; it commits on its own.            *)
InsertRow(r, table, key) ==
  /\ ddl[r] = Ready
  /\ schema[handle[r]][table] = "current"
  /\ rows' = rows \union {<<handle[r], table, key>>}
  /\ UNCHANGED <<path, schema, handle, ddl, inspected>>

(* std::filesystem::remove on the path: unlink, a no-op if it is absent.   *)
RemovePath ==
  /\ path' = NoFile
  /\ UNCHANGED <<schema, rows, handle, ddl, inspected>>
=============================================================================
