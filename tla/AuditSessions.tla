--------------------------- MODULE AuditSessions ---------------------------
(***************************************************************************)
(* Runs that start on one audit database at the same time, as far as the   *)
(* store is concerned: an optional reset, the constructor, initialize, and *)
(* inserts until the run ends.  It asks whether concurrent migrations of   *)
(* an old database can go wrong; module Agent has the whole run.           *)
(***************************************************************************)
EXTENDS AuditStore

CONSTANTS
  Resets,       \* the runs started with --reset-db
  MaxRows       \* bound: run -> the raw_events rows that it inserts

ASSUME MaxRowsAreCounts == MaxRows \in [Run -> Nat]

VARIABLES
  session,      \* run -> where the run is with its store
  inserted      \* run -> how many rows it has inserted

vars == <<storeVars, session, inserted>>

Ended == {"returned", "duplicate", "stopped"}
Sessions == {"idle", "reset", "open"} \union Ended

Init ==
  /\ StoreInit
  /\ session = [r \in Run |-> "idle"]
  /\ inserted = [r \in Run |-> 0]

Become(r, state) == session' = [session EXCEPT ![r] = state]

(* resetDatabaseIfRequested, before the store is opened.                   *)
Reset(r) ==
  /\ session[r] = "idle"
  /\ IF r \in Resets THEN RemovePath ELSE UNCHANGED storeVars
  /\ Become(r, "reset")
  /\ UNCHANGED inserted

Construct(r) ==
  /\ session[r] = "reset"
  /\ Open(r)
  /\ Become(r, "open")
  /\ UNCHANGED inserted

(* A statement of initialize that succeeds.                                *)
Initialize(r) ==
  /\ session[r] = "open"
  /\ CreateTable(r) \/ ColumnExists(r) \/ ColumnMissing(r) \/ AddColumn(r)
  /\ UNCHANGED <<session, inserted>>

(* The ALTER that another run's ALTER has made fail.                       *)
LoseRace(r) ==
  /\ session[r] = "open"
  /\ DuplicateColumn(r)
  /\ Become(r, "duplicate")
  /\ UNCHANGED inserted

Insert(r) ==
  /\ session[r] = "open"
  /\ inserted[r] < MaxRows[r]
  /\ InsertRow(r, "raw_events", <<r, inserted[r] + 1>>)
  /\ inserted' = [inserted EXCEPT ![r] = @ + 1]
  /\ UNCHANGED session

(* The destructor runs when the pipeline returns.                          *)
Close(r) ==
  /\ session[r] = "open"
  /\ ddl[r] = Ready
  /\ Become(r, "returned")
  /\ UNCHANGED <<storeVars, inserted>>

(* Any statement may be refused, the remove and the open included, and     *)
(* the process may be killed; what was committed stays.                    *)
Stop(r) ==
  /\ session[r] \in {"idle", "reset", "open"}
  /\ Become(r, "stopped")
  /\ UNCHANGED <<storeVars, inserted>>

AllEnded == (\A r \in Run : session[r] \in Ended) /\ UNCHANGED vars

Next ==
  \/ \E r \in Run :
       Reset(r) \/ Construct(r) \/ Initialize(r) \/ LoseRace(r) \/ Insert(r)
         \/ Close(r) \/ Stop(r)
  \/ AllEnded

Spec == Init /\ [][Next]_vars
-----------------------------------------------------------------------------
TypeOK ==
  /\ StoreType
  /\ rows \subseteq File \X Tables \X (Run \X Nat)
  /\ session \in [Run -> Sessions]
  /\ inserted \in [Run -> Nat]
  /\ \A r \in Run : inserted[r] <= MaxRows[r]

(* A store whose initialize has returned has all three tables with the     *)
(* run_id column, whoever created or migrated them and whatever other runs *)
(* do to the path or to the same file meanwhile (AuditStore.cpp:86-139).   *)
InitializedIsCurrent ==
  \A r \in Run : ddl[r] = Ready =>
    \A t \in Tables : schema[handle[r]][t] = "current"

(* Migrations that race cannot all fail: a run that found the column       *)
(* missing and then dies of "duplicate column name" leaves another run of  *)
(* the same file that got further, so that the run that got furthest never *)
(* dies of it (AuditStore.cpp:65-83).                                      *)
RaceHasAWinner ==
  \A r \in Run : (session[r] = "duplicate" /\ inspected[r] = "lacking") =>
    \E q \in Run : handle[q] = handle[r] /\ ddl[q] > ddl[r]

(* What a run inserted is all in the one file that it opened, also when    *)
(* another run has meanwhile unlinked that file or put a new one at the    *)
(* path (AuditStore.cpp:17-22, main.cpp:153-154).                          *)
RowsStayTogether ==
  \A r \in Run :
    {row \in rows : row[3][1] = r}
      = {<<handle[r], "raw_events", <<r, k>>>> : k \in 1..inserted[r]}
=============================================================================
