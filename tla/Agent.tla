------------------------------- MODULE Agent -------------------------------
(***************************************************************************)
(* Executions of the two agent programs on one audit database and one      *)
(* control plane: runDefaultPipeline of src/src/main.cpp ("agent") and     *)
(* main of src/src/fanotify_demo.cpp ("fanotify").  An action is a stage,  *)
(* or one iteration of a stage's loop, up to and including the one call    *)
(* that others can observe: a statement of the store, a request, a read of *)
(* the clock.  Computation that only the run itself sees belongs to the    *)
(* action that precedes it.                                                *)
(***************************************************************************)
EXTENDS AuditStore, UemClient, Incidents

CONSTANTS
  Program,      \* run -> "agent" | "fanotify"
  ResetDb,      \* run -> --reset-db is given
  UploadEnabled,\* run -> --upload is given
  Events,       \* run -> its event file, or what fanotify may report
  EvaluationOf(_),  \* RiskEvaluator::evaluate under the policy
  Pid,          \* the processes of the events
  LocalTime,    \* second of the clock -> what localtime_r makes of it
  MaxClock      \* bound: the seconds that the clock may advance

VARIABLES
  clock,        \* seconds since the first run
  run_id,       \* run -> the id it has generated, or NoRunId
  pc,           \* run -> its stage
  loaded,       \* run -> how many events it has loaded or captured
  recorded,     \* run -> how many of them are inserted and evaluated
  todo,         \* run -> the pids whose incidents the loop has yet to finish
  left          \* run -> the rule matches still to insert for the current one

runVars == <<run_id, pc, loaded, recorded, todo, left>>
vars == <<clock, runVars, storeVars, uemVars>>

ASSUME ReportsAreIncidents == Report = Run \X Pid
ASSUME EventsAreSequences == \A x \in Run : Len(Events[x]) \in Nat
ASSUME ResultsAreMatches ==
  \A x \in Run : \A i \in 1..Len(Events[x]) :
    LET result == EvaluationOf(Events[x][i])
    IN /\ result.event.pid \in Pid
       /\ Len(result.matches) \in Nat
       /\ DOMAIN result.matches = 1..Len(result.matches)
       /\ Len(result.matches) = 0 => result.matches = <<>>
ASSUME PidsAreIntegers == Pid \subseteq Int
ASSUME ClockIsRead == MaxClock \in Nat /\ DOMAIN LocalTime = 0..MaxClock

NoRunId == -1
Ended == {"done", "failed", "crashed"}
Stages == {"start", "reset", "policy", "open", "initialize", "events", "record",
           "incident", "evidence", "upload", "response"} \union Ended

(* evaluated_events, and the keys of rows and reports.                     *)
Results(x) == [i \in 1..recorded[x] |-> EvaluationOf(Events[x][i])]
RawKey(x, i) == <<x, i>>
IncidentKey(x, pid) == <<x, pid>>
MatchKey(x, m) == <<x, m>>

Init ==
  /\ clock = 0
  /\ run_id = [x \in Run |-> NoRunId]
  /\ pc = [x \in Run |-> "start"]
  /\ loaded = [x \in Run |-> 0]
  /\ recorded = [x \in Run |-> 0]
  /\ todo = [x \in Run |-> {}]
  /\ left = [x \in Run |-> {}]
  /\ StoreInit
  /\ UemInit

GoTo(x, stage) == pc' = [pc EXCEPT ![x] = stage]

(* generateRunId: the local time, to the second.                           *)
GenerateRunId(x) ==
  /\ pc[x] = "start"
  /\ run_id' = [run_id EXCEPT ![x] = LocalTime[clock]]
  /\ GoTo(x, "reset")
  /\ UNCHANGED <<clock, loaded, recorded, todo, left, storeVars, uemVars>>

(* Mutant: the flag is not looked at.                                      *)
ResetDatabaseAlways(x) ==
  /\ pc[x] = "reset"
  /\ RemovePath
  /\ GoTo(x, IF Program[x] = "agent" THEN "open" ELSE "policy")
  /\ UNCHANGED <<clock, run_id, loaded, recorded, todo, left, uemVars>>

(* resetDatabaseIfRequested.  The agent opens the store next; the fanotify *)
(* program first loads its policy.                                         *)
ResetDatabase(x) ==
  /\ pc[x] = "reset"
  /\ IF ResetDb[x] THEN RemovePath ELSE UNCHANGED storeVars
  /\ GoTo(x, IF Program[x] = "agent" THEN "open" ELSE "policy")
  /\ UNCHANGED <<clock, run_id, loaded, recorded, todo, left, uemVars>>

LoadPolicy(x) ==
  /\ pc[x] = "policy"
  /\ GoTo(x, IF Program[x] = "agent" THEN "events" ELSE "open")
  /\ UNCHANGED <<clock, run_id, loaded, recorded, todo, left, storeVars, uemVars>>

OpenStore(x) ==
  /\ pc[x] = "open"
  /\ Open(x)
  /\ GoTo(x, "initialize")
  /\ UNCHANGED <<clock, run_id, loaded, recorded, todo, left, uemVars>>

(* One statement of initialize; the last one leads to the next stage.      *)
InitializeStore(x) ==
  /\ pc[x] = "initialize"
  /\ CreateTable(x) \/ ColumnExists(x) \/ ColumnMissing(x) \/ AddColumn(x)
  /\ IF ddl'[x] = Ready
     THEN GoTo(x, IF Program[x] = "agent" THEN "policy" ELSE "events")
     ELSE UNCHANGED pc
  /\ UNCHANGED <<clock, run_id, loaded, recorded, todo, left, uemVars>>

(* loadEventsFromFile is all or nothing; captureFileEvents returns what    *)
(* was reported before the deadline or until max_events.                   *)
LoadEvents(x) ==
  /\ pc[x] = "events"
  /\ \E n \in 0..Len(Events[x]) :
       /\ Program[x] = "agent" => n = Len(Events[x])
       /\ loaded' = [loaded EXCEPT ![x] = n]
  /\ GoTo(x, "record")
  /\ UNCHANGED <<clock, run_id, recorded, todo, left, storeVars, uemVars>>

(* Mutants: an event that cannot be stored is skipped and yet evaluated;   *)
(* the loop goes on for one event too many.                                *)
RecordEventOrSkip(x) ==
  /\ pc[x] = "record"
  /\ recorded[x] < loaded[x]
  /\ InsertRow(x, "raw_events", RawKey(x, recorded[x] + 1)) \/ UNCHANGED storeVars
  /\ recorded' = [recorded EXCEPT ![x] = @ + 1]
  /\ UNCHANGED <<clock, run_id, pc, loaded, todo, left, uemVars>>

RecordEventPastEnd(x) ==
  /\ pc[x] = "record"
  /\ recorded[x] <= loaded[x]
  /\ InsertRow(x, "raw_events", RawKey(x, recorded[x] + 1))
  /\ recorded' = [recorded EXCEPT ![x] = @ + 1]
  /\ UNCHANGED <<clock, run_id, pc, loaded, todo, left, uemVars>>

(* One iteration of the event loop: insertRawEvent, then evaluate.         *)
RecordEvent(x) ==
  /\ pc[x] = "record"
  /\ recorded[x] < loaded[x]
  /\ InsertRow(x, "raw_events", RawKey(x, recorded[x] + 1))
  /\ recorded' = [recorded EXCEPT ![x] = @ + 1]
  /\ UNCHANGED <<clock, run_id, pc, loaded, todo, left, uemVars>>

(* Mutant: a return inside of the loop.                                    *)
ReturnAfterIncident(x) == GoTo(x, "done")

(* The loop over the incidents goes on, or the run returns 0.              *)
GoToNextIncident(x) ==
  GoTo(x, IF todo'[x] = {} THEN "done" ELSE "incident")

(* After the event loop: Correlator::correlate.                            *)
Correlate(x) ==
  /\ pc[x] = "record"
  /\ recorded[x] = loaded[x]
  /\ todo' = [todo EXCEPT ![x] = PidsOf(Results(x))]
  /\ GoToNextIncident(x)
  /\ UNCHANGED <<clock, run_id, loaded, recorded, left, storeVars, uemVars>>

(* Mutant: they come in any order.                                         *)
CurrentUnordered(x, pid) == pid \in todo[x]

(* The incidents come in ascending order of pid.                           *)
Current(x, pid) == pid \in todo[x] /\ \A q \in todo[x] : pid <= q

(* insertIncident.                                                         *)
InsertIncident(x) ==
  /\ pc[x] = "incident"
  /\ \E pid \in todo[x] :
       /\ Current(x, pid)
       /\ InsertRow(x, "incidents", IncidentKey(x, pid))
       /\ left' = [left EXCEPT ![x] = EvidenceOf(Results(x), pid)]
  /\ GoTo(x, "evidence")
  /\ UNCHANGED <<clock, run_id, loaded, recorded, todo, uemVars>>

(* The loop body is left: the incident is no longer to be done.            *)
FinishIncident(x, pid) ==
  /\ todo' = [todo EXCEPT ![x] = @ \ {pid}]
  /\ GoToNextIncident(x)

(* One iteration of insertIncidentRuleMatches; after the last one comes    *)
(* the upload if it is enabled, and only the agent program has one.        *)
InsertRuleMatch(x) ==
  /\ pc[x] = "evidence"
  /\ \E m \in left[x] :
       /\ \A n \in left[x] : n = m \/ Precedes(m, n)
       /\ InsertRow(x, "incident_rule_matches", MatchKey(x, m))
       /\ left' = [left EXCEPT ![x] = @ \ {m}]
  /\ IF left'[x] # {} THEN UNCHANGED <<pc, todo>>
     ELSE IF UploadEnabled[x] /\ Program[x] = "agent"
     THEN GoTo(x, "upload") /\ UNCHANGED todo
     ELSE \E pid \in todo[x] : Current(x, pid) /\ FinishIncident(x, pid)
  /\ UNCHANGED <<clock, run_id, loaded, recorded, uemVars>>

(* uploadIncident: the request, and then its end.  That the upload failed  *)
(* is printed, and the loop goes on; see Throw for the payload.            *)
StartUpload(x) ==
  /\ pc[x] = "upload"
  /\ \E pid \in todo[x] : Current(x, pid) /\ Post(<<x, pid>>)
  /\ GoTo(x, "response")
  /\ UNCHANGED <<clock, run_id, loaded, recorded, todo, left, storeVars>>

(* Mutant: an upload without success is tried again.                       *)
EndUploadRetrying(x) ==
  /\ \E pid \in todo[x] :
       /\ Current(x, pid)
       /\ \/ pc[x] = "upload" /\ CannotPost(<<x, pid>>)
          \/ pc[x] = "response" /\ GetResponse(<<x, pid>>)
          \/ pc[x] = "response" /\ GiveUp(<<x, pid>>)
       /\ IF outcome'[<<x, pid>>] = "uploaded" THEN FinishIncident(x, pid)
          ELSE GoTo(x, "upload") /\ UNCHANGED todo
  /\ UNCHANGED <<clock, run_id, loaded, recorded, left, storeVars>>

EndUpload(x) ==
  /\ \E pid \in todo[x] :
       /\ Current(x, pid)
       /\ \/ pc[x] = "upload" /\ CannotPost(<<x, pid>>)
          \/ pc[x] = "response" /\ GetResponse(<<x, pid>>)
          \/ pc[x] = "response" /\ GiveUp(<<x, pid>>)
       /\ FinishIncident(x, pid)
  /\ UNCHANGED <<clock, run_id, loaded, recorded, left, storeVars>>

(* What the run does next on its own, when nothing fails: the stages of    *)
(* runDefaultPipeline, or, in its own order, of the fanotify program.      *)
Step(x) ==
  \/ GenerateRunId(x) \/ ResetDatabase(x) \/ LoadPolicy(x) \/ OpenStore(x)
  \/ InitializeStore(x) \/ LoadEvents(x) \/ RecordEvent(x) \/ Correlate(x)
  \/ InsertIncident(x) \/ InsertRuleMatch(x) \/ StartUpload(x) \/ EndUpload(x)

(* A throw ends the run with exit status 1: the remove, an unreadable or   *)
(* malformed policy or event file, fanotify, any statement of the store    *)
(* that SQLite refuses, or, before the request is made, an upload whose    *)
(* payload cannot be dumped (a --device-id that is not UTF-8).             *)
MayThrow ==
  {"policy", "open", "initialize", "events", "record", "incident", "evidence", "upload"}

Throw(x) ==
  /\ pc[x] \in MayThrow \/ (pc[x] = "reset" /\ ResetDb[x])
  /\ pc[x] = "record" => recorded[x] < loaded[x]
  /\ GoTo(x, "failed")
  /\ UNCHANGED <<clock, run_id, loaded, recorded, todo, left, storeVars, uemVars>>

(* The process is killed; SQLite keeps what was committed.                 *)
Crash(x) ==
  /\ pc[x] \notin Ended \union {"start"}
  /\ GoTo(x, "crashed")
  /\ UNCHANGED <<clock, run_id, loaded, recorded, todo, left, storeVars, uemVars>>

Tick ==
  /\ clock < MaxClock
  /\ clock' = clock + 1
  /\ UNCHANGED <<runVars, storeVars, uemVars>>

(* The control plane handles requests in any order, and may be reset.      *)
ControlPlane ==
  /\ (\E m \in Report : ReceiveIncident(m) \/ RejectIncident(m)) \/ ResetIncidents
  /\ UNCHANGED <<clock, runVars, storeVars>>

AllEnded == (\A x \in Run : pc[x] \in Ended) /\ UNCHANGED vars

Next ==
  \/ \E x \in Run : Step(x) \/ Throw(x) \/ Crash(x)
  \/ Tick
  \/ ControlPlane
  \/ AllEnded

Spec == Init /\ [][Next]_vars

(* Nothing in a run waits for another run or, beyond 5 seconds, for the    *)
(* control plane: SQLite refuses instead of waiting, since no busy timeout *)
(* is set.  So a run that the system schedules keeps moving until it ends. *)
Fairness == \A x \in Run : WF_vars(Step(x) \/ Throw(x))

FairSpec == Spec /\ Fairness
-----------------------------------------------------------------------------
TypeOK ==
  /\ clock \in 0..MaxClock
  /\ run_id \in [Run -> Range(LocalTime) \union {NoRunId}]
  /\ pc \in [Run -> Stages]
  /\ loaded \in [Run -> Nat]
  /\ recorded \in [Run -> Nat]
  /\ todo \in [Run -> SUBSET Pid]
  /\ left \in [Run -> SUBSET (Nat \X Nat)]
  /\ \A x \in Run : recorded[x] <= loaded[x] /\ loaded[x] <= Len(Events[x])
  /\ StoreType
  /\ UemType

HasRow(x, table, key) == <<handle[x], table, key>> \in rows

(* The store of the run has the incident of pid and all its rule matches.  *)
Persisted(x, pid) ==
  /\ HasRow(x, "incidents", IncidentKey(x, pid))
  /\ \A m \in EvidenceOf(Results(x), pid) :
       HasRow(x, "incident_rule_matches", MatchKey(x, m))

(* Nothing is reported before it is on record: when a request can reach    *)
(* the control plane, the incident and every rule match behind its score   *)
(* are committed, so no crash or refusal leaves a report without evidence  *)
(* (main.cpp:252-285).                                                     *)
EvidenceBeforeReport ==
  \A m \in Report : request[m] # "none" => Persisted(m[1], m[2])

(* No row is an orphan: wherever a run stopped, every rule match it stored *)
(* has its incident in the same file, and every incident has the raw event *)
(* rows it was correlated from, although nothing is a transaction          *)
(* (main.cpp:216-254, AuditStore.cpp:242-282).                             *)
NoOrphanRows ==
  \A x \in Run :
    /\ \A pid \in PidsOf(Results(x)) :
         HasRow(x, "incidents", IncidentKey(x, pid)) =>
           \A i \in EventsOf(Results(x), pid) : HasRow(x, "raw_events", RawKey(x, i))
    /\ \A pid \in PidsOf(Results(x)) : \A m \in EvidenceOf(Results(x), pid) :
         HasRow(x, "incident_rule_matches", MatchKey(x, m)) =>
           HasRow(x, "incidents", IncidentKey(x, pid))

(* A run that stops early leaves at most one incident without all its rule *)
(* matches, and none after it: the stored incidents are the first ones in  *)
(* order of pid, and all but the last are complete (main.cpp:252-254).     *)
OnlyLastIncidentPartial ==
  \A x \in Run : \A p, q \in PidsOf(Results(x)) :
    (p < q /\ HasRow(x, "incidents", IncidentKey(x, q))) => Persisted(x, p)

(* A run that returns 0 has stored every event it loaded, every incident   *)
(* and every rule match, and if it uploads knows the end of every upload   *)
(* (main.cpp:165-304, fanotify_demo.cpp:159-226).                          *)
DoneMeansComplete ==
  \A x \in Run : pc[x] = "done" =>
    /\ \A i \in 1..loaded[x] : HasRow(x, "raw_events", RawKey(x, i))
    /\ \A pid \in PidsOf(Results(x)) :
         /\ Persisted(x, pid)
         /\ (UploadEnabled[x] /\ Program[x] = "agent") =>
              outcome[<<x, pid>>] \in {"uploaded", "failed"}

(* The control plane lists no incident of a run twice, whatever timed out, *)
(* arrived late or overtook another request: uploads are never repeated    *)
(* (UemClient.cpp:55-110, main.cpp:274-285).                               *)
NoDoubleReport ==
  /\ \A j, k \in DOMAIN received_incidents :
       received_incidents[j] = received_incidents[k] => j = k
  /\ Range(received_incidents) \intersect forgotten = {}

(* "uploaded" can be believed: the control plane has the report, unless it *)
(* has been reset since (UemClient.cpp:91-109).                            *)
UploadedWasReceived ==
  \A m \in Report : outcome[m] = "uploaded" =>
    m \in Range(received_incidents) \union forgotten

(* The rule matches that a query joins to an incident number of a run id.  *)
Joined(file, id, number) ==
  {m \in UNION {{x} \X (UNION {EvidenceOf(Results(x), p) : p \in PidsOf(Results(x))}) :
                  x \in Run} :
     LET x == m[1]
     IN /\ <<file, "incident_rule_matches", MatchKey(x, m[2])>> \in rows
        /\ run_id[x] = id
        /\ \E p \in PidsOf(Results(x)) :
             m[2] \in EvidenceOf(Results(x), p) /\ IncidentNumber(Results(x), p) = number}

(* The join of the two tables on (run_id, incident_id) explains a score    *)
(* that is finished: it yields exactly the incident's own rule matches,    *)
(* provided that no other run with that id stored incidents in the file    *)
(* (AuditStore.cpp:106-134, Correlator.cpp:76-80, README.md:504-508).      *)
JoinExplainsIncident ==
  \A x \in Run : \A pid \in PidsOf(Results(x)) :
    (/\ Persisted(x, pid)
     /\ \A y \in Run \ {x} : ~(handle[y] = handle[x] /\ run_id[y] = run_id[x])) =>
      Joined(handle[x], run_id[x], IncidentNumber(Results(x), pid))
        = {x} \X EvidenceOf(Results(x), pid)

(* A run id groups the rows of one run: no two runs write to one database  *)
(* under the same id (README.md:41, RunContext.cpp:10-27).                 *)
RunIdGroupsRows ==
  \A x, y \in Run : \A f \in File :
    (/\ x # y
     /\ \E row \in rows : row[1] = f /\ row[3][1] = x
     /\ \E row \in rows : row[1] = f /\ row[3][1] = y) => run_id[x] # run_id[y]

(* "UEM upload completed successfully" (main.cpp:302), which every run     *)
(* prints that returns 0, is true of the runs that upload.                 *)
SuccessMessageIsTrue ==
  \A x \in Run : (pc[x] = "done" /\ UploadEnabled[x] /\ Program[x] = "agent") =>
    \A pid \in PidsOf(Results(x)) : outcome[<<x, pid>>] = "uploaded"

(* The rows a reader finds at the path never disappear, except by the      *)
(* reset of a run that was asked for one (main.cpp:148-163).               *)
RowsAtPath == {row \in rows : row[1] = path}
OnlyResetDropsRows ==
  [][RowsAtPath \subseteq RowsAtPath'
     \/ \E x \in Run : ResetDb[x] /\ ResetDatabase(x)]_vars

(* What a run has left to do, by weight: the stages, what its stage is to  *)
(* go through, the calls for the item in hand, and the rule matches of it. *)
Rank ==
  [start |-> 9, reset |-> 8, policy |-> 7, open |-> 6, initialize |-> 5, events |-> 3,
   record |-> 2, incident |-> 1, evidence |-> 1, upload |-> 1, response |-> 1,
   done |-> 0, failed |-> 0, crashed |-> 0]

StagesLeft(x) == IF pc[x] = "policy" /\ Program[x] = "agent" THEN 4 ELSE Rank[pc[x]]

ItemsLeft(x) ==
  CASE pc[x] = "initialize" -> Ready - ddl[x]
    [] pc[x] = "record" -> loaded[x] - recorded[x]
    [] StagesLeft(x) = 1 -> Cardinality(todo[x])
    [] OTHER -> 0

CallsLeft(x) ==
  CASE pc[x] = "incident" -> 3
    [] pc[x] = "evidence" -> 2
    [] pc[x] = "upload" \/ (pc[x] = "initialize" /\ inspected[x] = "unread") -> 1
    [] OTHER -> 0

MatchesLeft(x) == IF pc[x] = "evidence" THEN Cardinality(left[x]) ELSE 0

Work(x) == <<StagesLeft(x), ItemsLeft(x), CallsLeft(x), MatchesLeft(x)>>
Fewer(m, n) == \E k \in 1..4 : m[k] < n[k] /\ \A j \in 1..(k - 1) : m[j] = n[j]

(* Nothing is done twice and nothing waits for others: whatever a run does *)
(* leaves it less to do than before, a refused statement, an ALTER that    *)
(* lost the race and an upload that failed or timed out included, and what *)
(* other runs and the control plane do never gives it more to do           *)
(* (main.cpp:148-304, UemClient.cpp:77-109, AuditStore.cpp:65-139).        *)
EveryStepCounts ==
  [][\A x \in Run : IF Step(x) \/ Throw(x) \/ Crash(x)
                    THEN Fewer(Work(x)', Work(x))
                    ELSE UNCHANGED Work(x)]_vars

(* Every run that is started ends, whatever the control plane and the      *)
(* other runs do; the 5 seconds of CURLOPT_TIMEOUT are what makes it so    *)
(* (UemClient.cpp:80).                                                     *)
EveryRunEnds == \A x \in Run : pc[x] = "reset" ~> pc[x] \in Ended
=============================================================================
