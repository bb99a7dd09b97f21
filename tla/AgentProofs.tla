---------------------------- MODULE AgentProofs ----------------------------
(***************************************************************************)
(* For any number of runs, events, processes and rules: what is on record  *)
(* wherever a run of module Agent stops, and what a report and its answer  *)
(* can be trusted for.  The inductive invariant says, for one run, which   *)
(* of its rows exist at each stage; nothing that another run does touches  *)
(* it, because every row and every report carries the name of its run.     *)
(***************************************************************************)
EXTENDS Agent, FiniteSetTheorems, WellFoundedInduction, TLAPS

(* The processes and the rule matches of what a run has evaluated.         *)
MyPids(x) == PidsOf(Results(x))
MyEvents(x, pid) == EventsOf(Results(x), pid)
MyEvidence(x, pid) == EvidenceOf(Results(x), pid)

LEMMA ResultFacts ==
  ASSUME NEW x \in Run, recorded[x] \in Nat, recorded[x] <= Len(Events[x])
  PROVE  /\ MyPids(x) \subseteq Pid
         /\ \A pid : MyEvents(x, pid) \subseteq 1..recorded[x]
         /\ \A pid : MyEvidence(x, pid) \subseteq Nat \X Nat
         /\ \A p, q : MyEvidence(x, p) \intersect MyEvidence(x, q) # {} => p = q
<1>1. Len(Events[x]) \in Nat
  BY EventsAreSequences
<1>2. DOMAIN Results(x) = 1..recorded[x]
  BY DEF Results
<1>3. \A i \in 1..recorded[x] :
        /\ Results(x)[i].event.pid \in Pid
        /\ DOMAIN Results(x)[i].matches \subseteq Nat
  BY <1>1, ResultsAreMatches DEF Results
<1>4. MyPids(x) \subseteq Pid
  BY <1>2, <1>3 DEF MyPids, PidsOf, Suspicious
<1>5. \A pid : MyEvents(x, pid) \subseteq 1..recorded[x]
  BY <1>2 DEF MyEvents, EventsOf, Suspicious
<1>6. ASSUME NEW pid, NEW m \in MyEvidence(x, pid)
      PROVE  /\ m \in Nat \X Nat
             /\ Results(x)[m[1]].event.pid = pid
  <2>1. PICK i \in MyEvents(x, pid) : m \in {i} \X DOMAIN Results(x)[i].matches
    BY <1>6 DEF MyEvidence, EvidenceOf, MyEvents
  <2>2. i \in 1..recorded[x] /\ Results(x)[i].event.pid = pid
    BY <1>5, <2>1 DEF MyEvents, EventsOf
  <2> QED BY <2>1, <2>2, <1>3
<1>7. \A pid : MyEvidence(x, pid) \subseteq Nat \X Nat
  BY <1>6
<1>8. \A p, q : MyEvidence(x, p) \intersect MyEvidence(x, q) # {} => p = q
  BY <1>6
<1> QED BY <1>4, <1>5, <1>7, <1>8

(* Evaluation only depends on how many events are recorded.                *)
LEMMA ResultsFrame ==
  ASSUME NEW x \in Run, recorded'[x] = recorded[x]
  PROVE  /\ MyPids(x)' = MyPids(x)
         /\ \A pid : MyEvents(x, pid)' = MyEvents(x, pid)
         /\ \A pid : MyEvidence(x, pid)' = MyEvidence(x, pid)
<1>1. Results(x)' = Results(x)
  BY DEF Results
<1> QED BY <1>1 DEF MyPids, MyEvents, MyEvidence
-----------------------------------------------------------------------------
(* Types.  What a run has not opened it has not initialized, and events    *)
(* are recorded only after they are loaded.                                *)
Unrecorded == {"start", "reset", "policy", "open", "initialize", "events"}

StoreOrder ==
  \A x \in Run :
    /\ handle[x] = NoFile => ddl[x] = 1 /\ inspected[x] = "unread"
    /\ inspected[x] # "unread" => ddl[x] \in 4..6

NothingRecorded == \A x \in Run : pc[x] \in Unrecorded => recorded[x] = 0

TypeInv == TypeOK /\ StoreOrder /\ NothingRecorded

LEMMA StoreStepTypes ==
  ASSUME StoreType, StoreOrder, NEW x \in Run,
         \/ Open(x) \/ CreateTable(x) \/ ColumnExists(x) \/ ColumnMissing(x)
         \/ AddColumn(x) \/ RemovePath \/ UNCHANGED storeVars
  PROVE  StoreType' /\ StoreOrder'
<1> USE DEF StoreType, StoreOrder, Ready
<1>0. \A d \in 1..6 : TableAt(d) \in Tables
  BY DEF TableAt, TableOrder, Tables
<1>1. CASE Open(x)
  BY <1>1, NamesDiffer DEF Open, File
<1>2. CASE CreateTable(x)
  <2>1. schema' \in [File -> Schemas]
    BY <1>0, <1>2 DEF CreateTable, Schemas
  <2> QED BY <1>2, <2>1 DEF CreateTable
<1>3. CASE ColumnExists(x)
  BY <1>3 DEF ColumnExists
<1>4. CASE ColumnMissing(x)
  BY <1>4 DEF ColumnMissing
<1>5. CASE AddColumn(x)
  <2>1. ddl[x] \in 4..6 /\ handle[x] \in File
    BY <1>5 DEF AddColumn
  <2>2. schema' \in [File -> Schemas]
    BY <1>0, <1>5, <2>1 DEF AddColumn, Schemas
  <2> QED BY <1>5, <2>1, <2>2 DEF AddColumn
<1>6. CASE RemovePath
  BY <1>6 DEF RemovePath
<1>7. CASE UNCHANGED storeVars
  BY <1>7 DEF storeVars
<1> QED BY <1>1, <1>2, <1>3, <1>4, <1>5, <1>6, <1>7

LEMMA UemStepTypes ==
  ASSUME UemType, NEW m \in Report,
         \/ Post(m) \/ CannotPost(m) \/ ReceiveIncident(m) \/ RejectIncident(m)
         \/ GetResponse(m) \/ GiveUp(m) \/ ResetIncidents
  PROVE  UemType'
<1> USE DEF UemType
<1>1. CASE Post(m) \/ CannotPost(m) \/ GetResponse(m) \/ GiveUp(m)
  BY <1>1 DEF Post, CannotPost, GetResponse, GiveUp
<1>2. CASE ReceiveIncident(m)
  BY <1>2 DEF ReceiveIncident
<1>3. CASE RejectIncident(m)
  BY <1>3 DEF RejectIncident
<1>4. CASE ResetIncidents
  BY <1>4 DEF ResetIncidents, Range
<1> QED BY <1>1, <1>2, <1>3, <1>4

LEMMA CurrentIsReport ==
  ASSUME TypeOK, NEW x \in Run, NEW pid \in todo[x]
  PROVE  <<x, pid>> \in Report /\ pid \in Pid
  BY ReportsAreIncidents DEF TypeOK

(* A run starts with every variable in its type.                           *)
THEOREM InitTypeInv == Init => TypeInv
<1> SUFFICES ASSUME Init PROVE TypeInv
  OBVIOUS
<1>1. StoreType /\ StoreOrder
  BY NamesDiffer, PriorAreSchemas
  DEF Init, StoreInit, StoreType, StoreOrder, Ready, Schemas, File
<1>2. UemType
  BY DEF Init, UemInit, UemType
<1>3. \A x \in Run : Len(Events[x]) \in Nat
  BY EventsAreSequences
<1> QED BY <1>1, <1>2, <1>3, ClockIsRead
        DEF Init, TypeInv, TypeOK, NothingRecorded, Stages, Ended

(* No step of a run, of a crash or of the control plane leaves the types.  *)
THEOREM NextTypeInv == TypeInv /\ [Next]_vars => TypeInv'
<1> SUFFICES ASSUME TypeInv, [Next]_vars PROVE TypeInv'
  OBVIOUS
<1> USE DEF TypeInv, TypeOK
<1>0. \A x \in Run : Len(Events[x]) \in Nat
  BY EventsAreSequences
<1>1. ASSUME NEW x \in Run, GenerateRunId(x) PROVE TypeInv'
  <2>1. clock \in DOMAIN LocalTime
    BY ClockIsRead
  <2>2. run_id' \in [Run -> Range(LocalTime) \union {NoRunId}]
    BY <1>1, <2>1 DEF GenerateRunId, Range
  <2> QED BY <1>1, <2>2, StoreStepTypes
          DEF GenerateRunId, GoTo, Stages, NothingRecorded, Unrecorded, uemVars, UemType
<1>2. ASSUME NEW x \in Run, ResetDatabase(x) PROVE TypeInv'
  BY <1>2, StoreStepTypes
  DEF ResetDatabase, GoTo, Stages, NothingRecorded, Unrecorded, uemVars, UemType
<1>3. ASSUME NEW x \in Run, LoadPolicy(x) PROVE TypeInv'
  BY <1>3, StoreStepTypes
  DEF LoadPolicy, GoTo, Stages, NothingRecorded, Unrecorded, uemVars, UemType
<1>4. ASSUME NEW x \in Run, OpenStore(x) PROVE TypeInv'
  BY <1>4, StoreStepTypes
  DEF OpenStore, GoTo, Stages, NothingRecorded, Unrecorded, uemVars, UemType
<1>5. ASSUME NEW x \in Run, InitializeStore(x) PROVE TypeInv'
  <2>1. StoreType' /\ StoreOrder'
    BY <1>5, StoreStepTypes DEF InitializeStore
  <2> QED BY <1>5, <2>1
          DEF InitializeStore, GoTo, Stages, NothingRecorded, Unrecorded, uemVars, UemType
<1>6. ASSUME NEW x \in Run, LoadEvents(x) PROVE TypeInv'
  <2>1. PICK n \in 0..Len(Events[x]) : loaded' = [loaded EXCEPT ![x] = n]
    BY <1>6 DEF LoadEvents
  <2>2. recorded[x] = 0
    BY <1>6 DEF LoadEvents, NothingRecorded, Unrecorded
  <2>3. loaded' \in [Run -> Nat]
    BY <2>1, <1>0
  <2>4. \A y \in Run : recorded[y] <= loaded'[y] /\ loaded'[y] <= Len(Events[y])
    BY <2>1, <2>2, <1>0
  <2> QED BY <1>6, <2>3, <2>4, StoreStepTypes
          DEF LoadEvents, GoTo, Stages, NothingRecorded, Unrecorded, uemVars, UemType
<1>7. ASSUME NEW x \in Run, RecordEvent(x) PROVE TypeInv'
  <2>1. UNCHANGED <<clock, run_id, pc, loaded, todo, left, uemVars>>
    BY <1>7 DEF RecordEvent
  <2>2. recorded' = [recorded EXCEPT ![x] = @ + 1] /\ recorded[x] < loaded[x] /\ pc[x] = "record"
    BY <1>7 DEF RecordEvent
  <2>3. StoreType' /\ StoreOrder'
    BY <1>7 DEF RecordEvent, InsertRow, StoreType, StoreOrder
  <2> QED BY <2>1, <2>2, <2>3, <1>0 DEF NothingRecorded, Unrecorded, uemVars, UemType
<1>8. ASSUME NEW x \in Run, Correlate(x) PROVE TypeInv'
  <2>1. MyPids(x) \subseteq Pid
    BY ResultFacts
  <2>2. todo' \in [Run -> SUBSET Pid]
    BY <1>8, <2>1 DEF Correlate, MyPids
  <2> QED BY <1>8, <2>2, StoreStepTypes
          DEF Correlate, GoToNextIncident, GoTo, Stages, Ended, NothingRecorded, Unrecorded,
              uemVars, UemType
<1>9. ASSUME NEW x \in Run, InsertIncident(x) PROVE TypeInv'
  <2>1. PICK pid \in todo[x] :
          /\ InsertRow(x, "incidents", IncidentKey(x, pid))
          /\ left' = [left EXCEPT ![x] = MyEvidence(x, pid)]
    BY <1>9 DEF InsertIncident, MyEvidence
  <2>2. MyEvidence(x, pid) \subseteq Nat \X Nat
    BY ResultFacts
  <2>3. left' \in [Run -> SUBSET (Nat \X Nat)]
    BY <2>1, <2>2
  <2>4. StoreType' /\ StoreOrder'
    BY <2>1 DEF InsertRow, StoreType, StoreOrder
  <2> QED BY <1>9, <2>3, <2>4
          DEF InsertIncident, GoTo, Stages, NothingRecorded, Unrecorded, uemVars, UemType
<1>10. ASSUME NEW x \in Run, InsertRuleMatch(x) PROVE TypeInv'
  <2>1. PICK m \in left[x] :
          /\ InsertRow(x, "incident_rule_matches", MatchKey(x, m))
          /\ left' = [left EXCEPT ![x] = @ \ {m}]
    BY <1>10 DEF InsertRuleMatch
  <2>2. left' \in [Run -> SUBSET (Nat \X Nat)]
    BY <2>1
  <2>3. StoreType' /\ StoreOrder'
    BY <2>1 DEF InsertRow, StoreType, StoreOrder
  <2>4. todo' \in [Run -> SUBSET Pid]
    BY <1>10 DEF InsertRuleMatch, FinishIncident
  <2>5. \/ pc' = pc
        \/ \E s \in {"upload", "done", "incident"} : pc' = [pc EXCEPT ![x] = s]
    BY <1>10 DEF InsertRuleMatch, FinishIncident, GoToNextIncident, GoTo
  <2> QED BY <1>10, <2>2, <2>3, <2>4, <2>5
          DEF InsertRuleMatch, Stages, Ended, NothingRecorded, Unrecorded, uemVars, UemType
<1>11. ASSUME NEW x \in Run, StartUpload(x) PROVE TypeInv'
  <2>1. PICK pid \in todo[x] : Post(<<x, pid>>)
    BY <1>11 DEF StartUpload
  <2>2. UemType'
    BY <2>1, UemStepTypes, CurrentIsReport
  <2> QED BY <1>11, <2>2, StoreStepTypes
          DEF StartUpload, GoTo, Stages, NothingRecorded, Unrecorded
<1>12. ASSUME NEW x \in Run, EndUpload(x) PROVE TypeInv'
  <2>1. PICK pid \in todo[x] :
          /\ CannotPost(<<x, pid>>) \/ GetResponse(<<x, pid>>) \/ GiveUp(<<x, pid>>)
          /\ FinishIncident(x, pid)
    BY <1>12 DEF EndUpload
  <2>2. UemType'
    BY <2>1, UemStepTypes, CurrentIsReport
  <2> QED BY <1>12, <2>1, <2>2, StoreStepTypes
          DEF EndUpload, FinishIncident, GoToNextIncident, GoTo, Stages, Ended,
              NothingRecorded, Unrecorded
<1>13. ASSUME NEW x \in Run, Throw(x) \/ Crash(x) PROVE TypeInv'
  <2>1. \E s \in Ended : pc' = [pc EXCEPT ![x] = s]
    BY <1>13 DEF Throw, Crash, GoTo, Ended
  <2> QED BY <1>13, <2>1, StoreStepTypes
          DEF Throw, Crash, Stages, Ended, NothingRecorded, Unrecorded, uemVars, UemType
<1>14. ASSUME Tick PROVE TypeInv'
  BY <1>14, ClockIsRead
  DEF Tick, runVars, storeVars, StoreType, StoreOrder, NothingRecorded, uemVars, UemType
<1>15. ASSUME ControlPlane PROVE TypeInv'
  <2>1. UemType'
    <3>1. ASSUME NEW m \in Report, ReceiveIncident(m) \/ RejectIncident(m) PROVE UemType'
      BY <3>1, UemStepTypes
    <3>2. ASSUME ResetIncidents PROVE UemType'
      BY <3>2 DEF ResetIncidents, UemType, Range
    <3> QED BY <1>15, <3>1, <3>2 DEF ControlPlane
  <2> QED BY <1>15, <2>1
          DEF ControlPlane, runVars, storeVars, StoreType, StoreOrder, NothingRecorded
<1>16. ASSUME UNCHANGED vars PROVE TypeInv'
  BY <1>16
  DEF vars, runVars, storeVars, StoreType, StoreOrder, NothingRecorded, uemVars, UemType
<1> QED
  BY <1>1, <1>2, <1>3, <1>4, <1>5, <1>6, <1>7, <1>8, <1>9, <1>10, <1>11, <1>12, <1>13,
     <1>14, <1>15, <1>16 DEF Next, Step, AllEnded

(* The types of all variables, in every reachable state.                   *)
THEOREM AgentTypeInvariant == Spec => []TypeInv
  BY InitTypeInv, NextTypeInv, PTL DEF Spec

(* Every variable of the agent keeps its type in every behaviour.          *)
THEOREM AgentTypeCorrect == Spec => []TypeOK
  BY AgentTypeInvariant, PTL DEF TypeInv
-----------------------------------------------------------------------------
(* The rows and requests of one run, stage by stage.                       *)
Early == Unrecorded \union {"record"}
Late == {"incident", "evidence", "upload", "response", "done"}
Uploads(x) == UploadEnabled[x] /\ Program[x] = "agent"

(* The run has written about no incident yet, in any file or request.      *)
NoIncidentYet(x) ==
  /\ \A row \in rows :
       row[2] \in {"incidents", "incident_rule_matches"} => row[3][1] # x
  /\ \A pid \in Pid : request[<<x, pid>>] = "none"

Complete(x, pid) ==
  /\ HasRow(x, "incidents", IncidentKey(x, pid))
  /\ \A m \in MyEvidence(x, pid) : HasRow(x, "incident_rule_matches", MatchKey(x, m))

Recorded(x) == \A i \in 1..recorded[x] : HasRow(x, "raw_events", RawKey(x, i))

(* Between correlation and the end: all before the current incident is     *)
(* complete, nothing after it is begun.                                    *)
Progress(x) ==
  /\ recorded[x] = loaded[x]
  /\ todo[x] \subseteq MyPids(x)
  /\ \A p \in MyPids(x) \ todo[x] :
       /\ Complete(x, p)
       /\ Uploads(x) => outcome[<<x, p>>] \in {"uploaded", "failed"}
       /\ \A q \in todo[x] : p < q
  /\ \A q \in todo[x] :
       /\ HasRow(x, "incidents", IncidentKey(x, q)) =>
            pc[x] \in {"evidence", "upload", "response"} /\ Current(x, q)
       /\ request[<<x, q>>] # "none" => pc[x] = "response" /\ Current(x, q)

(* The current incident, by stage.                                         *)
AtStage(x) ==
  /\ pc[x] = "evidence" =>
       \E p \in todo[x] :
         /\ Current(x, p)
         /\ HasRow(x, "incidents", IncidentKey(x, p))
         /\ left[x] \subseteq MyEvidence(x, p)
         /\ \A m \in MyEvidence(x, p) \ left[x] :
              HasRow(x, "incident_rule_matches", MatchKey(x, m))
  /\ pc[x] \in {"upload", "response"} =>
       Uploads(x) /\ \E p \in todo[x] : Current(x, p) /\ Complete(x, p)
  /\ pc[x] = "done" => todo[x] = {}

(* What must hold wherever the run has stopped.                            *)
Reported(x) == \A p \in Pid : request[<<x, p>>] # "none" => Complete(x, p)

Rooted(x) ==
  \A p \in MyPids(x) : \A m \in MyEvidence(x, p) :
    HasRow(x, "incident_rule_matches", MatchKey(x, m)) =>
      HasRow(x, "incidents", IncidentKey(x, p))

InOrder(x) ==
  \A p, q \in MyPids(x) :
    (p < q /\ HasRow(x, "incidents", IncidentKey(x, q))) => Complete(x, p)

RunInv(x) ==
  /\ pc[x] \in Early => NoIncidentYet(x)
  /\ Recorded(x)
  /\ pc[x] \in Late => Progress(x)
  /\ AtStage(x)
  /\ Reported(x)
  /\ Rooted(x)
  /\ InOrder(x)

AgentInv == TypeInv /\ \A x \in Run : RunInv(x)

(* What the proofs know of a run holds before its first statement.         *)
THEOREM InitRunInv == Init => \A x \in Run : RunInv(x)
<1> SUFFICES ASSUME Init, NEW x \in Run PROVE RunInv(x)
  OBVIOUS
<1>1. pc[x] = "start" /\ recorded[x] = 0 /\ rows = {}
  BY DEF Init, StoreInit
<1>2. \A p \in Pid : request[<<x, p>>] = "none"
  BY ReportsAreIncidents DEF Init, UemInit
<1>3. MyPids(x) = {}
  BY <1>1 DEF MyPids, PidsOf, Suspicious, Results
<1>4. Recorded(x)
  BY <1>1 DEF Recorded
<1> QED BY <1>1, <1>2, <1>3, <1>4
        DEF RunInv, Early, Late, Unrecorded, NoIncidentYet, AtStage, Reported, Rooted, InOrder

(* A step that leaves the variables, the rows and the reports of a run     *)
(* alone keeps its invariant.                                              *)
SameRows(x) ==
  \A table, key : HasRow(x, table, <<x, key>>)' <=> HasRow(x, table, <<x, key>>)

LEMMA RunFrame ==
  ASSUME NEW x \in Run, RunInv(x),
         pc'[x] = pc[x], loaded'[x] = loaded[x], recorded'[x] = recorded[x],
         todo'[x] = todo[x], left'[x] = left[x], SameRows(x),
         NoIncidentYet(x) => NoIncidentYet(x)',
         \A p \in Pid : (request'[<<x, p>>] = "none" <=> request[<<x, p>>] = "none")
                        /\ outcome'[<<x, p>>] = outcome[<<x, p>>],
         MyPids(x) \subseteq Pid
  PROVE  RunInv(x)'
<1> USE ResultsFrame DEF RawKey, IncidentKey, MatchKey
<1>1. \A p : Complete(x, p)' <=> Complete(x, p)
  BY DEF Complete, SameRows
<1>2. Recorded(x)'
  BY DEF RunInv, Recorded, SameRows
<1>3. Progress(x) => Progress(x)'
  <2>1. todo[x] \subseteq MyPids(x) /\ Progress(x) => todo[x] \subseteq Pid
    BY DEF Progress
  <2> QED BY <1>1, <2>1 DEF Progress, SameRows, Current, Uploads
<1>4. AtStage(x)'
  BY <1>1 DEF RunInv, AtStage, SameRows, Current, Uploads
<1>5. Reported(x)' /\ Rooted(x)' /\ InOrder(x)'
  BY <1>1 DEF RunInv, Reported, Rooted, InOrder, SameRows
<1> QED BY <1>2, <1>3, <1>4, <1>5 DEF RunInv

(* What a run does is no business of another run: its own rows, requests   *)
(* and variables carry its name.                                           *)
LEMMA InsertIsLocal ==
  ASSUME NEW y \in Run, NEW x \in Run, x # y, NEW table, NEW key,
         InsertRow(y, table, <<y, key>>)
  PROVE  SameRows(x) /\ (NoIncidentYet(x) /\ UNCHANGED request => NoIncidentYet(x)')
<1>1. rows' = rows \union {<<handle[y], table, <<y, key>>>>} /\ handle' = handle
  BY DEF InsertRow
<1> QED BY <1>1 DEF SameRows, HasRow, NoIncidentYet

LEMMA StoreIsLocal ==
  ASSUME StoreType, NEW y \in Run, NEW x \in Run, x # y,
         \/ Open(y) \/ CreateTable(y) \/ ColumnExists(y) \/ ColumnMissing(y)
         \/ AddColumn(y) \/ RemovePath \/ UNCHANGED storeVars
  PROVE  rows' = rows /\ SameRows(x)
<1>1. rows' = rows /\ handle'[x] = handle[x]
  BY DEF StoreType, Open, CreateTable, ColumnExists, ColumnMissing, AddColumn, RemovePath,
         storeVars
<1> QED BY <1>1 DEF SameRows, HasRow

LEMMA UploadIsLocal ==
  ASSUME UemType, NEW m \in Report, NEW n \in Report, m # n,
         Post(m) \/ CannotPost(m) \/ GetResponse(m) \/ GiveUp(m)
  PROVE  request'[n] = request[n] /\ outcome'[n] = outcome[n]
  BY DEF UemType, Post, CannotPost, GetResponse, GiveUp

LEMMA StepIsLocal ==
  ASSUME TypeInv, NEW y \in Run, NEW x \in Run, x # y, Step(y) \/ Throw(y) \/ Crash(y)
  PROVE  /\ pc'[x] = pc[x] /\ loaded'[x] = loaded[x] /\ recorded'[x] = recorded[x]
         /\ todo'[x] = todo[x] /\ left'[x] = left[x]
         /\ SameRows(x)
         /\ NoIncidentYet(x) => NoIncidentYet(x)'
         /\ \A p \in Pid : request'[<<x, p>>] = request[<<x, p>>]
                          /\ outcome'[<<x, p>>] = outcome[<<x, p>>]
<1> USE DEF TypeInv, TypeOK
<1> DEFINE Goal == /\ pc'[x] = pc[x] /\ loaded'[x] = loaded[x] /\ recorded'[x] = recorded[x]
                   /\ todo'[x] = todo[x] /\ left'[x] = left[x]
                   /\ SameRows(x)
                   /\ NoIncidentYet(x) => NoIncidentYet(x)'
                   /\ \A p \in Pid : request'[<<x, p>>] = request[<<x, p>>]
                                    /\ outcome'[<<x, p>>] = outcome[<<x, p>>]
<1>1. CASE \/ GenerateRunId(y) \/ ResetDatabase(y) \/ LoadPolicy(y) \/ OpenStore(y)
           \/ InitializeStore(y) \/ LoadEvents(y) \/ Correlate(y) \/ Throw(y) \/ Crash(y)
  <2>1. rows' = rows /\ SameRows(x)
    BY <1>1, StoreIsLocal
    DEF GenerateRunId, ResetDatabase, LoadPolicy, OpenStore, InitializeStore, LoadEvents,
        Correlate, Throw, Crash
  <2>2. UNCHANGED uemVars
    BY <1>1
    DEF GenerateRunId, ResetDatabase, LoadPolicy, OpenStore, InitializeStore, LoadEvents,
        Correlate, Throw, Crash
  <2>3. /\ pc'[x] = pc[x] /\ loaded'[x] = loaded[x] /\ recorded'[x] = recorded[x]
        /\ todo'[x] = todo[x] /\ left'[x] = left[x]
    BY <1>1
    DEF GenerateRunId, ResetDatabase, LoadPolicy, OpenStore, InitializeStore, LoadEvents,
        Correlate, Throw, Crash, GoTo, GoToNextIncident
  <2> QED BY <2>1, <2>2, <2>3 DEF uemVars, NoIncidentYet
<1>2. CASE RecordEvent(y)
  <2>1. SameRows(x) /\ (NoIncidentYet(x) => NoIncidentYet(x)')
    BY <1>2, InsertIsLocal DEF RecordEvent, RawKey, uemVars
  <2> QED BY <1>2, <2>1 DEF RecordEvent, uemVars
<1>3. CASE InsertIncident(y)
  <2>1. SameRows(x) /\ (NoIncidentYet(x) => NoIncidentYet(x)')
    BY <1>3, InsertIsLocal DEF InsertIncident, IncidentKey, uemVars
  <2> QED BY <1>3, <2>1 DEF InsertIncident, GoTo, uemVars
<1>4. CASE InsertRuleMatch(y)
  <2>1. SameRows(x) /\ (NoIncidentYet(x) => NoIncidentYet(x)')
    BY <1>4, InsertIsLocal DEF InsertRuleMatch, MatchKey, uemVars
  <2>2. pc'[x] = pc[x] /\ todo'[x] = todo[x] /\ left'[x] = left[x]
    BY <1>4 DEF InsertRuleMatch, FinishIncident, GoToNextIncident, GoTo
  <2> QED BY <1>4, <2>1, <2>2 DEF InsertRuleMatch, uemVars
<1>5. CASE StartUpload(y) \/ EndUpload(y)
  <2>1. PICK pid \in todo[y] : \/ Post(<<y, pid>>) \/ CannotPost(<<y, pid>>)
                              \/ GetResponse(<<y, pid>>) \/ GiveUp(<<y, pid>>)
    BY <1>5 DEF StartUpload, EndUpload
  <2>2. \A p \in Pid : request'[<<x, p>>] = request[<<x, p>>]
                     /\ outcome'[<<x, p>>] = outcome[<<x, p>>]
    BY <2>1, UploadIsLocal, ReportsAreIncidents
  <2>3. rows' = rows /\ SameRows(x)
    BY <1>5, StoreIsLocal DEF StartUpload, EndUpload
  <2>4. /\ pc'[x] = pc[x] /\ loaded'[x] = loaded[x] /\ recorded'[x] = recorded[x]
        /\ todo'[x] = todo[x] /\ left'[x] = left[x]
    BY <1>5 DEF StartUpload, EndUpload, FinishIncident, GoToNextIncident, GoTo
  <2> QED BY <2>2, <2>3, <2>4 DEF NoIncidentYet
<1> QED BY <1>1, <1>2, <1>3, <1>4, <1>5 DEF Step

(* What types and evaluation give about one run.                           *)
LEMMA RunFacts ==
  ASSUME TypeInv, NEW x \in Run
  PROVE  /\ MyPids(x) \subseteq Pid
         /\ \A p, q : MyEvidence(x, p) \intersect MyEvidence(x, q) # {} => p = q
         /\ todo[x] \subseteq Pid
         /\ Pid \subseteq Int
         /\ \A p, q \in todo[x] : Current(x, p) /\ Current(x, q) => p = q
<1>1. recorded[x] \in Nat /\ recorded[x] <= Len(Events[x])
  <2>1. Len(Events[x]) \in Nat
    BY EventsAreSequences
  <2>2. /\ recorded[x] \in Nat /\ loaded[x] \in Nat
        /\ recorded[x] <= loaded[x] /\ loaded[x] <= Len(Events[x])
    BY DEF TypeInv, TypeOK
  <2> QED BY <2>1, <2>2
<1>2. todo[x] \subseteq Pid
  BY DEF TypeInv, TypeOK
<1>3. ASSUME NEW p \in todo[x], NEW q \in todo[x], Current(x, p), Current(x, q)
      PROVE  p = q
  <2>1. p \in Int /\ q \in Int
    BY <1>2, PidsAreIntegers
  <2>2. p <= q /\ q <= p
    BY <1>3 DEF Current
  <2> QED BY <2>1, <2>2
<1> QED BY <1>1, <1>2, <1>3, ResultFacts, PidsAreIntegers

(* The stages before correlation.                                          *)
LEMMA EarlyIsEnough ==
  ASSUME NEW x \in Run, pc'[x] \in Early, NoIncidentYet(x)', Recorded(x)'
  PROVE  RunInv(x)'
  BY DEF RunInv, Early, Unrecorded, Late, NoIncidentYet, AtStage, Reported, Rooted, InOrder,
         HasRow, IncidentKey, MatchKey

LEMMA EarlyStepKeepsInv ==
  ASSUME TypeInv, NEW x \in Run, RunInv(x),
         \/ GenerateRunId(x) \/ ResetDatabase(x) \/ LoadPolicy(x) \/ OpenStore(x)
         \/ InitializeStore(x) \/ LoadEvents(x)
  PROVE  RunInv(x)'
<1> USE DEF TypeInv, TypeOK
<1>1. /\ pc[x] \in Unrecorded /\ pc'[x] \in Early
      /\ recorded' = recorded /\ request' = request /\ rows' = rows
  BY DEF GenerateRunId, ResetDatabase, LoadPolicy, OpenStore, InitializeStore, LoadEvents,
         GoTo, Early, Unrecorded, uemVars, storeVars, Open, RemovePath, CreateTable,
         ColumnExists, ColumnMissing, AddColumn
<1>2. recorded[x] = 0
  BY <1>1 DEF NothingRecorded
<1>3. Recorded(x)'
  BY <1>1, <1>2 DEF Recorded
<1>4. NoIncidentYet(x)'
  BY <1>1 DEF RunInv, NoIncidentYet, Early
<1> QED BY <1>1, <1>3, <1>4, EarlyIsEnough

LEMMA RecordEventKeepsInv ==
  ASSUME TypeInv, NEW x \in Run, RunInv(x), RecordEvent(x)
  PROVE  RunInv(x)'
<1> USE DEF TypeInv, TypeOK
<1>1. /\ pc[x] = "record" /\ pc' = pc /\ request' = request /\ handle' = handle
      /\ recorded'[x] = recorded[x] + 1
      /\ rows' = rows \union {<<handle[x], "raw_events", RawKey(x, recorded[x] + 1)>>}
  BY DEF RecordEvent, InsertRow, uemVars
<1>2. Recorded(x)'
  BY <1>1 DEF RunInv, Recorded, HasRow
<1>3. NoIncidentYet(x)'
  BY <1>1 DEF RunInv, NoIncidentYet, Early
<1> QED BY <1>1, <1>2, <1>3, EarlyIsEnough DEF Early

LEMMA CorrelateKeepsInv ==
  ASSUME TypeInv, NEW x \in Run, RunInv(x), Correlate(x)
  PROVE  RunInv(x)'
<1> USE DEF TypeInv, TypeOK
<1>1. /\ pc[x] = "record" /\ recorded[x] = loaded[x]
      /\ UNCHANGED <<loaded, recorded, rows, handle, request>>
      /\ todo'[x] = MyPids(x)
      /\ pc'[x] = IF todo'[x] = {} THEN "done" ELSE "incident"
  BY DEF Correlate, GoToNextIncident, GoTo, MyPids, storeVars, uemVars
<1>2. MyPids(x)' = MyPids(x) /\ MyPids(x) \subseteq Pid
  BY <1>1, ResultsFrame, ResultFacts
<1>3. NoIncidentYet(x)
  BY <1>1 DEF RunInv, Early
<1>4. /\ \A p : ~HasRow(x, "incidents", IncidentKey(x, p))'
      /\ \A m : ~HasRow(x, "incident_rule_matches", MatchKey(x, m))'
      /\ \A p \in Pid : request'[<<x, p>>] = "none"
  BY <1>1, <1>3 DEF NoIncidentYet, HasRow, IncidentKey, MatchKey
<1>5. Recorded(x)'
  BY <1>1 DEF RunInv, Recorded, HasRow
<1>6. Progress(x)'
  BY <1>1, <1>2, <1>4 DEF Progress
<1>7. AtStage(x)'
  BY <1>1 DEF AtStage
<1>8. Reported(x)' /\ Rooted(x)' /\ InOrder(x)'
  BY <1>4 DEF Reported, Rooted, InOrder
<1> QED BY <1>1, <1>5, <1>6, <1>7, <1>8 DEF RunInv, Early, Unrecorded

(* The first incident of todo is the one that is stored.                   *)
LEMMA InsertIncidentKeepsInv ==
  ASSUME TypeInv, NEW x \in Run, RunInv(x), InsertIncident(x)
  PROVE  RunInv(x)'
<1>1. PICK pid \in todo[x] :
        /\ Current(x, pid)
        /\ InsertRow(x, "incidents", IncidentKey(x, pid))
        /\ left'[x] = MyEvidence(x, pid)
  BY DEF InsertIncident, MyEvidence, TypeInv, TypeOK
<1>2. /\ pc[x] = "incident" /\ pc'[x] = "evidence"
      /\ UNCHANGED <<loaded, recorded, todo, handle, request, outcome>>
      /\ rows' = rows \union {<<handle[x], "incidents", IncidentKey(x, pid)>>}
  BY <1>1 DEF InsertIncident, InsertRow, GoTo, uemVars, TypeInv, TypeOK
<1>3. /\ MyPids(x)' = MyPids(x)
      /\ \A p : MyEvidence(x, p)' = MyEvidence(x, p)
      /\ MyPids(x) \subseteq Int
  BY <1>2, ResultsFrame, RunFacts
<1>4. /\ \A table, key : HasRow(x, table, key) => HasRow(x, table, key)'
      /\ \A p : HasRow(x, "incidents", IncidentKey(x, p))' =>
                  p = pid \/ HasRow(x, "incidents", IncidentKey(x, p))
      /\ \A m : HasRow(x, "incident_rule_matches", MatchKey(x, m))' =>
                  HasRow(x, "incident_rule_matches", MatchKey(x, m))
      /\ HasRow(x, "incidents", IncidentKey(x, pid))'
  BY <1>2 DEF HasRow, IncidentKey
<1>5. \A p : Complete(x, p) => Complete(x, p)'
  BY <1>3, <1>4 DEF Complete
<1>6. Progress(x)
  BY <1>2 DEF RunInv, Late
<1>7. Recorded(x)'
  BY <1>2, <1>4 DEF RunInv, Recorded
<1>8. Progress(x)'
  BY <1>1, <1>2, <1>3, <1>4, <1>5, <1>6 DEF Progress, Current, Uploads
<1>10. AtStage(x)'
  BY <1>1, <1>2, <1>3, <1>4 DEF AtStage, Current
<1>11. Reported(x)' /\ Rooted(x)'
  BY <1>2, <1>3, <1>4, <1>5 DEF RunInv, Reported, Rooted
<1>12. InOrder(x)'
  <2> SUFFICES ASSUME NEW p \in MyPids(x), NEW q \in MyPids(x), p < q,
                      HasRow(x, "incidents", IncidentKey(x, q))'
               PROVE  Complete(x, p)'
    BY <1>3 DEF InOrder
  <2>1. CASE q = pid
    <3>1. p \notin todo[x]
      BY <1>1, <1>3, <2>1 DEF Current
    <3> QED BY <3>1, <1>5, <1>6 DEF Progress
  <2>2. CASE q # pid
    BY <2>2, <1>4, <1>5 DEF RunInv, InOrder
  <2> QED BY <2>1, <2>2
<1> QED BY <1>2, <1>7, <1>8, <1>10, <1>11, <1>12 DEF RunInv, Early, Unrecorded

(* The current incident is done, and the next one becomes the current.     *)
LEMMA FinishIncidentKeepsInv ==
  ASSUME TypeInv, NEW x \in Run, RunInv(x),
         pc[x] \in {"evidence", "upload", "response"},
         NEW pid \in todo[x], Current(x, pid), FinishIncident(x, pid),
         UNCHANGED <<loaded, recorded, handle>>,
         \A table, key : HasRow(x, table, key) => HasRow(x, table, key)',
         \A p : HasRow(x, "incidents", IncidentKey(x, p))' =>
                HasRow(x, "incidents", IncidentKey(x, p)),
         \A m : HasRow(x, "incident_rule_matches", MatchKey(x, m))' =>
                HasRow(x, "incident_rule_matches", MatchKey(x, m)) \/ m \in MyEvidence(x, pid),
         HasRow(x, "incidents", IncidentKey(x, pid)),
         Complete(x, pid)',
         \A p \in Pid : p # pid => request'[<<x, p>>] = request[<<x, p>>],
         \A p \in Pid : p # pid => outcome'[<<x, p>>] = outcome[<<x, p>>],
         Uploads(x) => outcome'[<<x, pid>>] \in {"uploaded", "failed"}
  PROVE  RunInv(x)'
<1>1. /\ todo'[x] = todo[x] \ {pid}
      /\ pc'[x] = IF todo'[x] = {} THEN "done" ELSE "incident"
  BY DEF FinishIncident, GoToNextIncident, GoTo, TypeInv, TypeOK
<1>2. /\ MyPids(x)' = MyPids(x)
      /\ \A p : MyEvidence(x, p)' = MyEvidence(x, p)
  BY ResultsFrame
<1>3. /\ MyPids(x) \subseteq Pid
      /\ \A p, q : MyEvidence(x, p) \intersect MyEvidence(x, q) # {} => p = q
  BY RunFacts
<1>4. \A p : Complete(x, p) => Complete(x, p)'
  BY <1>2 DEF Complete
<1>5. Progress(x)
  BY DEF RunInv, Late
<1>6. \A q \in todo'[x] : pid < q /\ q \in todo[x] /\ q \in Pid
  BY <1>1, RunFacts DEF Current
<1>7. Progress(x)'
  <2>1. recorded'[x] = loaded'[x] /\ todo'[x] \subseteq MyPids(x)'
    BY <1>1, <1>2, <1>5 DEF Progress
  <2>2. ASSUME NEW p \in MyPids(x) \ todo'[x]
        PROVE  /\ Complete(x, p)'
               /\ Uploads(x) => outcome'[<<x, p>>] \in {"uploaded", "failed"}
               /\ \A q \in todo'[x] : p < q
    BY <1>1, <1>3, <1>4, <1>5, <1>6, <2>2 DEF Progress
  <2>3. ASSUME NEW q \in todo'[x]
        PROVE  /\ ~HasRow(x, "incidents", IncidentKey(x, q))'
               /\ request'[<<x, q>>] = "none"
    <3>1. ~Current(x, q) /\ q \in todo[x] /\ q \in Pid
      BY <1>6, RunFacts DEF Current
    <3> QED BY <3>1, <1>5 DEF Progress
  <2> QED BY <2>1, <2>2, <2>3, <1>2 DEF Progress, Uploads
<1>8. AtStage(x)'
  BY <1>1 DEF AtStage
<1>9. Recorded(x)' /\ Reported(x)'
  BY <1>4 DEF RunInv, Recorded, Reported
<1>10. Rooted(x)'
  BY <1>2, <1>3 DEF RunInv, Rooted
<1>11. InOrder(x)'
  BY <1>2, <1>4 DEF RunInv, InOrder
<1> QED BY <1>1, <1>7, <1>8, <1>9, <1>10, <1>11 DEF RunInv, Early, Unrecorded

LEMMA InsertRuleMatchKeepsInv ==
  ASSUME TypeInv, NEW x \in Run, RunInv(x), InsertRuleMatch(x)
  PROVE  RunInv(x)'
<1>1. PICK m \in left[x] :
        /\ InsertRow(x, "incident_rule_matches", MatchKey(x, m))
        /\ left'[x] = left[x] \ {m}
  BY DEF InsertRuleMatch, TypeInv, TypeOK
<1>2. /\ pc[x] = "evidence"
      /\ UNCHANGED <<loaded, recorded, handle, request, outcome>>
      /\ rows' = rows \union {<<handle[x], "incident_rule_matches", MatchKey(x, m)>>}
  BY <1>1 DEF InsertRuleMatch, InsertRow, uemVars
<1>3. /\ MyPids(x)' = MyPids(x)
      /\ \A p : MyEvidence(x, p)' = MyEvidence(x, p)
  BY <1>2, ResultsFrame
<1>4. /\ \A table, key : HasRow(x, table, key) => HasRow(x, table, key)'
      /\ \A p : HasRow(x, "incidents", IncidentKey(x, p))' =>
                  HasRow(x, "incidents", IncidentKey(x, p))
      /\ \A n : HasRow(x, "incident_rule_matches", MatchKey(x, n))' =>
                  HasRow(x, "incident_rule_matches", MatchKey(x, n)) \/ n = m
      /\ HasRow(x, "incident_rule_matches", MatchKey(x, m))'
  BY <1>2 DEF HasRow, MatchKey
<1>5. \A p : Complete(x, p) => Complete(x, p)'
  BY <1>3, <1>4 DEF Complete
<1>6. Progress(x)
  BY <1>2 DEF RunInv, Late
<1>7. PICK p \in todo[x] :
        /\ Current(x, p)
        /\ HasRow(x, "incidents", IncidentKey(x, p))
        /\ left[x] \subseteq MyEvidence(x, p)
        /\ \A n \in MyEvidence(x, p) \ left[x] :
             HasRow(x, "incident_rule_matches", MatchKey(x, n))
  BY <1>2 DEF RunInv, AtStage
<1>8. \A n \in MyEvidence(x, p) \ left'[x] :
        HasRow(x, "incident_rule_matches", MatchKey(x, n))'
  BY <1>1, <1>4, <1>7
<1>9. left'[x] = {} => Complete(x, p)'
  BY <1>3, <1>4, <1>7, <1>8 DEF Complete
<1>10. CASE left'[x] # {} \/ Uploads(x)
  <2>1. todo' = todo /\ pc'[x] = IF left'[x] # {} THEN "evidence" ELSE "upload"
    BY <1>2, <1>10 DEF InsertRuleMatch, GoTo, Uploads, TypeInv, TypeOK
  <2>2. Progress(x)'
    BY <1>2, <1>3, <1>4, <1>5, <1>6, <2>1 DEF Progress, Current, Uploads
  <2>3. Current(x, p)'
    BY <1>7, <2>1 DEF Current
  <2>4. AtStage(x)'
    BY <1>1, <1>3, <1>4, <1>7, <1>8, <1>9, <1>10, <2>1, <2>3 DEF AtStage, Uploads
  <2>5. Recorded(x)' /\ Reported(x)'
    BY <1>2, <1>4, <1>5 DEF RunInv, Recorded, Reported
  <2>6. InOrder(x)'
    BY <1>3, <1>4, <1>5 DEF RunInv, InOrder
  <2>7. Rooted(x)'
    <3> SUFFICES ASSUME NEW q \in MyPids(x), NEW n \in MyEvidence(x, q),
                        HasRow(x, "incident_rule_matches", MatchKey(x, n))'
                 PROVE  HasRow(x, "incidents", IncidentKey(x, q))
      BY <1>3, <1>4 DEF Rooted
    <3>1. CASE n = m
      <4>1. q = p
        BY <3>1, <1>1, <1>7, RunFacts
      <4> QED BY <4>1, <1>7
    <3>2. CASE n # m
      BY <3>2, <1>4 DEF RunInv, Rooted
    <3> QED BY <3>1, <3>2
  <2> QED BY <2>1, <2>2, <2>4, <2>5, <2>6, <2>7 DEF RunInv, Early, Unrecorded
<1>11. CASE left'[x] = {} /\ ~Uploads(x)
  <2>1. FinishIncident(x, p)
    BY <1>1, <1>7, <1>11, RunFacts DEF InsertRuleMatch, Uploads
  <2> QED BY <1>1, <1>2, <1>4, <1>7, <1>9, <1>11, <2>1, FinishIncidentKeepsInv
<1> QED BY <1>10, <1>11

LEMMA StartUploadKeepsInv ==
  ASSUME TypeInv, NEW x \in Run, RunInv(x), StartUpload(x)
  PROVE  RunInv(x)'
<1>1. PICK pid \in todo[x] : Current(x, pid) /\ Post(<<x, pid>>)
  BY DEF StartUpload
<1>2. /\ pc[x] = "upload" /\ pc'[x] = "response"
      /\ UNCHANGED <<loaded, recorded, todo, left, handle, rows>>
  BY DEF StartUpload, GoTo, storeVars, TypeInv, TypeOK
<1>3. Complete(x, pid) /\ Uploads(x)
  BY <1>1, <1>2, RunFacts DEF RunInv, AtStage
<1>4. /\ MyPids(x)' = MyPids(x)
      /\ \A p : MyEvidence(x, p)' = MyEvidence(x, p)
  BY <1>2, ResultsFrame
<1>5. /\ \A table, key : HasRow(x, table, key)' <=> HasRow(x, table, key)
      /\ \A p : Complete(x, p)' <=> Complete(x, p)
  BY <1>2, <1>4 DEF HasRow, Complete
<1>6. \A p \in Pid : p # pid => /\ request'[<<x, p>>] = request[<<x, p>>]
                               /\ outcome'[<<x, p>>] = outcome[<<x, p>>]
  <2>1. <<x, pid>> \in Report /\ \A p \in Pid : <<x, p>> \in Report
    BY <1>1, RunFacts, ReportsAreIncidents
  <2> QED BY <1>1, <2>1, UploadIsLocal DEF TypeInv, TypeOK
<1>7. Progress(x)
  BY <1>2 DEF RunInv, Late
<1>8. Progress(x)'
  <2>1. MyPids(x) \subseteq Pid /\ todo[x] \subseteq Pid
    BY RunFacts
  <2> QED BY <1>1, <1>2, <1>4, <1>5, <1>6, <1>7, <2>1 DEF Progress, Current, Uploads
<1>9. AtStage(x)'
  BY <1>1, <1>2, <1>3, <1>5 DEF AtStage, Current, Uploads
<1>10. Recorded(x)' /\ Rooted(x)' /\ InOrder(x)'
  BY <1>2, <1>4, <1>5 DEF RunInv, Recorded, Rooted, InOrder
<1>11. Reported(x)'
  BY <1>3, <1>5, <1>6 DEF RunInv, Reported
<1> QED BY <1>2, <1>8, <1>9, <1>10, <1>11 DEF RunInv, Early, Unrecorded

LEMMA EndUploadKeepsInv ==
  ASSUME TypeInv, NEW x \in Run, RunInv(x), EndUpload(x)
  PROVE  RunInv(x)'
<1>1. PICK pid \in todo[x] :
        /\ Current(x, pid)
        /\ \/ pc[x] = "upload" /\ CannotPost(<<x, pid>>)
           \/ pc[x] = "response" /\ GetResponse(<<x, pid>>)
           \/ pc[x] = "response" /\ GiveUp(<<x, pid>>)
        /\ FinishIncident(x, pid)
  BY DEF EndUpload
<1>2. UNCHANGED <<loaded, recorded, handle, rows>>
  BY DEF EndUpload, storeVars
<1>3. Complete(x, pid)
  BY <1>1, RunFacts DEF RunInv, AtStage
<1>4. \A table, key : HasRow(x, table, key)' <=> HasRow(x, table, key)
  BY <1>2 DEF HasRow
<1>5. Complete(x, pid)'
  BY <1>2, <1>3, <1>4, ResultsFrame DEF Complete
<1>6. <<x, pid>> \in Report /\ \A p \in Pid : <<x, p>> \in Report
  BY <1>1, RunFacts, ReportsAreIncidents
<1>7. \A p \in Pid : p # pid => /\ request'[<<x, p>>] = request[<<x, p>>]
                               /\ outcome'[<<x, p>>] = outcome[<<x, p>>]
  BY <1>1, <1>6, UploadIsLocal DEF TypeInv, TypeOK
<1>8. outcome'[<<x, pid>>] \in {"uploaded", "failed"}
  BY <1>1, <1>6 DEF TypeInv, TypeOK, UemType, CannotPost, GetResponse, GiveUp
<1>9. HasRow(x, "incidents", IncidentKey(x, pid))
  BY <1>3 DEF Complete
<1>10. pc[x] \in {"evidence", "upload", "response"} /\ FinishIncident(x, pid)
  BY <1>1
<1> QED BY <1>1, <1>2, <1>4, <1>5, <1>7, <1>8, <1>9, <1>10, FinishIncidentKeepsInv

(* A run that has stopped early keeps what holds at every stage.           *)
LEMMA StopKeepsInv ==
  ASSUME TypeInv, NEW x \in Run, RunInv(x), Throw(x) \/ Crash(x)
  PROVE  RunInv(x)'
<1>1. /\ pc'[x] \in {"failed", "crashed"}
      /\ UNCHANGED <<loaded, recorded, todo, left, rows, handle, request, outcome>>
  BY DEF Throw, Crash, GoTo, storeVars, uemVars, TypeInv, TypeOK
<1>2. /\ MyPids(x)' = MyPids(x)
      /\ \A p : MyEvidence(x, p)' = MyEvidence(x, p)
  BY <1>1, ResultsFrame
<1>3. \A table, key : HasRow(x, table, key)' <=> HasRow(x, table, key)
  BY <1>1 DEF HasRow
<1>4. \A p : Complete(x, p)' <=> Complete(x, p)
  BY <1>2, <1>3 DEF Complete
<1>5. Recorded(x)' /\ Reported(x)' /\ Rooted(x)' /\ InOrder(x)'
  BY <1>1, <1>2, <1>3, <1>4 DEF RunInv, Recorded, Reported, Rooted, InOrder
<1> QED BY <1>1, <1>5 DEF RunInv, Early, Unrecorded, Late, AtStage

(* The clock and the control plane: a request may be handled, but none     *)
(* appears, and the runs only learn of it by their own steps.              *)
LEMMA OthersKeepInv ==
  ASSUME TypeInv, NEW x \in Run, RunInv(x), Tick \/ ControlPlane \/ UNCHANGED vars
  PROVE  RunInv(x)'
<1>1. UNCHANGED <<runVars, storeVars>>
  BY DEF Tick, ControlPlane, vars
<1>2. /\ outcome' = outcome
      /\ \A m \in Report : request'[m] = "none" <=> request[m] = "none"
  <2>1. CASE ControlPlane
    BY <2>1 DEF ControlPlane, ReceiveIncident, RejectIncident, ResetIncidents,
                TypeInv, TypeOK, UemType
  <2>2. CASE Tick \/ UNCHANGED vars
    BY <2>2 DEF Tick, vars, uemVars
  <2> QED BY <2>1, <2>2
<1>3. \A p \in Pid : /\ request'[<<x, p>>] = "none" <=> request[<<x, p>>] = "none"
                     /\ outcome'[<<x, p>>] = outcome[<<x, p>>]
  BY <1>2, ReportsAreIncidents
<1>4. SameRows(x) /\ (NoIncidentYet(x) => NoIncidentYet(x)')
  BY <1>1, <1>3 DEF storeVars, SameRows, HasRow, NoIncidentYet
<1>5. MyPids(x) \subseteq Pid
  BY RunFacts
<1>6. /\ pc'[x] = pc[x] /\ loaded'[x] = loaded[x] /\ recorded'[x] = recorded[x]
      /\ todo'[x] = todo[x] /\ left'[x] = left[x]
  BY <1>1 DEF runVars
<1> QED BY <1>3, <1>4, <1>5, <1>6, RunFrame

(* Each step keeps what is known of every run: of the one that moves and   *)
(* of those whose rows lie in the same files.                              *)
THEOREM NextRunInv == AgentInv /\ [Next]_vars => AgentInv'
<1> SUFFICES ASSUME AgentInv, [Next]_vars, NEW x \in Run PROVE RunInv(x)'
  BY NextTypeInv DEF AgentInv
<1>1. TypeInv /\ RunInv(x)
  BY DEF AgentInv
<1>2. ASSUME Step(x) PROVE RunInv(x)'
  BY <1>1, <1>2, EarlyStepKeepsInv, RecordEventKeepsInv, CorrelateKeepsInv,
     InsertIncidentKeepsInv, InsertRuleMatchKeepsInv, StartUploadKeepsInv,
     EndUploadKeepsInv DEF Step
<1>3. ASSUME Throw(x) \/ Crash(x) PROVE RunInv(x)'
  BY <1>1, <1>3, StopKeepsInv
<1>4. ASSUME NEW y \in Run, y # x, Step(y) \/ Throw(y) \/ Crash(y) PROVE RunInv(x)'
  BY <1>1, <1>4, StepIsLocal, RunFrame, RunFacts
<1>5. ASSUME Tick \/ ControlPlane \/ UNCHANGED vars PROVE RunInv(x)'
  BY <1>1, <1>5, OthersKeepInv
<1> QED BY <1>2, <1>3, <1>4, <1>5 DEF Next, AllEnded

(* The inductive invariant holds in every reachable state.                 *)
THEOREM AgentInductive == Spec => []AgentInv
<1>1. Init => AgentInv
  BY InitTypeInv, InitRunInv DEF AgentInv
<1> QED BY <1>1, NextRunInv, PTL DEF Spec

(* Whatever can reach the control plane has its incident and all its rule  *)
(* matches committed, for any number of runs (main.cpp:252-285).           *)
THEOREM ReportsHaveEvidence == Spec => []EvidenceBeforeReport
<1>1. AgentInv => EvidenceBeforeReport
  <2> SUFFICES ASSUME AgentInv, NEW m \in Report, request[m] # "none"
               PROVE  Persisted(m[1], m[2])
    BY DEF EvidenceBeforeReport
  <2>1. PICK x \in Run, p \in Pid : m = <<x, p>>
    BY ReportsAreIncidents
  <2>2. Complete(x, p)
    BY <2>1 DEF AgentInv, RunInv, Reported
  <2> QED BY <2>1, <2>2 DEF Complete, Persisted, MyEvidence
<1> QED BY <1>1, AgentInductive, PTL

(* A stored rule match has its incident and a stored incident its events,  *)
(* wherever a run has failed or crashed (main.cpp:216-254).                *)
THEOREM RowsHaveTheirParents == Spec => []NoOrphanRows
<1>1. AgentInv => NoOrphanRows
  <2> SUFFICES ASSUME AgentInv, NEW x \in Run, NEW pid \in PidsOf(Results(x))
               PROVE  /\ \A i \in EventsOf(Results(x), pid) :
                            HasRow(x, "raw_events", RawKey(x, i))
                      /\ \A m \in EvidenceOf(Results(x), pid) :
                            HasRow(x, "incident_rule_matches", MatchKey(x, m)) =>
                              HasRow(x, "incidents", IncidentKey(x, pid))
    BY DEF NoOrphanRows
  <2>1. MyEvents(x, pid) \subseteq 1..recorded[x]
    <3>1. recorded[x] \in Nat /\ recorded[x] <= Len(Events[x])
      <4>1. Len(Events[x]) \in Nat
        BY EventsAreSequences
      <4>2. /\ recorded[x] \in Nat /\ loaded[x] \in Nat
            /\ recorded[x] <= loaded[x] /\ loaded[x] <= Len(Events[x])
        BY DEF AgentInv, TypeInv, TypeOK
      <4> QED BY <4>1, <4>2
    <3> QED BY <3>1, ResultFacts
  <2>2. Recorded(x) /\ Rooted(x)
    BY DEF AgentInv, RunInv
  <2> QED BY <2>1, <2>2 DEF Recorded, Rooted, MyEvents, MyPids, MyEvidence
<1> QED BY <1>1, AgentInductive, PTL

(* At most one incident of a run lacks rule matches, and it is the last    *)
(* that was stored (main.cpp:252-254).                                     *)
THEOREM EarlierIncidentsAreComplete == Spec => []OnlyLastIncidentPartial
<1>1. AgentInv => OnlyLastIncidentPartial
  BY DEF AgentInv, RunInv, InOrder, Complete, OnlyLastIncidentPartial, Persisted,
         MyPids, MyEvidence
<1> QED BY <1>1, AgentInductive, PTL

(* A run that returns 0 has stored and, if asked to, tried to upload all   *)
(* it evaluated (main.cpp:165-304).                                        *)
THEOREM ExitZeroIsComplete == Spec => []DoneMeansComplete
<1>1. AgentInv => DoneMeansComplete
  <2> SUFFICES ASSUME AgentInv, NEW x \in Run, pc[x] = "done"
               PROVE  /\ \A i \in 1..loaded[x] : HasRow(x, "raw_events", RawKey(x, i))
                      /\ \A pid \in PidsOf(Results(x)) :
                           /\ Persisted(x, pid)
                           /\ (UploadEnabled[x] /\ Program[x] = "agent") =>
                                outcome[<<x, pid>>] \in {"uploaded", "failed"}
    BY DEF DoneMeansComplete
  <2>1. Progress(x) /\ Recorded(x) /\ todo[x] = {}
    BY DEF AgentInv, RunInv, Late, AtStage
  <2> QED BY <2>1 DEF Progress, Recorded, Complete, Persisted, Uploads, MyPids, MyEvidence
<1> QED BY <1>1, AgentInductive, PTL
-----------------------------------------------------------------------------
(* The control plane.  A report that is or was in its list has been        *)
(* handled, and a run posts only what was never requested, so no report    *)
(* comes a second time.                                                    *)
Listed(m) == m \in Range(received_incidents) \union forgotten

UemInv ==
  /\ \A m \in Report : Listed(m) => request[m] = "handled"
  /\ \A m \in Report : response[m] = "2xx" => Listed(m)
  /\ UploadedWasReceived
  /\ NoDoubleReport

LEMMA ListFacts ==
  ASSUME UemType
  PROVE  /\ Range(received_incidents) \union forgotten \subseteq Report
         /\ \A m \in Report :
              /\ Append(received_incidents, m) \in Seq(Report)
              /\ Range(Append(received_incidents, m)) = Range(received_incidents) \union {m}
              /\ (NoDoubleReport /\ ~Listed(m)) =>
                   \A j, k \in DOMAIN Append(received_incidents, m) :
                     Append(received_incidents, m)[j] = Append(received_incidents, m)[k] => j = k
<1> DEFINE list == received_incidents
<1>1. list \in Seq(Report) /\ forgotten \subseteq Report /\ DOMAIN list = 1..Len(list)
      /\ Len(list) \in Nat
  BY DEF UemType
<1>2. Range(list) \subseteq Report
  BY <1>1 DEF Range
<1>3. ASSUME NEW m \in Report
      PROVE  /\ Append(list, m) \in Seq(Report)
             /\ DOMAIN Append(list, m) = 1..Len(list) + 1
             /\ \A j \in 1..Len(list) : Append(list, m)[j] = list[j]
             /\ Append(list, m)[Len(list) + 1] = m
  BY <1>1
<1>4. ASSUME NEW m \in Report PROVE Range(Append(list, m)) = Range(list) \union {m}
  BY <1>1, <1>3 DEF Range
<1>5. ASSUME NEW m \in Report, NoDoubleReport, ~Listed(m),
             NEW j \in DOMAIN Append(list, m), NEW k \in DOMAIN Append(list, m),
             Append(list, m)[j] = Append(list, m)[k]
      PROVE  j = k
  <2>1. \A i \in 1..Len(list) : list[i] # m
    BY <1>1, <1>5 DEF Listed, Range
  <2> QED BY <1>1, <1>3, <1>5, <2>1 DEF NoDoubleReport
<1> QED BY <1>1, <1>2, <1>3, <1>4, <1>5

(* No run posts a report that was requested before.                        *)
LEMMA PostIsNew ==
  ASSUME AgentInv, NEW x \in Run, StartUpload(x),
         NEW pid \in todo[x], Current(x, pid)
  PROVE  request[<<x, pid>>] = "none"
<1>1. pc[x] = "upload" /\ Progress(x)
  BY DEF StartUpload, AgentInv, RunInv, Late
<1> QED BY <1>1 DEF Progress

LEMMA UemUnchanged ==
  ASSUME UemInv, UNCHANGED uemVars
  PROVE  UemInv'
  BY DEF UemInv, uemVars, Listed, UploadedWasReceived, NoDoubleReport

LEMMA ClientKeepsUemInv ==
  ASSUME UemType, UemInv, NEW m \in Report,
         \/ Post(m) /\ request[m] = "none"
         \/ CannotPost(m) \/ GetResponse(m) \/ GiveUp(m)
  PROVE  UemInv'
<1>1. UNCHANGED <<response, received_incidents, forgotten>>
  BY DEF Post, CannotPost, GetResponse, GiveUp
<1>2. NoDoubleReport' /\ \A n : Listed(n)' <=> Listed(n)
  BY <1>1 DEF UemInv, NoDoubleReport, Listed
<1>3. \A n \in Report : Listed(n) => request'[n] = "handled"
  BY DEF UemInv, UemType, Post, CannotPost, GetResponse, GiveUp
<1>4. \A n \in Report : outcome'[n] = "uploaded" => Listed(n)
  <2>1. \A n \in Report : outcome[n] = "uploaded" \/ response[n] = "2xx" => Listed(n)
    BY DEF UemInv, UploadedWasReceived, Listed
  <2> QED BY <2>1 DEF UemType, Post, CannotPost, GetResponse, GiveUp
<1> QED BY <1>1, <1>2, <1>3, <1>4 DEF UemInv, UploadedWasReceived, Listed

LEMMA ControlPlaneKeepsUemInv ==
  ASSUME UemType, UemInv, ControlPlane
  PROVE  UemInv'
<1>1. ASSUME NEW m \in Report, ReceiveIncident(m) PROVE UemInv'
  <2>1. /\ received_incidents' = Append(received_incidents, m) /\ forgotten' = forgotten
        /\ request' = [request EXCEPT ![m] = "handled"]
        /\ response' = [response EXCEPT ![m] = "2xx"]
        /\ outcome' = outcome /\ request[m] = "sent"
    BY <1>1 DEF ReceiveIncident
  <2>2. ~Listed(m)
    BY <2>1 DEF UemInv
  <2>3. \A n : Listed(n)' <=> Listed(n) \/ n = m
    BY <2>1, ListFacts DEF Listed
  <2>4. \A n \in Report : Listed(n)' => request'[n] = "handled"
    BY <2>1, <2>3 DEF UemInv, UemType
  <2>5. \A n \in Report : response'[n] = "2xx" => Listed(n)'
    BY <2>1, <2>3 DEF UemInv, UemType
  <2>6. UploadedWasReceived'
    BY <2>1, <2>3 DEF UemInv, UploadedWasReceived, Listed
  <2>7. NoDoubleReport'
    <3>1. m \notin forgotten /\ m \notin Range(received_incidents)
      BY <2>2 DEF Listed
    <3>2. /\ \A j, k \in DOMAIN received_incidents' :
               received_incidents'[j] = received_incidents'[k] => j = k
          /\ Range(received_incidents') = Range(received_incidents) \union {m}
      BY <2>1, <2>2, ListFacts DEF UemInv
    <3>3. Range(received_incidents) \intersect forgotten = {}
      BY DEF UemInv, NoDoubleReport
    <3> QED BY <2>1, <3>1, <3>2, <3>3 DEF NoDoubleReport
  <2> QED BY <2>4, <2>5, <2>6, <2>7 DEF UemInv
<1>2. ASSUME NEW m \in Report, RejectIncident(m) PROVE UemInv'
  BY <1>2 DEF RejectIncident, UemInv, UemType, Listed, UploadedWasReceived, NoDoubleReport
<1>3. ASSUME ResetIncidents PROVE UemInv'
  <2>1. /\ UNCHANGED <<request, response, outcome>> /\ received_incidents' = <<>>
        /\ forgotten' = forgotten \union Range(received_incidents)
    BY <1>3 DEF ResetIncidents
  <2>2. Range(received_incidents') = {}
    BY <2>1 DEF Range
  <2>3. \A n : Listed(n)' <=> Listed(n)
    BY <2>1, <2>2 DEF Listed
  <2>4. NoDoubleReport'
    BY <2>1, <2>2 DEF NoDoubleReport
  <2> QED BY <2>1, <2>3, <2>4 DEF UemInv, UploadedWasReceived, Listed
<1> QED BY <1>1, <1>2, <1>3 DEF ControlPlane

(* Each step keeps what is known of the control plane: what it lists was   *)
(* requested and handled, and nothing is listed twice.                     *)
THEOREM NextUemInv == AgentInv /\ UemInv /\ [Next]_vars => UemInv'
<1> SUFFICES ASSUME AgentInv, UemInv, [Next]_vars PROVE UemInv'
  OBVIOUS
<1>1. UemType /\ TypeOK
  BY DEF AgentInv, TypeInv, TypeOK
<1>2. ASSUME NEW x \in Run, StartUpload(x) PROVE UemInv'
  <2>1. PICK pid \in todo[x] : Current(x, pid) /\ Post(<<x, pid>>)
    BY <1>2 DEF StartUpload
  <2> QED BY <1>1, <1>2, <2>1, PostIsNew, CurrentIsReport, ClientKeepsUemInv
<1>3. ASSUME NEW x \in Run, EndUpload(x) PROVE UemInv'
  <2>1. PICK pid \in todo[x] :
          CannotPost(<<x, pid>>) \/ GetResponse(<<x, pid>>) \/ GiveUp(<<x, pid>>)
    BY <1>3 DEF EndUpload
  <2> QED BY <1>1, <2>1, CurrentIsReport, ClientKeepsUemInv
<1>4. ASSUME NEW x \in Run,
             \/ GenerateRunId(x) \/ ResetDatabase(x) \/ LoadPolicy(x) \/ OpenStore(x)
             \/ InitializeStore(x) \/ LoadEvents(x) \/ RecordEvent(x) \/ Correlate(x)
             \/ InsertIncident(x) \/ InsertRuleMatch(x) \/ Throw(x) \/ Crash(x)
      PROVE  UemInv'
  BY <1>4, UemUnchanged
  DEF GenerateRunId, ResetDatabase, LoadPolicy, OpenStore, InitializeStore, LoadEvents,
      RecordEvent, Correlate, InsertIncident, InsertRuleMatch, Throw, Crash
<1>5. ASSUME Tick \/ UNCHANGED vars PROVE UemInv'
  BY <1>5, UemUnchanged DEF Tick, vars
<1>6. ASSUME ControlPlane PROVE UemInv'
  BY <1>1, <1>6, ControlPlaneKeepsUemInv
<1> QED BY <1>2, <1>3, <1>4, <1>5, <1>6 DEF Next, Step, AllEnded

(* In every behaviour the control plane lists what was requested, once,    *)
(* and an answer of 2xx means it was received.                             *)
THEOREM UemInductive == Spec => []UemInv
<1>1. Init => UemInv
  BY DEF Init, UemInit, UemInv, Listed, Range, UploadedWasReceived, NoDoubleReport
<1> QED BY <1>1, NextUemInv, AgentInductive, PTL DEF Spec

(* However late a request is handled and however often the list is         *)
(* cleared, no incident of a run is ever listed twice                      *)
(* (UemClient.cpp:55-110, main.py:46-58).                                  *)
THEOREM ReportsAreListedOnce == Spec => []NoDoubleReport
  BY UemInductive, PTL DEF UemInv

(* A run only counts an upload as done that the control plane has listed   *)
(* (UemClient.cpp:91-109).                                                 *)
THEOREM UploadedReportsWereListed == Spec => []UploadedWasReceived
  BY UemInductive, PTL DEF UemInv
-----------------------------------------------------------------------------
(* The rows at the path.  Every row is in a file, so there is nothing to   *)
(* lose when a run creates a file at an empty path.                        *)
RowsInFiles == \A row \in rows : row[1] \in File

(* What a step does to the path and to the rows.                           *)
LEMMA RowSteps ==
  ASSUME TypeInv, [Next]_vars
  PROVE  \/ \E x \in Run : ResetDb[x] /\ ResetDatabase(x) /\ rows' = rows
         \/ rows' = rows /\ (path' = path \/ path = NoFile)
         \/ path' = path /\ \E x \in Run : \E table, key :
              /\ handle[x] # NoFile
              /\ rows' = rows \union {<<handle[x], table, key>>}
<1> DEFINE Quiet == rows' = rows /\ (path' = path \/ path = NoFile)
<1> DEFINE Written == path' = path /\ \E x \in Run : \E table, key :
                        /\ handle[x] # NoFile
                        /\ rows' = rows \union {<<handle[x], table, key>>}
<1>1. ASSUME NEW x \in Run, NEW table, NEW key, InsertRow(x, table, key) PROVE Written
  <2>1. handle[x] # NoFile
    BY <1>1 DEF InsertRow, TypeInv, StoreOrder, Ready
  <2>2. path' = path /\ rows' = rows \union {<<handle[x], table, key>>}
    BY <1>1 DEF InsertRow
  <2> QED BY <2>1, <2>2
<1>2. ASSUME NEW x \in Run, ResetDatabase(x)
      PROVE  (ResetDb[x] /\ ResetDatabase(x) /\ rows' = rows) \/ Quiet
  BY <1>2 DEF ResetDatabase, RemovePath, storeVars
<1>3. ASSUME NEW x \in Run, OpenStore(x) \/ InitializeStore(x) PROVE Quiet
  BY <1>3 DEF OpenStore, Open, InitializeStore, CreateTable, ColumnExists, ColumnMissing, AddColumn
<1>4. ASSUME NEW x \in Run, RecordEvent(x) \/ InsertIncident(x) \/ InsertRuleMatch(x)
      PROVE  Written
  BY <1>1, <1>4 DEF RecordEvent, InsertIncident, InsertRuleMatch
<1>5. ASSUME UNCHANGED storeVars PROVE Quiet
  BY <1>5 DEF storeVars
<1>6. ASSUME NEW x \in Run,
             \/ GenerateRunId(x) \/ LoadPolicy(x) \/ LoadEvents(x) \/ Correlate(x)
             \/ StartUpload(x) \/ EndUpload(x) \/ Throw(x) \/ Crash(x)
      PROVE  UNCHANGED storeVars
  BY <1>6 DEF GenerateRunId, LoadPolicy, LoadEvents, Correlate, StartUpload, EndUpload,
              Throw, Crash
<1>7. ASSUME Tick \/ ControlPlane \/ UNCHANGED vars PROVE UNCHANGED storeVars
  BY <1>7 DEF Tick, ControlPlane, vars
<1> QED BY <1>2, <1>3, <1>4, <1>5, <1>6, <1>7 DEF Next, Step, AllEnded

(* Every row is in a file: no row is without one, so none comes back when  *)
(* a run creates a file at an empty path.                                  *)
THEOREM RowsAreInFiles == Spec => []RowsInFiles
<1>1. Init => RowsInFiles
  BY DEF Init, StoreInit, RowsInFiles
<1>2. TypeInv /\ RowsInFiles /\ [Next]_vars => RowsInFiles'
  <2> SUFFICES ASSUME TypeInv, RowsInFiles, [Next]_vars PROVE RowsInFiles'
    OBVIOUS
  <2>1. \A x \in Run : handle[x] # NoFile => handle[x] \in File
    BY DEF TypeInv, TypeOK, StoreType
  <2> QED BY <2>1, RowSteps DEF RowsInFiles, File
<1> QED BY <1>1, <1>2, AgentTypeInvariant, PTL DEF Spec

(* The rows a reader finds at the path only ever grow, whatever runs are   *)
(* started, fail or crash, unless a run was asked to reset the database    *)
(* (main.cpp:148-163).                                                     *)
THEOREM RowsAreOnlyResetAway == Spec => OnlyResetDropsRows
<1>1. TypeInv /\ RowsInFiles /\ [Next]_vars =>
        [RowsAtPath \subseteq RowsAtPath'
         \/ \E x \in Run : ResetDb[x] /\ ResetDatabase(x)]_vars
  <2> SUFFICES ASSUME TypeInv, RowsInFiles, [Next]_vars
               PROVE  \/ RowsAtPath \subseteq RowsAtPath'
                      \/ \E x \in Run : ResetDb[x] /\ ResetDatabase(x)
    OBVIOUS
  <2>1. path = NoFile => RowsAtPath = {}
    BY NamesDiffer DEF RowsInFiles, RowsAtPath
  <2> QED BY <2>1, RowSteps DEF RowsAtPath
<1> QED BY <1>1, RowsAreInFiles, AgentTypeInvariant, PTL DEF Spec, OnlyResetDropsRows
-----------------------------------------------------------------------------
(* The join of the two tables.  A run opens one file and writes to no      *)
(* other, so its rows are in the file that it has open.                    *)
OwnFile == \A row \in rows : \A x \in Run : row[3][1] = x => row[1] = handle[x]

(* What a step does to the file that a run has open.                       *)
LEMMA HandleSteps ==
  ASSUME TypeInv, [Next]_vars
  PROVE  \/ handle' = handle /\ rows' = rows
         \/ rows' = rows /\ \E x \in Run : handle[x] = NoFile
                                           /\ \A y \in Run \ {x} : handle'[y] = handle[y]
         \/ handle' = handle /\ \E x \in Run : \E table, key :
              key[1] = x /\ rows' = rows \union {<<handle[x], table, key>>}
<1> DEFINE Quiet == handle' = handle /\ rows' = rows
           Opened == rows' = rows /\ \E x \in Run : handle[x] = NoFile
                                       /\ \A y \in Run \ {x} : handle'[y] = handle[y]
           Written == handle' = handle /\ \E x \in Run : \E table, key :
                        key[1] = x /\ rows' = rows \union {<<handle[x], table, key>>}
<1>1. ASSUME NEW x \in Run, NEW table, NEW key, key[1] = x, InsertRow(x, table, key)
      PROVE  Written
  BY <1>1 DEF InsertRow
<1>2. ASSUME NEW x \in Run, RecordEvent(x) \/ InsertIncident(x) \/ InsertRuleMatch(x)
      PROVE  Written
  <2>1. \A n : RawKey(x, n)[1] = x /\ IncidentKey(x, n)[1] = x /\ MatchKey(x, n)[1] = x
    BY DEF RawKey, IncidentKey, MatchKey
  <2>2. \E table, key : key[1] = x /\ InsertRow(x, table, key)
    BY <1>2, <2>1 DEF RecordEvent, InsertIncident, InsertRuleMatch
  <2> QED BY <1>1, <2>2
<1>3. ASSUME NEW x \in Run, OpenStore(x) PROVE Opened
  <2>1. handle \in [Run -> File \union {NoFile}]
    BY DEF TypeInv, TypeOK, StoreType
  <2> QED BY <1>3, <2>1 DEF OpenStore, Open
<1>4. ASSUME NEW x \in Run, ResetDatabase(x) \/ InitializeStore(x) PROVE Quiet
  BY <1>4 DEF ResetDatabase, RemovePath, InitializeStore, CreateTable, ColumnExists,
              ColumnMissing, AddColumn, storeVars
<1>5. ASSUME NEW x \in Run,
             \/ GenerateRunId(x) \/ LoadPolicy(x) \/ LoadEvents(x) \/ Correlate(x)
             \/ StartUpload(x) \/ EndUpload(x) \/ Throw(x) \/ Crash(x)
      PROVE  Quiet
  BY <1>5 DEF GenerateRunId, LoadPolicy, LoadEvents, Correlate, StartUpload, EndUpload,
              Throw, Crash, storeVars
<1>6. ASSUME Tick \/ ControlPlane \/ UNCHANGED vars PROVE Quiet
  BY <1>6 DEF Tick, ControlPlane, vars, storeVars
<1> QED BY <1>2, <1>3, <1>4, <1>5, <1>6 DEF Next, Step, AllEnded

(* Every row a run wrote is in the one file that run has open.             *)
THEOREM RowsAreInOwnFile == Spec => []OwnFile
<1>1. Init => OwnFile
  BY DEF Init, StoreInit, OwnFile
<1>2. TypeInv /\ RowsInFiles /\ OwnFile /\ [Next]_vars => OwnFile'
  <2> SUFFICES ASSUME TypeInv, RowsInFiles, OwnFile, [Next]_vars,
                      NEW row \in rows', NEW x \in Run, row[3][1] = x
               PROVE  row[1] = handle'[x]
    BY DEF OwnFile
  <2>1. ASSUME row \in rows PROVE row[1] = handle[x] /\ handle[x] # NoFile
    BY <2>1, NamesDiffer DEF OwnFile, RowsInFiles
  <2> QED BY <2>1, HandleSteps
<1> QED BY <1>1, <1>2, RowsAreInFiles, AgentTypeInvariant, PTL DEF Spec

(* Different processes of a run have different incident numbers.           *)
LEMMA NumbersDiffer ==
  ASSUME TypeInv, NEW x \in Run, NEW p \in MyPids(x), NEW q \in MyPids(x),
         IncidentNumber(Results(x), p) = IncidentNumber(Results(x), q)
  PROVE  p = q
<1>1. MyPids(x) \subseteq Int /\ IsFiniteSet(MyPids(x))
  <2>1. MyPids(x) \subseteq Int
    BY RunFacts
  <2>2. IsFiniteSet(1..recorded[x])
    <3>1. recorded[x] \in Nat
      BY DEF TypeInv, TypeOK
    <3> QED BY <3>1, FS_Interval
  <2> DEFINE pidOf == [i \in 1..recorded[x] |-> Results(x)[i].event.pid]
  <2>3. PICK S : S = {pidOf[i] : i \in 1..recorded[x]}
    OBVIOUS
  <2>4. MyPids(x) \subseteq S
    BY <2>3 DEF MyPids, PidsOf, Suspicious, Results
  <2>5. pidOf \in Surjection(1..recorded[x], S)
    BY <2>3 DEF Surjection
  <2>6. IsFiniteSet(S)
    BY <2>2, <2>5, FS_Surjection
  <2> QED BY <2>1, <2>4, <2>6, FS_Subset
<1>2. ASSUME NEW a \in MyPids(x), NEW b \in MyPids(x), a < b,
             IncidentNumber(Results(x), a) = IncidentNumber(Results(x), b)
      PROVE  FALSE
  <2>1. PICK A, B : /\ A = {r \in MyPids(x) : r <= a} /\ B = {r \in MyPids(x) : r <= b}
    OBVIOUS
  <2>2. A \subseteq B /\ b \in B /\ b \notin A
    BY <1>1, <1>2, <2>1
  <2>3. IsFiniteSet(B)
    BY <1>1, <2>1, FS_Subset
  <2>4. Cardinality(A) = Cardinality(B)
    BY <1>2, <2>1 DEF IncidentNumber, MyPids
  <2> QED BY <2>2, <2>3, <2>4, FS_Subset
<1>3. p \in Int /\ q \in Int
  BY <1>1
<1> QED BY <1>2, <1>3

(* Wherever runs have stopped, the join of the tables on run_id and        *)
(* incident_id gives a finished incident exactly its own rule matches, if  *)
(* no other run with the id wrote to the file (AuditStore.cpp:106-134).    *)
THEOREM JoinIsExact == Spec => []JoinExplainsIncident
<1>1. TypeInv /\ OwnFile => JoinExplainsIncident
  <2> SUFFICES ASSUME TypeInv, OwnFile, NEW x \in Run, NEW pid \in PidsOf(Results(x)),
                      Persisted(x, pid),
                      \A y \in Run \ {x} : ~(handle[y] = handle[x] /\ run_id[y] = run_id[x])
               PROVE  Joined(handle[x], run_id[x], IncidentNumber(Results(x), pid))
                        = {x} \X EvidenceOf(Results(x), pid)
    BY DEF JoinExplainsIncident
  <2>1. PICK file, id, number :
          file = handle[x] /\ id = run_id[x] /\ number = IncidentNumber(Results(x), pid)
    OBVIOUS
  <2>2. ASSUME NEW m \in Joined(file, id, number)
        PROVE  m \in {x} \X EvidenceOf(Results(x), pid)
    <3>1. PICK y \in Run : m \in {y} \X (UNION {EvidenceOf(Results(y), p) : p \in PidsOf(Results(y))})
      BY <2>2 DEF Joined
    <3>2. m[1] = y /\ m = <<y, m[2]>>
      BY <3>1
    <3>3. /\ <<file, "incident_rule_matches", MatchKey(y, m[2])>> \in rows
          /\ run_id[y] = id
      BY <2>2, <3>2 DEF Joined
    <3>4. handle[y] = file
      BY <3>3 DEF OwnFile, MatchKey
    <3>5. y = x
      BY <2>1, <3>3, <3>4
    <3>6. PICK p \in PidsOf(Results(x)) :
            m[2] \in EvidenceOf(Results(x), p) /\ IncidentNumber(Results(x), p) = number
      BY <2>2, <3>2, <3>5 DEF Joined
    <3>7. p = pid
      BY <2>1, <3>6, NumbersDiffer DEF MyPids
    <3> QED BY <3>2, <3>5, <3>6, <3>7
  <2>3. ASSUME NEW e \in EvidenceOf(Results(x), pid)
        PROVE  <<x, e>> \in Joined(file, id, number)
    <3>1. <<file, "incident_rule_matches", MatchKey(x, e)>> \in rows
      BY <2>1 DEF Persisted, HasRow
    <3>2. <<x, e>>[1] = x /\ <<x, e>>[2] = e
      OBVIOUS
    <3>3. <<x, e>> \in UNION {{y} \X (UNION {EvidenceOf(Results(y), p) :
                                            p \in PidsOf(Results(y))}) : y \in Run}
      OBVIOUS
    <3> QED BY <2>1, <3>1, <3>2, <3>3 DEF Joined
  <2>4. PICK E : E = EvidenceOf(Results(x), pid)
    OBVIOUS
  <2>5. {x} \X E \subseteq Joined(file, id, number)
    BY <2>3, <2>4
  <2> QED BY <2>1, <2>2, <2>4, <2>5
<1> QED BY <1>1, RowsAreInOwnFile, AgentTypeInvariant, PTL
-----------------------------------------------------------------------------
(* What a run has left to do.  It is counted: a run has finitely many      *)
(* processes and rule matches.                                             *)
LEMMA MineIsFinite ==
  ASSUME TypeInv, NEW x \in Run
  PROVE  IsFiniteSet(MyPids(x)) /\ \A p : IsFiniteSet(MyEvidence(x, p))
<1>1. PICK n \in Nat : n = recorded[x] /\ n <= Len(Events[x])
  <2>1. /\ recorded[x] \in Nat /\ loaded[x] \in Nat /\ Len(Events[x]) \in Nat
        /\ recorded[x] <= loaded[x] /\ loaded[x] <= Len(Events[x])
    BY EventsAreSequences DEF TypeInv, TypeOK
  <2> QED BY <2>1
<1>2. IsFiniteSet(1..n)
  BY FS_Interval
<1>3. DOMAIN Results(x) = 1..n
  BY <1>1 DEF Results
<1>4. IsFiniteSet(MyPids(x))
  <2> DEFINE pidOf == [i \in 1..n |-> Results(x)[i].event.pid]
  <2>1. PICK S : S = {pidOf[i] : i \in 1..n}
    OBVIOUS
  <2>2. MyPids(x) \subseteq S
    BY <1>3, <2>1 DEF MyPids, PidsOf, Suspicious
  <2>3. pidOf \in Surjection(1..n, S)
    BY <2>1 DEF Surjection
  <2>4. IsFiniteSet(S)
    BY <1>2, <2>3, FS_Surjection
  <2> QED BY <2>2, <2>4, FS_Subset
<1>5. ASSUME NEW p PROVE IsFiniteSet(MyEvidence(x, p))
  <2> DEFINE matchesOf == [i \in MyEvents(x, p) |-> {i} \X DOMAIN Results(x)[i].matches]
  <2>1. MyEvents(x, p) \subseteq 1..n
    BY <1>1, ResultFacts
  <2>2. IsFiniteSet(MyEvents(x, p))
    BY <1>2, <2>1, FS_Subset
  <2>3. ASSUME NEW i \in MyEvents(x, p) PROVE IsFiniteSet({i} \X DOMAIN Results(x)[i].matches)
    <3>1. i \in 1..Len(Events[x]) /\ Results(x)[i] = EvaluationOf(Events[x][i])
      <4>1. i \in 1..n /\ Len(Events[x]) \in Nat
        BY <2>1, <2>3, EventsAreSequences
      <4> QED BY <1>1, <4>1 DEF Results
    <3>2. PICK k \in Nat : DOMAIN Results(x)[i].matches = 1..k
      BY <3>1, ResultsAreMatches
    <3>3. IsFiniteSet(1..k)
      BY FS_Interval
    <3>4. IsFiniteSet({i})
      BY FS_Singleton
    <3>5. IsFiniteSet({i} \X (1..k))
      BY <3>3, <3>4, FS_Product
    <3> QED BY <3>2, <3>5
  <2>4. PICK S : S = {matchesOf[i] : i \in MyEvents(x, p)}
    OBVIOUS
  <2>5. matchesOf \in Surjection(MyEvents(x, p), S)
    BY <2>4 DEF Surjection
  <2>6. IsFiniteSet(S)
    BY <2>2, <2>5, FS_Surjection
  <2>7. \A T \in S : IsFiniteSet(T)
    BY <2>3, <2>4
  <2>8. IsFiniteSet(UNION S)
    BY <2>6, <2>7, FS_UNION
  <2>9. MyEvidence(x, p) \subseteq UNION S
    BY <2>4 DEF MyEvidence, EvidenceOf, MyEvents
  <2> QED BY <2>8, <2>9, FS_Subset
<1> QED BY <1>4, <1>5

LEMMA Counted ==
  ASSUME AgentInv, NEW x \in Run
  PROVE  /\ pc[x] \in Late => IsFiniteSet(todo[x])
         /\ pc[x] = "evidence" => IsFiniteSet(left[x])
<1>1. TypeInv /\ RunInv(x)
  BY DEF AgentInv
<1>2. pc[x] \in Late => todo[x] \subseteq MyPids(x)
  BY <1>1 DEF RunInv, Progress
<1>3. pc[x] = "evidence" => \E p : left[x] \subseteq MyEvidence(x, p)
  BY <1>1 DEF RunInv, AtStage
<1> QED BY <1>1, <1>2, <1>3, MineIsFinite, FS_Subset

LEMMA TakenOut ==
  ASSUME NEW S, IsFiniteSet(S), NEW e \in S
  PROVE  /\ IsFiniteSet(S \ {e}) /\ Cardinality(S) \in Nat /\ Cardinality(S \ {e}) \in Nat
         /\ Cardinality(S \ {e}) < Cardinality(S)
<1>1. IsFiniteSet(S \ {e}) /\ Cardinality(S \ {e}) = Cardinality(S) - 1
  BY FS_RemoveElement
<1>2. Cardinality(S) \in Nat /\ Cardinality(S \ {e}) \in Nat
  BY <1>1, FS_CardinalityType
<1> QED BY <1>1, <1>2

LEMMA Lighter ==
  ASSUME NEW s, NEW i, NEW c, NEW m, NEW s1, NEW i1, NEW c1, NEW m1,
         \/ s1 < s
         \/ s1 = s /\ i1 < i
         \/ s1 = s /\ i1 = i /\ c1 < c
         \/ s1 = s /\ i1 = i /\ c1 = c /\ m1 < m
  PROVE  Fewer(<<s1, i1, c1, m1>>, <<s, i, c, m>>)
<1>1. CASE s1 < s
  BY <1>1 DEF Fewer
<1>2. CASE s1 = s /\ i1 < i
  BY <1>2 DEF Fewer
<1>3. CASE s1 = s /\ i1 = i /\ c1 < c
  BY <1>3 DEF Fewer
<1>4. CASE s1 = s /\ i1 = i /\ c1 = c /\ m1 < m
  BY <1>4 DEF Fewer
<1> QED BY <1>1, <1>2, <1>3, <1>4

LEMMA Ranks ==
  /\ Rank["start"] = 9 /\ Rank["reset"] = 8 /\ Rank["policy"] = 7 /\ Rank["open"] = 6
  /\ Rank["initialize"] = 5 /\ Rank["events"] = 3 /\ Rank["record"] = 2
  /\ Rank["incident"] = 1 /\ Rank["evidence"] = 1 /\ Rank["upload"] = 1
  /\ Rank["response"] = 1 /\ Rank["done"] = 0 /\ Rank["failed"] = 0 /\ Rank["crashed"] = 0
BY DEF Rank

(* The measure is a measure: it consists of numbers.                       *)
LEMMA WorkIsCounted ==
  ASSUME AgentInv, NEW x \in Run
  PROVE  /\ StagesLeft(x) \in Nat /\ ItemsLeft(x) \in Nat /\ CallsLeft(x) \in Nat
         /\ MatchesLeft(x) \in Nat /\ Work(x) \in [1..4 -> Nat]
<1>1. /\ pc[x] \in Stages /\ loaded[x] \in Nat /\ recorded[x] \in Nat
      /\ recorded[x] <= loaded[x] /\ ddl[x] \in 1..7
  BY DEF AgentInv, TypeInv, TypeOK, StoreType, Ready
<1>2. /\ StagesLeft(x) \in Nat
      /\ StagesLeft(x) = 1 => pc[x] \in {"incident", "evidence", "upload", "response"}
  <2> HIDE DEF Rank
  <2> QED BY <1>1, Ranks DEF StagesLeft, Stages, Ended
<1>3. ItemsLeft(x) \in Nat
  <2>1. StagesLeft(x) = 1 => Cardinality(todo[x]) \in Nat
    BY <1>2, Counted, FS_CardinalityType DEF Late
  <2>2. Ready - ddl[x] \in Nat /\ loaded[x] - recorded[x] \in Nat
    BY <1>1 DEF Ready
  <2> QED BY <2>1, <2>2 DEF ItemsLeft
<1>4. CallsLeft(x) \in Nat
  BY DEF CallsLeft
<1>5. MatchesLeft(x) \in Nat
  BY Counted, FS_CardinalityType DEF MatchesLeft
<1>6. ASSUME NEW s \in Nat, NEW i \in Nat, NEW c \in Nat, NEW m \in Nat
      PROVE  <<s, i, c, m>> \in [1..4 -> Nat]
  OBVIOUS
<1> QED BY <1>2, <1>3, <1>4, <1>5, <1>6, Zenon DEF Work

(* A step of a run to a later stage, and a step within the loop over the   *)
(* incidents or the rule matches, leave less.                              *)
LEMMA LaterStage ==
  ASSUME NEW x \in Run, StagesLeft(x)' < StagesLeft(x)
  PROVE  Fewer(Work(x)', Work(x))
<1>1. Work(x)' = <<StagesLeft(x)', ItemsLeft(x)', CallsLeft(x)', MatchesLeft(x)'>>
  BY Zenon DEF Work
<1> QED BY <1>1, Lighter, Zenon DEF Work

LEMMA StoppedIsLess ==
  ASSUME AgentInv, AgentInv', NEW x \in Run, Throw(x) \/ Crash(x)
  PROVE  Fewer(Work(x)', Work(x))
<1>1. pc[x] \in Stages \ Ended /\ pc'[x] \in Ended
  BY DEF AgentInv, TypeInv, TypeOK, Throw, Crash, MayThrow, GoTo, Ended, Stages
<1>2. StagesLeft(x)' < StagesLeft(x)
  <2> HIDE DEF Rank
  <2> QED BY <1>1, Ranks DEF StagesLeft, Stages, Ended
<1> QED BY <1>2, LaterStage

LEMMA EarlyStepIsLess ==
  ASSUME AgentInv, AgentInv', NEW x \in Run,
         \/ GenerateRunId(x) \/ ResetDatabase(x) \/ LoadPolicy(x) \/ OpenStore(x)
         \/ LoadEvents(x) \/ Correlate(x)
  PROVE  Fewer(Work(x)', Work(x))
<1> USE Ranks DEF StagesLeft, GoTo
<1> HIDE DEF Rank
<1>1. pc \in [Run -> Stages]
  BY DEF AgentInv, TypeInv, TypeOK
<1>2. StagesLeft(x)' < StagesLeft(x)
  <2>1. CASE GenerateRunId(x)
    BY <1>1, <2>1 DEF GenerateRunId
  <2>2. CASE ResetDatabase(x)
    BY <1>1, <2>2 DEF ResetDatabase
  <2>3. CASE LoadPolicy(x)
    BY <1>1, <2>3 DEF LoadPolicy
  <2>4. CASE OpenStore(x)
    BY <1>1, <2>4 DEF OpenStore
  <2>5. CASE LoadEvents(x)
    BY <1>1, <2>5 DEF LoadEvents
  <2>6. CASE Correlate(x)
    BY <1>1, <2>6 DEF Correlate, GoToNextIncident
  <2> QED BY <2>1, <2>2, <2>3, <2>4, <2>5, <2>6
<1> QED BY <1>2, LaterStage

LEMMA InitializeIsLess ==
  ASSUME AgentInv, AgentInv', NEW x \in Run, InitializeStore(x)
  PROVE  Fewer(Work(x)', Work(x))
<1>1. /\ pc \in [Run -> Stages] /\ ddl \in [Run -> 1..7] /\ ddl' \in [Run -> 1..7]
      /\ inspected \in [Run -> {"unread", "lacking", "refused"}]
  BY DEF AgentInv, TypeInv, TypeOK, StoreType, Ready
<1>2. \/ ddl'[x] = ddl[x] + 1
      \/ ddl'[x] = ddl[x] /\ inspected[x] = "unread" /\ inspected'[x] # "unread"
  BY <1>1 DEF InitializeStore, CreateTable, ColumnExists, ColumnMissing, AddColumn
<1>3. pc[x] = "initialize"
  BY DEF InitializeStore
<1>4. CASE ddl'[x] = Ready
  <2>1. pc'[x] \in {"policy", "events"} /\ (Program[x] # "agent" => pc'[x] = "events")
    BY <1>1, <1>4 DEF InitializeStore, GoTo
  <2>2. StagesLeft(x)' < StagesLeft(x)
    <3> HIDE DEF Rank
    <3> QED BY <1>3, <2>1, Ranks DEF StagesLeft
  <2> QED BY <2>2, LaterStage
<1>5. CASE ddl'[x] # Ready
  <2>1. pc'[x] = "initialize"
    BY <1>1, <1>3, <1>5 DEF InitializeStore
  <2>2. StagesLeft(x)' = StagesLeft(x)
    BY <1>3, <2>1 DEF StagesLeft
  <2>3. ItemsLeft(x)' = Ready - ddl'[x] /\ ItemsLeft(x) = Ready - ddl[x]
    <3>1. StagesLeft(x) # 1 /\ StagesLeft(x)' # 1
      BY <1>3, <2>1, Ranks DEF StagesLeft
    <3> QED BY <1>3, <2>1, <3>1 DEF ItemsLeft
  <2>4. /\ CallsLeft(x)' = IF inspected'[x] = "unread" THEN 1 ELSE 0
        /\ CallsLeft(x) = IF inspected[x] = "unread" THEN 1 ELSE 0
    BY <1>3, <2>1 DEF CallsLeft
  <2>5. \/ ItemsLeft(x)' < ItemsLeft(x)
        \/ ItemsLeft(x)' = ItemsLeft(x) /\ CallsLeft(x)' < CallsLeft(x)
    BY <1>1, <1>2, <2>3, <2>4 DEF Ready
  <2> QED BY <2>2, <2>5, Lighter, Zenon DEF Work
<1> QED BY <1>4, <1>5

LEMMA RecordEventIsLess ==
  ASSUME AgentInv, AgentInv', NEW x \in Run, RecordEvent(x)
  PROVE  Fewer(Work(x)', Work(x))
<1>1. /\ loaded \in [Run -> Nat] /\ recorded \in [Run -> Nat]
      /\ pc[x] = "record" /\ pc'[x] = "record" /\ loaded'[x] = loaded[x]
      /\ recorded'[x] = recorded[x] + 1
  BY DEF AgentInv, TypeInv, TypeOK, RecordEvent
<1>2. StagesLeft(x)' = StagesLeft(x)
  BY <1>1 DEF StagesLeft
<1>3. ItemsLeft(x)' = loaded'[x] - recorded'[x] /\ ItemsLeft(x) = loaded[x] - recorded[x]
  <2>1. StagesLeft(x) # 1 /\ StagesLeft(x)' # 1
    BY <1>1, Ranks DEF StagesLeft
  <2> QED BY <1>1, <2>1 DEF ItemsLeft
<1>4. ItemsLeft(x)' < ItemsLeft(x)
  BY <1>1, <1>3
<1> QED BY <1>2, <1>4, Lighter, Zenon DEF Work

(* The loop over the incidents.                                            *)
InLoop == {"incident", "evidence", "upload", "response"}

LEMMA LoopWork ==
  ASSUME AgentInv, AgentInv', NEW x \in Run
  PROVE  /\ pc[x] \in InLoop => StagesLeft(x) = 1 /\ ItemsLeft(x) = Cardinality(todo[x])
         /\ pc'[x] \in InLoop => StagesLeft(x)' = 1 /\ ItemsLeft(x)' = Cardinality(todo'[x])
         /\ pc'[x] = "done" => StagesLeft(x)' = 0
  BY Ranks DEF StagesLeft, ItemsLeft, InLoop

LEMMA FinishIsLess ==
  ASSUME AgentInv, AgentInv', NEW x \in Run, pc[x] \in InLoop,
         NEW pid \in todo[x], FinishIncident(x, pid)
  PROVE  Fewer(Work(x)', Work(x))
<1>1. /\ pc'[x] = (IF todo'[x] = {} THEN "done" ELSE "incident")
      /\ todo'[x] = todo[x] \ {pid}
  BY DEF FinishIncident, GoToNextIncident, GoTo, AgentInv, TypeInv, TypeOK
<1>2. CASE pc'[x] = "done"
  <2>1. StagesLeft(x)' < StagesLeft(x)
    BY <1>2, LoopWork
  <2> QED BY <2>1, LaterStage
<1>3. CASE pc'[x] = "incident"
  <2>1. IsFiniteSet(todo[x])
    BY Counted DEF Late, InLoop
  <2>2. Cardinality(todo'[x]) < Cardinality(todo[x])
    BY <1>1, <2>1, TakenOut
  <2>3. StagesLeft(x)' = StagesLeft(x) /\ ItemsLeft(x)' < ItemsLeft(x)
    BY <1>3, <2>2, LoopWork DEF InLoop
  <2> QED BY <2>3, Lighter, Zenon DEF Work
<1> QED BY <1>1, <1>2, <1>3

LEMMA NextCallIsLess ==
  ASSUME AgentInv, AgentInv', NEW x \in Run, pc[x] \in InLoop, pc'[x] \in InLoop,
         todo'[x] = todo[x], CallsLeft(x)' < CallsLeft(x)
  PROVE  Fewer(Work(x)', Work(x))
<1>1. StagesLeft(x)' = StagesLeft(x) /\ ItemsLeft(x)' = ItemsLeft(x)
  BY LoopWork
<1> QED BY <1>1, Lighter, Zenon DEF Work

LEMMA InsertIncidentIsLess ==
  ASSUME AgentInv, AgentInv', NEW x \in Run, InsertIncident(x)
  PROVE  Fewer(Work(x)', Work(x))
<1>1. pc[x] = "incident" /\ pc'[x] = "evidence" /\ todo'[x] = todo[x]
  BY DEF InsertIncident, GoTo, AgentInv, TypeInv, TypeOK
<1>2. CallsLeft(x)' < CallsLeft(x)
  BY <1>1 DEF CallsLeft
<1> QED BY <1>1, <1>2, NextCallIsLess DEF InLoop

LEMMA InsertRuleMatchIsLess ==
  ASSUME AgentInv, AgentInv', NEW x \in Run, InsertRuleMatch(x)
  PROVE  Fewer(Work(x)', Work(x))
<1>1. PICK m \in left[x] : left' = [left EXCEPT ![x] = @ \ {m}]
  BY DEF InsertRuleMatch
<1>2. /\ pc[x] = "evidence" /\ left'[x] = left[x] \ {m}
      /\ pc \in [Run -> Stages]
  BY <1>1 DEF InsertRuleMatch, AgentInv, TypeInv, TypeOK
<1>3. CASE UNCHANGED <<pc, todo>>
  <2>1. IsFiniteSet(left[x])
    BY <1>2, Counted
  <2>2. Cardinality(left'[x]) < Cardinality(left[x])
    BY <1>2, <2>1, TakenOut
  <2>3. StagesLeft(x)' = StagesLeft(x) /\ ItemsLeft(x)' = ItemsLeft(x)
    BY <1>2, <1>3, LoopWork DEF InLoop
  <2>4. CallsLeft(x)' = CallsLeft(x)
    BY <1>2, <1>3 DEF CallsLeft
  <2>5. MatchesLeft(x)' < MatchesLeft(x)
    BY <1>2, <1>3, <2>2 DEF MatchesLeft
  <2> QED BY <2>3, <2>4, <2>5, Lighter, Zenon DEF Work
<1>4. CASE GoTo(x, "upload") /\ UNCHANGED todo
  <2>1. pc'[x] = "upload" /\ todo'[x] = todo[x]
    BY <1>2, <1>4 DEF GoTo
  <2>2. CallsLeft(x)' < CallsLeft(x)
    BY <1>2, <2>1 DEF CallsLeft
  <2> QED BY <1>2, <2>1, <2>2, NextCallIsLess DEF InLoop
<1>5. CASE \E pid \in todo[x] : Current(x, pid) /\ FinishIncident(x, pid)
  BY <1>2, <1>5, FinishIsLess DEF InLoop
<1> QED BY <1>3, <1>4, <1>5 DEF InsertRuleMatch

LEMMA UploadIsLess ==
  ASSUME AgentInv, AgentInv', NEW x \in Run, StartUpload(x) \/ EndUpload(x)
  PROVE  Fewer(Work(x)', Work(x))
<1>1. CASE StartUpload(x)
  <2>1. pc[x] = "upload" /\ pc'[x] = "response" /\ todo'[x] = todo[x]
    BY <1>1 DEF StartUpload, GoTo, AgentInv, TypeInv, TypeOK
  <2>2. CallsLeft(x)' < CallsLeft(x)
    BY <2>1 DEF CallsLeft
  <2> QED BY <2>1, <2>2, NextCallIsLess DEF InLoop
<1>2. CASE EndUpload(x)
  <2>1. pc[x] \in InLoop /\ \E pid \in todo[x] : FinishIncident(x, pid)
    BY <1>2 DEF EndUpload, InLoop
  <2> QED BY <2>1, FinishIsLess
<1> QED BY <1>1, <1>2

LEMMA StoreStepsOfOthers ==
  ASSUME AgentInv, NEW x \in Run, NEW y \in Run \ {x}, Step(y) \/ Throw(y) \/ Crash(y)
  PROVE  ddl'[x] = ddl[x] /\ inspected'[x] = inspected[x]
<1>1. /\ ddl \in [Run -> 1..7]
      /\ inspected \in [Run -> {"unread", "lacking", "refused"}]
  BY DEF AgentInv, TypeInv, TypeOK, StoreType, Ready
<1>2. CASE InitializeStore(y)
  BY <1>1, <1>2 DEF InitializeStore, CreateTable, ColumnExists, ColumnMissing, AddColumn
<1>3. CASE \/ GenerateRunId(y) \/ ResetDatabase(y) \/ LoadPolicy(y) \/ OpenStore(y)
           \/ LoadEvents(y) \/ RecordEvent(y) \/ Correlate(y) \/ InsertIncident(y)
           \/ InsertRuleMatch(y) \/ StartUpload(y) \/ EndUpload(y) \/ Throw(y) \/ Crash(y)
  BY <1>3 DEF GenerateRunId, ResetDatabase, RemovePath, LoadPolicy, OpenStore, Open,
              LoadEvents, RecordEvent, Correlate, InsertIncident, InsertRuleMatch, InsertRow,
              StartUpload, EndUpload, Throw, Crash, storeVars
<1> QED BY <1>2, <1>3 DEF Step

(* Every step of a run counts, and no other step changes what it has left. *)
THEOREM NextCounts ==
  AgentInv /\ AgentInv' /\ [Next]_vars =>
    \A x \in Run : IF Step(x) \/ Throw(x) \/ Crash(x)
                   THEN Fewer(Work(x)', Work(x))
                   ELSE UNCHANGED Work(x)
<1> SUFFICES ASSUME AgentInv, AgentInv', [Next]_vars, NEW x \in Run
             PROVE  IF Step(x) \/ Throw(x) \/ Crash(x)
                    THEN Fewer(Work(x)', Work(x))
                    ELSE UNCHANGED Work(x)
  OBVIOUS
<1>1. ASSUME Step(x) \/ Throw(x) \/ Crash(x) PROVE Fewer(Work(x)', Work(x))
  BY <1>1, StoppedIsLess, EarlyStepIsLess, InitializeIsLess, RecordEventIsLess,
     InsertIncidentIsLess, InsertRuleMatchIsLess, UploadIsLess, Zenon DEF Step
<1>2. ASSUME ~(Step(x) \/ Throw(x) \/ Crash(x)) PROVE UNCHANGED Work(x)
  <2>1. /\ pc'[x] = pc[x] /\ loaded'[x] = loaded[x] /\ recorded'[x] = recorded[x]
        /\ todo'[x] = todo[x] /\ left'[x] = left[x]
        /\ ddl'[x] = ddl[x] /\ inspected'[x] = inspected[x]
    <3>1. CASE \E y \in Run \ {x} : Step(y) \/ Throw(y) \/ Crash(y)
      <4>1. PICK y \in Run \ {x} : Step(y) \/ Throw(y) \/ Crash(y)
        BY <3>1
      <4>2. /\ pc'[x] = pc[x] /\ loaded'[x] = loaded[x] /\ recorded'[x] = recorded[x]
            /\ todo'[x] = todo[x] /\ left'[x] = left[x]
        BY <4>1, StepIsLocal DEF AgentInv
      <4>3. ddl'[x] = ddl[x] /\ inspected'[x] = inspected[x]
        BY <4>1, StoreStepsOfOthers
      <4> QED BY <4>2, <4>3
    <3>2. CASE Tick \/ ControlPlane \/ AllEnded \/ UNCHANGED vars
      BY <3>2 DEF Tick, ControlPlane, AllEnded, vars, runVars, storeVars
    <3> QED BY <1>2, <3>1, <3>2 DEF Next
  <2>2. StagesLeft(x)' = StagesLeft(x)
    BY <2>1 DEF StagesLeft
  <2>3. /\ ItemsLeft(x)' = ItemsLeft(x) /\ CallsLeft(x)' = CallsLeft(x)
        /\ MatchesLeft(x)' = MatchesLeft(x)
    BY <2>1, <2>2 DEF ItemsLeft, CallsLeft, MatchesLeft
  <2> QED BY <2>2, <2>3, Zenon DEF Work
<1> QED BY <1>1, <1>2, Zenon

(* Every step of a run leaves it less to do, whatever fails, and no step   *)
(* of others leaves it more (main.cpp:148-304, UemClient.cpp:77-109).      *)
THEOREM RunsAlwaysProgress == Spec => EveryStepCounts
<1>1. AgentInv /\ AgentInv' /\ [Next]_vars =>
        [\A x \in Run : IF Step(x) \/ Throw(x) \/ Crash(x)
                        THEN Fewer(Work(x)', Work(x))
                        ELSE UNCHANGED Work(x)]_vars
  BY NextCounts
<1> QED BY <1>1, AgentInductive, PTL DEF Spec, EveryStepCounts

(* No sequence of such measures becomes less for ever; with the next       *)
(* theorem, a run takes finitely many steps whatever happens around it     *)
(* (main.cpp:148-304).                                                     *)
LEMMA LessEndsSomewhere ==
  ~\E f \in [Nat -> [1..4 -> Nat]] : \A n \in Nat : Fewer(f[n + 1], f[n])
<1>1. PICK R : R = OpToRel(<, Nat)
  OBVIOUS
<1>2. IsWellFoundedOn(R, Nat)
  BY <1>1, NatLessThanWellFounded
<1>3. PICK L : L = LexProductOrdering(R, Nat, 4)
  OBVIOUS
<1>4. IsWellFoundedOn(L, [1..4 -> Nat])
  BY <1>2, <1>3, WFLexProductOrdering
<1>5. ASSUME NEW m \in [1..4 -> Nat], NEW n \in [1..4 -> Nat], Fewer(m, n)
      PROVE  <<m, n>> \in L
  <2>1. PICK k \in 1..4 : m[k] < n[k] /\ \A j \in 1..(k - 1) : m[j] = n[j]
    BY <1>5 DEF Fewer
  <2>2. <<m[k], n[k]>> \in R
    BY <1>1, <2>1 DEF OpToRel
  <2> QED BY <1>3, <2>1, <2>2 DEF LexProductOrdering
<1>6. ASSUME NEW f \in [Nat -> [1..4 -> Nat]], \A n \in Nat : Fewer(f[n + 1], f[n])
      PROVE  FALSE
  <2>1. PICK T : T = [1..4 -> Nat]
    OBVIOUS
  <2>2. \A n \in Nat : f[n] \in T /\ f[n + 1] \in T
    <3>1. f \in [Nat -> T]
      BY <2>1
    <3> QED BY <3>1
  <2>3. \A n \in Nat : <<f[n + 1], f[n]>> \in L
    BY <1>5, <1>6, <2>1, <2>2, Zenon
  <2>4. f \in [Nat -> T]
    BY <2>1
  <2> QED BY <1>4, <2>1, <2>3, <2>4, Zenon DEF IsWellFoundedOn
<1> QED BY <1>6

(* What a run has left to do is such a measure in every reachable state,   *)
(* however many events, incidents and rule matches it has                  *)
(* (main.cpp:148-304).                                                     *)
THEOREM WorkIsAlwaysCounted == Spec => [](\A x \in Run : Work(x) \in [1..4 -> Nat])
<1>1. AgentInv => \A x \in Run : Work(x) \in [1..4 -> Nat]
  BY WorkIsCounted
<1> QED BY <1>1, AgentInductive, PTL
=============================================================================
