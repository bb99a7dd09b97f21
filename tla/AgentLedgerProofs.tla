------------------------- MODULE AgentLedgerProofs -------------------------
(***************************************************************************)
(* Every execution of module Agent, for any runs, events and rules, shows  *)
(* an execution of EvidenceLedger to whoever reads the database and the    *)
(* control plane.  The invariant of AgentProofs says which rows exist at   *)
(* least; RowInv says that no others do.                                   *)
(***************************************************************************)
EXTENDS AgentProofs, AgentLedger

RawRow(row, x) == \E i \in 1..recorded[x] : row = <<handle[x], "raw_events", <<x, i>>>>
IncidentRow(row, x) == \E p \in MyPids(x) : row = <<handle[x], "incidents", <<x, p>>>>
MatchRow(row, x) ==
  \E p \in MyPids(x) : \E m \in MyEvidence(x, p) :
    row = <<handle[x], "incident_rule_matches", <<x, m>>>>

(* A row is in the file that its run opened, and is one the run may write. *)
Reason(row, x) ==
  handle[x] # NoFile /\ (RawRow(row, x) \/ IncidentRow(row, x) \/ MatchRow(row, x))

RowInv == \A row \in rows : \E x \in Run : Reason(row, x)

LEMMA EventFacts ==
  ASSUME TypeInv, NEW x \in Run
  PROVE  recorded[x] \in Nat /\ loaded[x] \in Nat /\ Len(Events[x]) \in Nat
         /\ recorded[x] <= loaded[x] /\ loaded[x] <= Len(Events[x])
<1>1. Len(Events[x]) \in Nat
  BY EventsAreSequences
<1>2. recorded[x] \in Nat /\ loaded[x] \in Nat
      /\ recorded[x] <= loaded[x] /\ loaded[x] <= Len(Events[x])
  BY DEF TypeInv, TypeOK
<1> QED BY <1>1, <1>2

(* What evaluation yields for more events contains what it yields for few. *)
LEMMA ResultsGrow ==
  ASSUME NEW x \in Run, recorded[x] \in Nat, recorded'[x] \in Nat, recorded[x] <= recorded'[x]
  PROVE  /\ MyPids(x) \subseteq MyPids(x)'
         /\ \A p : MyEvidence(x, p) \subseteq MyEvidence(x, p)'
<1>1. /\ DOMAIN Results(x) = 1..recorded[x] /\ DOMAIN Results(x)' = 1..recorded'[x]
      /\ \A i \in 1..recorded[x] : i \in 1..recorded'[x] /\ Results(x)'[i] = Results(x)[i]
  BY DEF Results
<1>2. Suspicious(Results(x)) \subseteq Suspicious(Results(x))'
  BY <1>1 DEF Suspicious
<1>3. MyPids(x) \subseteq MyPids(x)'
  BY <1>1, <1>2 DEF MyPids, PidsOf, Suspicious
<1>4. \A p : MyEvents(x, p) \subseteq MyEvents(x, p)'
  BY <1>1, <1>2 DEF MyEvents, EventsOf, Suspicious
<1>5. ASSUME NEW p, NEW m \in MyEvidence(x, p) PROVE m \in MyEvidence(x, p)'
  <2>1. PICK i \in MyEvents(x, p) : m \in {i} \X DOMAIN Results(x)[i].matches
    BY <1>5 DEF MyEvidence, EvidenceOf, MyEvents
  <2>2. i \in 1..recorded[x] /\ i \in MyEvents(x, p)'
    BY <1>1, <1>4, <2>1 DEF MyEvents, EventsOf, Suspicious
  <2>3. m \in {i} \X DOMAIN Results(x)'[i].matches
    BY <1>1, <2>1, <2>2
  <2> QED BY <2>2, <2>3 DEF MyEvidence, EvidenceOf, MyEvents
<1> QED BY <1>3, <1>5
-----------------------------------------------------------------------------
(* Steps, as far as rows go: a step inserts one row of one run, or none,   *)
(* and opens a store at most.                                              *)
Inserts(x, table, key) ==
  /\ handle[x] # NoFile /\ handle' = handle
  /\ rows' = rows \union {<<handle[x], table, <<x, key>>>>}

Quiet ==
  /\ rows' = rows
  /\ \A x \in Run : handle[x] # NoFile => handle'[x] = handle[x]
  /\ \A x \in Run : recorded'[x] = recorded[x]

LEMMA InsertRowInserts ==
  ASSUME TypeInv, NEW x \in Run, NEW table, NEW key, InsertRow(x, table, <<x, key>>)
  PROVE  Inserts(x, table, key)
<1>1. handle[x] # NoFile
  BY DEF InsertRow, TypeInv, StoreOrder, Ready
<1> QED BY <1>1 DEF InsertRow, Inserts

LEMMA StoreStepsAreQuiet ==
  ASSUME TypeInv, NEW x \in Run, recorded' = recorded,
         \/ Open(x) \/ CreateTable(x) \/ ColumnExists(x) \/ ColumnMissing(x)
         \/ AddColumn(x) \/ RemovePath \/ UNCHANGED storeVars
  PROVE  Quiet
<1>1. handle \in [Run -> File \union {NoFile}]
  BY DEF TypeInv, TypeOK, StoreType
<1> QED BY <1>1 DEF Open, CreateTable, ColumnExists, ColumnMissing, AddColumn, RemovePath,
                    storeVars, Quiet

LEMMA QuietSteps ==
  ASSUME TypeInv, NEW x \in Run,
         \/ GenerateRunId(x) \/ ResetDatabase(x) \/ LoadPolicy(x) \/ OpenStore(x)
         \/ InitializeStore(x) \/ LoadEvents(x) \/ Correlate(x) \/ StartUpload(x)
         \/ EndUpload(x) \/ Throw(x) \/ Crash(x)
  PROVE  Quiet
  BY StoreStepsAreQuiet
  DEF GenerateRunId, ResetDatabase, LoadPolicy, OpenStore, InitializeStore, LoadEvents,
      Correlate, StartUpload, EndUpload, Throw, Crash

LEMMA OtherStepsAreQuiet ==
  ASSUME Tick \/ ControlPlane \/ UNCHANGED vars
  PROVE  Quiet
  BY DEF Tick, ControlPlane, vars, runVars, storeVars, Quiet

(* A row keeps its reason to exist.                                        *)
LEMMA RowsKeepReason ==
  ASSUME TypeInv, NEW x \in Run, handle[x] # NoFile, handle'[x] = handle[x],
         recorded'[x] \in Nat, recorded[x] <= recorded'[x],
         NEW row, Reason(row, x)
  PROVE  Reason(row, x)'
<1>1. recorded[x] \in Nat
  BY EventFacts
<1>2. /\ MyPids(x) \subseteq MyPids(x)'
      /\ \A p : MyEvidence(x, p) \subseteq MyEvidence(x, p)'
  BY <1>1, ResultsGrow
<1>3. RawRow(row, x) => RawRow(row, x)'
  BY <1>1 DEF RawRow
<1>4. IncidentRow(row, x) => IncidentRow(row, x)'
  BY <1>2 DEF IncidentRow
<1>5. MatchRow(row, x) => MatchRow(row, x)'
  BY <1>2 DEF MatchRow
<1> QED BY <1>3, <1>4, <1>5 DEF Reason

(* What the three loops insert.                                            *)
LEMMA RecordEventInserts ==
  ASSUME TypeInv, NEW x \in Run, RecordEvent(x)
  PROVE  /\ Inserts(x, "raw_events", recorded[x] + 1)
         /\ recorded[x] < loaded[x]
         /\ recorded'[x] = recorded[x] + 1 /\ \A y \in Run \ {x} : recorded'[y] = recorded[y]
         /\ UNCHANGED <<uemVars>>
<1>1. recorded \in [Run -> Nat]
  BY DEF TypeInv, TypeOK
<1> QED BY <1>1, InsertRowInserts DEF RecordEvent, RawKey

LEMMA InsertIncidentInserts ==
  ASSUME AgentInv, NEW x \in Run, InsertIncident(x)
  PROVE  \E pid \in MyPids(x) :
           /\ pid \in todo[x] /\ Current(x, pid)
           /\ Inserts(x, "incidents", pid)
           /\ UNCHANGED <<recorded, uemVars>>
<1>1. PICK pid \in todo[x] :
        Current(x, pid) /\ InsertRow(x, "incidents", IncidentKey(x, pid))
  BY DEF InsertIncident
<1>2. todo[x] \subseteq MyPids(x)
  BY DEF AgentInv, RunInv, InsertIncident, Late, Progress
<1>3. Inserts(x, "incidents", pid)
  BY <1>1, InsertRowInserts DEF IncidentKey, AgentInv
<1> QED BY <1>1, <1>2, <1>3 DEF InsertIncident

LEMMA InsertRuleMatchInserts ==
  ASSUME AgentInv, NEW x \in Run, InsertRuleMatch(x)
  PROVE  \E pid \in MyPids(x) : \E m \in MyEvidence(x, pid) \intersect left[x] :
           /\ HasRow(x, "incidents", IncidentKey(x, pid))
           /\ \A n \in MyEvidence(x, pid) \ left[x] :
                HasRow(x, "incident_rule_matches", MatchKey(x, n))
           /\ \A n \in left[x] : n = m \/ Precedes(m, n)
           /\ Inserts(x, "incident_rule_matches", m)
           /\ UNCHANGED <<recorded, uemVars>>
<1>1. PICK m \in left[x] : /\ \A n \in left[x] : n = m \/ Precedes(m, n)
                           /\ InsertRow(x, "incident_rule_matches", MatchKey(x, m))
  BY DEF InsertRuleMatch
<1>2. pc[x] = "evidence" /\ UNCHANGED <<recorded, uemVars>>
  BY DEF InsertRuleMatch
<1>3. PICK pid \in todo[x] :
        /\ HasRow(x, "incidents", IncidentKey(x, pid))
        /\ left[x] \subseteq MyEvidence(x, pid)
        /\ \A n \in MyEvidence(x, pid) \ left[x] :
             HasRow(x, "incident_rule_matches", MatchKey(x, n))
  BY <1>2 DEF AgentInv, RunInv, AtStage
<1>4. pid \in MyPids(x)
  BY <1>2 DEF AgentInv, RunInv, Late, Progress
<1>5. Inserts(x, "incident_rule_matches", m)
  BY <1>1, InsertRowInserts DEF MatchKey, AgentInv
<1> QED BY <1>1, <1>2, <1>3, <1>4, <1>5

LEMMA NextRowInv == AgentInv /\ TypeInv' /\ RowInv /\ [Next]_vars => RowInv'
<1> SUFFICES ASSUME AgentInv, TypeInv', RowInv, [Next]_vars, NEW row \in rows'
             PROVE  \E x \in Run : Reason(row, x)'
  BY DEF RowInv
<1>1. TypeInv
  BY DEF AgentInv
<1>2. ASSUME row \in rows,
             \A x \in Run : handle[x] # NoFile => handle'[x] = handle[x],
             \A x \in Run : recorded'[x] \in Nat /\ recorded[x] <= recorded'[x]
      PROVE  \E x \in Run : Reason(row, x)'
  <2>1. PICK x \in Run : Reason(row, x)
    BY <1>2 DEF RowInv
  <2>2. Reason(row, x)'
    BY <1>1, <1>2, <2>1, RowsKeepReason DEF Reason
  <2> QED BY <2>2
<1>3. CASE Quiet
  <2>1. \A x \in Run : recorded'[x] \in Nat /\ recorded[x] <= recorded'[x]
    BY <1>1, <1>3, EventFacts DEF Quiet
  <2> QED BY <1>2, <1>3, <2>1 DEF Quiet
<1>4. ASSUME NEW x \in Run, RecordEvent(x) PROVE \E y \in Run : Reason(row, y)'
  <2>1. /\ Inserts(x, "raw_events", recorded[x] + 1)
        /\ recorded'[x] = recorded[x] + 1 /\ \A y \in Run \ {x} : recorded'[y] = recorded[y]
    BY <1>1, <1>4, RecordEventInserts
  <2>2. \A y \in Run : recorded[y] \in Nat
    BY <1>1, EventFacts
  <2>3. CASE row \in rows
    BY <1>2, <2>1, <2>2, <2>3 DEF Inserts
  <2>4. CASE row = <<handle[x], "raw_events", <<x, recorded[x] + 1>>>>
    <3>1. recorded[x] + 1 \in 1..recorded'[x]
      BY <2>1, <2>2
    <3>2. RawRow(row, x)'
      BY <2>1, <2>4, <3>1 DEF RawRow, Inserts
    <3> QED BY <2>1, <3>2 DEF Inserts, Reason
  <2> QED BY <2>1, <2>3, <2>4 DEF Inserts
<1>5. ASSUME NEW x \in Run, NEW table, NEW key, Inserts(x, table, key), recorded' = recorded,
             \/ table = "incidents" /\ key \in MyPids(x)
             \/ table = "incident_rule_matches" /\ \E p \in MyPids(x) : key \in MyEvidence(x, p)
      PROVE  \E y \in Run : Reason(row, y)'
  <2>1. \A y \in Run : recorded'[y] \in Nat /\ recorded[y] <= recorded'[y]
    BY <1>1, <1>5, EventFacts
  <2>2. CASE row \in rows
    BY <1>2, <1>5, <2>1, <2>2 DEF Inserts
  <2>3. CASE row = <<handle[x], table, <<x, key>>>>
    <3>1. Reason(row, x)
      BY <1>5, <2>3 DEF Reason, IncidentRow, MatchRow, Inserts
    <3>2. Reason(row, x)'
      BY <1>1, <1>5, <2>1, <3>1, RowsKeepReason DEF Inserts
    <3> QED BY <3>2
  <2> QED BY <1>5, <2>2, <2>3 DEF Inserts
<1>6. ASSUME NEW x \in Run, InsertIncident(x) PROVE \E y \in Run : Reason(row, y)'
  <2>1. PICK pid \in MyPids(x) : Inserts(x, "incidents", pid) /\ recorded' = recorded
    BY <1>6, InsertIncidentInserts
  <2> QED BY <1>5, <2>1
<1>7. ASSUME NEW x \in Run, InsertRuleMatch(x) PROVE \E y \in Run : Reason(row, y)'
  <2>1. PICK pid \in MyPids(x) : \E m \in MyEvidence(x, pid) :
          Inserts(x, "incident_rule_matches", m) /\ recorded' = recorded
    BY <1>7, InsertRuleMatchInserts
  <2>2. PICK m \in MyEvidence(x, pid) :
          Inserts(x, "incident_rule_matches", m) /\ recorded' = recorded
    BY <2>1
  <2> QED BY <1>5, <2>2
<1> QED
  BY <1>1, <1>3, <1>4, <1>6, <1>7, QuietSteps, OtherStepsAreQuiet DEF Next, Step, AllEnded

(* Every row of the agent's tables is one that some run may have written   *)
(* to the file it opened.                                                  *)
THEOREM AgentRows == Spec => []RowInv
<1>1. Init => RowInv
  BY DEF Init, StoreInit, RowInv
<1>2. AgentInv /\ AgentInv' /\ RowInv /\ [Next]_vars => RowInv'
  BY NextRowInv DEF AgentInv
<1> QED BY <1>1, <1>2, AgentInductive, PTL DEF Spec
-----------------------------------------------------------------------------
(* What the ledger sees of a state.                                        *)
LEMMA RowReasons ==
  ASSUME RowInv, NEW x \in Run
  PROVE  /\ \A i : HasRow(x, "raw_events", <<x, i>>) => i \in 1..recorded[x]
         /\ \A p : HasRow(x, "incidents", <<x, p>>) => p \in MyPids(x)
         /\ \A table, key : HasRow(x, table, <<x, key>>) => handle[x] # NoFile
  BY DEF RowInv, Reason, RawRow, IncidentRow, MatchRow, HasRow

LEMMA NotedIsPrefix ==
  ASSUME AgentInv, RowInv, NEW x \in Run
  PROVE  Noted[x] = 1..recorded[x]
<1>1. /\ recorded[x] \in Nat /\ loaded[x] \in Nat /\ Len(Events[x]) \in Nat
      /\ recorded[x] <= loaded[x] /\ loaded[x] <= Len(Events[x])
  BY EventFacts DEF AgentInv
<1>2. \A i \in 1..recorded[x] : HasRow(x, "raw_events", RawKey(x, i)) /\ i \in EventsAll(x)
  BY <1>1 DEF AgentInv, RunInv, Recorded, EventsAll
<1>3. \A i : HasRow(x, "raw_events", RawKey(x, i)) => i \in 1..recorded[x]
  BY RowReasons DEF RawKey
<1> QED BY <1>2, <1>3 DEF Noted

LEMMA OpenedArePids ==
  ASSUME AgentInv, RowInv, NEW x \in Run
  PROVE  /\ Opened[x] = {p \in MyPids(x) : HasRow(x, "incidents", IncidentKey(x, p))}
         /\ MyPids(x) \subseteq Pid /\ MyPids(x) \subseteq Int
<1>1. MyPids(x) \subseteq Pid
  BY EventFacts, ResultFacts DEF AgentInv
<1>2. \A p : HasRow(x, "incidents", IncidentKey(x, p)) => p \in MyPids(x)
  BY RowReasons DEF IncidentKey
<1> QED BY <1>1, <1>2, PidsAreIntegers DEF Opened

LEMMA LedgerData ==
  ASSUME AgentInv, RowInv, NEW x \in Run
  PROVE  /\ Ledger!Subjects(x) = MyPids(x)
         /\ \A p : Ledger!Evidence(x, p) = MyEvidence(x, p)
         /\ \A p : MyEvidence(x, p) \subseteq MatchesAll(x)
<1> DEFINE S == [y \in Run |-> [i \in EventsAll(y) |-> EvaluationOf(Events[y][i]).event.pid]]
           M == [y \in Run |-> [i \in EventsAll(y) |-> DOMAIN EvaluationOf(Events[y][i]).matches]]
<1>1. 1..recorded[x] \subseteq EventsAll(x)
  BY EventFacts DEF AgentInv, EventsAll
<1>2. DOMAIN Results(x) = 1..recorded[x]
  BY DEF Results
<1>3. ASSUME NEW i \in 1..recorded[x]
      PROVE  /\ S[x][i] = Results(x)[i].event.pid
             /\ M[x][i] = DOMAIN Results(x)[i].matches
             /\ M[x][i] = {} <=> Results(x)[i].matches = <<>>
  <2>1. Results(x)[i] = EvaluationOf(Events[x][i])
    BY <1>3 DEF Results
  <2>2. S[x][i] = Results(x)[i].event.pid /\ M[x][i] = DOMAIN Results(x)[i].matches
    BY <1>1, <2>1
  <2>3. /\ Len(Results(x)[i].matches) \in Nat
        /\ DOMAIN Results(x)[i].matches = 1..Len(Results(x)[i].matches)
        /\ Len(Results(x)[i].matches) = 0 => Results(x)[i].matches = <<>>
    BY <1>1, <2>1, ResultsAreMatches DEF EventsAll
  <2>4. DOMAIN Results(x)[i].matches = {} <=> Results(x)[i].matches = <<>>
    BY <2>3
  <2> QED BY <2>2, <2>4
<1>4. \A i : i \in Noted[x] /\ M[x][i] # {} <=> i \in Suspicious(Results(x))
  BY <1>2, <1>3, NotedIsPrefix DEF Suspicious
<1>5. Suspicious(Results(x)) \subseteq 1..recorded[x]
  BY <1>2 DEF Suspicious
<1> HIDE DEF S, M
<1>6. {S[x][i] : i \in {j \in Noted[x] : M[x][j] # {}}} = MyPids(x)
  BY <1>3, <1>4, <1>5 DEF MyPids, PidsOf
<1>7. ASSUME NEW p
      PROVE  UNION {{i} \X M[x][i] : i \in {i \in Noted[x] : S[x][i] = p /\ M[x][i] # {}}}
               = MyEvidence(x, p)
  <2>1. {i \in Noted[x] : S[x][i] = p /\ M[x][i] # {}} = MyEvents(x, p)
    BY <1>3, <1>4, <1>5 DEF MyEvents, EventsOf
  <2>2. \A i \in MyEvents(x, p) : M[x][i] = DOMAIN Results(x)[i].matches
    BY <1>3, <1>5 DEF MyEvents, EventsOf
  <2> QED BY <2>1, <2>2 DEF MyEvidence, EvidenceOf, MyEvents
<1>8. ASSUME NEW p, NEW m \in MyEvidence(x, p) PROVE m \in MatchesAll(x)
  <2>1. PICK i \in MyEvents(x, p) : m \in {i} \X DOMAIN Results(x)[i].matches
    BY <1>8 DEF MyEvidence, EvidenceOf, MyEvents
  <2>2. i \in 1..recorded[x] /\ i \in EventsAll(x)
    BY <1>1, <1>5 DEF MyEvents, EventsOf
  <2>3. m \in {i} \X DOMAIN EvaluationOf(Events[x][i]).matches
    BY <2>1, <2>2 DEF Results
  <2> QED BY <2>2, <2>3 DEF MatchesAll
<1> QED BY <1>6, <1>7, <1>8
        DEF S, M, Ledger!Subjects, Ledger!Evidence, Ledger!Grounds

(* A complete incident is complete to the ledger.                          *)
LEMMA LedgerComplete ==
  ASSUME AgentInv, RowInv, NEW x \in Run, NEW p \in MyPids(x), Complete(x, p)
  PROVE  Ledger!Complete(x, p)
<1>1. p \in Opened[x]
  BY OpenedArePids DEF Complete
<1>2. \A m \in MyEvidence(x, p) : m \in Proven[x]
  BY LedgerData DEF Complete, Proven
<1> QED BY <1>1, <1>2, LedgerData DEF Ledger!Complete
-----------------------------------------------------------------------------
(* What the ledger sees of a step.                                         *)
views == <<Noted, Opened, Proven>>

LEMMA QuietView ==
  ASSUME RowInv, Quiet
  PROVE  UNCHANGED views
<1>1. ASSUME NEW x \in Run, NEW table, NEW key
      PROVE  HasRow(x, table, <<x, key>>)' <=> HasRow(x, table, <<x, key>>)
  <2>1. CASE handle[x] # NoFile
    BY <2>1 DEF Quiet, HasRow
  <2>2. CASE handle[x] = NoFile
    <3>1. \A file : <<file, table, <<x, key>>>> \notin rows
      BY <2>2 DEF RowInv, Reason, RawRow, IncidentRow, MatchRow
    <3> QED BY <3>1 DEF Quiet, HasRow
  <2> QED BY <2>1, <2>2
<1>2. Noted' = Noted
  BY <1>1 DEF Noted, RawKey
<1>3. Opened' = Opened
  BY <1>1 DEF Opened, IncidentKey
<1>4. Proven' = Proven
  BY <1>1 DEF Proven, MatchKey
<1> QED BY <1>2, <1>3, <1>4 DEF views

LEMMA InsertView ==
  ASSUME NEW x \in Run, NEW table, NEW key, Inserts(x, table, key)
  PROVE  /\ table = "raw_events" /\ key \in EventsAll(x) =>
              /\ Noted' = [Noted EXCEPT ![x] = @ \union {key}]
              /\ UNCHANGED <<Opened, Proven>>
         /\ table = "incidents" /\ key \in Pid =>
              /\ Opened' = [Opened EXCEPT ![x] = @ \union {key}]
              /\ UNCHANGED <<Noted, Proven>>
         /\ table = "incident_rule_matches" /\ key \in MatchesAll(x) =>
              /\ Proven' = [Proven EXCEPT ![x] = @ \union {key}]
              /\ UNCHANGED <<Noted, Opened>>
<1>1. ASSUME NEW y \in Run, NEW t, NEW k
      PROVE  HasRow(y, t, <<y, k>>)' <=> HasRow(y, t, <<y, k>>) \/ (y = x /\ t = table /\ k = key)
  BY DEF Inserts, HasRow
<1>2. /\ table # "raw_events" => Noted' = Noted
      /\ table # "incidents" => Opened' = Opened
      /\ table # "incident_rule_matches" => Proven' = Proven
  <2>1. table # "raw_events" => Noted' = Noted
    BY <1>1 DEF Noted, RawKey
  <2>2. table # "incidents" => Opened' = Opened
    BY <1>1 DEF Opened, IncidentKey
  <2>3. table # "incident_rule_matches" => Proven' = Proven
    BY <1>1 DEF Proven, MatchKey
  <2> QED BY <2>1, <2>2, <2>3
<1>3. ASSUME table = "raw_events", key \in EventsAll(x)
      PROVE  Noted' = [Noted EXCEPT ![x] = @ \union {key}]
  <2>1. \A y \in Run : Noted'[y] = IF y = x THEN Noted[x] \union {key} ELSE Noted[y]
    BY <1>1, <1>3 DEF Noted, RawKey, EventsAll
  <2> QED BY <2>1 DEF Noted
<1>4. ASSUME table = "incidents", key \in Pid
      PROVE  Opened' = [Opened EXCEPT ![x] = @ \union {key}]
  <2>1. \A y \in Run : Opened'[y] = IF y = x THEN Opened[x] \union {key} ELSE Opened[y]
    BY <1>1, <1>4 DEF Opened, IncidentKey
  <2> QED BY <2>1 DEF Opened
<1>5. ASSUME table = "incident_rule_matches", key \in MatchesAll(x)
      PROVE  Proven' = [Proven EXCEPT ![x] = @ \union {key}]
  <2>1. \A y \in Run : Proven'[y] = IF y = x THEN Proven[x] \union {key} ELSE Proven[y]
    BY <1>1, <1>5 DEF Proven, MatchKey, MatchesAll, EventsAll
  <2> QED BY <2>1 DEF Proven
<1> QED BY <1>2, <1>3, <1>4, <1>5

reports == <<{m \in Report : request[m] # "none"}, {m \in Report : request[m] = "sent"},
             received_incidents>>

LEMMA SameReports == ASSUME UNCHANGED uemVars PROVE UNCHANGED reports
  BY DEF uemVars, reports

LEMMA LedgerStutters ==
  ASSUME UNCHANGED views, UNCHANGED reports
  PROVE  UNCHANGED Ledger!ledger
  BY DEF views, reports, Ledger!ledger
-----------------------------------------------------------------------------
(* One step of a run, or of the control plane, is one of the ledger.       *)
LEMMA RecordEventNotes ==
  ASSUME AgentInv, RowInv, NEW x \in Run, RecordEvent(x)
  PROVE  Ledger!Note(x)
<1>1. /\ Inserts(x, "raw_events", recorded[x] + 1) /\ recorded[x] < loaded[x]
      /\ UNCHANGED reports
  BY RecordEventInserts, SameReports DEF AgentInv
<1>2. /\ recorded[x] \in Nat /\ recorded[x] + 1 \in EventsAll(x) /\ Len(Events[x]) \in Nat
  BY <1>1, EventFacts DEF AgentInv, EventsAll
<1>3. Noted[x] = 1..((recorded[x] + 1) - 1)
  BY <1>2, NotedIsPrefix
<1>4. /\ Noted' = [Noted EXCEPT ![x] = @ \union {recorded[x] + 1}]
      /\ UNCHANGED <<Opened, Proven>>
  BY <1>1, <1>2, InsertView
<1>5. Noted[x] \union {recorded[x] + 1} = 1..(recorded[x] + 1)
  BY <1>2, <1>3
<1>6. Opened[x] = {}
  <2>1. \A p : ~HasRow(x, "incidents", IncidentKey(x, p))
    BY DEF AgentInv, RunInv, RecordEvent, Early, NoIncidentYet, HasRow, IncidentKey
  <2> QED BY <2>1 DEF Opened
<1>7. Noted' = [Noted EXCEPT ![x] = 1..(recorded[x] + 1)]
  BY <1>4, <1>5
<1>8. recorded[x] + 1 \in 1..[y \in Run |-> Len(Events[y])][x]
  BY <1>2 DEF EventsAll
<1> QED BY <1>1, <1>3, <1>4, <1>6, <1>7, <1>8 DEF Ledger!Note, reports

LEMMA InsertIncidentOpens ==
  ASSUME AgentInv, RowInv, NEW x \in Run, InsertIncident(x)
  PROVE  Ledger!OpenIncident(x)
<1>1. PICK pid \in MyPids(x) :
        /\ pid \in todo[x] /\ Current(x, pid) /\ Inserts(x, "incidents", pid)
        /\ UNCHANGED <<recorded, uemVars>>
  BY InsertIncidentInserts
<1>2. pc[x] = "incident" /\ Progress(x)
  BY DEF InsertIncident, AgentInv, RunInv, Late
<1>3. \A q \in todo[x] : q \notin Opened[x]
  BY <1>2, OpenedArePids DEF Progress
<1>4. \A q \in MyPids(x) : q < pid => Ledger!Complete(x, q)
  <2> SUFFICES ASSUME NEW q \in MyPids(x), q < pid PROVE Complete(x, q)
    BY LedgerComplete
  <2>1. q \notin todo[x]
    BY <1>1, OpenedArePids DEF Current
  <2> QED BY <1>2, <2>1 DEF Progress
<1>5. \A q \in Opened[x] : q < pid
  BY <1>1, <1>2, <1>3, OpenedArePids DEF Progress
<1>6. /\ Opened' = [Opened EXCEPT ![x] = @ \union {pid}]
      /\ UNCHANGED <<Noted, Proven>>
  BY <1>1, InsertView, OpenedArePids
<1>7. pid \in Ledger!Subjects(x) \ Opened[x]
  BY <1>1, <1>3, LedgerData
<1>8. UNCHANGED reports
  BY <1>1, SameReports
<1> QED BY <1>4, <1>5, <1>6, <1>7, <1>8, LedgerData DEF Ledger!OpenIncident, reports

LEMMA InsertRuleMatchProves ==
  ASSUME AgentInv, RowInv, NEW x \in Run, InsertRuleMatch(x)
  PROVE  Ledger!Prove(x) \/ UNCHANGED Ledger!ledger
<1>1. PICK pid \in MyPids(x) : \E m \in MyEvidence(x, pid) \intersect left[x] :
        /\ HasRow(x, "incidents", IncidentKey(x, pid))
        /\ \A n \in MyEvidence(x, pid) \ left[x] :
             HasRow(x, "incident_rule_matches", MatchKey(x, n))
        /\ \A n \in left[x] : n = m \/ Precedes(m, n)
        /\ Inserts(x, "incident_rule_matches", m)
        /\ UNCHANGED <<recorded, uemVars>>
  BY InsertRuleMatchInserts
<1>2. PICK m \in MyEvidence(x, pid) \intersect left[x] :
        /\ HasRow(x, "incidents", IncidentKey(x, pid))
        /\ \A n \in MyEvidence(x, pid) \ left[x] :
             HasRow(x, "incident_rule_matches", MatchKey(x, n))
        /\ \A n \in left[x] : n = m \/ Precedes(m, n)
        /\ Inserts(x, "incident_rule_matches", m)
        /\ UNCHANGED <<recorded, uemVars>>
  BY <1>1
<1>3. MyEvidence(x, pid) \subseteq MatchesAll(x) /\ MyEvidence(x, pid) \subseteq Nat \X Nat
  BY LedgerData, ResultFacts, EventFacts DEF AgentInv
<1>4. /\ Proven' = [Proven EXCEPT ![x] = @ \union {m}]
      /\ UNCHANGED <<Noted, Opened>>
  BY <1>2, <1>3, InsertView
<1>5. UNCHANGED reports
  BY <1>2, SameReports
<1>6. CASE m \in Proven[x]
  <2>1. UNCHANGED views
    BY <1>4, <1>6 DEF views, Proven
  <2> QED BY <1>5, <2>1, LedgerStutters
<1>7. CASE m \notin Proven[x]
  <2>1. \A n \in MyEvidence(x, pid) : Ledger!Earlier(n, m) => n \in Proven[x]
    <3> SUFFICES ASSUME NEW n \in MyEvidence(x, pid), Ledger!Earlier(n, m) PROVE n \in Proven[x]
      OBVIOUS
    <3>1. ~(n = m \/ Precedes(m, n))
      BY <1>3 DEF Ledger!Earlier, Precedes
    <3>2. HasRow(x, "incident_rule_matches", MatchKey(x, n))
      BY <1>2, <3>1
    <3> QED BY <1>3, <3>2 DEF Proven
  <2>2. pid \in Opened[x]
    BY <1>2, OpenedArePids
  <2>3. m \in Ledger!Evidence(x, pid) \ Proven[x]
    BY <1>7, LedgerData
  <2>4. \A n \in Ledger!Evidence(x, pid) : Ledger!Earlier(n, m) => n \in Proven[x]
    BY <2>1, LedgerData
  <2>5. Ledger!Prove(x)
    BY <1>4, <1>5, <2>2, <2>3, <2>4 DEF Ledger!Prove, reports
  <2> QED BY <2>5
<1> QED BY <1>6, <1>7

LEMMA StartUploadReports ==
  ASSUME AgentInv, RowInv, NEW x \in Run, StartUpload(x)
  PROVE  Ledger!Send(x)
<1>1. PICK pid \in todo[x] : Current(x, pid) /\ Post(<<x, pid>>)
  BY DEF StartUpload
<1>2. pc[x] = "upload" /\ Progress(x) /\ AtStage(x)
  BY DEF StartUpload, AgentInv, RunInv, Late
<1>3. pid \in MyPids(x) /\ todo[x] \subseteq MyPids(x)
  BY <1>2 DEF Progress
<1>4. Complete(x, pid)
  <2>1. PICK p \in todo[x] : Current(x, p) /\ Complete(x, p)
    BY <1>2 DEF AtStage
  <2>2. p = pid
    BY <1>1, <1>3, <2>1, OpenedArePids DEF Current
  <2> QED BY <2>1, <2>2
<1>5. pid \in Opened[x] /\ Ledger!Complete(x, pid)
  BY <1>3, <1>4, LedgerComplete, OpenedArePids DEF Complete
<1>6. \A q \in Opened[x] : q <= pid
  <2> SUFFICES ASSUME NEW q \in Opened[x] PROVE q <= pid
    OBVIOUS
  <2>1. q \in MyPids(x) /\ HasRow(x, "incidents", IncidentKey(x, q)) /\ q \in Int /\ pid \in Int
    BY <1>3, OpenedArePids
  <2>2. CASE q \in todo[x]
    BY <1>1, <1>2, <2>1, <2>2 DEF Progress, Current
  <2>3. CASE q \notin todo[x]
    <3>1. q < pid
      BY <1>2, <2>1, <2>3 DEF Progress
    <3> QED BY <2>1, <3>1
  <2> QED BY <2>2, <2>3
<1>7. request[<<x, pid>>] = "none" /\ <<x, pid>> \in Report
  BY <1>1, PostIsNew, CurrentIsReport DEF AgentInv, TypeInv
<1>8. request' = [request EXCEPT ![<<x, pid>>] = "sent"] /\ received_incidents' = received_incidents
  BY <1>1 DEF Post
<1>9. request \in [Report -> {"none", "sent", "handled", "lost"}]
  BY DEF AgentInv, TypeInv, TypeOK, UemType
<1>10. {m \in Report : request'[m] # "none"}
         = {m \in Report : request[m] # "none"} \union {<<x, pid>>}
  BY <1>7, <1>8, <1>9
<1>11. {m \in Report : request'[m] = "sent"}
         = {m \in Report : request[m] = "sent"} \union {<<x, pid>>}
  BY <1>7, <1>8, <1>9
<1>12. UNCHANGED views
  BY QuietSteps, QuietView DEF AgentInv
<1>13. <<x, pid>> \notin {m \in Report : request[m] # "none"}
  BY <1>7
<1> QED BY <1>5, <1>6, <1>8, <1>10, <1>11, <1>12, <1>13 DEF Ledger!Send, views

(* The end of an upload and the control plane change the reports only.     *)
LEMMA EndUploadDrops ==
  ASSUME AgentInv, RowInv, NEW x \in Run, EndUpload(x)
  PROVE  Ledger!Drop \/ UNCHANGED Ledger!ledger
<1>1. PICK pid \in todo[x] :
        CannotPost(<<x, pid>>) \/ GetResponse(<<x, pid>>) \/ GiveUp(<<x, pid>>)
  BY DEF EndUpload
<1> DEFINE m == <<x, pid>>
<1>2. UNCHANGED views
  BY QuietSteps, QuietView DEF AgentInv
<1>3. m \in Report
  BY CurrentIsReport DEF AgentInv, TypeInv
<1>4. request \in [Report -> {"none", "sent", "handled", "lost"}]
  BY DEF AgentInv, TypeInv, TypeOK, UemType
<1>5. CASE UNCHANGED request
  <2>1. UNCHANGED reports
    BY <1>1, <1>5 DEF CannotPost, GetResponse, GiveUp, reports
  <2> QED BY <1>2, <2>1, LedgerStutters
<1>6. CASE request[m] = "sent" /\ request' = [request EXCEPT ![m] = "lost"]
  <2>1. {n \in Report : request'[n] # "none"} = {n \in Report : request[n] # "none"}
    BY <1>3, <1>4, <1>6
  <2>2. {n \in Report : request'[n] = "sent"} = {n \in Report : request[n] = "sent"} \ {m}
    BY <1>3, <1>4, <1>6
  <2>3. received_incidents' = received_incidents
    BY <1>1 DEF CannotPost, GetResponse, GiveUp
  <2>4. m \in {n \in Report : request[n] = "sent"}
    BY <1>3, <1>6
  <2> QED BY <1>2, <2>1, <2>2, <2>3, <2>4 DEF Ledger!Drop, views
<1>7. UNCHANGED request \/ (request[m] = "sent" /\ request' = [request EXCEPT ![m] = "lost"])
  BY <1>1 DEF CannotPost, GetResponse, GiveUp
<1> QED BY <1>5, <1>6, <1>7

LEMMA ControlPlaneLists ==
  ASSUME AgentInv, RowInv, ControlPlane
  PROVE  Ledger!List \/ Ledger!Drop \/ Ledger!Forget
<1>1. UNCHANGED views
  BY OtherStepsAreQuiet, QuietView
<1>2. request \in [Report -> {"none", "sent", "handled", "lost"}]
  BY DEF AgentInv, TypeInv, TypeOK, UemType
<1>3. ASSUME NEW m \in Report, request[m] = "sent",
             request' = [request EXCEPT ![m] = "handled"]
      PROVE  /\ {n \in Report : request'[n] # "none"} = {n \in Report : request[n] # "none"}
             /\ {n \in Report : request'[n] = "sent"}
                  = {n \in Report : request[n] = "sent"} \ {m}
             /\ m \in {n \in Report : request[n] = "sent"}
  BY <1>2, <1>3
<1>4. ASSUME NEW m \in Report, ReceiveIncident(m) PROVE Ledger!List
  <2>1. /\ request[m] = "sent" /\ request' = [request EXCEPT ![m] = "handled"]
        /\ received_incidents' = Append(received_incidents, m)
    BY <1>4 DEF ReceiveIncident
  <2> QED BY <1>1, <1>3, <2>1 DEF Ledger!List, views
<1>5. ASSUME NEW m \in Report, RejectIncident(m) PROVE Ledger!Drop
  <2>1. /\ request[m] = "sent" /\ request' = [request EXCEPT ![m] = "handled"]
        /\ received_incidents' = received_incidents
    BY <1>5 DEF RejectIncident
  <2> QED BY <1>1, <1>3, <2>1 DEF Ledger!Drop, views
<1>6. ASSUME ResetIncidents PROVE Ledger!Forget
  BY <1>1, <1>6 DEF ResetIncidents, Ledger!Forget, views
<1> QED BY <1>4, <1>5, <1>6 DEF ControlPlane

LEMMA RunStepsAreLedgerSteps ==
  ASSUME AgentInv, RowInv, NEW x \in Run, Step(x) \/ Throw(x) \/ Crash(x)
  PROVE  Ledger!Next \/ UNCHANGED Ledger!ledger
<1>1. ASSUME \/ GenerateRunId(x) \/ ResetDatabase(x) \/ LoadPolicy(x) \/ OpenStore(x)
             \/ InitializeStore(x) \/ LoadEvents(x) \/ Correlate(x) \/ Throw(x) \/ Crash(x)
      PROVE  UNCHANGED Ledger!ledger
  <2>1. UNCHANGED views
    BY <1>1, QuietSteps, QuietView DEF AgentInv
  <2>2. UNCHANGED uemVars
    BY <1>1 DEF GenerateRunId, ResetDatabase, LoadPolicy, OpenStore, InitializeStore,
                LoadEvents, Correlate, Throw, Crash
  <2> QED BY <2>1, <2>2, SameReports, LedgerStutters
<1> QED
  BY <1>1, RecordEventNotes, InsertIncidentOpens, InsertRuleMatchProves, StartUploadReports,
     EndUploadDrops DEF Step, Ledger!Next

LEMMA AgentStepsAreLedgerSteps ==
  AgentInv /\ RowInv /\ [Next]_vars => [Ledger!Next]_Ledger!ledger
<1> SUFFICES ASSUME AgentInv, RowInv, [Next]_vars
             PROVE  Ledger!Next \/ UNCHANGED Ledger!ledger
  OBVIOUS
<1>1. ASSUME NEW x \in Run, Step(x) \/ Throw(x) \/ Crash(x)
      PROVE  Ledger!Next \/ UNCHANGED Ledger!ledger
  BY <1>1, RunStepsAreLedgerSteps
<1>2. ASSUME Tick \/ UNCHANGED vars PROVE UNCHANGED Ledger!ledger
  <2>1. UNCHANGED views
    BY <1>2, OtherStepsAreQuiet, QuietView
  <2>2. UNCHANGED uemVars
    BY <1>2 DEF Tick, vars
  <2> QED BY <2>1, <2>2, SameReports, LedgerStutters
<1>3. ASSUME ControlPlane PROVE Ledger!Next
  BY <1>3, ControlPlaneLists DEF Ledger!Next
<1> QED BY <1>1, <1>2, <1>3 DEF Next, AllEnded

LEMMA AgentStartsAsLedger == Init => Ledger!Init
<1> SUFFICES ASSUME Init PROVE Ledger!Init
  OBVIOUS
<1>1. rows = {} /\ received_incidents = <<>> /\ \A m \in Report : request[m] = "none"
  BY DEF Init, StoreInit, UemInit
<1>2. /\ Noted = [x \in Run |-> {}] /\ Opened = [x \in Run |-> {}]
      /\ Proven = [x \in Run |-> {}]
  BY <1>1 DEF Noted, Opened, Proven, HasRow
<1> QED BY <1>1, <1>2 DEF Ledger!Init

(* The agent programs implement the ledger, for any number of runs, events,*)
(* rules and databases: a reader who stops anywhere finds events before    *)
(* incidents, incidents in order and followed by their evidence, and       *)
(* nothing reported or listed before it is on record (main.cpp:216-288).   *)
THEOREM AgentImplementsLedger == Spec => ImplementsLedger
  BY AgentStartsAsLedger, AgentStepsAreLedgerSteps, AgentInductive, AgentRows, PTL
  DEF Spec, ImplementsLedger, Ledger!Spec
-----------------------------------------------------------------------------
(* The agent programs as users of their stores.  Nothing is open before    *)
(* the reset, and from the event file on initialize has returned.          *)
Opens == {"events", "record"} \union Late

StoreInv(x) ==
  /\ pc[x] \in {"start", "reset"} => handle[x] = NoFile
  /\ pc[x] \in Opens => ddl[x] = Ready
  /\ pc[x] = "policy" /\ Program[x] = "agent" => ddl[x] = Ready

LEMMA OwnStepKeepsStoreInv ==
  ASSUME AgentInv, NEW x \in Run, StoreInv(x), Step(x) \/ Throw(x) \/ Crash(x)
  PROVE  StoreInv(x)'
<1>1. /\ pc \in [Run -> Stages] /\ ddl \in [Run -> 1..7]
      /\ handle \in [Run -> File \union {NoFile}]
  BY DEF AgentInv, TypeInv, TypeOK, StoreType, Ready
<1> USE DEF StoreInv, Opens, Late, GoTo
<1>2. CASE GenerateRunId(x)
  BY <1>1, <1>2 DEF GenerateRunId, storeVars
<1>3. CASE ResetDatabase(x)
  <2>1. pc'[x] = (IF Program[x] = "agent" THEN "open" ELSE "policy")
    BY <1>1, <1>3 DEF ResetDatabase
  <2> QED BY <2>1
<1>4. CASE LoadPolicy(x)
  BY <1>1, <1>4 DEF LoadPolicy, storeVars
<1>5. CASE OpenStore(x)
  BY <1>1, <1>5 DEF OpenStore
<1>6. CASE InitializeStore(x)
  BY <1>1, <1>6 DEF InitializeStore
<1>7. CASE LoadEvents(x)
  BY <1>1, <1>7 DEF LoadEvents, storeVars
<1>8. CASE RecordEvent(x)
  BY <1>1, <1>8 DEF RecordEvent, InsertRow
<1>9. CASE Correlate(x)
  BY <1>1, <1>9 DEF Correlate, GoToNextIncident, storeVars
<1>10. CASE InsertIncident(x)
  BY <1>1, <1>10 DEF InsertIncident, InsertRow
<1>11. CASE InsertRuleMatch(x)
  <2>1. ddl[x] = Ready /\ ddl' = ddl /\ handle' = handle
    BY <1>11 DEF InsertRuleMatch, InsertRow
  <2>2. pc[x] = "evidence" /\ pc'[x] \in {"evidence", "upload", "incident", "done"}
    BY <1>1, <1>11 DEF InsertRuleMatch, FinishIncident, GoToNextIncident
  <2> QED BY <2>1, <2>2
<1>12. CASE StartUpload(x)
  BY <1>1, <1>12 DEF StartUpload, storeVars
<1>13. CASE EndUpload(x)
  <2>1. ddl' = ddl /\ handle' = handle /\ pc[x] \in {"upload", "response"}
    BY <1>13 DEF EndUpload, storeVars
  <2>2. pc'[x] \in {"incident", "done"}
    BY <1>1, <1>13 DEF EndUpload, FinishIncident, GoToNextIncident
  <2> QED BY <2>1, <2>2
<1>14. CASE Throw(x) \/ Crash(x)
  BY <1>1, <1>14 DEF Throw, Crash, storeVars
<1> QED
  BY <1>2, <1>3, <1>4, <1>5, <1>6, <1>7, <1>8, <1>9, <1>10, <1>11, <1>12, <1>13, <1>14 DEF Step

(* What a run has open and how far it is are no business of others.        *)
LEMMA HandleIsOwn ==
  ASSUME TypeInv, NEW x \in Run, NEW y \in Run \ {x}, Step(y) \/ Throw(y) \/ Crash(y)
  PROVE  handle'[x] = handle[x]
<1>1. CASE OpenStore(y)
  BY <1>1 DEF OpenStore, Open, TypeInv, TypeOK, StoreType
<1>2. CASE ~OpenStore(y)
  <2>1. handle' = handle
    BY <1>2
    DEF Step, GenerateRunId, ResetDatabase, RemovePath, LoadPolicy, InitializeStore,
        CreateTable, ColumnExists, ColumnMissing, AddColumn, LoadEvents, RecordEvent,
        Correlate, InsertIncident, InsertRuleMatch, InsertRow, StartUpload, EndUpload,
        Throw, Crash, storeVars
  <2> QED BY <2>1
<1> QED BY <1>1, <1>2

LEMMA OthersKeepStore ==
  ASSUME AgentInv, NEW x \in Run, [Next]_vars, ~(Step(x) \/ Throw(x) \/ Crash(x))
  PROVE  /\ pc'[x] = pc[x] /\ recorded'[x] = recorded[x]
         /\ handle'[x] = handle[x] /\ ddl'[x] = ddl[x]
<1>1. CASE \E y \in Run \ {x} : Step(y) \/ Throw(y) \/ Crash(y)
  <2>1. PICK y \in Run \ {x} : Step(y) \/ Throw(y) \/ Crash(y)
    BY <1>1
  <2>2. pc'[x] = pc[x] /\ recorded'[x] = recorded[x] /\ ddl'[x] = ddl[x]
    BY <2>1, StepIsLocal, StoreStepsOfOthers DEF AgentInv
  <2> QED BY <2>1, <2>2, HandleIsOwn DEF AgentInv
<1>2. CASE Tick \/ ControlPlane \/ AllEnded \/ UNCHANGED vars
  BY <1>2 DEF Tick, ControlPlane, AllEnded, vars, runVars, storeVars
<1> QED BY <1>1, <1>2 DEF Next

(* In every behaviour, each run has its store as far as its stage needs.   *)
THEOREM AgentStores == Spec => [](\A x \in Run : StoreInv(x))
<1>1. Init => \A x \in Run : StoreInv(x)
  BY DEF Init, StoreInit, StoreInv, Opens, Late
<1>2. AgentInv /\ (\A x \in Run : StoreInv(x)) /\ [Next]_vars => (\A x \in Run : StoreInv(x))'
  <2> SUFFICES ASSUME AgentInv, \A x \in Run : StoreInv(x), [Next]_vars, NEW x \in Run
               PROVE  StoreInv(x)'
    OBVIOUS
  <2>1. CASE Step(x) \/ Throw(x) \/ Crash(x)
    BY <2>1, OwnStepKeepsStoreInv
  <2>2. CASE ~(Step(x) \/ Throw(x) \/ Crash(x))
    BY <2>2, OthersKeepStore DEF StoreInv
  <2> QED BY <2>1, <2>2
<1> QED BY <1>1, <1>2, AgentInductive, PTL DEF Spec
-----------------------------------------------------------------------------
(* What the stores see of a state of the agent programs.                   *)
SessionMap == [x \in Run |-> SessionOf(x)]
RawRows == {row \in rows : row[2] = "raw_events"}
storeView == <<path, schema, RawRows, handle, ddl, inspected, SessionMap, recorded>>

LEMMA SessionMoves ==
  ASSUME AgentInv, NEW x \in Run, Step(x) \/ Throw(x) \/ Crash(x),
         NEW s, SessionOf(x)' = s
  PROVE  SessionMap' = [SessionMap EXCEPT ![x] = s]
<1>1. ASSUME NEW y \in Run \ {x} PROVE SessionOf(y)' = SessionOf(y)
  <2>1. pc'[y] = pc[y] /\ handle'[y] = handle[y]
    BY StepIsLocal, HandleIsOwn DEF AgentInv
  <2> QED BY <2>1 DEF SessionOf
<1>2. SessionMap' = [y \in Run |-> SessionOf(y)']
  BY DEF SessionMap
<1>3. \A y \in Run : SessionOf(y)' = [SessionMap EXCEPT ![x] = s][y]
  BY <1>1 DEF SessionMap
<1>4. [SessionMap EXCEPT ![x] = s] = [y \in Run |-> [SessionMap EXCEPT ![x] = s][y]]
  BY DEF SessionMap
<1> QED BY <1>2, <1>3, <1>4, Zenon

LEMMA SessionStays ==
  ASSUME AgentInv, NEW x \in Run, Step(x) \/ Throw(x) \/ Crash(x),
         SessionOf(x)' = SessionOf(x)
  PROVE  SessionMap' = SessionMap
<1>1. SessionMap' = [SessionMap EXCEPT ![x] = SessionOf(x)]
  BY SessionMoves
<1>2. SessionMap[x] = SessionOf(x)
  BY DEF SessionMap
<1> QED BY <1>1, <1>2 DEF SessionMap

(* One insert, as far as the rows of the event loop go.                    *)
LEMMA RawRowsGrow ==
  ASSUME NEW x \in Run, NEW table, NEW key, InsertRow(x, table, key)
  PROVE  RawRows' = IF table = "raw_events"
                    THEN RawRows \union {<<handle[x], table, key>>} ELSE RawRows
<1>1. rows' = rows \union {<<handle[x], table, key>>}
  BY DEF InsertRow
<1>2. <<handle[x], table, key>>[2] = table
  OBVIOUS
<1> QED BY <1>1, <1>2 DEF RawRows

LEMMA EventInserted ==
  ASSUME AgentInv, NEW x \in Run, RecordEvent(x)
  PROVE  Sessions!Insert(x)
<1>1. SessionOf(x) = "open" /\ SessionOf(x)' = SessionOf(x)
  <2>1. pc[x] = "record" /\ pc' = pc /\ handle' = handle /\ ddl[x] = Ready
    BY DEF RecordEvent, InsertRow
  <2>2. handle[x] # NoFile
    BY <2>1 DEF AgentInv, TypeInv, StoreOrder, Ready
  <2> QED BY <2>1, <2>2 DEF SessionOf
<1>2. SessionMap' = SessionMap /\ SessionMap[x] = "open"
  BY <1>1, SessionStays DEF Step, SessionMap
<1>3. recorded[x] < Len(Events[x])
  BY EventFacts DEF RecordEvent, AgentInv
<1>4. [y \in Run |-> Len(Events[y])][x] = Len(Events[x])
  OBVIOUS
<1>5. InsertRow(x, "raw_events", <<x, recorded[x] + 1>>)
  BY DEF RecordEvent, RawKey
<1>6. RawRows' = RawRows \union {<<handle[x], "raw_events", <<x, recorded[x] + 1>>>>}
  BY <1>5, RawRowsGrow
<1>7. Sessions!InsertRow(x, "raw_events", <<x, recorded[x] + 1>>)
  BY <1>5, <1>6 DEF InsertRow, Sessions!InsertRow, RawRows, Ready, Sessions!Ready
<1>8. recorded' = [recorded EXCEPT ![x] = @ + 1]
  BY DEF RecordEvent
<1> QED BY <1>2, <1>3, <1>4, <1>7, <1>8 DEF Sessions!Insert, SessionMap

(* Before the store is open: the reset, the constructor.                   *)
LEMMA DatabaseReset ==
  ASSUME AgentInv, NEW x \in Run, StoreInv(x), ResetDatabase(x)
  PROVE  Sessions!Reset(x)
<1>1. pc[x] = "reset" /\ handle[x] = NoFile /\ handle' = handle
  BY DEF ResetDatabase, RemovePath, storeVars, StoreInv
<1>2. pc'[x] \in {"open", "policy"}
  BY DEF ResetDatabase, GoTo, AgentInv, TypeInv, TypeOK
<1>3. SessionOf(x) = "idle" /\ SessionOf(x)' = "reset"
  BY <1>1, <1>2 DEF SessionOf
<1>4. SessionMap[x] = "idle" /\ SessionMap' = [SessionMap EXCEPT ![x] = "reset"]
  BY <1>3, SessionMoves DEF Step, SessionMap
<1>5. IF x \in {y \in Run : ResetDb[y]} THEN Sessions!RemovePath ELSE UNCHANGED Sessions!storeVars
  BY DEF ResetDatabase, RemovePath, storeVars, Sessions!RemovePath, Sessions!storeVars
<1>6. recorded' = recorded
  BY DEF ResetDatabase
<1> QED BY <1>4, <1>5, <1>6 DEF Sessions!Reset, Sessions!Become, SessionMap

LEMMA StoreConstructed ==
  ASSUME AgentInv, NEW x \in Run, OpenStore(x)
  PROVE  Sessions!Construct(x)
<1>1. pc[x] = "open" /\ pc'[x] = "initialize" /\ handle[x] = NoFile
  BY DEF OpenStore, Open, GoTo, AgentInv, TypeInv, TypeOK
<1>2. handle'[x] # NoFile
  BY NamesDiffer DEF OpenStore, Open, File, AgentInv, TypeInv, TypeOK, StoreType
<1>3. SessionOf(x) = "reset" /\ SessionOf(x)' = "open"
  BY <1>1, <1>2 DEF SessionOf
<1>4. SessionMap[x] = "reset" /\ SessionMap' = [SessionMap EXCEPT ![x] = "open"]
  BY <1>3, SessionMoves DEF Step, SessionMap
<1>5. Sessions!Open(x) /\ recorded' = recorded
  BY DEF OpenStore, Open, Sessions!Open
<1> QED BY <1>4, <1>5 DEF Sessions!Construct, Sessions!Become, SessionMap

LEMMA StoreInitialized ==
  ASSUME AgentInv, NEW x \in Run, InitializeStore(x)
  PROVE  Sessions!Initialize(x)
<1>1. handle[x] # NoFile /\ handle' = handle
  BY DEF InitializeStore, CreateTable, ColumnExists, ColumnMissing, AddColumn, AgentInv,
         TypeInv, StoreOrder
<1>2. pc[x] = "initialize" /\ pc'[x] \in {"initialize", "policy", "events"}
  BY DEF InitializeStore, GoTo, AgentInv, TypeInv, TypeOK
<1>3. SessionOf(x) = "open" /\ SessionOf(x)' = "open"
  BY <1>1, <1>2 DEF SessionOf
<1>4. SessionMap[x] = "open" /\ SessionMap' = SessionMap
  BY <1>3, SessionStays DEF Step, SessionMap
<1>5. rows' = rows /\ recorded' = recorded
  BY DEF InitializeStore, CreateTable, ColumnExists, ColumnMissing, AddColumn
<1>6. \/ Sessions!CreateTable(x) \/ Sessions!ColumnExists(x) \/ Sessions!ColumnMissing(x)
      \/ Sessions!AddColumn(x)
  BY <1>5 DEF InitializeStore, CreateTable, ColumnExists, ColumnMissing, AddColumn, TableAt,
              TableOrder, Sessions!CreateTable, Sessions!ColumnExists,
              Sessions!ColumnMissing, Sessions!AddColumn, Sessions!TableAt,
              Sessions!TableOrder
<1> QED BY <1>4, <1>5, <1>6 DEF Sessions!Initialize, SessionMap

(* A run that ends without having returned has stopped, at any stage.      *)
LEMMA RunStopped ==
  ASSUME AgentInv, NEW x \in Run, Throw(x) \/ Crash(x)
  PROVE  Sessions!Stop(x)
<1>1. pc[x] \in Stages \ Ended /\ pc'[x] \in {"failed", "crashed"}
  BY DEF Throw, Crash, GoTo, MayThrow, Ended, AgentInv, TypeInv, TypeOK
<1>2. SessionOf(x) \in {"idle", "reset", "open"} /\ SessionOf(x)' = "stopped"
  BY <1>1 DEF SessionOf, Ended
<1>3. SessionMap[x] = SessionOf(x) /\ SessionMap' = [SessionMap EXCEPT ![x] = "stopped"]
  BY <1>2, SessionMoves DEF SessionMap
<1>4. UNCHANGED Sessions!storeVars /\ recorded' = recorded
  BY DEF Throw, Crash, storeVars, Sessions!storeVars
<1> QED BY <1>2, <1>3, <1>4 DEF Sessions!Stop, Sessions!Become, SessionMap

(* The stages that the store does not see, or sees the end of.             *)
LEMMA StoreUnseen ==
  ASSUME AgentInv, NEW x \in Run, Step(x), SessionOf(x)' = SessionOf(x),
         path' = path, schema' = schema, RawRows' = RawRows, handle' = handle,
         ddl' = ddl, inspected' = inspected, recorded' = recorded
  PROVE  UNCHANGED storeView
<1>1. SessionMap' = SessionMap
  BY SessionStays
<1> QED BY <1>1 DEF storeView

LEMMA LoopSteps ==
  ASSUME AgentInv, NEW x \in Run, StoreInv(x),
         \/ Correlate(x) \/ InsertIncident(x) \/ InsertRuleMatch(x) \/ StartUpload(x)
         \/ EndUpload(x)
  PROVE  Sessions!Close(x) \/ UNCHANGED storeView
<1>1. pc[x] \in {"record"} \union Late /\ pc[x] # "done"
  BY DEF Correlate, InsertIncident, InsertRuleMatch, StartUpload, EndUpload, Late
<1>2. pc'[x] \in Late
  BY DEF Correlate, InsertIncident, InsertRuleMatch, StartUpload, EndUpload, FinishIncident,
         GoToNextIncident, GoTo, Late, AgentInv, TypeInv, TypeOK
<1>3. ddl[x] = Ready
  BY <1>1 DEF StoreInv, Opens
<1>4. handle[x] # NoFile
  BY <1>3 DEF AgentInv, TypeInv, StoreOrder, Ready
<1>5. /\ path' = path /\ schema' = schema /\ handle' = handle /\ ddl' = ddl
      /\ inspected' = inspected /\ recorded' = recorded
  BY DEF Correlate, InsertIncident, InsertRuleMatch, InsertRow, StartUpload, EndUpload, storeVars
<1>6. RawRows' = RawRows
  <2>1. CASE rows' = rows
    BY <2>1 DEF RawRows
  <2>2. CASE \E key : \/ InsertRow(x, "incidents", key)
                      \/ InsertRow(x, "incident_rule_matches", key)
    BY <2>2, RawRowsGrow
  <2> QED BY <2>1, <2>2 DEF Correlate, InsertIncident, InsertRuleMatch, StartUpload, EndUpload,
                            storeVars
<1>7. SessionOf(x) = "open"
  BY <1>1, <1>4 DEF SessionOf, Late
<1>8. Step(x)
  BY DEF Step
<1>9. CASE pc'[x] = "done"
  <2>1. SessionOf(x)' = "returned"
    BY <1>9 DEF SessionOf
  <2>2. SessionMap[x] = "open" /\ SessionMap' = [SessionMap EXCEPT ![x] = "returned"]
    BY <1>7, <1>8, <2>1, SessionMoves DEF SessionMap
  <2>3. UNCHANGED Sessions!storeVars
    BY <1>5, <1>6 DEF Sessions!storeVars, RawRows
  <2> QED BY <1>3, <1>5, <2>2, <2>3
          DEF Sessions!Close, Sessions!Become, SessionMap, Ready, Sessions!Ready
<1>10. CASE pc'[x] # "done"
  <2>1. SessionOf(x)' = "open"
    BY <1>2, <1>4, <1>5, <1>10 DEF SessionOf, Late
  <2> QED BY <1>5, <1>6, <1>7, <1>8, <2>1, StoreUnseen
<1> QED BY <1>9, <1>10

LEMMA QuietStages ==
  ASSUME AgentInv, NEW x \in Run, StoreInv(x),
         GenerateRunId(x) \/ LoadPolicy(x) \/ LoadEvents(x)
  PROVE  UNCHANGED storeView
<1>1. /\ UNCHANGED storeVars /\ recorded' = recorded
      /\ path' = path /\ schema' = schema /\ handle' = handle /\ ddl' = ddl
      /\ inspected' = inspected
  BY DEF GenerateRunId, LoadPolicy, LoadEvents, storeVars
<1>2. RawRows' = RawRows
  BY <1>1 DEF RawRows, storeVars
<1>3. SessionOf(x)' = SessionOf(x)
  <2>1. CASE GenerateRunId(x)
    <3>1. pc[x] = "start" /\ pc'[x] = "reset"
      BY <2>1 DEF GenerateRunId, GoTo, AgentInv, TypeInv, TypeOK
    <3> QED BY <3>1 DEF SessionOf
  <2>2. CASE LoadPolicy(x) \/ LoadEvents(x)
    <3>1. pc[x] \in {"policy", "events"} /\ pc'[x] \in {"events", "open", "record"}
      BY <2>2 DEF LoadPolicy, LoadEvents, GoTo, AgentInv, TypeInv, TypeOK
    <3> QED BY <1>1, <3>1 DEF SessionOf
  <2> QED BY <2>1, <2>2
<1> QED BY <1>1, <1>2, <1>3, StoreUnseen DEF Step

LEMMA AgentStepsAreSessionSteps ==
  AgentInv /\ (\A x \in Run : StoreInv(x)) /\ [Next]_vars => [Sessions!Next]_Sessions!vars
<1> SUFFICES ASSUME AgentInv, \A x \in Run : StoreInv(x), [Next]_vars
             PROVE  Sessions!Next \/ UNCHANGED Sessions!vars
  OBVIOUS
<1>1. UNCHANGED storeView => UNCHANGED Sessions!vars
  BY DEF storeView, Sessions!vars, Sessions!storeVars, SessionMap, RawRows
<1>2. ASSUME NEW x \in Run, Step(x) \/ Throw(x) \/ Crash(x)
      PROVE  Sessions!Next \/ UNCHANGED storeView
  <2>1. StoreInv(x)
    OBVIOUS
  <2>2. CASE \/ ResetDatabase(x) \/ OpenStore(x) \/ InitializeStore(x) \/ RecordEvent(x)
             \/ Throw(x) \/ Crash(x)
    BY <2>1, <2>2, DatabaseReset, StoreConstructed, StoreInitialized, EventInserted, RunStopped
    DEF Sessions!Next
  <2>3. CASE GenerateRunId(x) \/ LoadPolicy(x) \/ LoadEvents(x)
    BY <2>1, <2>3, QuietStages
  <2>4. CASE \/ Correlate(x) \/ InsertIncident(x) \/ InsertRuleMatch(x) \/ StartUpload(x)
             \/ EndUpload(x)
    BY <2>1, <2>4, LoopSteps DEF Sessions!Next
  <2> QED BY <1>2, <2>2, <2>3, <2>4 DEF Step
<1>3. ASSUME Tick \/ ControlPlane \/ AllEnded \/ UNCHANGED vars
      PROVE  UNCHANGED storeView
  BY <1>3 DEF Tick, ControlPlane, AllEnded, vars, runVars, storeVars, storeView, SessionMap,
              SessionOf, RawRows
<1> QED BY <1>1, <1>2, <1>3 DEF Next

LEMMA AgentStartsAsSessions == Init => Sessions!Init
<1> SUFFICES ASSUME Init PROVE Sessions!Init
  OBVIOUS
<1>1. SessionMap = [x \in Run |-> "idle"]
  BY DEF Init, SessionMap, SessionOf
<1>2. RawRows = {}
  BY DEF Init, StoreInit, RawRows
<1>3. Sessions!StoreInit
  BY <1>2 DEF Init, StoreInit, RawRows, File, Tables, Sessions!StoreInit, Sessions!File,
              Sessions!Tables
<1> QED BY <1>1, <1>3 DEF Init, Sessions!Init, SessionMap

(* The agent programs use their stores as module AuditSessions has it, for *)
(* any number of runs, events and prior databases (main.cpp:148-217,       *)
(* fanotify_demo.cpp:82-160).                                              *)
THEOREM AgentImplementsSessions == Spec => ImplementsSessions
  BY AgentStartsAsSessions, AgentStepsAreSessionSteps, AgentInductive, AgentStores, PTL
  DEF Spec, ImplementsSessions, Sessions!Spec
-----------------------------------------------------------------------------
(* What is proved of AuditSessions, under the mapping of AgentLedger.      *)
Proved == INSTANCE AuditSessionsProofs WITH
  Resets <- {x \in Run : ResetDb[x]},
  MaxRows <- [x \in Run |-> Len(Events[x])],
  session <- [x \in Run |-> SessionOf(x)],
  inserted <- recorded,
  rows <- {row \in rows : row[2] = "raw_events"}

LEMMA SessionAssumptions ==
  /\ [x \in Run |-> Len(Events[x])] \in [Run -> Nat]
  /\ PriorFile \notin Run /\ NoFile \notin Proved!File
  /\ PriorSchemas \subseteq Proved!Schemas
  BY EventsAreSequences, NamesDiffer, PriorAreSchemas
  DEF File, Schemas, Tables, Proved!File, Proved!Schemas, Proved!Tables

LEMMA SameInit == Sessions!Init => Proved!Init
  BY DEF Sessions!Init, Proved!Init, Sessions!StoreInit, Proved!StoreInit,
         Sessions!File, Proved!File, Sessions!Tables, Proved!Tables

LEMMA SameNext == [Sessions!Next]_(Sessions!vars) => [Proved!Next]_(Proved!vars)
  BY
  DEF Sessions!Next, Sessions!Reset, Sessions!RemovePath, Sessions!storeVars,
      Sessions!Become, Sessions!Construct, Sessions!Open, Sessions!Initialize,
      Sessions!CreateTable, Sessions!TableAt, Sessions!TableOrder,
      Sessions!ColumnExists, Sessions!ColumnMissing, Sessions!AddColumn,
      Sessions!LoseRace, Sessions!DuplicateColumn, Sessions!Insert,
      Sessions!InsertRow, Sessions!Ready, Sessions!Close, Sessions!Stop,
      Sessions!AllEnded, Sessions!Ended, Sessions!vars, Proved!Next, Proved!Reset,
      Proved!RemovePath, Proved!storeVars, Proved!Become, Proved!Construct,
      Proved!Open, Proved!Initialize, Proved!CreateTable, Proved!TableAt,
      Proved!TableOrder, Proved!ColumnExists, Proved!ColumnMissing, Proved!AddColumn,
      Proved!LoseRace, Proved!DuplicateColumn, Proved!Insert, Proved!InsertRow,
      Proved!Ready, Proved!Close, Proved!Stop, Proved!AllEnded, Proved!Ended,
      Proved!vars

(* The tables of a run's store, and its rows of the event loop.            *)
StoresCurrent ==
  \A x \in Run : ddl[x] = Ready => \A t \in Tables : schema[handle[x]][t] = "current"

EventRowsTogether ==
  \A x \in Run :
    {row \in rows : row[2] = "raw_events" /\ row[3][1] = x}
      = {<<handle[x], "raw_events", <<x, k>>>> : k \in 1..recorded[x]}

(* Whole runs inherit what is proved of the store alone: once initialize   *)
(* has returned, no insert of the run can meet a table without the run_id  *)
(* column, whatever other runs reset, create or migrate meanwhile, and the *)
(* raw_events rows of a run are one per event it recorded, all in the file *)
(* that it opened (AuditStore.cpp:86-139, main.cpp:213-217).               *)
THEOREM AgentStoresAreCurrent == Spec => [](StoresCurrent /\ EventRowsTogether)
<1>1. Proved!Spec => []Proved!InitializedIsCurrent
  BY SessionAssumptions, Proved!InitializedStoresAreCurrent
<1>2. Proved!Spec => []Proved!RowsStayTogether
  BY SessionAssumptions, Proved!RunRowsStayTogether
<1>3. Proved!InitializedIsCurrent => StoresCurrent
  BY DEF Proved!InitializedIsCurrent, StoresCurrent, Proved!Ready, Ready, Proved!Tables, Tables
<1>4. Proved!RowsStayTogether => EventRowsTogether
  <2> SUFFICES ASSUME Proved!RowsStayTogether, NEW x \in Run
               PROVE  {row \in rows : row[2] = "raw_events" /\ row[3][1] = x}
                        = {<<handle[x], "raw_events", <<x, k>>>> : k \in 1..recorded[x]}
    BY DEF EventRowsTogether
  <2>1. {row \in RawRows : row[3][1] = x}
          = {<<handle[x], "raw_events", <<x, k>>>> : k \in 1..recorded[x]}
    BY DEF Proved!RowsStayTogether, RawRows
  <2>2. {row \in RawRows : row[3][1] = x}
          = {row \in rows : row[2] = "raw_events" /\ row[3][1] = x}
    BY DEF RawRows
  <2> QED BY <2>1, <2>2
<1>5. Spec => Proved!Spec
  BY AgentImplementsSessions, SameInit, SameNext, PTL
  DEF ImplementsSessions, Sessions!Spec, Proved!Spec
<1> QED BY <1>1, <1>2, <1>3, <1>4, <1>5, PTL
=============================================================================
