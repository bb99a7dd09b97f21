------------------------ MODULE AuditSessionsProofs ------------------------
(***************************************************************************)
(* For any number of runs on one path: a store whose initialize returned   *)
(* is up to date, and racing migrations never all fail.  The inductive     *)
(* invariant relates how far each run got in initialize to the tables of   *)
(* its file: what it has passed is created, or migrated, for good.         *)
(***************************************************************************)
EXTENDS AuditSessions, TLAPS

(* A statement of initialize that a run has passed has taken effect on its *)
(* file; a column that was found missing is missing still, unless a run on *)
(* the same file that got further has added it.                            *)
Passed ==
  \A r \in Run :
    /\ handle[r] = NoFile => ddl[r] = 1 /\ inspected[r] = "unread"
    /\ \A k \in 1..3 : ddl[r] > k => schema[handle[r]][TableOrder[k]] # "absent"
    /\ \A k \in 1..3 : ddl[r] > k + 3 => schema[handle[r]][TableOrder[k]] = "current"

Overtaken(r) == \E q \in Run : handle[q] = handle[r] /\ ddl[q] > ddl[r]

Pending ==
  \A r \in Run :
    /\ inspected[r] # "unread" => ddl[r] \in 4..6 /\ handle[r] # NoFile
    /\ (inspected[r] = "lacking"
          /\ schema[handle[r]][TableAt(ddl[r])] = "current") => Overtaken(r)

SessionInv ==
  /\ StoreType
  /\ session \in [Run -> Sessions]
  /\ \A r \in Run : session[r] \in {"idle", "reset"} => handle[r] = NoFile
  /\ \A r \in Run : session[r] = "open" => handle[r] # NoFile
  /\ Passed
  /\ Pending
  /\ RaceHasAWinner

LEMMA TablesInOrder ==
  /\ TableOrder = [k \in 1..3 |-> TableOrder[k]]
  /\ TableOrder[1] = "raw_events"
  /\ TableOrder[2] = "incidents"
  /\ TableOrder[3] = "incident_rule_matches"
  /\ \A k \in 1..3 : TableOrder[k] \in Tables
  /\ \A t \in Tables : \E k \in 1..3 : TableOrder[k] = t
  /\ \A k \in 1..3 : TableAt(k) = TableOrder[k] /\ TableAt(k + 3) = TableOrder[k]
  BY DEF TableOrder, Tables, TableAt

(* Before the first call no store is open and nothing is written.          *)
THEOREM InitSessionInv == Init => SessionInv
  BY NamesDiffer, PriorAreSchemas
  DEF Init, StoreInit, SessionInv, StoreType, Sessions, Passed, Pending,
      RaceHasAWinner, Overtaken, Ready, File, Schemas

(* What does not touch schema, handle, ddl or inspected keeps all but the  *)
(* conjuncts on session.                                                   *)
LEMMA StoreUntouched ==
  ASSUME SessionInv, UNCHANGED <<schema, handle, ddl, inspected>>
  PROVE  Passed' /\ Pending'
  BY DEF SessionInv, Passed, Pending, Overtaken

LEMMA CreateKeepsInv ==
  ASSUME SessionInv, NEW r \in Run, session[r] = "open", CreateTable(r), UNCHANGED session
  PROVE  SessionInv'
<1> USE DEF SessionInv, StoreType
<1>1. PICK k \in 1..3 : ddl[r] = k
  BY DEF CreateTable, Ready
<1>2. TableAt(ddl[r]) = TableOrder[k] /\ TableOrder[k] \in Tables
  BY <1>1, TablesInOrder
<1>3. handle[r] \in File
  BY DEF CreateTable
<1>4. schema' \in [File -> Schemas]
  BY <1>2, <1>3 DEF CreateTable, Schemas
<1>5. \A f \in File, t \in Tables :
        /\ schema[f][t] # "absent" => schema'[f][t] = schema[f][t]
        /\ (f # handle[r] \/ t # TableOrder[k]) => schema'[f][t] = schema[f][t]
        /\ (f = handle[r] /\ t = TableOrder[k]) => schema'[f][t] # "absent"
  BY <1>2, <1>3 DEF CreateTable, Schemas
<1>6. ddl' = [ddl EXCEPT ![r] = k + 1] /\ ddl' \in [Run -> 1..Ready]
  BY <1>1 DEF CreateTable, Ready
<1>7. Passed'
  <2> SUFFICES ASSUME NEW q \in Run
               PROVE  /\ handle[q] = NoFile => ddl'[q] = 1 /\ inspected[q] = "unread"
                      /\ \A j \in 1..3 : ddl'[q] > j =>
                           schema'[handle[q]][TableOrder[j]] # "absent"
                      /\ \A j \in 1..3 : ddl'[q] > j + 3 =>
                           schema'[handle[q]][TableOrder[j]] = "current"
    BY DEF Passed, CreateTable
  <2>1. handle[q] = NoFile => ddl'[q] = 1 /\ inspected[q] = "unread"
    BY <1>6 DEF CreateTable, Passed
  <2>2. handle[q] # NoFile => handle[q] \in File
    OBVIOUS
  <2>3. ASSUME NEW j \in 1..3, ddl'[q] > j
        PROVE  schema'[handle[q]][TableOrder[j]] # "absent"
    <3>1. handle[q] # NoFile
      BY <2>1, <2>3
    <3>2. CASE q = r /\ j = k
      BY <3>1, <3>2, <1>2, <1>3, <1>5
    <3>3. CASE ~(q = r /\ j = k)
      <4>1. ddl[q] > j
        BY <3>3, <2>3, <1>1, <1>6
      <4> QED BY <4>1, <3>1, <2>2, <1>5, TablesInOrder DEF Passed
    <3> QED BY <3>2, <3>3
  <2>4. ASSUME NEW j \in 1..3, ddl'[q] > j + 3
        PROVE  schema'[handle[q]][TableOrder[j]] = "current"
    <3>1. handle[q] # NoFile
      BY <2>1, <2>4
    <3>2. ddl[q] > j + 3
      BY <2>4, <1>1, <1>6
    <3> QED BY <3>1, <3>2, <2>2, <1>5, TablesInOrder DEF Passed
  <2> QED BY <2>1, <2>3, <2>4
<1>8. Pending'
  <2> SUFFICES ASSUME NEW q \in Run
               PROVE  /\ inspected[q] # "unread" => ddl'[q] \in 4..6 /\ handle[q] # NoFile
                      /\ (inspected[q] = "lacking"
                            /\ schema'[handle[q]][TableAt(ddl'[q])] = "current") =>
                              \E p \in Run : handle[p] = handle[q] /\ ddl'[p] > ddl'[q]
    BY DEF Pending, Overtaken, CreateTable
  <2>1. q = r => inspected[q] = "unread"
    BY <1>1 DEF Pending
  <2>2. q # r => ddl'[q] = ddl[q]
    BY <1>6
  <2>3. ASSUME inspected[q] = "lacking", schema'[handle[q]][TableAt(ddl'[q])] = "current"
        PROVE  \E p \in Run : handle[p] = handle[q] /\ ddl'[p] > ddl'[q]
    <3>1. q # r /\ ddl[q] \in 4..6 /\ handle[q] \in File
      BY <2>1, <2>3 DEF Pending
    <3>2. PICK j \in 1..3 : ddl[q] = j + 3 /\ TableAt(ddl[q]) = TableOrder[j]
      BY <3>1, TablesInOrder, \A d \in 4..6 : \E i \in 1..3 : d = i + 3
    <3>3. schema[handle[q]][TableOrder[j]] # "absent"
      BY <3>2, <3>1 DEF Passed
    <3>4. schema[handle[q]][TableAt(ddl[q])] = "current"
      BY <3>1, <3>2, <3>3, <2>2, <2>3, <1>5, TablesInOrder
    <3>5. PICK p \in Run : handle[p] = handle[q] /\ ddl[p] > ddl[q]
      BY <3>4, <2>3 DEF Pending, Overtaken
    <3>6. ddl'[p] >= ddl[p]
      BY <1>6, <1>1
    <3> QED BY <3>5, <3>6, <3>1, <2>2, <1>6 DEF Ready
  <2> QED BY <2>1, <2>2, <2>3 DEF Pending
<1>9. RaceHasAWinner'
  BY <1>1, <1>6 DEF RaceHasAWinner, CreateTable, Ready
<1> QED BY <1>4, <1>6, <1>7, <1>8, <1>9 DEF CreateTable

(* A run that only moves on in initialize, where it has to.                *)
LEMMA ColumnExistsKeepsInv ==
  ASSUME SessionInv, NEW r \in Run, session[r] = "open", ColumnExists(r), UNCHANGED session
  PROVE  SessionInv'
<1> USE DEF SessionInv, StoreType, ColumnExists
<1>1. PICK k \in 1..3 : ddl[r] = k + 3 /\ TableAt(ddl[r]) = TableOrder[k]
  BY TablesInOrder, \A d \in 4..6 : \E i \in 1..3 : d = i + 3
<1>2. ddl' = [ddl EXCEPT ![r] = k + 4] /\ ddl' \in [Run -> 1..Ready]
  BY <1>1 DEF Ready
<1>3. \A q \in Run : ddl'[q] >= ddl[q] /\ (q # r => ddl'[q] = ddl[q])
  BY <1>1, <1>2 DEF Ready
<1>4. Passed'
  <2> SUFFICES ASSUME NEW q \in Run
               PROVE  /\ handle[q] = NoFile => ddl'[q] = 1 /\ inspected[q] = "unread"
                      /\ \A j \in 1..3 : ddl'[q] > j =>
                           schema[handle[q]][TableOrder[j]] # "absent"
                      /\ \A j \in 1..3 : ddl'[q] > j + 3 =>
                           schema[handle[q]][TableOrder[j]] = "current"
    BY DEF Passed
  <2>1. CASE q = r
    <3>1. \A j \in 1..3 : j + 3 < k + 4 => j = k \/ j + 3 < k + 3
      OBVIOUS
    <3>2. \A j \in 1..3 : j < k + 3
      OBVIOUS
    <3> QED BY <2>1, <3>1, <3>2, <1>1, <1>2 DEF Passed
  <2>2. CASE q # r
    BY <2>2, <1>3 DEF Passed
  <2> QED BY <2>1, <2>2
<1>5. Pending'
  BY <1>3 DEF Pending, Overtaken, Ready
<1>6. RaceHasAWinner'
  BY <1>1, <1>2 DEF RaceHasAWinner, Ready
<1> QED BY <1>2, <1>4, <1>5, <1>6

LEMMA ColumnMissingKeepsInv ==
  ASSUME SessionInv, NEW r \in Run, session[r] = "open", ColumnMissing(r), UNCHANGED session
  PROVE  SessionInv'
<1> USE DEF SessionInv, StoreType, ColumnMissing
<1>1. inspected' \in [Run -> {"unread", "lacking", "refused"}]
  OBVIOUS
<1>2. Passed'
  BY DEF Passed
<1>3. Pending'
  BY DEF Pending, Overtaken
<1>4. RaceHasAWinner'
  BY DEF RaceHasAWinner
<1> QED BY <1>1, <1>2, <1>3, <1>4

(* The other runs that found the same column missing are overtaken.        *)
LEMMA AddColumnKeepsInv ==
  ASSUME SessionInv, NEW r \in Run, session[r] = "open", AddColumn(r), UNCHANGED session
  PROVE  SessionInv'
<1> USE DEF SessionInv, StoreType
<1>1. ddl[r] \in 4..6 /\ handle[r] \in File
  BY DEF AddColumn, Pending
<1>2. PICK k \in 1..3 : ddl[r] = k + 3 /\ TableAt(ddl[r]) = TableOrder[k]
  BY <1>1, TablesInOrder, \A d \in 4..6 : \E i \in 1..3 : d = i + 3
<1>3. TableOrder[k] \in Tables
  BY TablesInOrder
<1>4. schema' \in [File -> Schemas]
  BY <1>1, <1>2, <1>3 DEF AddColumn, Schemas
<1>5. \A f \in File, t \in Tables :
        /\ schema[f][t] = "current" => schema'[f][t] = "current"
        /\ schema[f][t] # "absent" => schema'[f][t] # "absent"
        /\ (f # handle[r] \/ t # TableOrder[k]) => schema'[f][t] = schema[f][t]
        /\ (f = handle[r] /\ t = TableOrder[k]) => schema'[f][t] = "current"
  BY <1>1, <1>2, <1>3 DEF AddColumn, Schemas
<1>6. /\ ddl' = [ddl EXCEPT ![r] = k + 4]
      /\ ddl' \in [Run -> 1..Ready]
      /\ \A q \in Run : ddl'[q] >= ddl[q] /\ (q # r => ddl'[q] = ddl[q])
  BY <1>2 DEF AddColumn, Ready
<1>7. inspected' \in [Run -> {"unread", "lacking", "refused"}]
  BY DEF AddColumn
<1>8. Passed'
  <2> SUFFICES ASSUME NEW q \in Run
               PROVE  /\ handle[q] = NoFile => ddl'[q] = 1 /\ inspected'[q] = "unread"
                      /\ \A j \in 1..3 : ddl'[q] > j =>
                           schema'[handle[q]][TableOrder[j]] # "absent"
                      /\ \A j \in 1..3 : ddl'[q] > j + 3 =>
                           schema'[handle[q]][TableOrder[j]] = "current"
    BY DEF Passed, AddColumn
  <2>1. handle[q] = NoFile => ddl'[q] = 1 /\ inspected'[q] = "unread"
    BY <1>1, <1>6, NamesDiffer DEF AddColumn, Passed
  <2>2. ASSUME NEW j \in 1..3, ddl'[q] > j
        PROVE  schema'[handle[q]][TableOrder[j]] # "absent"
    <3>1. handle[q] \in File
      BY <2>1, <2>2
    <3>2. ddl[q] > j
      BY <2>2, <1>2, <1>6
    <3> QED BY <3>1, <3>2, <1>5, TablesInOrder DEF Passed
  <2>3. ASSUME NEW j \in 1..3, ddl'[q] > j + 3
        PROVE  schema'[handle[q]][TableOrder[j]] = "current"
    <3>1. handle[q] \in File
      BY <2>1, <2>3
    <3>2. CASE q = r /\ j = k
      BY <3>1, <3>2, <1>3, <1>5
    <3>3. CASE ~(q = r /\ j = k)
      <4>1. ddl[q] > j + 3
        BY <3>3, <2>3, <1>2, <1>6
      <4> QED BY <4>1, <3>1, <1>5, TablesInOrder DEF Passed
    <3> QED BY <3>2, <3>3
  <2> QED BY <2>1, <2>2, <2>3
<1>9. Pending'
  <2> SUFFICES ASSUME NEW q \in Run
               PROVE  /\ inspected'[q] # "unread" => ddl'[q] \in 4..6 /\ handle[q] # NoFile
                      /\ (inspected'[q] = "lacking"
                            /\ schema'[handle[q]][TableAt(ddl'[q])] = "current") =>
                              \E p \in Run : handle[p] = handle[q] /\ ddl'[p] > ddl'[q]
    BY DEF Pending, Overtaken, AddColumn
  <2>1. q = r => inspected'[q] = "unread"
    BY DEF AddColumn
  <2>2. q # r => ddl'[q] = ddl[q] /\ inspected'[q] = inspected[q]
    BY <1>6 DEF AddColumn
  <2>3. ASSUME inspected'[q] = "lacking", schema'[handle[q]][TableAt(ddl'[q])] = "current"
        PROVE  \E p \in Run : handle[p] = handle[q] /\ ddl'[p] > ddl'[q]
    <3>1. q # r /\ inspected[q] = "lacking" /\ ddl'[q] = ddl[q]
      BY <2>1, <2>2, <2>3
    <3>2. ddl[q] \in 4..6 /\ handle[q] \in File
      BY <3>1 DEF Pending
    <3>3. PICK j \in 1..3 : ddl[q] = j + 3 /\ TableAt(ddl[q]) = TableOrder[j]
      BY <3>2, TablesInOrder, \A d \in 4..6 : \E i \in 1..3 : d = i + 3
    <3>4. CASE handle[q] = handle[r] /\ j = k
      BY <3>1, <3>3, <3>4, <1>2, <1>6
    <3>5. CASE ~(handle[q] = handle[r] /\ j = k)
      <4>1. TableOrder[j] # TableOrder[k] \/ handle[q] # handle[r]
        BY <3>5, TablesInOrder
      <4>2. schema[handle[q]][TableAt(ddl[q])] = "current"
        BY <4>1, <3>1, <3>2, <3>3, <2>3, <1>1, <1>5, TablesInOrder
      <4>3. PICK p \in Run : handle[p] = handle[q] /\ ddl[p] > ddl[q]
        BY <4>2, <3>1 DEF Pending, Overtaken
      <4> QED BY <4>3, <3>1, <3>2, <1>6 DEF Ready
    <3> QED BY <3>4, <3>5
  <2> QED BY <2>1, <2>2, <2>3 DEF Pending
<1>10. RaceHasAWinner'
  BY <1>2, <1>6 DEF RaceHasAWinner, AddColumn, Ready
<1> QED BY <1>4, <1>6, <1>7, <1>8, <1>9, <1>10 DEF AddColumn

(* One step per action of Next.                                            *)
THEOREM NextKeepsSessionInv == SessionInv /\ [Next]_vars => SessionInv'
<1> SUFFICES ASSUME SessionInv, [Next]_vars PROVE SessionInv'
  OBVIOUS
<1> USE DEF SessionInv, StoreType
<1>1. ASSUME NEW r \in Run, Reset(r) PROVE SessionInv'
  <2>1. UNCHANGED <<schema, handle, ddl, inspected>> /\ path' \in File \union {NoFile}
    BY <1>1 DEF Reset, RemovePath, storeVars
  <2>2. session' = [session EXCEPT ![r] = "reset"] /\ session[r] = "idle"
    BY <1>1 DEF Reset, Become
  <2> QED BY <2>1, <2>2, StoreUntouched DEF RaceHasAWinner, Sessions
<1>2. ASSUME NEW r \in Run, Construct(r) PROVE SessionInv'
  <2>1. /\ session[r] = "reset" /\ session' = [session EXCEPT ![r] = "open"]
        /\ handle[r] = NoFile /\ handle' = [handle EXCEPT ![r] = path']
        /\ path' \in File
        /\ UNCHANGED <<schema, ddl, inspected>>
    BY <1>2 DEF Construct, Open, Become, File
  <2>2. handle' \in [Run -> File \union {NoFile}] /\ session' \in [Run -> Sessions]
    BY <2>1 DEF Sessions
  <2>3. ddl[r] = 1 /\ inspected[r] = "unread"
    BY <2>1 DEF Passed
  <2>4. Passed'
    BY <2>1, <2>3, NamesDiffer DEF Passed
  <2>5. Pending'
    BY <2>1, <2>3 DEF Pending, Overtaken
  <2>6. RaceHasAWinner'
    BY <2>1, <2>3 DEF RaceHasAWinner, Ready
  <2> QED BY <2>1, <2>2, <2>4, <2>5, <2>6, NamesDiffer
<1>3. ASSUME NEW r \in Run, Initialize(r) PROVE SessionInv'
  BY <1>3, CreateKeepsInv, ColumnExistsKeepsInv, ColumnMissingKeepsInv, AddColumnKeepsInv
  DEF Initialize
<1>4. ASSUME NEW r \in Run, LoseRace(r) PROVE SessionInv'
  <2>1. UNCHANGED storeVars /\ session' = [session EXCEPT ![r] = "duplicate"]
    BY <1>4 DEF LoseRace, DuplicateColumn, Become
  <2>2. Passed' /\ Pending'
    BY <2>1, StoreUntouched DEF storeVars
  <2>3. RaceHasAWinner'
    BY <1>4, <2>1 DEF LoseRace, DuplicateColumn, RaceHasAWinner, Pending, Overtaken, storeVars
  <2> QED BY <1>4, <2>1, <2>2, <2>3 DEF LoseRace, storeVars, Sessions, Ended
<1>5. ASSUME NEW r \in Run, Insert(r) PROVE SessionInv'
  BY <1>5, StoreUntouched DEF Insert, InsertRow, RaceHasAWinner
<1>6. ASSUME NEW r \in Run, Close(r) \/ Stop(r) PROVE SessionInv'
  <2>1. UNCHANGED storeVars
    BY <1>6 DEF Close, Stop
  <2>2. Passed' /\ Pending'
    BY <2>1, StoreUntouched DEF storeVars
  <2>3. \E s \in {"returned", "stopped"} : session' = [session EXCEPT ![r] = s]
    BY <1>6 DEF Close, Stop, Become
  <2> QED BY <2>1, <2>2, <2>3 DEF storeVars, Sessions, Ended, RaceHasAWinner
<1>7. ASSUME UNCHANGED vars PROVE SessionInv'
  BY <1>7, StoreUntouched DEF vars, storeVars, RaceHasAWinner
<1> QED BY <1>1, <1>2, <1>3, <1>4, <1>5, <1>6, <1>7 DEF Next, AllEnded

(* What the rows say: typed, together, and none before the store is open.  *)
RowsInv ==
  /\ rows \subseteq File \X Tables \X (Run \X Nat)
  /\ inserted \in [Run -> Nat]
  /\ \A r \in Run : inserted[r] <= MaxRows[r]
  /\ \A r \in Run : handle[r] = NoFile => inserted[r] = 0
  /\ RowsStayTogether

(* The tables start empty.                                                 *)
THEOREM InitRowsInv == Init => RowsInv
  BY MaxRowsAreCounts DEF Init, StoreInit, RowsInv, RowsStayTogether

LEMMA InsertKeepsRows ==
  ASSUME SessionInv, RowsInv, NEW r \in Run, Insert(r)
  PROVE  RowsInv'
<1> DEFINE n == inserted[r] + 1
           new == <<handle[r], "raw_events", <<r, n>>>>
<1>1. /\ handle[r] \in File /\ handle' = handle
      /\ rows' = rows \union {new}
      /\ inserted[r] \in Nat /\ inserted[r] < MaxRows[r]
      /\ inserted' = [inserted EXCEPT ![r] = n]
  BY MaxRowsAreCounts
  DEF Insert, InsertRow, SessionInv, RowsInv, StoreType, Passed, Ready
<1>2. new \in File \X Tables \X (Run \X Nat)
  BY <1>1 DEF Tables
<1>3. inserted' \in [Run -> Nat] /\ \A q \in Run : inserted'[q] <= MaxRows[q]
  <2>1. \A q \in Run : inserted[q] \in Nat /\ MaxRows[q] \in Nat /\ inserted[q] <= MaxRows[q]
    BY MaxRowsAreCounts DEF RowsInv
  <2>2. inserted' \in [Run -> Nat]
    BY <1>1 DEF RowsInv
  <2>3. \A q \in Run : inserted'[q] = IF q = r THEN n ELSE inserted[q]
    BY <1>1 DEF RowsInv
  <2> QED BY <1>1, <2>1, <2>2, <2>3
<1>4. \A q \in Run : handle'[q] = NoFile => inserted'[q] = 0
  BY <1>1, NamesDiffer DEF RowsInv
<1>5. RowsStayTogether'
  <2> SUFFICES ASSUME NEW q \in Run
               PROVE  {row \in rows' : row[3][1] = q}
                        = {<<handle[q], "raw_events", <<q, k>>>> : k \in 1..inserted'[q]}
    BY <1>1 DEF RowsStayTogether
  <2>1. {row \in rows : row[3][1] = q}
          = {<<handle[q], "raw_events", <<q, k>>>> : k \in 1..inserted[q]}
    BY DEF RowsInv, RowsStayTogether
  <2>2. CASE q = r
    <3>1. 1..inserted'[r] = 1..inserted[r] \union {n}
      BY <1>1 DEF RowsInv
    <3>2. {row \in rows' : row[3][1] = r} = {row \in rows : row[3][1] = r} \union {new}
      BY <1>1
    <3> QED BY <2>1, <2>2, <3>1, <3>2
  <2>3. CASE q # r
    <3>1. {row \in rows' : row[3][1] = q} = {row \in rows : row[3][1] = q}
      BY <1>1, <2>3
    <3> QED BY <2>1, <2>3, <3>1, <1>1 DEF RowsInv
  <2> QED BY <2>2, <2>3
<1> QED BY <1>1, <1>2, <1>3, <1>4, <1>5 DEF RowsInv

LEMMA NextKeepsRowsInv == SessionInv /\ RowsInv /\ [Next]_vars => RowsInv'
<1> SUFFICES ASSUME SessionInv, RowsInv, [Next]_vars PROVE RowsInv'
  OBVIOUS
<1>1. ASSUME NEW r \in Run, Construct(r) PROVE RowsInv'
  <2>1. handle[r] = NoFile /\ handle' = [handle EXCEPT ![r] = path']
        /\ UNCHANGED <<rows, inserted>>
    BY <1>1 DEF Construct, Open
  <2>2. inserted[r] = 0
    BY <2>1 DEF RowsInv
  <2>3. \A q \in Run : q # r => handle'[q] = handle[q]
    BY <2>1 DEF SessionInv, StoreType
  <2>4. \A q \in Run : {<<handle'[q], "raw_events", <<q, k>>>> : k \in 1..inserted[q]}
                     = {<<handle[q], "raw_events", <<q, k>>>> : k \in 1..inserted[q]}
    BY <2>2, <2>3 DEF RowsInv
  <2> QED BY <2>1, <2>2, <2>3, <2>4 DEF RowsInv, RowsStayTogether
<1>2. ASSUME UNCHANGED <<rows, handle, inserted>> PROVE RowsInv'
  BY <1>2 DEF RowsInv, RowsStayTogether
<1> QED BY <1>1, <1>2, InsertKeepsRows
        DEF Next, AllEnded, vars, storeVars, Reset, RemovePath, Initialize, CreateTable,
            ColumnExists, ColumnMissing, AddColumn, LoseRace, DuplicateColumn, Close, Stop

(* The invariants of the sessions and of the rows hold in every behaviour  *)
(* of several runs on one file.                                            *)
THEOREM SessionsInductive == Spec => [](SessionInv /\ RowsInv)
  BY InitSessionInv, InitRowsInv, NextKeepsSessionInv, NextKeepsRowsInv, PTL DEF Spec

(* The types of all variables, in every reachable state.                   *)
THEOREM SessionsTypeCorrect == Spec => []TypeOK
  BY SessionsInductive, PTL DEF SessionInv, RowsInv, TypeOK

(* A store whose initialize has returned has the current schema, for any   *)
(* number of runs that create, migrate, insert, reset and stop.            *)
THEOREM InitializedStoresAreCurrent == Spec => []InitializedIsCurrent
<1>1. SessionInv => InitializedIsCurrent
  BY TablesInOrder DEF SessionInv, Passed, InitializedIsCurrent, Ready
<1> QED BY <1>1, SessionsInductive, PTL

(* Of runs that race to migrate one file, those that die of a duplicate    *)
(* column have been overtaken: the one that got furthest is not among them.*)
THEOREM MigrationRaceHasAWinner == Spec => []RaceHasAWinner
  BY SessionsInductive, PTL DEF SessionInv

(* The rows of a run are in the file it opened and nowhere else, whatever  *)
(* becomes of the path.                                                    *)
THEOREM RunRowsStayTogether == Spec => []RowsStayTogether
  BY SessionsInductive, PTL DEF RowsInv
=============================================================================
