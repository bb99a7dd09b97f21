----------------------- MODULE FanotifyCaptureProofs -----------------------
(***************************************************************************)
(* For any limits, files and processes: how many events a capture returns, *)
(* which descriptors it leaves, and whose identity its events carry.       *)
(***************************************************************************)
EXTENDS FanotifyCapture, SequenceTheorems, TLAPS

(* What the parts of a sequence are.                                       *)
LEMMA HeadAndTail ==
  ASSUME NEW S, NEW s \in Seq(S), s # <<>>
  PROVE  /\ Head(s) \in S /\ Head(s) = s[1] /\ 1 \in DOMAIN s
         /\ Tail(s) \in Seq(S) /\ Len(Tail(s)) = Len(s) - 1
         /\ \A i \in DOMAIN Tail(s) : i + 1 \in DOMAIN s /\ Tail(s)[i] = s[i + 1]
         /\ \A i \in DOMAIN s : i # 1 => i - 1 \in DOMAIN Tail(s) /\ s[i] = Tail(s)[i - 1]
<1>1. Len(s) \in Nat \ {0} /\ DOMAIN s = 1..Len(s)
  BY EmptySeq, LenProperties
<1>2. /\ Head(s) \in S /\ Tail(s) \in Seq(S) /\ Len(Tail(s)) = Len(s) - 1
      /\ \A i \in 1..Len(Tail(s)) : Tail(s)[i] = s[i + 1]
  BY HeadTailProperties
<1>3. DOMAIN Tail(s) = 1..(Len(s) - 1)
  BY <1>2, LenProperties
<1>4. Head(s) = s[1]
  OBVIOUS
<1> QED BY <1>1, <1>2, <1>3, <1>4

LEMMA Appended ==
  ASSUME NEW S, NEW s \in Seq(S), NEW e \in S
  PROVE  /\ Append(s, e) \in Seq(S) /\ Len(Append(s, e)) = Len(s) + 1
         /\ DOMAIN Append(s, e) = 1..Len(s) + 1
         /\ \A i \in 1..Len(s) : i \in DOMAIN s /\ Append(s, e)[i] = s[i]
         /\ Append(s, e)[Len(s) + 1] = e
<1>1. Len(s) \in Nat /\ DOMAIN s = 1..Len(s)
  BY LenProperties
<1> QED BY <1>1

LEMMA Split ==
  ASSUME NEW S, NEW s \in Seq(S), NEW k \in 0..Len(s)
  PROVE  /\ SubSeq(s, 1, k) \in Seq(S) /\ Len(SubSeq(s, 1, k)) = k
         /\ SubSeq(s, k + 1, Len(s)) \in Seq(S)
         /\ \A i \in DOMAIN s : \/ i \in DOMAIN SubSeq(s, 1, k)
                               \/ i - k \in DOMAIN SubSeq(s, k + 1, Len(s))
         /\ \A i \in DOMAIN SubSeq(s, 1, k) : i \in DOMAIN s /\ SubSeq(s, 1, k)[i] = s[i]
         /\ \A i \in DOMAIN SubSeq(s, k + 1, Len(s)) :
              i + k \in DOMAIN s /\ SubSeq(s, k + 1, Len(s))[i] = s[i + k]
<1>1. Len(s) \in Nat /\ DOMAIN s = 1..Len(s) /\ \A i \in 1..Len(s) : s[i] \in S
  BY LenProperties, ElementOfSeq
<1> DEFINE front == SubSeq(s, 1, k)
           back == SubSeq(s, k + 1, Len(s))
<1>2. /\ front \in Seq(S) /\ Len(front) = k
      /\ \A i \in 1..k : front[i] = s[i]
  <2>1. \A i \in 1..k : s[i] \in S
    BY <1>1
  <2>2. /\ front \in Seq(S) /\ Len(front) = IF 1 <= k THEN k - 1 + 1 ELSE 0
        /\ \A i \in 1..(k - 1 + 1) : front[i] = s[1 + i - 1]
    BY <2>1, SubSeqProperties
  <2> QED BY <2>2
<1>3. /\ back \in Seq(S) /\ Len(back) = Len(s) - k
      /\ \A i \in 1..(Len(s) - k) : back[i] = s[i + k]
  <2>1. \A i \in (k + 1)..Len(s) : s[i] \in S
    BY <1>1
  <2>2. /\ back \in Seq(S) /\ Len(back) = IF k + 1 <= Len(s) THEN Len(s) - (k + 1) + 1 ELSE 0
        /\ \A i \in 1..(Len(s) - (k + 1) + 1) : back[i] = s[k + 1 + i - 1]
    BY <1>1, <2>1, SubSeqProperties
  <2>3. \A i \in 1..(Len(s) - k) : i \in 1..(Len(s) - (k + 1) + 1) /\ k + 1 + i - 1 = i + k
    BY <1>1
  <2> HIDE DEF back
  <2>4. (IF k + 1 <= Len(s) THEN Len(s) - (k + 1) + 1 ELSE 0) = Len(s) - k
    <3>1. Len(s) \in Int /\ k \in Int /\ k <= Len(s)
      BY <1>1
    <3>2. CASE k + 1 <= Len(s)
      BY <3>1, <3>2
    <3>3. CASE ~(k + 1 <= Len(s))
      <4>1. k = Len(s)
        BY <3>1, <3>3
      <4> QED BY <3>1, <3>3, <4>1
    <3> QED BY <3>2, <3>3
  <2>5. Len(back) = Len(s) - k
    BY <2>2, <2>4
  <2> QED BY <2>2, <2>3, <2>5
<1>4. DOMAIN front = 1..k /\ DOMAIN back = 1..(Len(s) - k)
  BY <1>2, <1>3, LenProperties
<1> HIDE DEF front, back
<1>5. \A i \in DOMAIN front : i \in DOMAIN s /\ front[i] = s[i]
  BY <1>1, <1>2, <1>4
<1>6. \A i \in DOMAIN back : i + k \in DOMAIN s /\ back[i] = s[i + k]
  BY <1>1, <1>3, <1>4
<1>7. \A i \in DOMAIN s : i \in DOMAIN front \/ i - k \in DOMAIN back
  BY <1>1, <1>4
<1> QED BY <1>2, <1>3, <1>5, <1>6, <1>7 DEF front, back
-----------------------------------------------------------------------------
LEMMA Notifications ==
  ASSUME NEW s \in Seq(NotificationType)
  PROVE  /\ \A i \in DOMAIN s : s[i] \in NotificationType
         /\ Ids(s) \subseteq Nat /\ FdsOf(s) \subseteq Ids(s)
<1>1. DOMAIN s = 1..Len(s)
  BY LenProperties
<1>2. \A i \in DOMAIN s : s[i] \in NotificationType
  BY <1>1, ElementOfSeq
<1> QED BY <1>2 DEF Ids, FdsOf, NotificationType

LEMMA ProcessStepTypes ==
  ASSUME ProcType, NEW p \in Pid, Exec(p) \/ Exit(p) \/ Reap(p) \/ ReusePid(p)
  PROVE  process' \in [Pid -> Process]
<1>1. process[p] \in Process
  BY DEF ProcType
<1>2. process[p].image < MaxImage => process[p].image + 1 \in Image
  BY <1>1, ImagesAreCounted DEF Process, Image
<1>3. \E q \in Process : process' = [process EXCEPT ![p] = q]
  <2>1. CASE Exec(p)
    <3>1. [process[p] EXCEPT !.image = @ + 1] \in Process
      BY <1>1, <1>2, <2>1 DEF Exec, Process
    <3> QED BY <2>1, <3>1 DEF Exec, ProcType
  <2>2. CASE Exit(p)
    <3>1. [process[p] EXCEPT !.state = "zombie"] \in Process
      BY <1>1 DEF Process
    <3> QED BY <2>2, <3>1 DEF Exit, ProcType
  <2>3. CASE Reap(p)
    <3>1. [process[p] EXCEPT !.state = "gone"] \in Process
      BY <1>1 DEF Process
    <3> QED BY <2>3, <3>1 DEF Reap, ProcType
  <2>4. CASE ReusePid(p)
    BY <1>1, <1>2, <2>4 DEF ReusePid, ProcType, Process
  <2> QED BY <2>1, <2>2, <2>3, <2>4
<1> QED BY <1>3 DEF ProcType

LEMMA InspectTypes ==
  ASSUME ProcType,
         Inspect \/ \E p \in Pid : InspectPid(p)
  PROVE  ProcType'
<1>1. \A p \in Pid : Call(p, "done") \in Inspection /\ Call(p, "status") \in Inspection
  BY DEF Call, Inspection
<1>2. Subject \in Process /\ inspection \in Inspection /\ inspection.pid \in Pid
  BY DEF Subject, ProcType, Inspection
<1>3. Subject.image \in Image /\ Subject.born \in Image
  BY <1>2 DEF Process
<1>4. process' = process
  BY DEF Inspect, OpenFile, ReadStatus, ReadCmdline, ReadExe, Reading, InspectPid
<1>5. inspection' \in Inspection
  <2>1. CASE \E p \in Pid : InspectPid(p)
    BY <1>1, <2>1 DEF InspectPid
  <2>2. ASSUME NEW there \in BOOLEAN, Nothing(there) PROVE inspection' \in Inspection
    <3>1. Call(inspection.pid, "done") \in Inspection /\ inspection.refused \in BOOLEAN
      BY <1>1, <1>2 DEF Inspection
    <3> QED BY <2>2, <3>1 DEF Nothing, Inspection
  <2>3. CASE OpenFile
    <3>1. CASE Nothing(Subject.state # "gone")
      BY <2>2, <3>1
    <3>2. CASE inspection' = [inspection EXCEPT !.opened = Subject.born]
      BY <1>2, <1>3, <3>2 DEF Inspection
    <3> QED BY <2>3, <3>1, <3>2 DEF OpenFile
  <2>4. CASE ReadStatus
    <3>1. PICK v \in {Empty, Subject.image}, r \in BOOLEAN :
            inspection' = [inspection EXCEPT
              !.status = v, !.opened = NoProcess, !.stage = "cmdline", !.refused = r]
      BY <1>2, <2>4 DEF ReadStatus, Inspection
    <3> QED BY <1>2, <1>3, <3>1 DEF Inspection
  <2>5. CASE ReadCmdline
    <3>1. PICK v \in {Empty, Subject.image}, r \in BOOLEAN :
            inspection' = [inspection EXCEPT
              !.cmdline = v, !.opened = NoProcess, !.stage = "exe", !.refused = r]
      BY <1>2, <2>5 DEF ReadCmdline, Inspection
    <3> QED BY <1>2, <1>3, <3>1 DEF Inspection
  <2>6. CASE ReadExe
    <3>1. CASE Nothing(Subject.state = "running")
      BY <2>2, <3>1
    <3>2. CASE inspection' = [inspection EXCEPT !.exe = Subject.image, !.found = TRUE,
                                                !.stage = "done"]
      BY <1>2, <1>3, <3>2 DEF Inspection
    <3> QED BY <2>6, <3>1, <3>2 DEF ReadExe
  <2> QED BY <2>1, <2>3, <2>4, <2>5, <2>6 DEF Inspect
<1> QED BY <1>4, <1>5 DEF ProcType

(* Types; an event is only enriched while it is in the buffer.             *)
TypeInv == TypeOK /\ (pc = "inspect" => batch # <<>>)

(* A capture starts with every variable in its type.                       *)
THEOREM InitTypeInv == Init => TypeInv
<1> SUFFICES ASSUME Init PROVE TypeInv
  OBVIOUS
<1>1. ProcType
  <2>1. PICK p \in Pid : inspection = Call(p, "done")
    BY DEF Init, ProcInit
  <2>2. inspection \in Inspection
    BY <2>1 DEF Call, Inspection
  <2>3. process \in [Pid -> Process]
    BY ImagesAreCounted DEF Init, ProcInit, Process, Image
  <2> QED BY <2>2, <2>3 DEF ProcType
<1>2. <<>> \in Seq(NotificationType) /\ <<>> \in Seq(CapturedEvent)
  BY EmptySeq
<1> QED BY <1>1, <1>2 DEF Init, TypeInv, TypeOK, Stages, Ended, Failed

LEMMA FittingFits == ASSUME TypeOK PROVE Fitting \in 0..Len(queue) /\ Fitting <= BufferEvents
<1>1. Len(queue) \in Nat
  BY LenProperties DEF TypeOK
<1> QED BY <1>1, LimitsAreNumbers DEF Fitting

(* No step of the kernel, of a process or of collectEvents leaves the      *)
(* types.                                                                  *)
THEOREM NextTypeInv == TypeInv /\ [Next]_vars => TypeInv'
<1> SUFFICES ASSUME TypeInv, [Next]_vars PROVE TypeInv'
  OBVIOUS
<1> USE DEF TypeInv, TypeOK, GoTo, Stages, Ended, Failed, group
<1>0. /\ CloseGroup => /\ queue' \in Seq(NotificationType) /\ discarded' \subseteq Nat
                       /\ fan_fd' \in {"none", "open", "closed"}
      /\ \A stage : Throw(stage) => CloseGroup /\ captured_events' \in Seq(CapturedEvent) /\ pc' = stage
  <2>1. Ids(queue) \subseteq Nat
    BY Notifications
  <2>2. <<>> \in Seq(NotificationType) /\ <<>> \in Seq(CapturedEvent)
    BY EmptySeq
  <2> QED BY <2>1, <2>2 DEF CloseGroup, Throw
<1>1. ASSUME NEW p \in Pid, NEW file \in WatchedFile, Notify(p, file) PROVE TypeInv'
  <2>1. /\ Notification(notified + 1, p, file) \in NotificationType
        /\ Overflow(notified + 1, p) \in NotificationType
    BY DEF Overflow, Notification, NotificationType, ProcType
  <2>2. queue' \in Seq(NotificationType)
    <3>1. \/ queue' = Append(queue, Notification(notified + 1, p, file))
          \/ queue' = Append(queue, Overflow(notified + 1, p))
          \/ queue' = queue
      BY <1>1 DEF Notify
    <3>2. \A e \in NotificationType : Append(queue, e) \in Seq(NotificationType)
      BY Appended
    <3> QED BY <2>1, <3>1, <3>2
  <2>3. notified' \in Nat /\ excused' \subseteq Nat
    <3>1. notified' = notified + 1 /\ excused' \in {excused, excused \union {notified + 1}}
      BY <1>1 DEF Notify
    <3> QED BY <3>1
  <2> QED BY <1>1, <2>2, <2>3 DEF Notify, procVars, ProcType
<1>2. ASSUME Rename PROVE TypeInv'
  <2>1. Ids(queue) \subseteq Nat /\ Ids(batch) \subseteq Nat
    BY Notifications
  <2> QED BY <1>2, <2>1 DEF Rename, captureVars, procVars, ProcType
<1>3. ASSUME Tick PROVE TypeInv'
  BY <1>3 DEF Tick, kernelVars, procVars, ProcType
<1>4. ASSUME CreateGroup \/ LoopCondition \/ Poll \/ EndBatch \/ VersionMismatch PROVE TypeInv'
  <2>1. /\ pc' \in Stages \ {"inspect"} /\ captured_events' \in Seq(CapturedEvent)
        /\ CloseGroup \/ (UNCHANGED <<queue, discarded>> /\ fan_fd' \in {fan_fd, "open"})
    BY <1>0, <1>4 DEF CreateGroup, LoopCondition, Poll, EndBatch, VersionMismatch
  <2>2. UNCHANGED <<remaining, batch, open_fds, kernelVars, procVars>>
    BY <1>4 DEF CreateGroup, LoopCondition, Poll, EndBatch, VersionMismatch
  <2> QED BY <1>0, <2>1, <2>2 DEF kernelVars, procVars, ProcType
<1>5. ASSUME MarkPath PROVE TypeInv'
  BY <1>0, <1>5, LimitsAreNumbers DEF MarkPath, kernelVars, procVars, ProcType
<1>6. ASSUME Read PROVE TypeInv'
  <2>1. batch' \in Seq(NotificationType) /\ queue' \in Seq(NotificationType)
    <3>1. Fitting \in 0..Len(queue)
      BY FittingFits
    <3>2. /\ SubSeq(queue, 1, Fitting) \in Seq(NotificationType)
          /\ SubSeq(queue, Fitting + 1, Len(queue)) \in Seq(NotificationType)
      BY <3>1, Split
    <3> QED BY <1>0, <1>6, <3>2 DEF Read
  <2>2. FdsOf(batch') \subseteq Nat
    BY <2>1, Notifications
  <2>3. pc' \in Stages \ {"inspect"} /\ captured_events' \in Seq(CapturedEvent)
    BY <1>0, <1>6 DEF Read
  <2>4. fan_fd' \in {"none", "open", "closed"} /\ discarded' \subseteq Nat
    BY <1>0, <1>6 DEF Read
  <2>5. open_fds' \subseteq Nat
    BY <1>6, <2>2 DEF Read
  <2>6. UNCHANGED <<remaining, kernelVars, procVars>>
    BY <1>6 DEF Read
  <2> QED BY <2>1, <2>3, <2>4, <2>5, <2>6 DEF kernelVars, procVars, ProcType
<1>7. ASSUME Handle PROVE TypeInv'
  <2>1. Head(batch) \in NotificationType /\ Tail(batch) \in Seq(NotificationType)
    BY <1>7, HeadAndTail DEF Handle
  <2>2. Head(batch).pid \in Pid /\ Head(batch).id \in Nat
    BY <2>1 DEF NotificationType
  <2>3. ProcType'
    BY <1>7, <2>2, InspectTypes DEF Handle, procVars, ProcType
  <2> QED BY <1>7, <2>1, <2>2, <2>3 DEF Handle
<1>8. ASSUME SkipOverflow PROVE TypeInv'
  <2>1. Tail(batch) \in Seq(NotificationType)
    BY <1>8, HeadAndTail DEF SkipOverflow
  <2> QED BY <1>8, <2>1 DEF SkipOverflow, kernelVars, procVars, ProcType
<1>9. ASSUME InspectProcess PROVE TypeInv'
  BY <1>9, InspectTypes DEF InspectProcess, captureVars, kernelVars
<1>10. ASSUME Capture PROVE TypeInv'
  <2>1. Head(batch) \in NotificationType /\ Tail(batch) \in Seq(NotificationType)
    BY <1>10, HeadAndTail DEF Capture
  <2>2. FileAccessEvent(Head(batch), inspection) \in CapturedEvent
    BY <2>1 DEF FileAccessEvent, CapturedEvent, NotificationType, ProcType, Inspection
  <2>3. captured_events' \in Seq(CapturedEvent)
    BY <1>10, <2>2, Appended DEF Capture
  <2> QED BY <1>10, <2>1, <2>3 DEF Capture, kernelVars, procVars, ProcType
<1>11. ASSUME ProcessStep, UNCHANGED <<captureVars, kernelVars>> PROVE TypeInv'
  <2>1. ProcType'
    BY <1>11, ProcessStepTypes DEF ProcessStep, ProcType
  <2> QED BY <1>11, <2>1 DEF captureVars, kernelVars
<1>12. ASSUME UNCHANGED vars PROVE TypeInv'
  BY <1>12 DEF vars, captureVars, kernelVars, procVars, ProcType
<1> QED
  BY <1>1, <1>2, <1>3, <1>4, <1>5, <1>6, <1>7, <1>8, <1>9, <1>10, <1>11, <1>12
  DEF Next, Step, Environment, Returned

(* Every variable of the capture keeps its type in every behaviour.        *)
THEOREM CaptureTypeInvariant == Spec => []TypeInv
  BY InitTypeInv, NextTypeInv, PTL DEF Spec

(* The types of all variables, in every reachable state.                   *)
THEOREM CaptureTypeCorrect == Spec => []TypeOK
  BY CaptureTypeInvariant, PTL DEF TypeInv
-----------------------------------------------------------------------------
(* The length of the result.  Between batches the buffer is empty; the     *)
(* condition of the loop holds until the read, which adds what fits.       *)
Unbuffered == {"init", "mark", "loop", "poll", "read", "returned", "thrown"}

BoundInv ==
  /\ pc \in Unbuffered => batch = <<>>
  /\ pc \in {"poll", "read"} => Len(captured_events) < MaxEvents
  /\ pc \in {"batch", "inspect"} =>
       Len(captured_events) + Len(batch) <= MaxEvents - 1 + BufferEvents
  /\ CapturedIsBounded

LEMMA Lengths ==
  ASSUME TypeInv
  PROVE  /\ Len(captured_events) \in Nat /\ Len(batch) \in Nat /\ Len(queue) \in Nat
         /\ batch # <<>> => Len(Tail(batch)) = Len(batch) - 1
         /\ MaxEvents \in Int /\ BufferEvents \in Nat
<1>1. batch # <<>> => Len(Tail(batch)) = Len(batch) - 1
  BY HeadAndTail DEF TypeInv, TypeOK
<1>2. Len(captured_events) \in Nat /\ Len(batch) \in Nat /\ Len(queue) \in Nat
  BY LenProperties DEF TypeInv, TypeOK
<1> QED BY <1>1, <1>2, LimitsAreNumbers

(* No step reports more than max_events or handles metadata outside the    *)
(* buffer that was read.                                                   *)
THEOREM NextBoundInv == TypeInv /\ BoundInv /\ [Next]_vars => BoundInv'
<1> SUFFICES ASSUME TypeInv, BoundInv, [Next]_vars PROVE BoundInv'
  OBVIOUS
<1> USE DEF BoundInv, Unbuffered, CapturedIsBounded, GoTo, Throw
<1>1. ASSUME UNCHANGED <<pc, batch, captured_events>> PROVE BoundInv'
  BY <1>1
<1>2. ASSUME Environment \/ InspectProcess \/ UNCHANGED vars PROVE BoundInv'
  BY <1>1, <1>2 DEF Environment, Notify, Rename, Tick, InspectProcess, vars, captureVars
<1>3. ASSUME CreateGroup \/ MarkPath \/ LoopCondition \/ Poll \/ EndBatch \/ VersionMismatch
      PROVE  BoundInv'
  BY <1>3 DEF CreateGroup, MarkPath, LoopCondition, Poll, EndBatch, VersionMismatch
<1>4. ASSUME Read PROVE BoundInv'
  <2>1. CASE batch' = SubSeq(queue, 1, Fitting) /\ pc' = "batch"
    <3>1. Len(batch') = Fitting /\ Fitting \in Nat /\ Fitting <= BufferEvents
      <4>1. Fitting \in 0..Len(queue) /\ Fitting <= BufferEvents
        BY FittingFits DEF TypeInv
      <4>2. Len(SubSeq(queue, 1, Fitting)) = Fitting
        BY <4>1, Split DEF TypeInv, TypeOK
      <4> QED BY <2>1, <4>1, <4>2, Lengths
    <3>2. Len(captured_events) < MaxEvents /\ captured_events' = captured_events
      BY <1>4, <2>1 DEF Read
    <3>3. Len(captured_events) + Len(batch') <= MaxEvents - 1 + BufferEvents
      BY <3>1, <3>2, Lengths
    <3> QED BY <2>1, <3>2, <3>3
  <2>2. CASE /\ batch' = batch /\ pc' \in {"loop", "thrown"}
             /\ captured_events' = captured_events \/ captured_events' = <<>>
    BY <1>4, <2>2 DEF Read
  <2> QED BY <1>4, <2>1, <2>2 DEF Read
<1>5. ASSUME Handle \/ SkipOverflow PROVE BoundInv'
  <2>1. /\ captured_events' = captured_events /\ pc = "batch" /\ batch # <<>>
        /\ pc' \in {"batch", "inspect"} /\ batch' \in {batch, Tail(batch)}
    BY <1>5 DEF Handle, SkipOverflow
  <2>2. Len(batch') <= Len(batch) /\ Len(batch') \in Int
    BY <2>1, Lengths
  <2>3. Len(captured_events) + Len(batch') <= MaxEvents - 1 + BufferEvents
    BY <2>1, <2>2, Lengths
  <2> QED BY <2>1, <2>3
<1>6. ASSUME Capture PROVE BoundInv'
  <2>1. pc = "inspect" /\ pc' = "batch" /\ batch' = Tail(batch) /\ batch # <<>>
    BY <1>6 DEF Capture, TypeInv
  <2>2. Len(captured_events') = Len(captured_events) + 1
    BY <1>6, LenProperties DEF Capture, TypeInv, TypeOK
  <2>3. Len(captured_events') + Len(batch') <= MaxEvents - 1 + BufferEvents
    BY <2>1, <2>2, Lengths
  <2> QED BY <2>1, <2>3
<1> QED BY <1>2, <1>3, <1>4, <1>5, <1>6 DEF Next, Step, Returned

(* The bounds of buffer and report hold in every behaviour.                *)
THEOREM CaptureBoundInvariant == Spec => []BoundInv
<1>1. Init => BoundInv
  BY DEF Init, BoundInv, Unbuffered, CapturedIsBounded
<1> QED BY <1>1, NextBoundInv, CaptureTypeInvariant, PTL DEF Spec

(* However accesses come, a capture returns less than max_events and one   *)
(* buffer of events together (FileTelemetry.cpp:66-131).                   *)
THEOREM CaptureIsBounded == Spec => []CapturedIsBounded
  BY CaptureBoundInvariant, PTL DEF BoundInv
-----------------------------------------------------------------------------
(* Descriptors.  That of the event in hand is closed before it is enriched.*)
FdInv ==
  /\ open_fds \subseteq FdsOf(batch)
  /\ pc = "inspect" => open_fds \subseteq FdsOf(Tail(batch))
  /\ pc \in Ended \union {"init"} => fan_fd # "open"

LEMMA FdsOfTail ==
  ASSUME TypeInv, batch # <<>>
  PROVE  FdsOf(batch) \subseteq FdsOf(Tail(batch)) \union
                                (IF HasFd(Head(batch)) THEN {Head(batch).id} ELSE {})
<1>1. /\ Head(batch) = batch[1]
      /\ \A i \in DOMAIN batch : i # 1 =>
           i - 1 \in DOMAIN Tail(batch) /\ batch[i] = Tail(batch)[i - 1]
  BY HeadAndTail DEF TypeInv, TypeOK
<1> SUFFICES ASSUME NEW i \in DOMAIN batch, HasFd(batch[i])
             PROVE  batch[i].id \in FdsOf(Tail(batch)) \union
                                     (IF HasFd(Head(batch)) THEN {Head(batch).id} ELSE {})
  BY DEF FdsOf
<1>2. CASE i = 1
  BY <1>1, <1>2
<1>3. CASE i # 1
  BY <1>1, <1>3 DEF FdsOf
<1> QED BY <1>2, <1>3

(* Each step keeps the account of descriptors: an open one belongs to      *)
(* metadata still in the buffer, and the group is not open before the      *)
(* capture or after it.                                                    *)
THEOREM NextFdInv == TypeInv /\ BoundInv /\ FdInv /\ [Next]_vars => FdInv'
<1> SUFFICES ASSUME TypeInv, BoundInv, FdInv, [Next]_vars PROVE FdInv'
  OBVIOUS
<1> USE DEF FdInv, GoTo, Ended, Failed, group, CloseGroup, Throw
<1>1. ASSUME UNCHANGED <<pc, batch, open_fds, fan_fd>> PROVE FdInv'
  BY <1>1 DEF FdsOf, HasFd
<1>2. ASSUME Environment \/ InspectProcess \/ UNCHANGED vars PROVE FdInv'
  BY <1>1, <1>2 DEF Environment, Notify, Rename, Tick, InspectProcess, vars, captureVars
<1>3. ASSUME CreateGroup \/ MarkPath \/ LoopCondition \/ Poll \/ EndBatch \/ VersionMismatch
      PROVE  FdInv'
  <2>1. batch' = batch /\ open_fds' = open_fds
    BY <1>3 DEF CreateGroup, MarkPath, LoopCondition, Poll, EndBatch, VersionMismatch
  <2>2. FdsOf(batch)' = FdsOf(batch)
    BY <2>1 DEF FdsOf, HasFd
  <2> QED BY <1>3, <2>1, <2>2
          DEF CreateGroup, MarkPath, LoopCondition, Poll, EndBatch, VersionMismatch
<1>4. ASSUME Read PROVE FdInv'
  <2>1. open_fds = {}
    <3>1. batch = <<>>
      BY <1>4 DEF Read, BoundInv, Unbuffered
    <3> QED BY <3>1 DEF FdsOf
  <2>2. FdsOf(batch') = FdsOf(batch)'
    BY DEF FdsOf, HasFd
  <2> QED BY <1>4, <2>1, <2>2 DEF Read
<1>5. ASSUME Handle PROVE FdInv'
  <2>1. /\ batch # <<>> /\ HasFd(Head(batch)) /\ open_fds' = open_fds \ {Head(batch).id}
        /\ fan_fd' = fan_fd /\ pc = "batch"
        /\ \/ batch' = batch /\ pc' = "inspect"
           \/ batch' = Tail(batch) /\ pc' = "batch"
    BY <1>5 DEF Handle
  <2>2. open_fds' \subseteq FdsOf(Tail(batch)) /\ open_fds' \subseteq FdsOf(batch)
    BY <2>1, FdsOfTail
  <2>3. FdsOf(batch)' = FdsOf(batch') /\ FdsOf(Tail(batch))' = FdsOf(Tail(batch'))
    BY DEF FdsOf, HasFd
  <2> QED BY <2>1, <2>2, <2>3
<1>6. ASSUME SkipOverflow PROVE FdInv'
  <2>1. FdsOf(batch)' = FdsOf(batch')
    BY DEF FdsOf, HasFd
  <2>2. open_fds \subseteq FdsOf(Tail(batch))
    BY <1>6, FdsOfTail DEF SkipOverflow
  <2> QED BY <1>6, <2>1, <2>2 DEF SkipOverflow
<1>7. ASSUME Capture PROVE FdInv'
  <2>1. FdsOf(batch)' = FdsOf(batch')
    BY DEF FdsOf, HasFd
  <2> QED BY <1>7, <2>1 DEF Capture
<1> QED BY <1>2, <1>3, <1>4, <1>5, <1>6, <1>7 DEF Next, Step, Returned

(* The account of descriptors holds in every behaviour.                    *)
THEOREM CaptureFdInvariant == Spec => []FdInv
<1>1. Init => FdInv
  BY DEF Init, FdInv, Ended, Failed
<1> QED BY <1>1, NextFdInv, CaptureBoundInvariant, CaptureTypeInvariant, PTL DEF Spec

(* Only metadata of another version can leave descriptors open             *)
(* (FileTelemetry.cpp:107-135).                                            *)
THEOREM CaptureClosesDescriptors == Spec => []NoDescriptorLeak
<1>1. TypeInv /\ BoundInv /\ FdInv => NoDescriptorLeak
  <2> SUFFICES ASSUME TypeInv, BoundInv, FdInv PROVE NoDescriptorLeak
    OBVIOUS
  <2>1. FdsOf(batch) \subseteq Ids(batch)
    BY DEF FdsOf, Ids
  <2>2. batch = <<>> => FdsOf(batch) = {}
    BY DEF FdsOf
  <2> QED BY <2>1, <2>2 DEF FdInv, BoundInv, Unbuffered, NoDescriptorLeak, Ended, Failed
<1> QED BY <1>1, CaptureFdInvariant, CaptureBoundInvariant, CaptureTypeInvariant, PTL
-----------------------------------------------------------------------------
(* Identities.  Images of a pid only grow in number, so what was read is   *)
(* between the image of the access and the present one, in the order of    *)
(* the reads; and a process that is as it was then has not changed between.*)
InOrder(a, s, c, x, n) ==
  /\ a <= n
  /\ s # Empty => a <= s /\ s <= n
  /\ c # Empty => a <= c /\ c <= n /\ (s # Empty => s <= c)
  /\ x # Empty => a <= x /\ x <= n /\ (s # Empty => s <= x) /\ (c # Empty => c <= x)

(* What is known of the actor of a notification, by stage of the call.     *)
Known(info, actor) ==
  /\ info.stage \in {"status", "cmdline"} => info.opened \in {NoProcess, actor.born}
  /\ info.stage # "status" => info.status = actor.image
  /\ info.stage \in {"exe", "done"} => info.cmdline = actor.image
  /\ info.stage = "done" => info.found /\ info.exe = actor.image

Unread(info) ==
  /\ info.stage = "status" => info.status = Empty /\ info.cmdline = Empty
  /\ info.stage = "cmdline" => info.cmdline = Empty
  /\ info.stage # "done" => info.exe = Empty

Past(entry) == entry.actor.state = "running" /\ entry.actor.image <= process[entry.pid].image

Follows(entry) ==
  /\ inspection.pid = entry.pid /\ Unread(inspection)
  /\ InOrder(entry.actor.image, inspection.status, inspection.cmdline, inspection.exe,
             process[entry.pid].image)
  /\ (process[entry.pid] = entry.actor /\ entry.pid > 0 /\ ~inspection.refused)
       => Known(inspection, entry.actor)

EventInOrder(e) == InOrder(e.actor.image, e.status, e.cmdline, e.exe, e.now.image)
EventIsKnown(e) ==
  (e.now = e.actor /\ e.pid > 0 /\ ~e.refused) =>
    e.found /\ {e.status, e.cmdline, e.exe} = {e.actor.image}

IdentityInv ==
  /\ \A i \in DOMAIN queue : Past(queue[i])
  /\ \A i \in DOMAIN batch : Past(batch[i])
  /\ pc = "inspect" => Follows(Head(batch))
  /\ \A i \in DOMAIN captured_events :
       EventInOrder(captured_events[i]) /\ EventIsKnown(captured_events[i])

(* What a process is later.                                                *)
LEMMA ProcessesAge ==
  ASSUME TypeInv, ProcessStep, NEW q \in Pid
  PROVE  /\ process[q].image \in Int /\ process'[q].image \in Int
         /\ process[q].image <= process'[q].image
         /\ \/ process'[q] = process[q]
            \/ process'[q].state # "running"
            \/ process[q].image < process'[q].image
<1>1. PICK p \in Pid : Exec(p) \/ Exit(p) \/ Reap(p) \/ ReusePid(p)
  BY DEF ProcessStep
<1>2. process \in [Pid -> Process] /\ process[q].image \in Int
  BY DEF TypeInv, TypeOK, ProcType, Process, Image
<1>3. CASE p # q
  BY <1>1, <1>2, <1>3 DEF Exec, Exit, Reap, ReusePid
<1>4. CASE p = q
  <2>1. CASE Exec(p)
    BY <1>2, <1>4, <2>1 DEF Exec, Process
  <2>2. CASE Exit(p)
    BY <1>2, <1>4, <2>2 DEF Exit, Process
  <2>3. CASE Reap(p)
    BY <1>2, <1>4, <2>3 DEF Reap, Process
  <2>4. CASE ReusePid(p)
    BY <1>2, <1>4, <2>4 DEF ReusePid, Process
  <2> QED BY <1>1, <2>1, <2>2, <2>3, <2>4
<1> QED BY <1>3, <1>4

LEMMA PastStaysPast ==
  ASSUME TypeInv, ProcessStep, NEW e \in NotificationType, Past(e)
  PROVE  Past(e)'
<1>1. e.pid \in Pid /\ e.actor.image \in Int
  BY DEF NotificationType, Process, Image
<1>2. /\ process[e.pid].image \in Int /\ process'[e.pid].image \in Int
      /\ process[e.pid].image <= process'[e.pid].image
  BY <1>1, ProcessesAge
<1> QED BY <1>1, <1>2 DEF Past

LEMMA InspectionFacts ==
  ASSUME TypeInv
  PROVE  /\ inspection.status \in Int /\ inspection.cmdline \in Int /\ inspection.exe \in Int
         /\ inspection.pid \in Pid /\ inspection.refused \in BOOLEAN
  BY DEF TypeInv, TypeOK, ProcType, Inspection, Image, Empty

LEMMA FollowsStays ==
  ASSUME TypeInv, ProcessStep, NEW e \in NotificationType, Past(e), Follows(e)
  PROVE  Follows(e)'
<1>1. e.pid \in Pid /\ e.actor.image \in Int
  BY DEF NotificationType, Process, Image
<1>2. /\ process[e.pid].image \in Int /\ process'[e.pid].image \in Int
      /\ process[e.pid].image <= process'[e.pid].image
      /\ \/ process'[e.pid] = process[e.pid]
         \/ process'[e.pid].state # "running"
         \/ process[e.pid].image < process'[e.pid].image
  BY <1>1, ProcessesAge
<1>3. inspection' = inspection
  BY DEF ProcessStep
<1>4. InOrder(e.actor.image, inspection.status, inspection.cmdline, inspection.exe,
              process'[e.pid].image)
  BY <1>1, <1>2, InspectionFacts DEF Follows, InOrder
<1>5. process'[e.pid] = e.actor => process[e.pid] = e.actor
  BY <1>1, <1>2 DEF Past
<1> QED BY <1>3, <1>4, <1>5 DEF Follows, Known, Unread

LEMMA InspectionFollows ==
  ASSUME TypeInv, Inspect, NEW e \in NotificationType, Past(e), Follows(e)
  PROVE  Follows(e)'
<1>1. /\ e.pid \in Pid /\ e.actor.image \in Int /\ process[e.pid].image \in Int
      /\ process[e.pid].image # Empty /\ e.actor.born # NoProcess
  <2>1. e.pid \in Pid /\ e.actor \in Process /\ process \in [Pid -> Process]
    BY DEF NotificationType, TypeInv, TypeOK, ProcType
  <2>2. \A q \in Process : q.image \in Int /\ q.image # Empty /\ q.born # NoProcess
    BY DEF Process, Image, Empty, NoProcess
  <2> QED BY <2>1, <2>2
<1>2. process' = process /\ Subject = process[e.pid] /\ e.actor.state = "running"
  BY DEF Inspect, OpenFile, ReadStatus, ReadCmdline, ReadExe, Reading, Subject, Follows, Past
<1>3. inspection \in Inspection /\ InOrder(e.actor.image, inspection.status,
        inspection.cmdline, inspection.exe, process[e.pid].image)
  BY DEF TypeInv, TypeOK, ProcType, Follows
<1>4. InOrder(e.actor.image, Empty, Empty, Empty, process[e.pid].image)
  BY DEF InOrder, Past
<1>5. ASSUME NEW there \in BOOLEAN, Nothing(there),
             process[e.pid] = e.actor /\ e.pid > 0 => there
      PROVE  Follows(e)'
  <2>1. /\ inspection'.pid = inspection.pid /\ inspection'.stage = "done"
        /\ inspection'.status = Empty /\ inspection'.cmdline = Empty
        /\ inspection'.exe = Empty /\ inspection'.refused = (inspection.refused \/ there)
    BY <1>5 DEF Nothing, Call
  <2> QED BY <1>2, <1>4, <1>5, <2>1 DEF Follows, Unread
<1>6. CASE OpenFile
  <2>1. CASE Nothing(Subject.state # "gone")
    BY <1>2, <1>5, <2>1
  <2>2. CASE inspection' = [inspection EXCEPT !.opened = Subject.born]
    <3>1. /\ inspection'.pid = inspection.pid /\ inspection'.stage = inspection.stage
          /\ inspection'.status = inspection.status /\ inspection'.cmdline = inspection.cmdline
          /\ inspection'.exe = inspection.exe /\ inspection'.found = inspection.found
          /\ inspection'.opened = Subject.born /\ inspection'.refused = inspection.refused
      BY <1>3, <2>2 DEF Inspection
    <3> QED BY <1>2, <1>3, <3>1 DEF Follows, Known, Unread
  <2> QED BY <1>6, <2>1, <2>2 DEF OpenFile
<1>7. CASE ReadStatus
  <2>1. PICK v \in {Subject.image, Empty}, r \in BOOLEAN :
          /\ inspection' = [inspection EXCEPT !.status = v, !.opened = NoProcess,
                                              !.stage = "cmdline", !.refused = r]
          /\ r = (inspection.refused \/ (StillThere /\ v = Empty))
    BY <1>3, <1>7 DEF ReadStatus, Inspection
  <2>2. /\ inspection'.pid = inspection.pid /\ inspection'.stage = "cmdline"
        /\ inspection'.status = v /\ inspection'.cmdline = inspection.cmdline
        /\ inspection'.exe = inspection.exe /\ inspection'.found = inspection.found
        /\ inspection'.opened = NoProcess /\ inspection'.refused = r
    BY <1>3, <2>1 DEF Inspection
  <2>3. inspection.cmdline = Empty /\ inspection.exe = Empty
    BY <1>7 DEF ReadStatus, Reading, Follows, Unread
  <2>4. InOrder(e.actor.image, v, Empty, Empty, process[e.pid].image)
    BY <1>1, <1>2, <1>4, <2>1 DEF InOrder
  <2>5. (process[e.pid] = e.actor /\ e.pid > 0 /\ ~r) => v = e.actor.image
    BY <1>2, <1>7, <2>1 DEF ReadStatus, Reading, StillThere, Follows, Known
  <2> QED BY <1>2, <2>2, <2>3, <2>4, <2>5 DEF Follows, Known, Unread
<1>8. CASE ReadCmdline
  <2>1. PICK v \in {Subject.image, Empty}, r \in BOOLEAN :
          /\ inspection' = [inspection EXCEPT !.cmdline = v, !.opened = NoProcess,
                                              !.stage = "exe", !.refused = r]
          /\ r = (inspection.refused \/ (HasCmdline /\ v = Empty))
    BY <1>3, <1>8 DEF ReadCmdline, Inspection
  <2>2. /\ inspection'.pid = inspection.pid /\ inspection'.stage = "exe"
        /\ inspection'.status = inspection.status /\ inspection'.cmdline = v
        /\ inspection'.exe = inspection.exe /\ inspection'.found = inspection.found
        /\ inspection'.refused = r
    BY <1>3, <2>1 DEF Inspection
  <2>3. inspection.exe = Empty
    BY <1>8 DEF ReadCmdline, Reading, Follows, Unread
  <2>4. InOrder(e.actor.image, inspection.status, v, Empty, process[e.pid].image)
    BY <1>1, <1>2, <1>3, <2>1, InspectionFacts DEF InOrder
  <2>5. (process[e.pid] = e.actor /\ e.pid > 0 /\ ~r) =>
          v = e.actor.image /\ inspection.status = e.actor.image
    BY <1>2, <1>8, <2>1 DEF ReadCmdline, Reading, HasCmdline, StillThere, Follows, Known
  <2> QED BY <1>2, <2>2, <2>3, <2>4, <2>5 DEF Follows, Known, Unread
<1>9. CASE ReadExe
  <2>1. CASE Nothing(Subject.state = "running")
    BY <1>2, <1>5, <2>1
  <2>2. CASE inspection' = [inspection EXCEPT !.exe = Subject.image, !.found = TRUE,
                                              !.stage = "done"]
    <3>1. /\ inspection'.pid = inspection.pid /\ inspection'.stage = "done"
          /\ inspection'.status = inspection.status /\ inspection'.cmdline = inspection.cmdline
          /\ inspection'.exe = Subject.image /\ inspection'.found = TRUE
          /\ inspection'.refused = inspection.refused
      BY <1>3, <2>2 DEF Inspection
    <3>2. InOrder(e.actor.image, inspection.status, inspection.cmdline, Subject.image,
                  process[e.pid].image)
      BY <1>1, <1>2, <1>3, InspectionFacts DEF InOrder
    <3>3. (process[e.pid] = e.actor /\ e.pid > 0 /\ ~inspection.refused) =>
            /\ inspection.status = e.actor.image /\ inspection.cmdline = e.actor.image
            /\ Subject.image = e.actor.image
      BY <1>2, <1>9 DEF ReadExe, Reading, Follows, Known
    <3> QED BY <1>2, <3>1, <3>2, <3>3 DEF Follows, Known, Unread
  <2> QED BY <1>9, <2>1, <2>2 DEF ReadExe
<1> QED BY <1>6, <1>7, <1>8, <1>9 DEF Inspect

(* A call begins with nothing read.                                        *)
LEMMA CallFollows ==
  ASSUME NEW e \in NotificationType, Past(e), InspectPid(e.pid), e.pid \in Int
  PROVE  Follows(e)'
<1>1. process' = process /\ inspection' = Call(e.pid, IF e.pid <= 0 THEN "done" ELSE "status")
  BY DEF InspectPid
<1>2. CASE e.pid <= 0
  BY <1>1, <1>2 DEF Call, Follows, Known, Unread, InOrder, Past
<1>3. CASE e.pid > 0
  BY <1>1, <1>3 DEF Call, Follows, Known, Unread, InOrder, Past
<1> QED BY <1>2, <1>3

(* Each step keeps what reports say of a process: it was inspected after   *)
(* the access, and is known as long as it did not change.                  *)
THEOREM NextIdentityInv == TypeInv /\ BoundInv /\ IdentityInv /\ [Next]_vars => IdentityInv'
<1> SUFFICES ASSUME TypeInv, BoundInv, IdentityInv, [Next]_vars PROVE IdentityInv'
  OBVIOUS
<1> USE DEF IdentityInv, GoTo, group
<1>1. /\ \A i \in DOMAIN queue : queue[i] \in NotificationType
      /\ \A i \in DOMAIN batch : batch[i] \in NotificationType
  BY Notifications DEF TypeInv, TypeOK
<1>2. ASSUME batch # <<>>
      PROVE  /\ Head(batch) \in NotificationType /\ Past(Head(batch))
             /\ \A i \in DOMAIN Tail(batch) : Past(Tail(batch)[i])
  <2>1. /\ Head(batch) = batch[1] /\ 1 \in DOMAIN batch
        /\ \A i \in DOMAIN Tail(batch) : i + 1 \in DOMAIN batch /\ Tail(batch)[i] = batch[i + 1]
    BY <1>2, HeadAndTail DEF TypeInv, TypeOK
  <2> QED BY <1>1, <2>1
<1>3. pc = "inspect" => batch # <<>>
  BY DEF TypeInv
<1>4. ASSUME process' = process, inspection' = inspection,
             queue' = queue \/ queue' = <<>>,
             captured_events' = captured_events \/ captured_events' = <<>>,
             batch' = batch \/ (batch # <<>> /\ batch' = Tail(batch)),
             pc' = "inspect" => pc = "inspect" /\ batch' = batch
      PROVE  IdentityInv'
  BY <1>2, <1>4 DEF Past, Follows
<1>5. ASSUME CreateGroup \/ MarkPath \/ LoopCondition \/ Poll \/ EndBatch \/ VersionMismatch
             \/ SkipOverflow \/ Rename \/ Tick \/ UNCHANGED vars
      PROVE  IdentityInv'
  BY <1>4, <1>5 DEF CreateGroup, MarkPath, LoopCondition, Poll, EndBatch, VersionMismatch,
                   SkipOverflow, Rename, Tick, vars, captureVars, procVars, group, CloseGroup,
                   Throw
<1>6. ASSUME NEW p \in Pid, NEW file \in WatchedFile, Notify(p, file) PROVE IdentityInv'
  <2>1. /\ process' = process /\ inspection' = inspection /\ batch' = batch /\ pc' = pc
        /\ captured_events' = captured_events
    BY <1>6 DEF Notify, procVars
  <2>2. \A i \in DOMAIN queue' : Past(queue'[i])
    <3>1. CASE queue' = queue
      BY <3>1
    <3>2. ASSUME NEW e \in NotificationType, Past(e), queue' = Append(queue, e)
          PROVE  \A i \in DOMAIN queue' : Past(queue'[i])
      <4>1. /\ DOMAIN queue' = 1..Len(queue) + 1
            /\ \A i \in 1..Len(queue) : i \in DOMAIN queue /\ queue'[i] = queue[i]
            /\ queue'[Len(queue) + 1] = e
        BY <3>2, Appended DEF TypeInv, TypeOK
      <4>2. Len(queue) \in Nat
        BY Lengths
      <4> QED BY <3>2, <4>1, <4>2
    <3>3. ASSUME NEW file1 \in WatchedFile \union {NoFile},
                 queue' = Append(queue, Notification(notified + 1, p, file1))
          PROVE  \A i \in DOMAIN queue' : Past(queue'[i])
      <4>1. Notification(notified + 1, p, file1) \in NotificationType
        BY DEF Notification, NotificationType, TypeInv, TypeOK, ProcType
      <4>2. Past(Notification(notified + 1, p, file1))
        <5>1. process[p].state = "running" /\ process[p].image \in Int
          BY <1>6 DEF Notify, TypeInv, TypeOK, ProcType, Process, Image
        <5> QED BY <5>1 DEF Past, Notification
      <4> QED BY <3>2, <3>3, <4>1, <4>2
    <3> QED BY <1>6, <3>1, <3>3 DEF Notify, Overflow
  <2>3. \A e : Past(e)' <=> Past(e)
    BY <2>1 DEF Past
  <2> QED BY <2>1, <2>2, <2>3 DEF Past, Follows
<1>7. ASSUME ProcessStep, UNCHANGED <<captureVars, kernelVars>> PROVE IdentityInv'
  <2>1. /\ \A i \in DOMAIN queue : Past(queue[i])'
        /\ \A i \in DOMAIN batch : Past(batch[i])'
    BY <1>1, <1>7, PastStaysPast DEF captureVars
  <2>2. pc = "inspect" => Follows(Head(batch))'
    BY <1>2, <1>3, <1>7, FollowsStays DEF captureVars
  <2> QED BY <1>7, <2>1, <2>2 DEF captureVars, Past, Follows
<1>8. ASSUME InspectProcess PROVE IdentityInv'
  <2>1. process' = process
    BY <1>8 DEF InspectProcess, Inspect, OpenFile, ReadStatus, ReadCmdline, ReadExe, Reading
  <2>2. /\ batch' = batch /\ Inspect
        /\ Head(batch) \in NotificationType /\ Past(Head(batch)) /\ Follows(Head(batch))
    BY <1>2, <1>3, <1>8 DEF InspectProcess, captureVars
  <2>3. \A e \in NotificationType : Past(e) /\ Follows(e) => Follows(e)'
    BY <2>2, InspectionFollows
  <2>4. Follows(Head(batch))'
    <3> DEFINE e == Head(batch)
    <3>1. e' = e
      BY <2>2
    <3>2. Follows(e)'
      BY <2>2, <2>3
    <3> QED BY <3>1, <3>2
  <2> QED BY <1>8, <2>1, <2>4 DEF InspectProcess, captureVars, Past, Follows
<1>9. ASSUME Read PROVE IdentityInv'
  <2>1. CASE batch' = batch /\ (queue' = queue \/ queue' = <<>>)
    BY <1>4, <1>9, <2>1 DEF Read, procVars, Throw
  <2>2. CASE batch' = SubSeq(queue, 1, Fitting) /\ queue' = SubSeq(queue, Fitting + 1, Len(queue))
    <3>1. /\ \A i \in DOMAIN batch' : i \in DOMAIN queue /\ batch'[i] = queue[i]
          /\ \A i \in DOMAIN queue' : i + Fitting \in DOMAIN queue /\ queue'[i] = queue[i + Fitting]
      BY <2>2, FittingFits, Split DEF TypeInv, TypeOK
    <3>2. /\ process' = process /\ pc' # "inspect"
          /\ captured_events' = captured_events \/ captured_events' = <<>>
      BY <1>9 DEF Read, procVars, Throw
    <3> QED BY <3>1, <3>2 DEF Past
  <2> QED BY <1>9, <2>1, <2>2 DEF Read, Throw, CloseGroup
<1>10. ASSUME Handle PROVE IdentityInv'
  <2>1. CASE InspectPid(Head(batch).pid) /\ pc' = "inspect" /\ batch' = batch
    <3>1. process' = process /\ queue' = queue /\ captured_events' = captured_events
      BY <1>10, <2>1 DEF Handle, InspectPid
    <3>2. Head(batch) \in NotificationType /\ Past(Head(batch)) /\ Head(batch).pid \in Int
      BY <1>2, <1>10, PidsAreIntegers DEF Handle, NotificationType
    <3>3. Follows(Head(batch))'
      BY <2>1, <3>2, CallFollows
    <3> QED BY <2>1, <3>1, <3>3 DEF Past, Follows
  <2>2. CASE UNCHANGED <<pc, procVars>> /\ batch' = Tail(batch)
    BY <1>4, <1>10, <2>2 DEF Handle, procVars
  <2> QED BY <1>10, <2>1, <2>2 DEF Handle
<1>11. ASSUME Capture PROVE IdentityInv'
  <2> DEFINE e == FileAccessEvent(Head(batch), inspection)
  <2>1. /\ process' = process /\ queue' = queue /\ pc' # "inspect" /\ batch' = Tail(batch)
        /\ captured_events' = Append(captured_events, e) /\ Follows(Head(batch))
        /\ inspection.stage = "done" /\ batch # <<>>
    BY <1>3, <1>11 DEF Capture, procVars, Inspected
  <2>2. EventInOrder(e) /\ EventIsKnown(e)
    BY <2>1 DEF FileAccessEvent, Follows, Known, EventInOrder, EventIsKnown
  <2>3. \A i \in DOMAIN captured_events' :
          EventInOrder(captured_events'[i]) /\ EventIsKnown(captured_events'[i])
    <3>1. e \in CapturedEvent
      BY <1>2, <2>1 DEF FileAccessEvent, CapturedEvent, NotificationType, TypeInv, TypeOK,
                       ProcType, Inspection
    <3>2. /\ DOMAIN captured_events' = 1..Len(captured_events) + 1
          /\ \A i \in 1..Len(captured_events) :
               i \in DOMAIN captured_events /\ captured_events'[i] = captured_events[i]
          /\ captured_events'[Len(captured_events) + 1] = e
      BY <2>1, <3>1, Appended DEF TypeInv, TypeOK
    <3>3. Len(captured_events) \in Nat
      BY Lengths
    <3> QED BY <2>2, <3>2, <3>3
  <2> QED BY <1>2, <2>1, <2>3 DEF Past
<1> QED
  BY <1>5, <1>6, <1>7, <1>8, <1>9, <1>10, <1>11 DEF Next, Step, Environment, Returned

(* What reports say of processes was read after the access, and is right   *)
(* for a process that did not change, in every behaviour.                  *)
THEOREM CaptureIdentityInvariant == Spec => []IdentityInv
<1>1. Init => IdentityInv
  BY DEF Init, IdentityInv
<1> QED BY <1>1, NextIdentityInv, CaptureBoundInvariant, CaptureTypeInvariant, PTL DEF Spec

(* What an event says of its process is never from before the access, and  *)
(* its three reads are in the order of time (ProcEnricher.cpp:26-35).      *)
THEOREM CapturedIdentityIsNotStale == Spec => []IdentityIsNotStale
<1>1. TypeInv /\ IdentityInv => IdentityIsNotStale
  <2> SUFFICES ASSUME TypeInv, IdentityInv, NEW i \in DOMAIN captured_events,
                      NEW j \in 1..5, NEW k \in 1..5, j < k
               PROVE  LET e == captured_events[i]
                          fields == <<e.actor.image, e.status, e.cmdline, e.exe, e.now.image>>
                      IN (fields[j] # Empty /\ fields[k] # Empty) => fields[j] <= fields[k]
    BY DEF IdentityIsNotStale
  <2> DEFINE e == captured_events[i]
  <2>1. EventInOrder(e)
    BY DEF IdentityInv
  <2> QED BY <2>1 DEF EventInOrder, InOrder
<1> QED BY <1>1, CaptureIdentityInvariant, CaptureTypeInvariant, PTL

(* A process that has not changed since its access is always identified    *)
(* (FileTelemetry.cpp:184-200).                                            *)
THEOREM CapturedStableProcessIsIdentified == Spec => []StableProcessIsIdentified
<1>1. IdentityInv => StableProcessIsIdentified
  BY DEF IdentityInv, EventIsKnown, StableProcessIsIdentified
<1> QED BY <1>1, CaptureIdentityInvariant, PTL
-----------------------------------------------------------------------------
(* The order of the accesses.  What is reported, in the buffer and in the  *)
(* queue are three stretches of the numbers that the kernel gave, one      *)
(* after the other; what is not in one of them is excused, and so is what  *)
(* the rest of the pipeline may still drop.                                *)
Within(s, lo, hi) ==
  /\ \A i \in DOMAIN s : s[i].id \in Nat /\ lo < s[i].id /\ s[i].id <= hi
  /\ \A i, j \in DOMAIN s : i < j => s[i].id < s[j].id

OrderInv ==
  \E a, b \in Nat :
    /\ a <= b /\ b <= notified
    /\ Within(captured_events, 0, a)
    /\ Within(batch, a, b)
    /\ Within(queue, b, notified)

MayBeDropped(entry) == ~HasFd(entry) \/ (Filtered /\ entry.file # target)

ExcuseInv ==
  /\ \A i \in DOMAIN batch : MayBeDropped(batch[i]) => batch[i].id \in excused
  /\ \A i \in DOMAIN queue : MayBeDropped(queue[i]) => queue[i].id \in excused
  /\ pc \notin Failed =>
       \A n \in 1..notified :
         n \in Ids(captured_events) \union Ids(batch) \union Ids(queue) \union excused
                \union discarded

(* What the end of a capture cuts off is the last stretch.                 *)
CutInv ==
  /\ pc \in {"init", "mark"} => captured_events = <<>>
  /\ pc \in {"init", "mark"} \union Ended => queue = <<>>
  /\ discarded \subseteq 1..notified /\ (pc \notin Ended => discarded = {})
  /\ pc = "returned" => \A n \in discarded :
       /\ \A m \in Ids(captured_events) : m < n
       /\ remaining <= 0 \/ Len(captured_events) >= MaxEvents

(* The steps that close the group, and the other ones between two batches. *)
Closes ==
  /\ CloseGroup /\ pc \notin Ended /\ UNCHANGED <<batch, notified, target, excused>>
  /\ \/ pc' \in Failed /\ captured_events' = <<>>
     \/ /\ pc' = "returned" /\ batch = <<>> /\ UNCHANGED <<captured_events, remaining>>
        /\ remaining <= 0 \/ Len(captured_events) >= MaxEvents

GoesOn ==
  /\ UNCHANGED <<captured_events, batch, group, notified, target, excused>>
  /\ pc \notin Ended /\ pc' \notin Ended \union {"init", "mark"}

Begins ==
  /\ UNCHANGED <<captured_events, batch, queue, discarded, notified, target, excused>>
  /\ pc = "init" /\ pc' \in {"mark", "thrown"}

Fills ==
  /\ pc = "read" /\ pc' = "batch" /\ queue # <<>> /\ batch = <<>>
  /\ batch' = SubSeq(queue, 1, Fitting) /\ queue' = SubSeq(queue, Fitting + 1, Len(queue))
  /\ UNCHANGED <<captured_events, discarded, notified, target, excused>>

LEMMA BetweenBatches ==
  ASSUME TypeInv, BoundInv,
         CreateGroup \/ MarkPath \/ LoopCondition \/ Poll \/ Read \/ EndBatch \/ VersionMismatch
  PROVE  Closes \/ GoesOn \/ Begins \/ Fills
<1> USE DEF Closes, GoesOn, Begins, Fills, Throw, GoTo, group, Ended, Failed, kernelVars
<1>1. CASE CreateGroup
  BY <1>1 DEF CreateGroup
<1>2. CASE MarkPath \/ Poll \/ EndBatch \/ VersionMismatch
  BY <1>2 DEF MarkPath, Poll, EndBatch, VersionMismatch
<1>3. CASE LoopCondition
  <2>1. CASE remaining > 0 /\ Len(captured_events) < MaxEvents
    BY <1>3, <2>1 DEF LoopCondition
  <2>2. CASE ~(remaining > 0 /\ Len(captured_events) < MaxEvents)
    <3>1. remaining <= 0 \/ Len(captured_events) >= MaxEvents
      <4>1. remaining \in Int /\ Len(captured_events) \in Nat /\ MaxEvents \in Int
        BY Lengths DEF TypeInv, TypeOK
      <4> QED BY <2>2, <4>1
    <3>2. batch = <<>>
      BY <1>3 DEF LoopCondition, BoundInv, Unbuffered
    <3> QED BY <1>3, <2>2, <3>1, <3>2 DEF LoopCondition
  <2> QED BY <2>1, <2>2
<1>4. CASE Read
  <2>1. batch = <<>>
    BY <1>4 DEF Read, BoundInv, Unbuffered
  <2> QED BY <1>4, <2>1 DEF Read
<1> QED BY <1>1, <1>2, <1>3, <1>4

LEMMA WithinTail ==
  ASSUME NEW S, NEW s \in Seq(S), s # <<>>, NEW lo \in Nat, NEW hi \in Nat, Within(s, lo, hi)
  PROVE  /\ Within(Tail(s), Head(s).id, hi) /\ Within(Tail(s), lo, hi)
         /\ Head(s).id \in Nat /\ lo < Head(s).id /\ Head(s).id <= hi
         /\ Ids(s) \subseteq Ids(Tail(s)) \union {Head(s).id}
<1>1. DOMAIN s = 1..Len(s) /\ Len(s) \in Nat /\ DOMAIN Tail(s) = 1..Len(Tail(s))
      /\ Len(Tail(s)) \in Nat
  BY HeadAndTail, LenProperties
<1>2. PICK t, h : t = Tail(s) /\ h = Head(s)
  OBVIOUS
<1>3. /\ h = s[1] /\ 1 \in DOMAIN s
      /\ \A i \in DOMAIN t : i + 1 \in DOMAIN s /\ t[i] = s[i + 1]
      /\ \A i \in DOMAIN s : i # 1 => i - 1 \in DOMAIN t /\ s[i] = t[i - 1]
  BY <1>2, HeadAndTail
<1>4. h.id \in Nat /\ lo < h.id /\ h.id <= hi
  BY <1>3 DEF Within
<1>5. DOMAIN t \subseteq Nat \ {0}
  BY <1>1, <1>2
<1>6. \A i \in DOMAIN t : t[i].id \in Nat /\ h.id < t[i].id /\ t[i].id <= hi
  <2>1. ASSUME NEW i \in DOMAIN t
        PROVE  t[i].id \in Nat /\ h.id < t[i].id /\ t[i].id <= hi
    <3>1. i \in Nat /\ 1 < i + 1 /\ i + 1 \in DOMAIN s /\ t[i] = s[i + 1]
      BY <1>3, <1>5
    <3> QED BY <1>3, <3>1 DEF Within
  <2> QED BY <2>1
<1>7. \A i, j \in DOMAIN t : i < j => t[i].id < t[j].id
  <2>1. ASSUME NEW i \in DOMAIN t, NEW j \in DOMAIN t, i < j PROVE t[i].id < t[j].id
    <3>1. /\ i + 1 < j + 1 /\ i + 1 \in DOMAIN s /\ j + 1 \in DOMAIN s
          /\ t[i] = s[i + 1] /\ t[j] = s[j + 1]
      BY <1>3, <1>5, <2>1
    <3> QED BY <3>1 DEF Within
  <2> QED BY <2>1
<1>8. Within(t, h.id, hi)
  BY <1>6, <1>7 DEF Within
<1>9. Within(t, lo, hi)
  BY <1>4, <1>6, <1>7 DEF Within
<1>10. Ids(s) \subseteq Ids(t) \union {h.id}
  BY <1>3 DEF Ids
<1> QED BY <1>2, <1>4, <1>8, <1>9, <1>10

LEMMA WithinAppended ==
  ASSUME NEW S, NEW s \in Seq(S), NEW e \in S, NEW lo \in Nat, NEW hi \in Nat,
         Within(s, lo, hi), e.id \in Nat, hi < e.id, lo <= hi
  PROVE  /\ Within(Append(s, e), lo, e.id)
         /\ Ids(s) \union {e.id} \subseteq Ids(Append(s, e))
<1>1. PICK t, len : t = Append(s, e) /\ len = Len(s) /\ len \in Nat /\ DOMAIN s = 1..len
  BY LenProperties
<1>2. /\ DOMAIN t = 1..len + 1 /\ t[len + 1] = e
      /\ \A i \in 1..len : i \in DOMAIN s /\ t[i] = s[i]
  BY <1>1, Appended
<1>3. \A i \in DOMAIN t : i = len + 1 \/ i \in 1..len
  BY <1>1, <1>2
<1>4. \A i \in DOMAIN t : t[i].id \in Nat /\ lo < t[i].id /\ t[i].id <= e.id
  <2>1. \A i \in 1..len : s[i].id \in Nat /\ lo < s[i].id /\ s[i].id < e.id
    BY <1>1 DEF Within
  <2> QED BY <1>2, <1>3, <2>1
<1>5. \A i, j \in DOMAIN t : i < j => t[i].id < t[j].id
  <2>1. ASSUME NEW i \in DOMAIN t, NEW j \in DOMAIN t, i < j PROVE t[i].id < t[j].id
    <3>1. i \in 1..len /\ t[i] = s[i]
      BY <1>1, <1>2, <1>3, <2>1
    <3>2. CASE j = len + 1
      BY <1>1, <1>2, <3>1, <3>2 DEF Within
    <3>3. CASE j \in 1..len
      BY <1>1, <1>2, <2>1, <3>1, <3>3 DEF Within
    <3> QED BY <1>3, <3>2, <3>3
  <2> QED BY <2>1
<1>6. Within(t, lo, e.id)
  BY <1>4, <1>5 DEF Within
<1>7. Ids(s) \union {e.id} \subseteq Ids(t)
  <2>1. \A i \in DOMAIN s : i \in DOMAIN t /\ t[i] = s[i]
    BY <1>1, <1>2
  <2>2. len + 1 \in DOMAIN t
    BY <1>1, <1>2
  <2> QED BY <1>2, <2>1, <2>2 DEF Ids
<1> QED BY <1>1, <1>6, <1>7

LEMMA WithinSplit ==
  ASSUME NEW S, NEW s \in Seq(S), NEW k \in 1..Len(s), NEW lo \in Nat, NEW hi \in Nat,
         Within(s, lo, hi)
  PROVE  \E mid \in Nat :
           /\ lo <= mid /\ mid <= hi
           /\ Within(SubSeq(s, 1, k), lo, mid)
           /\ Within(SubSeq(s, k + 1, Len(s)), mid, hi)
           /\ Ids(s) \subseteq Ids(SubSeq(s, 1, k)) \union Ids(SubSeq(s, k + 1, Len(s)))
<1>1. PICK f, b, len : /\ f = SubSeq(s, 1, k) /\ b = SubSeq(s, k + 1, Len(s)) /\ len = Len(s)
                       /\ len \in Nat /\ DOMAIN s = 1..len
  BY LenProperties
<1>2. /\ k \in 0..Len(s) /\ k \in Nat /\ k \in DOMAIN s
  BY <1>1
<1>3. /\ f \in Seq(S) /\ Len(f) = k /\ b \in Seq(S)
      /\ \A i \in DOMAIN s : i \in DOMAIN f \/ i - k \in DOMAIN b
      /\ \A i \in DOMAIN f : i \in DOMAIN s /\ f[i] = s[i]
      /\ \A i \in DOMAIN b : i + k \in DOMAIN s /\ b[i] = s[i + k]
  BY <1>1, <1>2, Split
<1>4. DOMAIN f = 1..k /\ DOMAIN b \subseteq Nat \ {0}
  BY <1>2, <1>3, LenProperties
<1>5. PICK mid \in Nat : mid = s[k].id /\ lo <= mid /\ mid <= hi
  BY <1>2 DEF Within
<1>6. Within(f, lo, mid)
  <2>1. ASSUME NEW i \in DOMAIN f
        PROVE  f[i].id \in Nat /\ lo < f[i].id /\ f[i].id <= mid
    <3>1. i \in DOMAIN s /\ f[i] = s[i] /\ (i = k \/ i < k)
      BY <1>2, <1>3, <1>4
    <3>2. CASE i = k
      BY <1>5, <3>1, <3>2 DEF Within
    <3>3. CASE i < k
      BY <1>2, <1>5, <3>1, <3>3 DEF Within
    <3> QED BY <3>1, <3>2, <3>3
  <2> QED BY <1>3, <2>1 DEF Within
<1>7. Within(b, mid, hi)
  <2>1. ASSUME NEW i \in DOMAIN b
        PROVE  b[i].id \in Nat /\ mid < b[i].id /\ b[i].id <= hi
    <3>1. i + k \in DOMAIN s /\ b[i] = s[i + k] /\ k < i + k
      BY <1>2, <1>3, <1>4
    <3> QED BY <1>2, <1>5, <3>1 DEF Within
  <2>2. ASSUME NEW i \in DOMAIN b, NEW j \in DOMAIN b, i < j PROVE b[i].id < b[j].id
    <3>1. /\ i + k \in DOMAIN s /\ b[i] = s[i + k] /\ j + k \in DOMAIN s /\ b[j] = s[j + k]
          /\ i + k < j + k
      BY <1>2, <1>3, <1>4, <2>2
    <3> QED BY <3>1 DEF Within
  <2> QED BY <2>1, <2>2 DEF Within
<1>8. Ids(s) \subseteq Ids(f) \union Ids(b)
  <2>1. ASSUME NEW i \in DOMAIN s PROVE s[i].id \in Ids(f) \union Ids(b)
    <3>1. CASE i \in DOMAIN f
      BY <1>3, <3>1 DEF Ids
    <3>2. CASE i - k \in DOMAIN b
      <4>1. b[i - k] = s[i - k + k] /\ i - k + k = i
        BY <1>1, <1>2, <1>3, <3>2
      <4> QED BY <3>2, <4>1 DEF Ids
    <3> QED BY <1>3, <3>1, <3>2
  <2> QED BY <2>1 DEF Ids
<1> QED BY <1>1, <1>5, <1>6, <1>7, <1>8

(* The invariant of the next state from its three stretches.               *)
LEMMA OrderIsKept ==
  ASSUME NEW a \in Nat, NEW b \in Nat, a <= b, b <= notified',
         Within(captured_events', 0, a), Within(batch', a, b), Within(queue', b, notified')
  PROVE  OrderInv'
BY DEF OrderInv, Within

(* Each step keeps the order of the accesses from the kernel's queue       *)
(* through the buffer to the report.                                       *)
THEOREM NextOrderInv == TypeInv /\ BoundInv /\ OrderInv /\ [Next]_vars => OrderInv'
<1> SUFFICES ASSUME TypeInv, BoundInv, OrderInv, [Next]_vars PROVE OrderInv'
  OBVIOUS
<1>1. PICK a \in Nat, b \in Nat :
        /\ a <= b /\ b <= notified /\ notified \in Nat
        /\ Within(captured_events, 0, a) /\ Within(batch, a, b) /\ Within(queue, b, notified)
  BY DEF OrderInv, TypeInv, TypeOK
<1>2. /\ queue \in Seq(NotificationType) /\ batch \in Seq(NotificationType)
      /\ captured_events \in Seq(CapturedEvent)
  BY DEF TypeInv, TypeOK
<1>3. ASSUME UNCHANGED <<captured_events, batch, queue, notified>> PROVE OrderInv'
  BY <1>1, <1>3, OrderIsKept
<1>4. ASSUME GoesOn \/ Begins \/ InspectProcess \/ Rename \/ Tick \/ UNCHANGED vars
             \/ (ProcessStep /\ UNCHANGED <<captureVars, kernelVars>>)
      PROVE  OrderInv'
  BY <1>3, <1>4 DEF GoesOn, Begins, InspectProcess, Rename, Tick, vars, captureVars,
                   kernelVars, group
<1>9. ASSUME Closes PROVE OrderInv'
  <2>1. /\ queue' = <<>> /\ batch' = batch /\ notified' = notified
        /\ captured_events' = captured_events \/ captured_events' = <<>>
    BY <1>9 DEF Closes, CloseGroup
  <2>2. Within(queue', b, notified') /\ Within(captured_events', 0, a)
    BY <1>1, <2>1 DEF Within
  <2> QED BY <1>1, <2>1, <2>2, OrderIsKept
<1>5. ASSUME NEW p \in Pid, NEW file \in WatchedFile, Notify(p, file) PROVE OrderInv'
  <2>1. /\ captured_events' = captured_events /\ batch' = batch /\ notified' = notified + 1
        /\ \/ \E any \in WatchedFile \union {NoFile} :
                queue' = Append(queue, Notification(notified + 1, p, any))
           \/ queue' = queue
    BY <1>5 DEF Notify, Overflow
  <2>2. Within(queue', b, notified')
    <3>1. ASSUME NEW e \in NotificationType, e.id = notified + 1
          PROVE  Within(Append(queue, e), b, notified + 1)
      <4>1. e.id \in Nat /\ notified < e.id
        BY <1>1, <3>1
      <4>2. Within(Append(queue, e), b, e.id)
        BY <1>1, <1>2, <4>1, WithinAppended
      <4> QED BY <3>1, <4>2
    <3>2. CASE queue' = queue
      BY <1>1, <2>1, <3>2 DEF Within
    <3>3. ASSUME NEW any \in WatchedFile \union {NoFile}
          PROVE  /\ Notification(notified + 1, p, any) \in NotificationType
                 /\ Notification(notified + 1, p, any).id = notified + 1
      BY <1>1 DEF Notification, NotificationType, TypeInv, TypeOK, ProcType
    <3> QED BY <2>1, <3>1, <3>2, <3>3
  <2> QED BY <1>1, <2>1, <2>2, OrderIsKept
<1>6. ASSUME Fills PROVE OrderInv'
  <2>1. captured_events' = captured_events /\ notified' = notified
    BY <1>6 DEF Fills
  <2>3. /\ queue # <<>> /\ batch' = SubSeq(queue, 1, Fitting)
        /\ queue' = SubSeq(queue, Fitting + 1, Len(queue))
    BY <1>6 DEF Fills
  <2>4. Fitting \in 1..Len(queue)
    <3>1. Len(queue) \in Nat /\ Len(queue) # 0
      BY <1>2, <2>3, EmptySeq, LenProperties
    <3> QED BY <3>1, LimitsAreNumbers DEF Fitting
  <2>5. PICK k \in 1..Len(queue) : k = Fitting
    BY <2>4
  <2>6. PICK mid \in Nat : /\ b <= mid /\ mid <= notified
                           /\ Within(SubSeq(queue, 1, k), b, mid)
                           /\ Within(SubSeq(queue, k + 1, Len(queue)), mid, notified)
    BY <1>1, <1>2, WithinSplit
  <2>7. Within(batch', b, mid) /\ Within(queue', mid, notified')
    BY <2>1, <2>3, <2>5, <2>6
  <2>8. Within(captured_events', 0, b)
    BY <1>1, <2>1 DEF Within
  <2> QED BY <1>1, <2>1, <2>6, <2>7, <2>8, OrderIsKept
<1>7. ASSUME Handle \/ SkipOverflow PROVE OrderInv'
  <2>1. /\ captured_events' = captured_events /\ notified' = notified /\ queue' = queue
        /\ batch' = batch \/ (batch # <<>> /\ batch' = Tail(batch))
    BY <1>7 DEF Handle, SkipOverflow, kernelVars, group
  <2>2. CASE batch' = batch
    BY <1>3, <2>1, <2>2
  <2>3. CASE batch # <<>> /\ batch' = Tail(batch)
    <3>1. Within(batch', a, b)
      BY <1>1, <1>2, <2>3, WithinTail
    <3> QED BY <1>1, <2>1, <3>1, OrderIsKept
  <2> QED BY <2>1, <2>2, <2>3
<1>8. ASSUME Capture PROVE OrderInv'
  <2>1. PICK h \in NotificationType : h = Head(batch) /\ batch # <<>>
    BY <1>2, <1>8, HeadAndTail DEF Capture, TypeInv
  <2>2. /\ captured_events' = Append(captured_events, FileAccessEvent(h, inspection))
        /\ batch' = Tail(batch) /\ queue' = queue /\ notified' = notified
    BY <1>8, <2>1 DEF Capture, kernelVars, group
  <2>3. PICK e \in CapturedEvent : e = FileAccessEvent(h, inspection) /\ e.id = h.id
    <3>1. FileAccessEvent(h, inspection) \in CapturedEvent
      BY DEF FileAccessEvent, CapturedEvent, NotificationType, TypeInv, TypeOK, ProcType,
             Inspection
    <3>2. FileAccessEvent(h, inspection).id = h.id
      BY DEF FileAccessEvent
    <3> QED BY <3>1, <3>2
  <2>4. Within(Tail(batch), h.id, b) /\ h.id \in Nat /\ a < h.id /\ h.id <= b
    BY <1>1, <1>2, <2>1, WithinTail
  <2>5. Within(Append(captured_events, e), 0, e.id)
    <3>1. e.id \in Nat /\ a < e.id
      BY <2>3, <2>4
    <3> QED BY <1>1, <1>2, <2>3, <3>1, WithinAppended
  <2> QED BY <1>1, <2>2, <2>3, <2>4, <2>5, OrderIsKept
<1> QED
  BY <1>4, <1>5, <1>6, <1>7, <1>8, <1>9, BetweenBatches DEF Next, Step, Environment, Returned

(* Reports, buffer and queue are together in the order of the accesses,    *)
(* without repetition, in every behaviour.                                 *)
THEOREM CaptureOrderInvariant == Spec => []OrderInv
<1>1. Init => OrderInv
  BY DEF Init, OrderInv, Within
<1> QED BY <1>1, NextOrderInv, CaptureBoundInvariant, CaptureTypeInvariant, PTL DEF Spec

(* Each step keeps it: nothing is queued before the mark or after the end, *)
(* and what a return discards comes after all that is reported.            *)
THEOREM NextCutInv ==
  TypeInv /\ BoundInv /\ FdInv /\ OrderInv /\ CutInv /\ [Next]_vars => CutInv'
<1> SUFFICES ASSUME TypeInv, BoundInv, FdInv, OrderInv, CutInv, [Next]_vars PROVE CutInv'
  OBVIOUS
<1>1. PICK a \in Nat, b \in Nat :
        /\ a <= b /\ b <= notified /\ notified \in Nat
        /\ Within(captured_events, 0, a) /\ Within(queue, b, notified)
  BY DEF OrderInv, TypeInv, TypeOK
<1>2. ASSUME pc' = pc, UNCHANGED <<queue, captured_events, discarded, notified>>,
             remaining' = remaining \/ (remaining > 0 /\ remaining' = remaining - 1)
      PROVE  CutInv'
  <2>1. Ids(captured_events') = Ids(captured_events)
    BY <1>2
  <2>2. remaining \in Int
    BY DEF TypeInv, TypeOK
  <2>3. remaining <= 0 => remaining' <= 0
    BY <1>2, <2>2
  <2> QED BY <1>2, <2>1, <2>3 DEF CutInv, Ended, Failed, Ids
<1>3. ASSUME pc \notin Ended, pc' \notin Ended \union {"init", "mark"}, discarded' = discarded,
             notified' \in Nat, notified <= notified'
      PROVE  CutInv'
  BY <1>1, <1>3 DEF CutInv, Ended, Failed
<1>4. ASSUME InspectProcess \/ Rename \/ Tick \/ UNCHANGED vars
             \/ (ProcessStep /\ UNCHANGED <<captureVars, kernelVars>>)
      PROVE  CutInv'
  BY <1>2, <1>4 DEF InspectProcess, Rename, Tick, vars, captureVars, kernelVars, group
<1>5. ASSUME NEW p \in Pid, NEW file \in WatchedFile, Notify(p, file) PROVE CutInv'
  <2>1. pc \notin Ended \union {"init", "mark"} /\ pc' = pc /\ discarded' = discarded
        /\ notified' = notified + 1
    BY <1>5 DEF Notify, Marked, FdInv
  <2> QED BY <1>1, <1>3, <2>1
<1>6. ASSUME GoesOn \/ Fills \/ Handle \/ SkipOverflow \/ Capture PROVE CutInv'
  BY <1>1, <1>3, <1>6 DEF GoesOn, Fills, Handle, SkipOverflow, Capture, GoTo, group, kernelVars,
                         Ended, Failed
<1>7. ASSUME Begins PROVE CutInv'
  BY <1>7 DEF Begins, CutInv, Ended, Failed, Ids
<1>8. ASSUME Closes PROVE CutInv'
  <2>1. /\ queue' = <<>> /\ discarded' = Ids(queue) /\ pc' \in Ended /\ notified' = notified
        /\ pc' \notin {"init", "mark"}
    BY <1>8 DEF Closes, CloseGroup, Ended, Failed
  <2>2. \A n \in Ids(queue) : n \in 1..notified /\ b < n
    BY <1>1 DEF Ids, Within
  <2>3. ASSUME pc' = "returned", NEW n \in Ids(queue)
        PROVE  /\ \A m \in Ids(captured_events') : m < n
               /\ remaining' <= 0 \/ Len(captured_events') >= MaxEvents
    <3>1. /\ captured_events' = captured_events /\ remaining' = remaining
          /\ remaining <= 0 \/ Len(captured_events) >= MaxEvents
      BY <1>8, <2>3 DEF Closes, Failed
    <3>2. \A m \in Ids(captured_events) : m \in Nat /\ m <= a
      BY <1>1 DEF Ids, Within
    <3>3. \A m \in Ids(captured_events) : m < n
      BY <1>1, <2>2, <3>2
    <3> QED BY <3>1, <3>3
  <2> QED BY <2>1, <2>2, <2>3 DEF CutInv, Ids
<1> QED
  BY <1>4, <1>5, <1>6, <1>7, <1>8, BetweenBatches DEF Next, Step, Environment, Returned

(* What is discarded is the last stretch, in every behaviour.              *)
THEOREM CaptureCutInvariant == Spec => []CutInv
<1>1. Init => CutInv
  BY DEF Init, CutInv, Ended, Failed
<1> QED
  BY <1>1, NextCutInv, CaptureOrderInvariant, CaptureFdInvariant, CaptureBoundInvariant,
     CaptureTypeInvariant, PTL DEF Spec

(* What the kernel, a rename or an unreadable name may make a capture miss *)
(* is excused before it is missed.                                         *)
LEMMA ExcuseIsKept ==
  ASSUME \A i \in DOMAIN batch' :
           (~HasFd(batch'[i]) \/ (Filtered /\ batch'[i].file # target'))
             => batch'[i].id \in excused',
         \A i \in DOMAIN queue' :
           (~HasFd(queue'[i]) \/ (Filtered /\ queue'[i].file # target'))
             => queue'[i].id \in excused',
         pc' \notin Failed =>
           \A n \in 1..notified' :
             n \in Ids(captured_events') \union Ids(batch') \union Ids(queue') \union excused'
                    \union discarded'
  PROVE  ExcuseInv'
BY DEF ExcuseInv, MayBeDropped, HasFd, Ids, Failed

(* Each step keeps the account of accesses: unless the capture failed each *)
(* is in the queue, in the buffer, reported, excused or discarded.         *)
THEOREM NextExcuseInv ==
  TypeInv /\ BoundInv /\ OrderInv /\ CutInv /\ ExcuseInv /\ [Next]_vars => ExcuseInv'
<1> SUFFICES ASSUME TypeInv, BoundInv, OrderInv, CutInv, ExcuseInv, [Next]_vars PROVE ExcuseInv'
  OBVIOUS
<1>1. /\ queue \in Seq(NotificationType) /\ batch \in Seq(NotificationType)
      /\ captured_events \in Seq(CapturedEvent) /\ notified \in Nat
  BY DEF TypeInv, TypeOK
<1>2. PICK a \in Nat, b \in Nat :
        /\ a <= b /\ b <= notified
        /\ Within(captured_events, 0, a) /\ Within(batch, a, b) /\ Within(queue, b, notified)
  BY DEF OrderInv
<1>3. /\ \A i \in DOMAIN batch :
           (~HasFd(batch[i]) \/ (Filtered /\ batch[i].file # target)) => batch[i].id \in excused
      /\ \A i \in DOMAIN queue :
           (~HasFd(queue[i]) \/ (Filtered /\ queue[i].file # target)) => queue[i].id \in excused
      /\ pc \notin Failed =>
           \A n \in 1..notified :
             n \in Ids(captured_events) \union Ids(batch) \union Ids(queue) \union excused
                    \union discarded
  BY DEF ExcuseInv, MayBeDropped
<1>4. ASSUME UNCHANGED <<captured_events, batch, queue, notified, target, excused, discarded>>,
             pc \in Failed => pc' \in Failed
      PROVE  ExcuseInv'
  BY <1>3, <1>4, ExcuseIsKept
<1>5. ASSUME GoesOn \/ Begins \/ InspectProcess \/ Tick \/ UNCHANGED vars
             \/ (ProcessStep /\ UNCHANGED <<captureVars, kernelVars>>)
      PROVE  ExcuseInv'
  BY <1>4, <1>5 DEF GoesOn, Begins, InspectProcess, Tick, vars, captureVars, kernelVars, group,
                   Ended, Failed
<1>14. ASSUME Closes PROVE ExcuseInv'
  <2>1. /\ queue' = <<>> /\ discarded' = Ids(queue) /\ pc \notin Failed
        /\ UNCHANGED <<batch, notified, target, excused>>
        /\ pc' \in Failed \/ (captured_events' = captured_events /\ batch = <<>>)
    BY <1>14 DEF Closes, CloseGroup, Ended
  <2>2. discarded = {}
    BY <1>14 DEF Closes, CutInv
  <2> QED BY <1>3, <2>1, <2>2, ExcuseIsKept
<1>6. ASSUME Rename PROVE ExcuseInv'
  <2>1. /\ captured_events' = captured_events /\ batch' = batch /\ queue' = queue
        /\ notified' = notified /\ excused' = excused \union Ids(queue) \union Ids(batch)
        /\ pc' = pc /\ discarded' = discarded
    BY <1>6 DEF Rename, captureVars, group
  <2>2. /\ \A i \in DOMAIN batch : batch[i].id \in Ids(batch)
        /\ \A i \in DOMAIN queue : queue[i].id \in Ids(queue)
    BY DEF Ids
  <2> QED BY <1>3, <2>1, <2>2, ExcuseIsKept
<1>7. ASSUME NEW p \in Pid, NEW file \in WatchedFile, Notify(p, file) PROVE ExcuseInv'
  <2>1. /\ captured_events' = captured_events /\ batch' = batch /\ notified' = notified + 1
        /\ target' = target /\ excused \subseteq excused'
        /\ pc' = pc /\ discarded' = discarded
    BY <1>7 DEF Notify
  <2>2. /\ \A i \in DOMAIN queue' :
             (~HasFd(queue'[i]) \/ (Filtered /\ queue'[i].file # target))
               => queue'[i].id \in excused'
        /\ Ids(queue) \union {notified + 1} \subseteq Ids(queue') \union excused'
    <3>1. CASE queue' = queue /\ excused' = excused \union {notified + 1}
      BY <1>3, <3>1
    <3>2. ASSUME NEW any \in WatchedFile \union {NoFile},
                 queue' = Append(queue, Notification(notified + 1, p, any)),
                 any = NoFile \/ (Filtered /\ any # target) => notified + 1 \in excused'
          PROVE  /\ \A i \in DOMAIN queue' :
                      (~HasFd(queue'[i]) \/ (Filtered /\ queue'[i].file # target))
                        => queue'[i].id \in excused'
                 /\ Ids(queue) \union {notified + 1} \subseteq Ids(queue') \union excused'
      <4>1. PICK e \in NotificationType :
              /\ e = Notification(notified + 1, p, any) /\ e.id = notified + 1 /\ e.file = any
        <5>1. /\ Notification(notified + 1, p, any) \in NotificationType
              /\ Notification(notified + 1, p, any).id = notified + 1
              /\ Notification(notified + 1, p, any).file = any
          BY <1>1 DEF Notification, NotificationType, TypeInv, TypeOK, ProcType
        <5> QED BY <5>1
      <4>2. /\ DOMAIN queue' = 1..Len(queue) + 1
            /\ \A i \in 1..Len(queue) : i \in DOMAIN queue /\ queue'[i] = queue[i]
            /\ queue'[Len(queue) + 1] = e
        BY <1>1, <3>2, <4>1, Appended
      <4>3. Len(queue) \in Nat
        BY <1>1, LenProperties
      <4>4. Ids(queue) \union {notified + 1} \subseteq Ids(queue')
        <5>1. e.id \in Nat /\ notified < e.id
          BY <1>1, <4>1
        <5>2. Ids(queue) \union {e.id} \subseteq Ids(Append(queue, e))
          BY <1>1, <1>2, <5>1, WithinAppended
        <5> QED BY <3>2, <4>1, <5>2
      <4>5. ASSUME NEW i \in DOMAIN queue',
                   ~HasFd(queue'[i]) \/ (Filtered /\ queue'[i].file # target)
            PROVE  queue'[i].id \in excused'
        <5>1. CASE i = Len(queue) + 1
          BY <3>2, <4>1, <4>2, <4>5, <5>1 DEF HasFd
        <5>2. CASE i \in 1..Len(queue)
          BY <1>3, <2>1, <4>2, <4>5, <5>2
        <5> QED BY <4>2, <4>3, <5>1, <5>2
      <4> QED BY <4>4, <4>5
    <3>3. CASE Len(queue) < QueueLimit
      <4>1. /\ queue' = Append(queue, Notification(notified + 1, p, file))
            /\ Filtered /\ file # target => notified + 1 \in excused'
        BY <1>7, <3>3 DEF Notify
      <4> QED BY <3>2, <4>1, FilesAreFiles
    <3>4. CASE ~(Len(queue) < QueueLimit)
      <4>1. /\ excused' = excused \union {notified + 1}
            /\ queue' = queue \/ queue' = Append(queue, Overflow(notified + 1, p))
        BY <1>7, <3>4 DEF Notify
      <4> QED BY <3>1, <3>2, <4>1 DEF Overflow
    <3> QED BY <3>3, <3>4
  <2>3. \A i \in DOMAIN batch' :
          (~HasFd(batch'[i]) \/ (Filtered /\ batch'[i].file # target'))
            => batch'[i].id \in excused'
    BY <1>3, <2>1
  <2>4. pc' \notin Failed =>
          \A n \in 1..notified' :
            n \in Ids(captured_events') \union Ids(batch') \union Ids(queue') \union excused'
                   \union discarded'
    <3>1. \A n \in 1..notified' : n \in 1..notified \/ n = notified + 1
      BY <1>1, <2>1
    <3> QED BY <1>3, <2>1, <2>2, <3>1
  <2> QED BY <2>1, <2>2, <2>3, <2>4, ExcuseIsKept
<1>8. ASSUME Fills PROVE ExcuseInv'
  <2>1. /\ captured_events' = captured_events /\ notified' = notified /\ target' = target
        /\ excused' = excused /\ batch = <<>> /\ discarded' = discarded /\ pc \notin Failed
        /\ queue # <<>> /\ batch' = SubSeq(queue, 1, Fitting)
        /\ queue' = SubSeq(queue, Fitting + 1, Len(queue))
    BY <1>8 DEF Fills, Failed
  <2>2. PICK k \in 1..Len(queue) : k = Fitting /\ k \in 0..Len(queue)
    <3>1. Len(queue) \in Nat /\ Len(queue) # 0
      BY <1>1, <2>1, EmptySeq, LenProperties
    <3>2. Fitting \in 1..Len(queue)
      BY <3>1, LimitsAreNumbers DEF Fitting
    <3> QED BY <3>1, <3>2
  <2>3. Ids(queue) \subseteq Ids(batch') \union Ids(queue')
    <3>1. Ids(queue) \subseteq Ids(SubSeq(queue, 1, k))
                                 \union Ids(SubSeq(queue, k + 1, Len(queue)))
      BY <1>1, <1>2, WithinSplit
    <3> QED BY <2>1, <2>2, <3>1
  <2>4. /\ \A i \in DOMAIN batch' : i \in DOMAIN queue /\ batch'[i] = queue[i]
        /\ \A i \in DOMAIN queue' : i + k \in DOMAIN queue /\ queue'[i] = queue[i + k]
    BY <1>1, <2>1, <2>2, Split
  <2>5. Ids(batch) = {}
    BY <2>1 DEF Ids
  <2> QED BY <1>3, <2>1, <2>3, <2>4, <2>5, ExcuseIsKept
<1>9. ASSUME batch # <<>>
      PROVE  /\ Ids(batch) \subseteq Ids(Tail(batch)) \union {Head(batch).id}
             /\ Head(batch) = batch[1] /\ 1 \in DOMAIN batch
             /\ \A i \in DOMAIN Tail(batch) :
                  i + 1 \in DOMAIN batch /\ Tail(batch)[i] = batch[i + 1]
  BY <1>1, <1>2, <1>9, WithinTail, HeadAndTail
<1>10. ASSUME batch # <<>>, batch' = Tail(batch), Head(batch).id \in excused',
              UNCHANGED <<captured_events, queue, notified, target, discarded>>,
              excused \subseteq excused', pc \notin Failed
       PROVE  ExcuseInv'
  BY <1>3, <1>9, <1>10, ExcuseIsKept
<1>11. ASSUME Handle PROVE ExcuseInv'
  <2>1. /\ captured_events' = captured_events /\ notified' = notified /\ queue' = queue
        /\ target' = target /\ batch # <<>> /\ discarded' = discarded /\ pc \notin Failed
        /\ \/ batch' = batch /\ excused' = excused
           \/ ~IsTarget(Head(batch)) /\ batch' = Tail(batch) /\ excused' = excused
           \/ batch' = Tail(batch) /\ excused' = excused \union {Head(batch).id}
    BY <1>11 DEF Handle, group, Failed
  <2>2. ~IsTarget(Head(batch)) => Head(batch).id \in excused
    BY <1>3, <1>9, <2>1 DEF IsTarget
  <2>3. CASE batch' = batch /\ excused' = excused
    BY <1>4, <2>1, <2>3
  <2>4. CASE batch' = Tail(batch) /\ Head(batch).id \in excused' /\ excused \subseteq excused'
    BY <1>10, <2>1, <2>4
  <2> QED BY <2>1, <2>2, <2>3, <2>4
<1>12. ASSUME SkipOverflow PROVE ExcuseInv'
  <2>1. /\ captured_events' = captured_events /\ notified' = notified /\ queue' = queue
        /\ target' = target /\ batch # <<>> /\ batch' = Tail(batch) /\ excused' = excused
        /\ ~HasFd(Head(batch)) /\ discarded' = discarded /\ pc \notin Failed
    BY <1>12 DEF SkipOverflow, kernelVars, group, Failed
  <2>2. Head(batch).id \in excused
    BY <1>3, <1>9, <2>1
  <2> QED BY <1>10, <2>1, <2>2
<1>13. ASSUME Capture PROVE ExcuseInv'
  <2>1. PICK h \in NotificationType : h = Head(batch) /\ batch # <<>>
    BY <1>1, <1>13, HeadAndTail DEF Capture, TypeInv
  <2>2. /\ captured_events' = Append(captured_events, FileAccessEvent(h, inspection))
        /\ batch' = Tail(batch) /\ queue' = queue /\ notified' = notified
        /\ target' = target /\ excused' = excused
        /\ discarded' = discarded /\ pc \notin Failed
    BY <1>13, <2>1 DEF Capture, kernelVars, group, Failed
  <2>3. PICK e \in CapturedEvent : e = FileAccessEvent(h, inspection) /\ e.id = h.id
    <3>1. FileAccessEvent(h, inspection) \in CapturedEvent
      BY DEF FileAccessEvent, CapturedEvent, NotificationType, TypeInv, TypeOK, ProcType,
             Inspection
    <3>2. FileAccessEvent(h, inspection).id = h.id
      BY DEF FileAccessEvent
    <3> QED BY <3>1, <3>2
  <2>4. Ids(captured_events) \union {h.id} \subseteq Ids(captured_events')
    <3>1. h.id \in Nat /\ a < h.id
      BY <1>1, <1>2, <2>1, WithinTail
    <3>2. Ids(captured_events) \union {e.id} \subseteq Ids(Append(captured_events, e))
      BY <1>1, <1>2, <2>3, <3>1, WithinAppended
    <3> QED BY <2>2, <2>3, <3>2
  <2> QED BY <1>3, <1>9, <2>1, <2>2, <2>4, ExcuseIsKept
<1> QED
  BY <1>5, <1>6, <1>7, <1>8, <1>11, <1>12, <1>13, <1>14, BetweenBatches
  DEF Next, Step, Environment, Returned

(* No access is lost without an excuse, in every behaviour.                *)
THEOREM CaptureExcuseInvariant == Spec => []ExcuseInv
<1>1. Init => ExcuseInv
  BY DEF Init, ExcuseInv
<1> QED
  BY <1>1, NextExcuseInv, CaptureCutInvariant, CaptureOrderInvariant, CaptureBoundInvariant,
     CaptureTypeInvariant, PTL DEF Spec
-----------------------------------------------------------------------------
(* Three stretches, one after the other.                                   *)
LEMMA Joined ==
  ASSUME NEW S, NEW s \in Seq(S), NEW t \in Seq(S), NEW a \in Nat, NEW b \in Nat,
         a <= b, Within(s, 0, a), Within(t, a, b)
  PROVE  /\ s \o t \in Seq(S) /\ Within(s \o t, 0, b)
         /\ Ids(s) \union Ids(t) \subseteq Ids(s \o t)
<1>1. PICK u, m, n : /\ u = s \o t /\ m = Len(s) /\ n = Len(t) /\ m \in Nat /\ n \in Nat
                     /\ DOMAIN s = 1..m /\ DOMAIN t = 1..n
  BY LenProperties
<1>2. /\ u \in Seq(S) /\ Len(u) = m + n
      /\ \A i \in 1..(m + n) : u[i] = IF i <= m THEN s[i] ELSE t[i - m]
  BY <1>1, ConcatProperties
<1>3. DOMAIN u = 1..(m + n)
  BY <1>2, LenProperties
<1>4. \A i \in DOMAIN u : \/ i \in 1..m /\ u[i] = s[i]
                          \/ i - m \in 1..n /\ i \notin 1..m /\ u[i] = t[i - m]
  BY <1>1, <1>2, <1>3
<1>5. ASSUME NEW i \in DOMAIN u PROVE u[i].id \in Nat /\ 0 < u[i].id /\ u[i].id <= b
  <2>1. CASE i \in 1..m /\ u[i] = s[i]
    <3>1. s[i].id \in Nat /\ 0 < s[i].id /\ s[i].id <= a
      BY <1>1, <2>1 DEF Within
    <3> QED BY <2>1, <3>1
  <2>2. CASE i - m \in 1..n /\ u[i] = t[i - m]
    <3>1. PICK j \in DOMAIN t : u[i] = t[j]
      BY <1>1, <2>2
    <3>2. t[j].id \in Nat /\ a < t[j].id /\ t[j].id <= b
      BY <3>1 DEF Within
    <3> QED BY <3>1, <3>2
  <2> QED BY <1>4, <2>1, <2>2
<1>6. ASSUME NEW i \in DOMAIN u, NEW j \in DOMAIN u, i < j PROVE u[i].id < u[j].id
  <2>1. i \in Nat /\ j \in Nat
    BY <1>1, <1>3
  <2>2. CASE i \in 1..m /\ u[i] = s[i] /\ j \in 1..m /\ u[j] = s[j]
    BY <1>1, <1>6, <2>2 DEF Within
  <2>3. CASE i \in 1..m /\ u[i] = s[i] /\ j - m \in 1..n /\ u[j] = t[j - m]
    <3>1. PICK k \in DOMAIN t : u[j] = t[k]
      BY <1>1, <2>3
    <3>2. /\ s[i].id \in Nat /\ s[i].id <= a /\ t[k].id \in Nat /\ a < t[k].id
      BY <1>1, <2>3, <3>1 DEF Within
    <3> QED BY <2>3, <3>1, <3>2
  <2>4. CASE i - m \in 1..n /\ u[i] = t[i - m] /\ j - m \in 1..n /\ u[j] = t[j - m]
    <3>1. i - m < j - m /\ i - m \in DOMAIN t /\ j - m \in DOMAIN t
      BY <1>1, <1>6, <2>1, <2>4
    <3>2. PICK k, l : k = i - m /\ l = j - m
      OBVIOUS
    <3>3. k \in DOMAIN t /\ l \in DOMAIN t /\ k < l /\ u[i] = t[k] /\ u[j] = t[l]
      BY <2>4, <3>1, <3>2
    <3> QED BY <3>3 DEF Within
  <2>5. ~(i \notin 1..m /\ j \in 1..m)
    BY <1>1, <1>3, <1>6, <2>1
  <2> QED BY <1>4, <2>2, <2>3, <2>4, <2>5
<1>7. Within(u, 0, b)
  BY <1>5, <1>6 DEF Within
<1>8. Ids(s) \union Ids(t) \subseteq Ids(u)
  <2>1. ASSUME NEW i \in DOMAIN s PROVE s[i].id \in Ids(u)
    <3>1. i \in DOMAIN u /\ u[i] = s[i]
      BY <1>1, <1>2, <1>3
    <3> QED BY <3>1 DEF Ids
  <2>2. ASSUME NEW i \in DOMAIN t PROVE t[i].id \in Ids(u)
    <3>1. PICK k \in DOMAIN u : k = m + i /\ u[k] = t[i]
      BY <1>1, <1>2, <1>3
    <3> QED BY <3>1 DEF Ids
  <2> QED BY <2>1, <2>2 DEF Ids
<1> QED BY <1>1, <1>2, <1>7, <1>8

LEMMA PipelineInOrder ==
  ASSUME TypeInv, OrderInv
  PROVE  /\ Within(Pipeline, 0, notified)
         /\ Ids(captured_events) \union Ids(batch) \union Ids(queue) \subseteq Ids(Pipeline)
<1>1. PICK a \in Nat, b \in Nat :
        /\ a <= b /\ b <= notified /\ notified \in Nat
        /\ Within(captured_events, 0, a) /\ Within(batch, a, b) /\ Within(queue, b, notified)
  BY DEF OrderInv, TypeInv, TypeOK
<1>2. PICK S : S = CapturedEvent \union NotificationType
  OBVIOUS
<1>3. captured_events \in Seq(S) /\ batch \in Seq(S) /\ queue \in Seq(S)
  <2>1. Seq(CapturedEvent) \subseteq Seq(S) /\ Seq(NotificationType) \subseteq Seq(S)
    <3> HIDE DEF CapturedEvent, NotificationType
    <3> QED BY <1>2, SeqMonotonic
  <2> QED BY <2>1 DEF TypeInv, TypeOK
<1>4. PICK first : first = captured_events \o batch
  OBVIOUS
<1>5. /\ first \in Seq(S) /\ Within(first, 0, b)
      /\ Ids(captured_events) \union Ids(batch) \subseteq Ids(first)
  BY <1>1, <1>3, <1>4, Joined
<1>6. /\ Within(first \o queue, 0, notified)
      /\ Ids(first) \union Ids(queue) \subseteq Ids(first \o queue)
  BY <1>1, <1>3, <1>5, Joined
<1>7. Pipeline = first \o queue
  <2>1. captured_events \o batch \o queue = first \o queue
    BY <1>4, Zenon
  <2> QED BY <2>1, Zenon DEF Pipeline
<1>8. Ids(captured_events) \union Ids(batch) \union Ids(queue) \subseteq Ids(first \o queue)
  BY <1>5, <1>6, Zenon
<1> QED BY <1>6, <1>7, <1>8, Zenon

(* An access is reported at most once, and reports keep the order of the   *)
(* accesses, for any limits and any renames (FileTelemetry.cpp:120-130).   *)
THEOREM CaptureReportsOnce == Spec => []EachReportedOnce
<1>1. TypeInv /\ OrderInv => EachReportedOnce
  BY PipelineInOrder DEF EachReportedOnce, Within
<1> QED BY <1>1, CaptureOrderInvariant, CaptureTypeInvariant, PTL

(* What a capture that returns lacks was excused, or was still queued at   *)
(* the deadline or at max_events (FileTelemetry.cpp:66-69, 112-134,        *)
(* 194-200).                                                               *)
THEOREM CaptureMissesOnlyExcused == Spec => []OnlyExcusedAreMissing
<1>1. TypeInv /\ OrderInv /\ CutInv /\ ExcuseInv => OnlyExcusedAreMissing
  <2> SUFFICES ASSUME TypeInv, OrderInv, CutInv, ExcuseInv, pc \notin Failed
               PROVE  /\ \A n \in 1..notified : n \in Ids(Pipeline) \union excused \union discarded
                      /\ \A n \in discarded :
                           /\ \A m \in Ids(captured_events) : m < n
                           /\ remaining <= 0 \/ Len(captured_events) >= MaxEvents
    BY DEF OnlyExcusedAreMissing
  <2>1. ASSUME NEW n \in 1..notified PROVE n \in Ids(Pipeline) \union excused \union discarded
    <3>1. n \in Ids(captured_events) \union Ids(batch) \union Ids(queue) \union excused
                 \union discarded
      BY DEF ExcuseInv
    <3> QED BY <3>1, PipelineInOrder, Zenon
  <2>2. pc = "returned" \/ discarded = {}
    BY DEF CutInv, Ended
  <2> QED BY <2>1, <2>2 DEF CutInv
<1> QED
  BY <1>1, CaptureExcuseInvariant, CaptureCutInvariant, CaptureOrderInvariant,
     CaptureTypeInvariant, PTL
-----------------------------------------------------------------------------
(* The capture as a report of accesses.  Its list is that of the numbers   *)
(* in captured_events.                                                     *)
LEMMA ListOf ==
  ASSUME NEW S, NEW s \in Seq(S), NEW list, list = [k \in DOMAIN s |-> s[k].id]
  PROVE  /\ {list[k] : k \in DOMAIN list} = Ids(s)
         /\ list = [k \in 1..Len(s) |-> s[k].id] /\ DOMAIN list = 1..Len(s)
         /\ Len(s) \in Nat
<1>1. DOMAIN s = 1..Len(s) /\ Len(s) \in Nat
  BY LenProperties
<1>2. DOMAIN list = DOMAIN s /\ \A k \in DOMAIN s : list[k] = s[k].id
  OBVIOUS
<1>3. {list[k] : k \in DOMAIN list} = Ids(s)
  BY <1>2, Zenon DEF Ids
<1>4. list = [k \in 1..Len(s) |-> s[k].id]
  BY <1>1, Zenon
<1> QED BY <1>1, <1>2, <1>3, <1>4, Zenon

LEMMA ListGrows ==
  ASSUME NEW S, NEW s \in Seq(S), NEW e \in S, \A i \in DOMAIN s : s[i].id \in Nat,
         e.id \in Nat,
         NEW t, t = Append(s, e),
         NEW list, list = [k \in DOMAIN s |-> s[k].id],
         NEW longer, longer = [k \in DOMAIN t |-> t[k].id]
  PROVE  longer = Append(list, e.id) /\ Len(list) = Len(s) /\ list \in Seq(Nat)
<1>1. PICK n \in Nat : n = Len(s) /\ DOMAIN s = 1..n
  BY LenProperties
<1>2. /\ DOMAIN t = 1..(n + 1) /\ t[n + 1] = e
      /\ \A i \in 1..n : t[i] = s[i]
  <2>1. /\ t \in Seq(S) /\ Len(t) = n + 1 /\ t[n + 1] = e
        /\ \A i \in 1..n : t[i] = s[i]
    BY <1>1, Appended
  <2> QED BY <2>1, LenProperties
<1>3. list \in [1..n -> Nat]
  BY <1>1
<1>4. list \in Seq(Nat) /\ Len(list) = n
  BY <1>1, <1>3
<1>5. PICK x \in Nat : x = e.id
  OBVIOUS
<1>6. /\ Append(list, x) \in Seq(Nat) /\ Len(Append(list, x)) = n + 1
      /\ \A i \in 1..n : Append(list, x)[i] = list[i]
      /\ Append(list, x)[n + 1] = x
  BY <1>4, Appended
<1>7. PICK app : app = Append(list, x)
  OBVIOUS
<1>8. DOMAIN app = 1..(n + 1) /\ app = [k \in DOMAIN app |-> app[k]]
  BY <1>6, <1>7, LenProperties
<1>9. ASSUME NEW k \in 1..(n + 1) PROVE longer[k] = app[k]
  <2>1. CASE k \in 1..n
    <3>1. longer[k] = t[k].id /\ t[k] = s[k] /\ list[k] = s[k].id
      BY <1>1, <1>2, <2>1
    <3> QED BY <1>6, <1>7, <2>1, <3>1
  <2>2. CASE k = n + 1
    <3>1. longer[k] = t[k].id /\ t[k] = e
      BY <1>2, <2>2
    <3>2. app[k] = x
      BY <1>6, <1>7, <2>2, Zenon
    <3> QED BY <1>5, <3>1, <3>2
  <2>3. k \in 1..n \/ k = n + 1
    OBVIOUS
  <2> QED BY <2>1, <2>2, <2>3
<1>10. DOMAIN longer = 1..(n + 1) /\ longer = [k \in DOMAIN longer |-> longer[k]]
  BY <1>2
<1>11. longer = app
  BY <1>8, <1>9, <1>10
<1> QED BY <1>1, <1>4, <1>5, <1>7, <1>11

(* What is in the buffer or in the queue has a number, and is not yet on   *)
(* the list; the head of the buffer comes after all of the list, and what  *)
(* lies between is excused.                                                *)
LEMMA NumbersAhead ==
  ASSUME TypeInv, OrderInv, ExcuseInv, CutInv
  PROVE  /\ Ids(queue) \union Ids(batch) \subseteq (1..notified) \ Ids(captured_events)
         /\ batch # <<>> /\ pc \notin Ended =>
              /\ Head(batch).id \in (1..notified) \ Ids(captured_events)
              /\ \A m \in Ids(captured_events) : m < Head(batch).id
              /\ 1..(Head(batch).id - 1) \subseteq Ids(captured_events) \union excused
<1>1. PICK a \in Nat, b \in Nat :
        /\ a <= b /\ b <= notified /\ notified \in Nat
        /\ Within(captured_events, 0, a) /\ Within(batch, a, b) /\ Within(queue, b, notified)
  BY DEF OrderInv, TypeInv, TypeOK
<1>2. \A m \in Ids(captured_events) : m \in Nat /\ 0 < m /\ m <= a
  BY <1>1 DEF Ids, Within
<1>3. \A m \in Ids(batch) : m \in Nat /\ a < m /\ m <= b
  BY <1>1 DEF Ids, Within
<1>4. \A m \in Ids(queue) : m \in Nat /\ b < m /\ m <= notified
  BY <1>1 DEF Ids, Within
<1>5. Ids(queue) \union Ids(batch) \subseteq (1..notified) \ Ids(captured_events)
  BY <1>1, <1>2, <1>3, <1>4
<1>6. ASSUME batch # <<>>, pc \notin Ended
      PROVE  /\ Head(batch).id \in (1..notified) \ Ids(captured_events)
             /\ \A m \in Ids(captured_events) : m < Head(batch).id
             /\ 1..(Head(batch).id - 1) \subseteq Ids(captured_events) \union excused
  <2>1. PICK h : h = Head(batch).id
    OBVIOUS
  <2>2. /\ h \in Nat /\ a < h /\ h <= b /\ Within(Tail(batch), h, b)
        /\ Ids(batch) \subseteq Ids(Tail(batch)) \union {h}
    <3>1. batch \in Seq(NotificationType)
      BY DEF TypeInv, TypeOK
    <3> QED BY <1>1, <1>6, <2>1, <3>1, WithinTail
  <2>3. h \in (1..notified) \ Ids(captured_events) /\ \A m \in Ids(captured_events) : m < h
    BY <1>1, <1>2, <2>2
  <2>4. ASSUME NEW m \in 1..(h - 1) PROVE m \in Ids(captured_events) \union excused
    <3>1. m \in 1..notified /\ m < h /\ m \in Nat
      BY <1>1, <2>2
    <3>2. m \in Ids(captured_events) \union Ids(batch) \union Ids(queue) \union excused
      BY <1>6, <3>1 DEF ExcuseInv, CutInv, Ended
    <3>3. m \notin Ids(queue)
      BY <1>1, <1>4, <2>2, <3>1
    <3>4. m \notin Ids(Tail(batch))
      BY <2>2, <3>1 DEF Ids, Within
    <3>5. m # h
      BY <2>2, <3>1
    <3>6. m \notin Ids(batch)
      BY <2>2, <3>4, <3>5
    <3> QED BY <3>2, <3>3, <3>6
  <2> QED BY <2>1, <2>3, <2>4, Zenon
<1> QED BY <1>5, <1>6, Zenon

LEMMA Listing ==
  ASSUME TypeInv
  PROVE  Result!Listed = Ids(captured_events)
<1>1. PICK list : list = [k \in DOMAIN captured_events |-> captured_events[k].id]
  OBVIOUS
<1>2. captured_events \in Seq(CapturedEvent)
  BY DEF TypeInv, TypeOK
<1>3. {list[k] : k \in DOMAIN list} = Ids(captured_events)
  BY <1>1, <1>2, ListOf, Zenon
<1> QED BY <1>1, <1>3, Zenon DEF Result!Listed

(* A step of the capture is a step of the report, or the report stutters:  *)
(* an access is a notification; a change of names, or a name that cannot   *)
(* be read, is an excuse; a captured event is the next on the list; the    *)
(* end of the loop completes it, and whatever throws fails it.             *)
THEOREM NextImplementsAccessReport ==
  TypeInv /\ BoundInv /\ FdInv /\ OrderInv /\ CutInv /\ ExcuseInv /\ [Next]_vars
    => [Result!Next]_Result!report
<1> SUFFICES ASSUME TypeInv, BoundInv, FdInv, OrderInv, CutInv, ExcuseInv, [Next]_vars
             PROVE  Result!Next \/ UNCHANGED Result!report
  OBVIOUS
<1>1. /\ captured_events \in Seq(CapturedEvent) /\ batch \in Seq(NotificationType)
      /\ notified \in Nat /\ Result!Listed = Ids(captured_events)
  BY Listing DEF TypeInv, TypeOK
<1>2. ASSUME UNCHANGED captured_events
      PROVE  UNCHANGED [k \in DOMAIN captured_events |-> captured_events[k].id]
  BY <1>2
<1>0. /\ pc \notin Ended => Outcome = "open"
      /\ pc' \notin Ended => Outcome' = "open"
      /\ pc' \in Failed => Outcome' = "failed"
      /\ pc' = "returned" => Outcome' = "complete"
      /\ pc' = pc => Outcome' = Outcome
      /\ Outcome = "complete" => pc = "returned"
  BY DEF Outcome, Ended, Failed
<1>3. ASSUME UNCHANGED <<captured_events, notified, excused, discarded>>, Outcome' = Outcome
      PROVE  UNCHANGED Result!report
  BY <1>2, <1>3 DEF Result!report
<1>4. ASSUME Closes \/ (Begins /\ pc' = "thrown") PROVE Result!Complete \/ Result!Fail
  <2>1. /\ notified' = notified /\ excused' = excused /\ pc \notin Ended
        /\ discarded' = Ids(queue) /\ discarded = {}
    <3>1. pc \notin Ended /\ discarded = {}
      BY <1>4 DEF Closes, Begins, CutInv, Ended, Failed
    <3>2. CASE Closes
      BY <3>1, <3>2 DEF Closes, CloseGroup
    <3>3. CASE Begins
      <4>1. queue = <<>> /\ Ids(queue) = {}
        BY <3>3 DEF Begins, CutInv, Ids
      <4> QED BY <3>1, <3>3, <4>1 DEF Begins
    <3> QED BY <1>4, <3>2, <3>3
  <2>2. Ids(queue) \in SUBSET (1..notified)
    BY NumbersAhead
  <2>3. (excused \union discarded)' = (excused \union discarded) \union Ids(queue)
    BY <2>1
  <2>4. CASE pc' \in Failed
    <3>1. captured_events' = <<>>
      BY <1>4, <2>4 DEF Closes, Begins, CutInv, Failed
    <3>2. [k \in DOMAIN captured_events |-> captured_events[k].id]' = <<>>
      BY <3>1
    <3>3. Outcome = "open" /\ Outcome' = "failed"
      BY <1>0, <2>1, <2>4 DEF Outcome, Failed
    <3> QED BY <2>1, <2>2, <2>3, <3>2, <3>3 DEF Result!Fail
  <2>5. CASE pc' \notin Failed
    <3>1. /\ pc' = "returned" /\ captured_events' = captured_events /\ batch = <<>>
          /\ queue' = <<>>
      BY <1>4, <2>5 DEF Closes, CloseGroup, Begins, Failed
    <3>2. Outcome = "open" /\ Outcome' = "complete"
      BY <1>0, <2>1, <3>1
    <3>3. \A m \in Ids(captured_events) : \A n \in Ids(queue) : m < n
      <4>1. PICK a \in Nat, b \in Nat :
              a <= b /\ Within(captured_events, 0, a) /\ Within(queue, b, notified)
        BY DEF OrderInv
      <4>2. ASSUME NEW m \in Ids(captured_events), NEW n \in Ids(queue) PROVE m < n
        <5>1. m \in Nat /\ m <= a /\ n \in Nat /\ b < n
          BY <4>1 DEF Ids, Within
        <5> QED BY <4>1, <5>1
      <4> QED BY <4>2
    <3>4. 1..notified \subseteq Ids(captured_events) \union (excused \union discarded) \union Ids(queue)
      <4>1. Ids(batch) = {}
        BY <3>1 DEF Ids
      <4>2. pc \notin Failed
        BY <2>1 DEF Ended
      <4> QED BY <4>1, <4>2 DEF ExcuseInv
    <3>5. \E S \in SUBSET (1..notified) :
            /\ \A m \in Result!Listed : \A n \in S : m < n
            /\ 1..notified \subseteq Result!Listed \union (excused \union discarded) \union S
            /\ (excused \union discarded)' = (excused \union discarded) \union S
      <4> HIDE DEF Result!Listed
      <4> QED BY <1>1, <2>2, <2>3, <3>3, <3>4, Zenon
    <3> HIDE DEF Result!Listed
    <3> QED BY <1>2, <2>1, <3>1, <3>2, <3>5 DEF Result!Complete
  <2> QED BY <2>4, <2>5
<1>5. ASSUME NEW more \in SUBSET ((1..notified) \ Ids(captured_events)),
             excused' = excused \union more,
             UNCHANGED <<captured_events, notified, discarded>>,
             Outcome' = Outcome, Outcome # "complete"
      PROVE  Result!Excuse
  <2>1. (excused \union discarded)' = (excused \union discarded) \union more
    BY <1>5
  <2> HIDE DEF Result!Listed
  <2> QED BY <1>1, <1>2, <1>5, <2>1 DEF Result!Excuse
<1>6. ASSUME NEW p \in Pid, NEW file \in WatchedFile, Notify(p, file)
      PROVE  Result!Access
  <2>1. pc \notin Ended
    BY <1>6 DEF Notify, Marked, FdInv
  <2>2. /\ notified' = notified + 1 /\ excused' \in {excused, excused \union {notified + 1}}
        /\ captured_events' = captured_events /\ pc' = pc /\ discarded' = discarded
    BY <1>6 DEF Notify
  <2>3. Outcome = "open" /\ Outcome' = "open"
    BY <1>0, <2>1, <2>2
  <2>4. (excused \union discarded)' \in
          {excused \union discarded, (excused \union discarded) \union {notified + 1}}
    BY <2>2
  <2> QED BY <1>2, <2>2, <2>3, <2>4 DEF Result!Access
<1>7. ASSUME Rename PROVE Result!Excuse \/ UNCHANGED Result!report
  <2>1. /\ captured_events' = captured_events /\ notified' = notified /\ pc' = pc
        /\ excused' = excused \union (Ids(queue) \union Ids(batch)) /\ discarded' = discarded
    BY <1>7 DEF Rename, captureVars, group
  <2>2. Ids(queue) \union Ids(batch) \in SUBSET ((1..notified) \ Ids(captured_events))
    BY NumbersAhead
  <2>3. Outcome' = Outcome
    BY <1>0, <2>1
  <2>4. CASE pc = "returned"
    <3>1. Ids(queue) = {} /\ Ids(batch) = {}
      BY <2>4 DEF CutInv, BoundInv, Unbuffered, Ended, Ids
    <3> QED BY <1>3, <2>1, <2>3, <3>1
  <2>5. CASE pc # "returned"
    <3>1. Outcome # "complete"
      BY <1>0, <2>5
    <3> QED BY <1>5, <2>1, <2>2, <2>3, <3>1
  <2> QED BY <2>4, <2>5
<1>8. ASSUME Tick \/ GoesOn \/ Fills \/ (Begins /\ pc' # "thrown") \/ SkipOverflow
              \/ InspectProcess
              \/ (ProcessStep /\ UNCHANGED <<captureVars, kernelVars>>)
              \/ Returned \/ UNCHANGED vars
      PROVE  UNCHANGED Result!report
  <2>1. UNCHANGED <<captured_events, notified, excused, discarded>>
    BY <1>8 DEF Tick, GoesOn, Fills, Begins, SkipOverflow, InspectProcess, Returned, vars,
                captureVars, kernelVars, group
  <2>2. pc' = pc \/ (pc \notin Ended /\ pc' \notin Ended)
    BY <1>8 DEF Tick, GoesOn, Fills, Begins, SkipOverflow, InspectProcess, Returned, vars,
                captureVars, Ended, Failed
  <2>3. Outcome' = Outcome
    BY <1>0, <2>2
  <2> QED BY <1>3, <2>1, <2>3
<1>9. ASSUME Handle PROVE Result!Excuse \/ UNCHANGED Result!report
  <2>1. /\ captured_events' = captured_events /\ notified' = notified /\ batch # <<>>
        /\ pc \notin Ended /\ pc' \notin Ended /\ discarded' = discarded
        /\ \/ excused' = excused
           \/ excused' = excused \union {Head(batch).id}
    BY <1>9 DEF Handle, GoTo, Ended, Failed, group
  <2>6. Outcome = "open" /\ Outcome' = "open"
    BY <1>0, <2>1
  <2>2. PICK more : more = {Head(batch).id}
    OBVIOUS
  <2>3. more \in SUBSET ((1..notified) \ Ids(captured_events))
    BY <2>1, <2>2, NumbersAhead
  <2>4. CASE excused' = excused
    BY <1>3, <2>1, <2>4, <2>6
  <2>5. CASE excused' = excused \union more
    BY <1>5, <2>1, <2>3, <2>5, <2>6
  <2> QED BY <2>1, <2>2, <2>4, <2>5
<1>10. ASSUME Capture PROVE Result!Report
  <2>1. PICK h \in NotificationType : h = Head(batch) /\ batch # <<>>
    BY <1>1, <1>10, HeadAndTail DEF Capture, TypeInv
  <2>2. PICK e \in CapturedEvent : /\ captured_events' = Append(captured_events, e)
                                   /\ e.id = h.id /\ e.id \in Nat
    <3>1. FileAccessEvent(h, inspection) \in CapturedEvent
      BY DEF FileAccessEvent, CapturedEvent, NotificationType, TypeInv, TypeOK, ProcType,
             Inspection
    <3>2. FileAccessEvent(h, inspection).id = h.id /\ h.id \in Nat
      BY DEF FileAccessEvent, NotificationType
    <3> QED BY <1>10, <2>1, <3>1, <3>2 DEF Capture
  <2>3. \A i \in DOMAIN captured_events : captured_events[i].id \in Nat
    <3>1. \A i \in DOMAIN captured_events : captured_events[i] \in CapturedEvent
      BY <1>1, LenProperties, ElementOfSeq
    <3> QED BY <3>1 DEF CapturedEvent
  <2>4. PICK list, longer, t :
          /\ list = [k \in DOMAIN captured_events |-> captured_events[k].id]
          /\ t = captured_events'
          /\ longer = [k \in DOMAIN t |-> t[k].id]
    OBVIOUS
  <2>5. longer = Append(list, h.id) /\ Len(list) = Len(captured_events)
    BY <1>1, <2>2, <2>3, <2>4, ListGrows
  <2>6. Len(list) < MaxEvents - 1 + BufferEvents
    BY <1>10, <2>1, <2>5, Lengths, EmptySeq DEF BoundInv, Capture
  <2>8. /\ notified' = notified /\ excused' = excused /\ pc \notin Ended /\ pc' \notin Ended
        /\ discarded' = discarded
    BY <1>10 DEF Capture, GoTo, Ended, Failed, kernelVars, group
  <2>7. /\ h.id \in 1..notified
        /\ \A m \in Ids(captured_events) : m < h.id
        /\ 1..(h.id - 1) \subseteq Ids(captured_events) \union excused
    BY <2>1, <2>8, NumbersAhead
  <2>9. [k \in DOMAIN captured_events |-> captured_events[k].id]' = longer
    BY <2>4
  <2>10. longer = Append([k \in DOMAIN captured_events |-> captured_events[k].id], h.id)
    BY <2>4, <2>5, Zenon
  <2>11. Len([k \in DOMAIN captured_events |-> captured_events[k].id])
          < MaxEvents - 1 + BufferEvents
    BY <2>4, <2>6
  <2>12. \E n \in 1..notified :
           /\ \A m \in Result!Listed : m < n
           /\ 1..(n - 1) \subseteq Result!Listed \union (excused \union discarded)
           /\ longer = Append([k \in DOMAIN captured_events |-> captured_events[k].id], n)
    <3>1. 1..(h.id - 1) \subseteq Ids(captured_events) \union (excused \union discarded)
      BY <2>7, Zenon
    <3> QED BY <1>1, <2>7, <2>10, <3>1, Zenon
  <2> HIDE DEF Result!Listed
  <2>13. Outcome = "open" /\ UNCHANGED <<notified, excused \union discarded, Outcome>>
    BY <1>0, <2>8
  <2> QED BY <2>9, <2>11, <2>12, <2>13, Zenon DEF Result!Report
<1> QED
  BY <1>4, <1>6, <1>7, <1>8, <1>9, <1>10, BetweenBatches
  DEF Next, Step, Environment, Result!Next

(* For any limits, files and processes, what a capture returns is such a   *)
(* report: it grows by one access at a time, later than all before it, and *)
(* past none that has no excuse by then; what its end cuts off is later    *)
(* than all of it (FileTelemetry.cpp:62-137).                              *)
THEOREM CaptureImplementsAccessReport == Spec => ImplementsAccessReport
<1>1. Init => Result!Init
  <2> SUFFICES ASSUME Init PROVE Result!Init
    OBVIOUS
  <2>1. [k \in DOMAIN captured_events |-> captured_events[k].id] = <<>>
    BY DEF Init
  <2> QED BY <2>1 DEF Init, Result!Init, Outcome, Failed
<1> QED
  BY <1>1, NextImplementsAccessReport, CaptureExcuseInvariant, CaptureCutInvariant,
     CaptureOrderInvariant,
     CaptureFdInvariant, CaptureBoundInvariant, CaptureTypeInvariant,
     PTL DEF Spec, ImplementsAccessReport, Result!Spec
=============================================================================
