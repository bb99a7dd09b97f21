-------------------------- MODULE FanotifyCapture --------------------------
(***************************************************************************)
(* FanotifyFileSource::captureFileEvents (src/src/FileTelemetry.cpp) with  *)
(* the kernel's queue of notifications, the processes that cause them, and *)
(* the files, which may be renamed, on the other side.  A notification is  *)
(* named by its number, in the order in which the kernel queued them.      *)
(***************************************************************************)
EXTENDS ProcEnricher, Sequences

CONSTANTS
  WatchedFile,  \* the files of the watched directory
  NoFile,       \* no file has the name config.target_file
  Filtered,     \* config.target_file is not empty
  MaxEvents,    \* config.max_events
  Duration,     \* config.duration_seconds
  BufferEvents, \* how many notifications fit into one read
  QueueLimit,   \* how many the kernel queues before it drops them
  MaxNotified   \* bound: the notifications of one capture

VARIABLES
  pc,           \* where captureFileEvents is
  remaining,    \* seconds until the deadline
  fan_fd,       \* "none", "open" or "closed"
  queue,        \* the kernel's queue
  discarded,    \* history: what was in the queue when the group was closed
  batch,        \* what metadata points to, and what follows in the buffer
  open_fds,     \* the notifications whose file descriptor is open
  captured_events,
  target,       \* the file that has the name config.target_file
  notified,     \* how many notifications there were
  excused       \* history: those that captured_events may lack

group == <<fan_fd, queue, discarded>>
captureVars == <<pc, remaining, group, batch, open_fds, captured_events>>
kernelVars == <<target, notified, excused>>
vars == <<captureVars, kernelVars, procVars>>

ASSUME LimitsAreNumbers ==
  /\ MaxEvents \in Int /\ Duration \in Int
  /\ BufferEvents \in Nat \ {0} /\ QueueLimit \in Nat \ {0} /\ MaxNotified \in Nat
ASSUME FilesAreFiles == NoFile \notin WatchedFile /\ Filtered \in BOOLEAN

Failed == {"thrown", "mismatch"}
Ended == {"returned"} \union Failed
Stages == {"init", "mark", "loop", "poll", "read", "batch", "inspect"} \union Ended

(* A notification carries the pid; what the process was at that moment is  *)
(* history.  FAN_Q_OVERFLOW has no file descriptor.                        *)
Notification(id, p, file) == [id |-> id, pid |-> p, actor |-> process[p], file |-> file]
Overflow(id, p) == Notification(id, p, NoFile)
HasFd(entry) == entry.file # NoFile

Ids(entries) == {entries[i].id : i \in DOMAIN entries}
FdsOf(entries) == {entries[i].id : i \in {j \in DOMAIN entries : HasFd(entries[j])}}

Init ==
  /\ pc = "init" /\ remaining = 0 /\ fan_fd = "none"
  /\ queue = <<>> /\ discarded = {} /\ batch = <<>> /\ open_fds = {} /\ captured_events = <<>>
  /\ target \in WatchedFile /\ notified = 0 /\ excused = {}
  /\ ProcInit
-----------------------------------------------------------------------------
(* The kernel.  The notifications are for a file of the directory, from a  *)
(* process that runs; one like it absorbs it while the queue is not full.  *)
Marked == fan_fd = "open" /\ pc # "mark"

Absorbs(entry, p, file) ==
  entry.file = file /\ entry.pid = p /\ entry.actor.born = process[p].born

Notify(p, file) ==
  /\ Marked /\ notified < MaxNotified /\ process[p].state = "running"
  /\ Len(queue) < QueueLimit => ~\E i \in DOMAIN queue : Absorbs(queue[i], p, file)
  /\ notified' = notified + 1
  /\ IF Len(queue) < QueueLimit
     THEN /\ queue' = Append(queue, Notification(notified + 1, p, file))
          /\ excused' = IF Filtered /\ file # target THEN excused \union {notified + 1}
                        ELSE excused
     ELSE /\ queue' = IF \A i \in DOMAIN queue : HasFd(queue[i])
                      THEN Append(queue, Overflow(notified + 1, p)) ELSE queue
          /\ excused' = excused \union {notified + 1}
  /\ UNCHANGED <<pc, remaining, fan_fd, discarded, batch, open_fds, captured_events, target,
                 procVars>>

(* Another file gets the name, or none has it: whatever is not yet handled *)
(* may be missed.                                                          *)
Rename ==
  /\ Filtered /\ target' \in (WatchedFile \union {NoFile}) \ {target}
  /\ excused' = excused \union Ids(queue) \union Ids(batch)
  /\ UNCHANGED <<captureVars, notified, procVars>>

Tick ==
  /\ remaining > 0 /\ remaining' = remaining - 1
  /\ UNCHANGED <<pc, group, batch, open_fds, captured_events, kernelVars, procVars>>
-----------------------------------------------------------------------------
GoTo(stage) == pc' = stage

(* close(fan_fd): the kernel drops what is queued.                         *)
CloseGroup == fan_fd' = "closed" /\ queue' = <<>> /\ discarded' = Ids(queue)

(* Each error is thrown after that, and the vector is destroyed.           *)
Throw(stage) == GoTo(stage) /\ CloseGroup /\ captured_events' = <<>>

(* fanotify_init.                                                          *)
CreateGroup ==
  /\ pc = "init"
  /\ \/ GoTo("mark") /\ fan_fd' = "open"
     \/ GoTo("thrown") /\ UNCHANGED fan_fd
  /\ UNCHANGED <<remaining, queue, discarded, batch, open_fds, captured_events, kernelVars,
                 procVars>>

(* fanotify_mark, and the deadline.                                        *)
MarkPath ==
  /\ pc = "mark"
  /\ \/ GoTo("loop") /\ remaining' = Duration /\ UNCHANGED <<group, captured_events>>
     \/ Throw("thrown") /\ UNCHANGED remaining
  /\ UNCHANGED <<batch, open_fds, kernelVars, procVars>>

(* Mutant: the bound is off by one.                                        *)
LoopConditionOneMore ==
  /\ pc = "loop"
  /\ IF remaining > 0 /\ Len(captured_events) <= MaxEvents
     THEN GoTo("poll") /\ UNCHANGED group
     ELSE GoTo("returned") /\ CloseGroup
  /\ UNCHANGED <<remaining, batch, open_fds, captured_events, kernelVars, procVars>>

(* The condition of the loop; after it the descriptor is closed, whatever  *)
(* is still queued.                                                        *)
LoopCondition ==
  /\ pc = "loop"
  /\ IF remaining > 0 /\ Len(captured_events) < MaxEvents
     THEN GoTo("poll") /\ UNCHANGED group
     ELSE GoTo("returned") /\ CloseGroup
  /\ UNCHANGED <<remaining, batch, open_fds, captured_events, kernelVars, procVars>>

(* Mutant: no timeout is given.                                            *)
PollForever ==
  /\ pc = "poll" /\ (IF queue = <<>> THEN UNCHANGED pc ELSE GoTo("read"))
  /\ UNCHANGED <<remaining, group, batch, open_fds, captured_events, kernelVars, procVars>>

(* poll, for half a second: ready, which may be spurious; a timeout or a   *)
(* signal; any other error.                                                *)
Poll ==
  /\ pc = "poll"
  /\ \/ (GoTo("read") \/ GoTo("loop")) /\ UNCHANGED <<group, captured_events>>
     \/ Throw("thrown")
  /\ UNCHANGED <<remaining, batch, open_fds, kernelVars, procVars>>

(* read: as many notifications as there are and fit, each with a file      *)
(* descriptor, or EAGAIN, or another error.                                *)
Fitting == IF Len(queue) < BufferEvents THEN Len(queue) ELSE BufferEvents

Read ==
  /\ pc = "read"
  /\ \/ /\ queue # <<>>
        /\ batch' = SubSeq(queue, 1, Fitting)
        /\ queue' = SubSeq(queue, Fitting + 1, Len(queue))
        /\ open_fds' = open_fds \union FdsOf(batch')
        /\ GoTo("batch") /\ UNCHANGED <<fan_fd, discarded, captured_events>>
     \/ queue = <<>> /\ GoTo("loop") /\ UNCHANGED <<group, batch, open_fds, captured_events>>
     \/ Throw("thrown") /\ UNCHANGED <<batch, open_fds>>
  /\ UNCHANGED <<remaining, kernelVars, procVars>>

(* pathFromFd: the name the file has now, or "" when readlink fails.       *)
IsTarget(entry) == ~Filtered \/ entry.file = target

(* Mutant: only the descriptors of captured events are closed.             *)
HandleKeepingFds ==
  /\ pc = "batch" /\ batch # <<>> /\ HasFd(Head(batch))
  /\ \/ /\ IsTarget(Head(batch)) /\ InspectPid(Head(batch).pid) /\ GoTo("inspect")
        /\ open_fds' = open_fds \ {Head(batch).id} /\ UNCHANGED <<batch, excused>>
     \/ /\ ~IsTarget(Head(batch)) /\ batch' = Tail(batch)
        /\ UNCHANGED <<pc, open_fds, excused, procVars>>
  /\ UNCHANGED <<remaining, group, captured_events, target, notified>>

(* The path is read and the descriptor closed; an event of the target is   *)
(* enriched next.                                                          *)
Handle ==
  /\ pc = "batch" /\ batch # <<>> /\ HasFd(Head(batch))
  /\ open_fds' = open_fds \ {Head(batch).id}
  /\ \/ /\ IsTarget(Head(batch)) /\ InspectPid(Head(batch).pid) /\ GoTo("inspect")
        /\ UNCHANGED <<batch, excused>>
     \/ /\ ~IsTarget(Head(batch)) /\ batch' = Tail(batch)
        /\ UNCHANGED <<pc, excused, procVars>>
     \/ /\ Filtered /\ batch' = Tail(batch) /\ excused' = excused \union {Head(batch).id}
        /\ UNCHANGED <<pc, procVars>>
  /\ UNCHANGED <<remaining, group, captured_events, target, notified>>

(* FAN_EVENT_NEXT past an overflow; the end of the buffer; metadata of     *)
(* another version, which ends the capture with its descriptors open.      *)
SkipOverflow ==
  /\ pc = "batch" /\ batch # <<>> /\ ~HasFd(Head(batch))
  /\ batch' = Tail(batch)
  /\ UNCHANGED <<pc, remaining, group, open_fds, captured_events, kernelVars, procVars>>

EndBatch ==
  /\ pc = "batch" /\ batch = <<>> /\ GoTo("loop")
  /\ UNCHANGED <<remaining, group, batch, open_fds, captured_events, kernelVars, procVars>>

VersionMismatch ==
  /\ pc = "batch" /\ batch # <<>>
  /\ Throw("mismatch")
  /\ UNCHANGED <<remaining, batch, open_fds, kernelVars, procVars>>

(* Mutant: a pid that was captured before is not looked up again.          *)
FileAccessEventCached(entry, info) ==
  LET known == {i \in DOMAIN captured_events : captured_events[i].pid = entry.pid}
      source == IF known = {} THEN info ELSE captured_events[CHOOSE i \in known : TRUE]
  IN [id |-> entry.id, pid |-> entry.pid, actor |-> entry.actor, now |-> process[entry.pid],
      found |-> source.found, status |-> source.status, cmdline |-> source.cmdline,
      exe |-> source.exe, refused |-> info.refused]

(* inspectPid, and what makeFileAccessEvent makes of its result: event     *)
(* REAL-FILE-n with the identity or as "unknown".  What the process has    *)
(* become is history.                                                      *)
InspectProcess ==
  /\ pc = "inspect" /\ Inspect
  /\ UNCHANGED <<captureVars, kernelVars>>

FileAccessEvent(entry, info) ==
  [id |-> entry.id, pid |-> entry.pid, actor |-> entry.actor, now |-> process[entry.pid],
   found |-> info.found, status |-> info.status, cmdline |-> info.cmdline, exe |-> info.exe,
   refused |-> info.refused]

(* Mutants: the loop goes on without FAN_EVENT_NEXT; the events of unknown *)
(* processes are dropped.                                                  *)
CaptureWithoutNext ==
  /\ pc = "inspect" /\ Inspected
  /\ captured_events' = Append(captured_events, FileAccessEvent(Head(batch), inspection))
  /\ UNCHANGED batch
  /\ GoTo("batch")
  /\ UNCHANGED <<remaining, group, open_fds, kernelVars, procVars>>

CaptureKnown ==
  /\ pc = "inspect" /\ Inspected
  /\ captured_events' = IF inspection.found
       THEN Append(captured_events, FileAccessEvent(Head(batch), inspection))
       ELSE captured_events
  /\ batch' = Tail(batch)
  /\ GoTo("batch")
  /\ UNCHANGED <<remaining, group, open_fds, kernelVars, procVars>>

Capture ==
  /\ pc = "inspect" /\ Inspected
  /\ captured_events' = Append(captured_events, FileAccessEvent(Head(batch), inspection))
  /\ batch' = Tail(batch)
  /\ GoTo("batch")
  /\ UNCHANGED <<remaining, group, open_fds, kernelVars, procVars>>

Step ==
  \/ CreateGroup \/ MarkPath \/ LoopCondition \/ Poll \/ Read \/ Handle \/ SkipOverflow
  \/ EndBatch \/ VersionMismatch \/ InspectProcess \/ Capture

Environment ==
  \/ \E p \in Pid : \E file \in WatchedFile : Notify(p, file)
  \/ Rename \/ Tick
  \/ ProcessStep /\ UNCHANGED <<captureVars, kernelVars>>

Returned == pc \in Ended /\ UNCHANGED vars

Next == Step \/ Environment \/ Returned

Spec == Init /\ [][Next]_vars

(* The program runs, poll returns after half a second at the latest, and   *)
(* time passes.                                                            *)
FairSpec == Spec /\ WF_vars(Step) /\ WF_vars(Tick)
-----------------------------------------------------------------------------
CapturedEvent ==
  [id : Nat, pid : Pid, actor : Process, now : Process, found : BOOLEAN,
   status : Image \union {Empty}, cmdline : Image \union {Empty},
   exe : Image \union {Empty}, refused : BOOLEAN]
NotificationType ==
  [id : Nat, pid : Pid, actor : Process, file : WatchedFile \union {NoFile}]

TypeOK ==
  /\ pc \in Stages
  /\ remaining \in Int
  /\ fan_fd \in {"none", "open", "closed"}
  /\ queue \in Seq(NotificationType) /\ batch \in Seq(NotificationType)
  /\ discarded \subseteq Nat /\ open_fds \subseteq Nat
  /\ captured_events \in Seq(CapturedEvent)
  /\ target \in WatchedFile \union {NoFile}
  /\ notified \in Nat /\ excused \subseteq Nat
  /\ ProcType

(* max_events is only looked at between reads, so what one read delivers   *)
(* on top is the bound of what a capture returns, and it is exact: no      *)
(* burst of accesses makes it longer (FileTelemetry.cpp:66-69, 106-131).   *)
CapturedIsBounded ==
  Len(captured_events) > 0 => Len(captured_events) + Len(batch) <= MaxEvents - 1 + BufferEvents

(* The descriptors that the kernel opened for the program are those of     *)
(* what it has yet to handle, whatever was skipped, filtered or captured;  *)
(* so a capture that returns, or throws for any reason but metadata of     *)
(* another version, leaves none open (FileTelemetry.cpp:107-135).          *)
NoDescriptorLeak ==
  /\ open_fds \subseteq Ids(batch)
  /\ pc \in {"returned", "thrown"} => open_fds = {} /\ fan_fd # "open"

(* An access is reported at most once, and reports keep the order of the   *)
(* accesses, through the queue, the buffer and the vector: event ids are   *)
(* numbered from 1 in that order (FileTelemetry.cpp:120-130).              *)
Pipeline == captured_events \o batch \o queue
EachReportedOnce ==
  \A i, j \in DOMAIN Pipeline : i < j => Pipeline[i].id < Pipeline[j].id

(* A capture that returns lacks an access for a reason only: the kernel's  *)
(* queue was full, or the file did not have the target's name all the      *)
(* time, or its name could not be read; or the access was still queued     *)
(* when the deadline or max_events ended the watch, and then it is later   *)
(* than all that are reported.  That a process is gone is no reason        *)
(* (FileTelemetry.cpp:66-69, 112-134, 194-200).                            *)
OnlyExcusedAreMissing ==
  pc \notin Failed =>
    /\ \A n \in 1..notified : n \in Ids(Pipeline) \union excused \union discarded
    /\ \A n \in discarded :
         /\ \A m \in Ids(captured_events) : m < n
         /\ remaining <= 0 \/ Len(captured_events) >= MaxEvents

(* Step by step: whatever the kernel, the processes and the files do, the  *)
(* result grows by one access at a time, later than all before it, and     *)
(* never past one that may still come and has no excuse by then; reports   *)
(* stay, and their number has a bound; what the end of the watch cuts off  *)
(* is later than all of them, and a capture that throws reports nothing    *)
(* (FileTelemetry.cpp:62-137).                                             *)
Outcome ==
  IF pc = "returned" THEN "complete" ELSE IF pc \in Failed THEN "failed" ELSE "open"

Result == INSTANCE AccessReport WITH
  Bound <- MaxEvents - 1 + BufferEvents,
  made <- notified,
  missable <- excused \union discarded,
  reported <- [k \in DOMAIN captured_events |-> captured_events[k].id],
  outcome <- Outcome

ImplementsAccessReport == Result!Spec

(* The three reads of /proc may meet three programs, but never one from    *)
(* before the access: the pid cannot name an earlier process or image, and *)
(* what is read later is not older (ProcEnricher.cpp:26-35).               *)
IdentityIsNotStale ==
  \A i \in DOMAIN captured_events :
    LET e == captured_events[i]
        fields == <<e.actor.image, e.status, e.cmdline, e.exe, e.now.image>>
    IN e.found => \A j, k \in 1..5 :
         (j < k /\ fields[j] # Empty /\ fields[k] # Empty) => fields[j] <= fields[k]

(* If nothing happened to the process since the access, and the kernel     *)
(* refused nothing that was there, then its event has its whole identity,  *)
(* and never "unknown", although other processes with its pid were looked  *)
(* up before (FileTelemetry.cpp:184-200).                                  *)
StableProcessIsIdentified ==
  \A i \in DOMAIN captured_events :
    LET e == captured_events[i]
    IN (e.now = e.actor /\ e.pid > 0 /\ ~e.refused) =>
         e.found /\ {e.status, e.cmdline, e.exe} = {e.actor.image}

(* The configuration's "int max_events" (include/FileTelemetry.hpp:14) is  *)
(* the most that a capture returns.                                        *)
MaxEventsIsMaximum == Len(captured_events) <= MaxEvents

(* The watch ends, whether there are accesses or none, and however fast    *)
(* they come: poll waits for half a second only, and the deadline is       *)
(* looked at before each (FileTelemetry.cpp:66-85).                        *)
WatchEnds == pc = "init" ~> pc \in Ended
=============================================================================
