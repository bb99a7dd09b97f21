---------------------------- MODULE ProcEnricher ----------------------------
(***************************************************************************)
(* ProcEnricher::inspectPid (src/src/ProcEnricher.cpp) beside the          *)
(* processes it looks at.  It opens and reads /proc/<pid>/status, opens    *)
(* and reads cmdline, and reads the link exe; meanwhile the process may    *)
(* execute another program, exit, or give its pid to another process.      *)
(*                                                                         *)
(* An image stands for what one process is while it runs one program: its  *)
(* name, parent, user, command line and executable.  The images of a pid   *)
(* are numbered from 1, and a process is named by its first image.         *)
(***************************************************************************)
EXTENDS Integers

CONSTANTS
  Pid,          \* the pids that events carry; 0 is a process of no namespace
  MaxImage      \* bound: the images that one pid may have

VARIABLES
  process,      \* pid -> what the kernel knows of it
  inspection    \* the call of inspectPid: local variables and result

procVars == <<process, inspection>>

ASSUME PidsAreIntegers == Pid \subseteq Int
ASSUME ImagesAreCounted == MaxImage \in Nat \ {0}

Image == 1..MaxImage

(* A field that was read from an empty file: "" or -1.                     *)
Empty == 0

NoProcess == 0

Process == [state : {"running", "zombie", "gone"}, image : Image, born : Image]
Inspection ==
  [pid : Pid, stage : {"status", "cmdline", "exe", "done"},
   opened : Image \union {NoProcess}, found : BOOLEAN,
   status : Image \union {Empty}, cmdline : Image \union {Empty},
   exe : Image \union {Empty}, refused : BOOLEAN]

ProcType == process \in [Pid -> Process] /\ inspection \in Inspection

(* A call that has not read anything; info.pid is known.  That the kernel  *)
(* refused it something that was there is history.                         *)
Call(p, stage) ==
  [pid |-> p, stage |-> stage, opened |-> NoProcess, found |-> FALSE,
   status |-> Empty, cmdline |-> Empty, exe |-> Empty, refused |-> FALSE]

ProcInit ==
  /\ process = [p \in Pid |-> [state |-> "running", image |-> 1, born |-> 1]]
  /\ inspection \in {Call(p, "done") : p \in Pid}

(* What processes do.  An exec keeps the process; a new process that gets  *)
(* the pid of one that is gone is another process.                         *)
Exec(p) ==
  /\ process[p].state = "running" /\ process[p].image < MaxImage
  /\ process' = [process EXCEPT ![p].image = @ + 1]

Exit(p) ==
  /\ process[p].state = "running"
  /\ process' = [process EXCEPT ![p].state = "zombie"]

Reap(p) ==
  /\ process[p].state = "zombie"
  /\ process' = [process EXCEPT ![p].state = "gone"]

ReusePid(p) ==
  /\ process[p].state = "gone" /\ process[p].image < MaxImage
  /\ process' = [process EXCEPT ![p] =
       [state |-> "running", image |-> @.image + 1, born |-> @.image + 1]]

ProcessStep ==
  /\ \E p \in Pid \ {0} : Exec(p) \/ Exit(p) \/ Reap(p) \/ ReusePid(p)
  /\ UNCHANGED inspection
-----------------------------------------------------------------------------
(* The call: a pid that is not positive is not looked up.                  *)
InspectPid(p) ==
  /\ inspection' = Call(p, IF p <= 0 THEN "done" ELSE "status")
  /\ UNCHANGED process

Subject == process[inspection.pid]
Reading(stage) == inspection.stage = stage /\ UNCHANGED process

(* An exception, caught at the end: the result is nullopt.  Any call may   *)
(* fail for a reason of its own (no descriptor left, no permission), also  *)
(* when what it asks for is there.                                         *)
Nothing(there) ==
  inspection' = [Call(inspection.pid, "done") EXCEPT !.refused = inspection.refused \/ there]

(* readFileToString, first half: the constructor of the stream opens.      *)
OpenFile ==
  /\ \E stage \in {"status", "cmdline"} : Reading(stage)
  /\ inspection.opened = NoProcess
  /\ \/ Nothing(Subject.state # "gone")
     \/ Subject.state # "gone" /\ inspection' = [inspection EXCEPT !.opened = Subject.born]

(* Second half: the read goes to the process that was opened.  If that is  *)
(* gone, or for another reason, the read fails, and the stream only is     *)
(* empty then.                                                             *)
StillThere == Subject.state # "gone" /\ Subject.born = inspection.opened
HasCmdline == StillThere /\ Subject.state = "running"

(* Mutant: the prefix of a line is compared wrongly, so no field is found. *)
ReadStatusMisparsed ==
  /\ Reading("status") /\ inspection.opened # NoProcess
  /\ inspection' = [inspection EXCEPT
       !.status = Empty, !.opened = NoProcess, !.stage = "cmdline"]

ReadStatus ==
  /\ Reading("status") /\ inspection.opened # NoProcess
  /\ \E v \in {Empty} \union (IF StillThere THEN {Subject.image} ELSE {}) :
       inspection' = [inspection EXCEPT
         !.status = v, !.opened = NoProcess, !.stage = "cmdline",
         !.refused = @ \/ (StillThere /\ v = Empty)]

(* A zombie has a status and no command line.                              *)
ReadCmdline ==
  /\ Reading("cmdline") /\ inspection.opened # NoProcess
  /\ \E v \in {Empty} \union (IF HasCmdline THEN {Subject.image} ELSE {}) :
       inspection' = [inspection EXCEPT
         !.cmdline = v, !.opened = NoProcess, !.stage = "exe",
         !.refused = @ \/ (HasCmdline /\ v = Empty)]

(* readSymlinkTarget: neither a zombie nor a process that is gone has one, *)
(* nor a thread of the kernel.                                             *)
ReadExe ==
  /\ Reading("exe")
  /\ \/ Nothing(Subject.state = "running")
     \/ /\ Subject.state = "running"
        /\ inspection' = [inspection EXCEPT !.exe = Subject.image, !.found = TRUE,
                                            !.stage = "done"]

Inspect == OpenFile \/ ReadStatus \/ ReadCmdline \/ ReadExe

Inspected == inspection.stage = "done"
=============================================================================
