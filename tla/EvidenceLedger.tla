--------------------------- MODULE EvidenceLedger ---------------------------
(***************************************************************************)
(* What the agent promises whoever reads its audit database and the list   *)
(* of the control plane, without saying how a run works: a ledger that     *)
(* only grows, in one order.  A run first notes its events, one after the  *)
(* other; then it opens the incidents of the noted events in ascending     *)
(* order of pid, each followed by its evidence, event by event and rule by *)
(* rule; an incident with all its evidence may be reported, once, before   *)
(* the next one is opened; and what is reported is listed at most once.    *)
(* A run may stop anywhere, which to a reader is that nothing follows.     *)
(***************************************************************************)
EXTENDS Integers, Sequences

CONSTANTS
  Run,          \* the executions
  Count,        \* run -> how many events it has
  Subject,      \* run -> event -> the pid of the event
  Matches       \* run -> event -> the positions of the rules it matched

VARIABLES
  noted,        \* run -> the events on record
  opened,       \* run -> the pids of the incidents on record
  proven,       \* run -> the rule matches on record, <<event, rule>>
  reported,     \* the incidents that were sent, <<run, pid>>
  pending,      \* those of them that may still reach the control plane
  listed        \* the control plane's list

ledger == <<noted, opened, proven, reported, pending, listed>>

Grounds(x, pid) == {i \in noted[x] : Subject[x][i] = pid /\ Matches[x][i] # {}}
Subjects(x) == {Subject[x][i] : i \in {j \in noted[x] : Matches[x][j] # {}}}
Evidence(x, pid) == UNION {{i} \X Matches[x][i] : i \in Grounds(x, pid)}
Earlier(m, n) == m[1] < n[1] \/ (m[1] = n[1] /\ m[2] < n[2])
Complete(x, pid) == pid \in opened[x] /\ Evidence(x, pid) \subseteq proven[x]

Init ==
  /\ noted = [x \in Run |-> {}]
  /\ opened = [x \in Run |-> {}]
  /\ proven = [x \in Run |-> {}]
  /\ reported = {}
  /\ pending = {}
  /\ listed = <<>>

(* The next event; none is added once there are incidents.                 *)
Note(x) ==
  /\ opened[x] = {}
  /\ \E i \in 1..Count[x] :
       /\ noted[x] = 1..(i - 1)
       /\ noted' = [noted EXCEPT ![x] = 1..i]
  /\ UNCHANGED <<opened, proven, reported, pending, listed>>

(* The next process in the order of pids, when all before it are complete. *)
OpenIncident(x) ==
  /\ \E pid \in Subjects(x) \ opened[x] :
       /\ \A q \in Subjects(x) : q < pid => Complete(x, q)
       /\ \A q \in opened[x] : q < pid
       /\ opened' = [opened EXCEPT ![x] = @ \union {pid}]
  /\ UNCHANGED <<noted, proven, reported, pending, listed>>

(* The next piece of evidence for an incident on record.                   *)
Prove(x) ==
  /\ \E pid \in opened[x] : \E m \in Evidence(x, pid) \ proven[x] :
       /\ \A n \in Evidence(x, pid) : Earlier(n, m) => n \in proven[x]
       /\ proven' = [proven EXCEPT ![x] = @ \union {m}]
  /\ UNCHANGED <<noted, opened, reported, pending, listed>>

(* The last incident is sent, when it is complete and for the first time.  *)
Send(x) ==
  /\ \E pid \in opened[x] :
       /\ Complete(x, pid)
       /\ \A q \in opened[x] : q <= pid
       /\ <<x, pid>> \notin reported
       /\ reported' = reported \union {<<x, pid>>}
       /\ pending' = pending \union {<<x, pid>>}
  /\ UNCHANGED <<noted, opened, proven, listed>>

(* The control plane lists a report, it is rejected or lost, or the list   *)
(* is cleared.                                                             *)
List ==
  /\ \E m \in pending :
       /\ pending' = pending \ {m}
       /\ listed' = Append(listed, m)
  /\ UNCHANGED <<noted, opened, proven, reported>>

Drop ==
  /\ \E m \in pending : pending' = pending \ {m}
  /\ UNCHANGED <<noted, opened, proven, reported, listed>>

Forget == listed' = <<>> /\ UNCHANGED <<noted, opened, proven, reported, pending>>

Next ==
  \/ \E x \in Run : Note(x) \/ OpenIncident(x) \/ Prove(x) \/ Send(x)
  \/ List \/ Drop \/ Forget

Spec == Init /\ [][Next]_ledger
=============================================================================
