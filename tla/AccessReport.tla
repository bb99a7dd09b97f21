---------------------------- MODULE AccessReport ----------------------------
(***************************************************************************)
(* What a capture of file accesses promises whoever reads its result,      *)
(* without saying how it gets at them: the accesses are numbered as they   *)
(* are made; a report lists some of them, one after the other, up to a     *)
(* bound; it goes past an access only when that access may be missing, and *)
(* an access on the list is never said to be missing afterwards.  When the *)
(* report is complete the accesses after the last on the list may be       *)
(* missing too; a capture that fails lists none.                           *)
(***************************************************************************)
EXTENDS Integers, Sequences

CONSTANT Bound  \* the most that a report lists

VARIABLES
  made,         \* how many accesses there were
  missable,     \* those that the report may lack
  reported,     \* the numbers of those on the list
  outcome       \* "open", "complete" or "failed"

report == <<made, missable, reported, outcome>>

Listed == {reported[k] : k \in DOMAIN reported}

Init == made = 0 /\ missable = {} /\ reported = <<>> /\ outcome = "open"

(* An access that will be reported, or one that may be missing.            *)
Access ==
  /\ outcome = "open" /\ made' = made + 1
  /\ missable' \in {missable, missable \union {made + 1}}
  /\ UNCHANGED <<reported, outcome>>

(* Something happens to accesses that are not yet reported.                *)
Excuse ==
  /\ outcome # "complete"
  /\ \E S \in SUBSET ((1..made) \ Listed) : missable' = missable \union S
  /\ UNCHANGED <<made, reported, outcome>>

(* The next access, of which all before it are listed or may be missing.   *)
Report ==
  /\ outcome = "open" /\ Len(reported) < Bound
  /\ \E n \in 1..made :
       /\ \A m \in Listed : m < n
       /\ 1..(n - 1) \subseteq Listed \union missable
       /\ reported' = Append(reported, n)
  /\ UNCHANGED <<made, missable, outcome>>

(* The report is cut off: what is neither listed nor missing for another   *)
(* reason is all later than what is listed.                                *)
Complete ==
  /\ outcome = "open" /\ outcome' = "complete"
  /\ \E S \in SUBSET (1..made) :
       /\ \A m \in Listed : \A n \in S : m < n
       /\ 1..made \subseteq Listed \union missable \union S
       /\ missable' = missable \union S
  /\ UNCHANGED <<made, reported>>

Fail ==
  /\ outcome = "open" /\ outcome' = "failed" /\ reported' = <<>>
  /\ \E S \in SUBSET (1..made) : missable' = missable \union S
  /\ UNCHANGED made

Next == Access \/ Excuse \/ Report \/ Complete \/ Fail

Spec == Init /\ [][Next]_report
=============================================================================
