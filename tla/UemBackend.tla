----------------------------- MODULE UemBackend -----------------------------
(***************************************************************************)
(* The control plane of backend/main.py from the inside.  FastAPI runs the *)
(* handlers, plain functions, in a pool of threads; they share one Python  *)
(* list and take no lock.  A single list operation is atomic under the     *)
(* interpreter lock, a handler is not, so a handler is one action per list *)
(* operation.  Iterating over a list goes by position and sees what is     *)
(* appended or cleared meanwhile.  Module UemClient has the control plane  *)
(* as the agents see it.                                                   *)
(***************************************************************************)
EXTENDS Integers, Sequences, FiniteSets, SequencesExt

CONSTANTS
  Thread,       \* the threads of the pool
  Incident,     \* the uploads: each is posted at most once
  Verdict       \* incident -> its verdict

ASSUME IncidentIsFinite == IsFiniteSet(Incident)

VARIABLES
  received_incidents, \* the shared list
  posted,       \* history: the uploads that have been appended
  pc,           \* thread -> the next step of its handler, or "idle"
  position,     \* thread -> how far its iteration over the list has got
  counted,      \* thread -> high_risk_count, or the length read as a count
  stayed,       \* history: thread -> incidents listed ever since it started
  disturbed,    \* history: thread -> the list was cleared since it started
  reply         \* thread -> its last response

vars == <<received_incidents, posted, pc, position, counted, stayed, disturbed, reply>>

HighRisk(incident) == Verdict[incident] \in {"HIGH", "CRITICAL"}
High(S) == {i \in S : HighRisk(i)}
NoReply == [of |-> "nothing"]

Init ==
  /\ received_incidents = <<>>
  /\ posted = {}
  /\ pc = [t \in Thread |-> "idle"]
  /\ position = [t \in Thread |-> 0]
  /\ counted = [t \in Thread |-> 0]
  /\ stayed = [t \in Thread |-> {}]
  /\ disturbed = [t \in Thread |-> FALSE]
  /\ reply = [t \in Thread |-> NoReply]

GoTo(t, step) == pc' = [pc EXCEPT ![t] = step]

(* A request is taken from the queue; its handler has not touched the list.*)
Start(t, step) ==
  /\ pc[t] = "idle"
  /\ GoTo(t, step)
  /\ position' = [position EXCEPT ![t] = 0]
  /\ counted' = [counted EXCEPT ![t] = 0]
  /\ stayed' = [stayed EXCEPT ![t] = Range(received_incidents)]
  /\ disturbed' = [disturbed EXCEPT ![t] = FALSE]
  /\ reply' = [reply EXCEPT ![t] = NoReply]
  /\ UNCHANGED <<received_incidents, posted>>

(* The response is returned; position and counted are locals that die.     *)
Respond(t, response) ==
  /\ GoTo(t, "idle")
  /\ reply' = [reply EXCEPT ![t] = response]
  /\ position' = [position EXCEPT ![t] = 0]
  /\ counted' = [counted EXCEPT ![t] = 0]
  /\ UNCHANGED <<received_incidents, posted, stayed, disturbed>>

(* receive_incident: append, then read the length for the response.        *)
ReceiveAppend(t) ==
  /\ pc[t] = "append"
  /\ \E i \in Incident \ posted :
       /\ received_incidents' = Append(received_incidents, i)
       /\ posted' = posted \union {i}
       /\ GoTo(t, "receipt")
  /\ UNCHANGED <<position, counted, stayed, disturbed, reply>>

ReceiveRespond(t) ==
  /\ pc[t] = "receipt"
  /\ Respond(t, [of |-> "receive", total_received |-> Len(received_incidents)])

(* Mutant: list_incidents copies the list before it reads the length.      *)
ListRespondCopied(t) ==
  /\ pc[t] = "encode"
  /\ position[t] >= Len(received_incidents)
  /\ Respond(t, [of |-> "list", count |-> counted[t], items |-> Cardinality(stayed[t])])

(* list_incidents: the length is read first; the list itself is returned   *)
(* and only read when the response is encoded, item by item.               *)
ListCount(t) ==
  /\ pc[t] = "count"
  /\ counted' = [counted EXCEPT ![t] = Len(received_incidents)]
  /\ GoTo(t, "encode")
  /\ UNCHANGED <<received_incidents, posted, position, stayed, disturbed, reply>>

ListEncode(t) ==
  /\ pc[t] = "encode"
  /\ position[t] < Len(received_incidents)
  /\ position' = [position EXCEPT ![t] = @ + 1]
  /\ UNCHANGED <<received_incidents, posted, pc, counted, stayed, disturbed, reply>>

ListRespond(t) ==
  /\ pc[t] = "encode"
  /\ position[t] >= Len(received_incidents)
  /\ Respond(t, [of |-> "list", count |-> counted[t], items |-> position[t]])

(* Mutant: a reset that only drops the oldest incident.                    *)
ResetOldest(t) ==
  /\ pc[t] = "clear"
  /\ received_incidents' = SubSeq(received_incidents, 2, Len(received_incidents))
  /\ stayed' = [u \in Thread |-> stayed[u] \intersect Range(received_incidents')]
  /\ disturbed' = [u \in Thread |-> TRUE]
  /\ GoTo(t, "cleared")
  /\ UNCHANGED <<posted, position, counted, reply>>

(* reset_incidents: clear, then read the length for the response.          *)
ResetClear(t) ==
  /\ pc[t] = "clear"
  /\ received_incidents' = <<>>
  /\ stayed' = [u \in Thread |-> {}]
  /\ disturbed' = [u \in Thread |-> TRUE]
  /\ GoTo(t, "cleared")
  /\ UNCHANGED <<posted, position, counted, reply>>

ResetRespond(t) ==
  /\ pc[t] = "cleared"
  /\ Respond(t, [of |-> "reset", incidents_received |-> Len(received_incidents)])

(* Mutant: the total is read before the high risks are counted.            *)
SummaryRespondFirst(t) ==
  /\ pc[t] = "total"
  /\ Respond(t, [of |-> "summary",
                 total_incidents |-> Cardinality(stayed[t]),
                 high_risk_incidents |-> counted[t],
                 status |-> IF counted[t] > 0 THEN "HIGH_RISK" ELSE "HEALTHY"])

(* fleet_summary: count the high risks item by item, then read the length. *)
SummaryScan(t) ==
  /\ pc[t] = "scan"
  /\ position[t] < Len(received_incidents)
  /\ position' = [position EXCEPT ![t] = @ + 1]
  /\ counted' = [counted EXCEPT ![t] =
                   IF HighRisk(received_incidents[position[t] + 1]) THEN @ + 1 ELSE @]
  /\ UNCHANGED <<received_incidents, posted, pc, stayed, disturbed, reply>>

SummaryScanned(t) ==
  /\ pc[t] = "scan"
  /\ position[t] >= Len(received_incidents)
  /\ GoTo(t, "total")
  /\ UNCHANGED <<received_incidents, posted, position, counted, stayed, disturbed, reply>>

SummaryRespond(t) ==
  /\ pc[t] = "total"
  /\ Respond(t, [of |-> "summary",
                 total_incidents |-> Len(received_incidents),
                 high_risk_incidents |-> counted[t],
                 status |-> IF counted[t] > 0 THEN "HIGH_RISK" ELSE "HEALTHY"])

Handle(t) ==
  \/ ReceiveAppend(t) \/ ReceiveRespond(t)
  \/ ListCount(t) \/ ListEncode(t) \/ ListRespond(t)
  \/ ResetClear(t) \/ ResetRespond(t)
  \/ SummaryScan(t) \/ SummaryScanned(t) \/ SummaryRespond(t)

(* More posts are taken only while there are uploads left for them.        *)
Request(t) ==
  \/ Cardinality({u \in Thread : pc[u] = "append"}) < Cardinality(Incident \ posted)
       /\ Start(t, "append")
  \/ Start(t, "count")
  \/ Start(t, "scan")
  \/ Start(t, "clear")

Next == \E t \in Thread : Request(t) \/ Handle(t)

Spec == Init /\ [][Next]_vars
-----------------------------------------------------------------------------
Count == 0..Cardinality(Incident)

Response ==
  {NoReply}
    \union [of : {"receive"}, total_received : Count]
    \union [of : {"list"}, count : Count, items : Count]
    \union [of : {"reset"}, incidents_received : Count]
    \union [of : {"summary"}, total_incidents : Count, high_risk_incidents : Count,
            status : {"HIGH_RISK", "HEALTHY"}]

TypeOK ==
  /\ received_incidents \in Seq(posted)
  /\ posted \subseteq Incident
  /\ pc \in [Thread -> {"idle", "append", "receipt", "count", "encode", "clear",
                        "cleared", "scan", "total"}]
  /\ position \in [Thread -> Count]
  /\ counted \in [Thread -> Count]
  /\ stayed \in [Thread -> SUBSET Incident]
  /\ disturbed \in [Thread -> BOOLEAN]
  /\ reply \in [Thread -> Response]

(* A fleet summary counts no more high-risk incidents than it has          *)
(* incidents in total (main.py:80-88; README.md:494).                      *)
SummaryAddsUp ==
  \A t \in Thread : reply[t].of = "summary" =>
    reply[t].high_risk_incidents <= reply[t].total_incidents

(* A fleet summary misses no high-risk incident that was listed from       *)
(* before the request until the answer, and counts none that was never     *)
(* received, nor one twice, however appends and resets interleave with the *)
(* iteration (main.py:80-83).                                              *)
SummaryCountsWhatStayed ==
  \A t \in Thread : reply[t].of = "summary" =>
    /\ reply[t].high_risk_incidents >= Cardinality(High(stayed[t]))
    /\ reply[t].high_risk_incidents <= Cardinality(High(posted))

(* Without a reset in between, the handlers' two reads come in the order   *)
(* that keeps an answer consistent, whatever is appended: a summary counts *)
(* no more high risks than it has incidents (main.py:80-88), and a list    *)
(* has at least the items that its count announces (main.py:61-66).        *)
UndisturbedSummaryAddsUp ==
  \A t \in Thread : (reply[t].of = "summary" /\ ~disturbed[t]) =>
    reply[t].high_risk_incidents <= reply[t].total_incidents

UndisturbedListHasItsCount ==
  \A t \in Thread : (reply[t].of = "list" /\ ~disturbed[t]) =>
    reply[t].count <= reply[t].items
=============================================================================
