----------------------------- MODULE UemClient -----------------------------
(***************************************************************************)
(* One incident report over HTTP: UemClient::uploadIncident                *)
(* (src/src/UemClient.cpp) against the control plane of backend/main.py.   *)
(* The client waits at most 5 seconds for the response and never repeats a *)
(* request; the control plane may handle a request long after the client   *)
(* has given up on it.  Its list is in memory only.                        *)
(* A report stands for its payload; outcome says what the caller learns.   *)
(***************************************************************************)
EXTENDS Integers, Sequences, SequencesExt

CONSTANT Report \* the incidents that can be uploaded

VARIABLES
  request,      \* report -> "none" | "sent" | "handled" | "lost"
  response,     \* report -> "none" | "2xx" | "other"
  outcome,      \* report -> "none" | "waiting" | "uploaded" | "failed"
  received_incidents, \* the control plane's list
  forgotten     \* history: the reports that were in a list since cleared

uemVars == <<request, response, outcome, received_incidents, forgotten>>

UemType ==
  /\ request \in [Report -> {"none", "sent", "handled", "lost"}]
  /\ response \in [Report -> {"none", "2xx", "other"}]
  /\ outcome \in [Report -> {"none", "waiting", "uploaded", "failed"}]
  /\ received_incidents \in Seq(Report)
  /\ forgotten \subseteq Report

UemInit ==
  /\ request = [m \in Report |-> "none"]
  /\ response = [m \in Report |-> "none"]
  /\ outcome = [m \in Report |-> "none"]
  /\ received_incidents = <<>>
  /\ forgotten = {}

(* curl_easy_perform sends the request, if it gets a connection.           *)
Post(m) ==
  /\ outcome' = [outcome EXCEPT ![m] = "waiting"]
  /\ request' = [request EXCEPT ![m] = "sent"]
  /\ UNCHANGED <<response, received_incidents, forgotten>>

(* No CURL handle, or no connection: nothing was sent.                     *)
CannotPost(m) ==
  /\ outcome' = [outcome EXCEPT ![m] = "failed"]
  /\ UNCHANGED <<request, response, received_incidents, forgotten>>

(* The control plane appends the report and answers 2xx.                   *)
ReceiveIncident(m) ==
  /\ request[m] = "sent"
  /\ request' = [request EXCEPT ![m] = "handled"]
  /\ received_incidents' = Append(received_incidents, m)
  /\ response' = [response EXCEPT ![m] = "2xx"]
  /\ UNCHANGED <<outcome, forgotten>>

(* Another service at the URL, a rejected payload, a handler that fails.   *)
RejectIncident(m) ==
  /\ request[m] = "sent"
  /\ request' = [request EXCEPT ![m] = "handled"]
  /\ response' = [response EXCEPT ![m] = "other"]
  /\ UNCHANGED <<outcome, received_incidents, forgotten>>

(* Mutant: any response counts as an upload.                               *)
GetAnyResponse(m) ==
  /\ outcome[m] = "waiting"
  /\ response[m] # "none"
  /\ outcome' = [outcome EXCEPT ![m] = "uploaded"]
  /\ UNCHANGED <<request, response, received_incidents, forgotten>>

(* The response arrives in time: CURLE_OK, and the status code decides.    *)
GetResponse(m) ==
  /\ outcome[m] = "waiting"
  /\ response[m] # "none"
  /\ outcome' = [outcome EXCEPT ![m] =
                   IF response[m] = "2xx" THEN "uploaded" ELSE "failed"]
  /\ UNCHANGED <<request, response, received_incidents, forgotten>>

(* Mutants: a request that timed out is sent once more; no CURLOPT_TIMEOUT *)
(* is set, and only a lost connection ends the wait.                       *)
GiveUpAndRepeat(m) ==
  /\ outcome[m] = "waiting"
  /\ outcome' = [outcome EXCEPT ![m] = "failed"]
  /\ request' = [request EXCEPT ![m] = "sent"]
  /\ UNCHANGED <<response, received_incidents, forgotten>>

GiveUpWithoutTimeout(m) ==
  /\ outcome[m] = "waiting"
  /\ request[m] = "lost"
  /\ outcome' = [outcome EXCEPT ![m] = "failed"]
  /\ UNCHANGED <<request, response, received_incidents, forgotten>>

(* CURLOPT_TIMEOUT, or a connection that breaks: the request may already   *)
(* be handled, may still be, or may be lost with the connection.           *)
GiveUp(m) ==
  /\ outcome[m] = "waiting"
  /\ outcome' = [outcome EXCEPT ![m] = "failed"]
  /\ \/ UNCHANGED request
     \/ request[m] = "sent" /\ request' = [request EXCEPT ![m] = "lost"]
  /\ UNCHANGED <<response, received_incidents, forgotten>>

(* POST /reset, or a restart of the control plane: the list is emptied.    *)
ResetIncidents ==
  /\ received_incidents # <<>>
  /\ forgotten' = forgotten \union Range(received_incidents)
  /\ received_incidents' = <<>>
  /\ UNCHANGED <<request, response, outcome>>
=============================================================================
