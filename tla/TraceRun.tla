------------------------------ MODULE TraceRun ------------------------------
(***************************************************************************)
(* What the trace of a request promises the operator who reads it: a run   *)
(* is opened at most once, is closed at most once and only together with   *)
(* the response, says "failed" of a request that failed and of no other,   *)
(* and is never touched again.  A run may stay open for ever.              *)
(***************************************************************************)
CONSTANT Requests

VARIABLES
  status,   \* of the run of each request, "none" while it has no run
  response  \* what its client got so far

vars == <<status, response>>

Verdicts(answer) == IF answer = "ok" THEN {"success", "degraded"} ELSE {"failed"}

Init ==
  /\ status = [r \in Requests |-> "none"]
  /\ response = [r \in Requests |-> "pending"]

Open(r) ==
  /\ response[r] = "pending" /\ status[r] = "none"
  /\ status' = [status EXCEPT ![r] = "running"]
  /\ UNCHANGED response

Respond(r, answer) ==
  /\ response[r] = "pending"
  /\ response' = [response EXCEPT ![r] = answer]
  /\ \/ UNCHANGED status
     \/ /\ status[r] = "running"
        /\ \E v \in Verdicts(answer) : status' = [status EXCEPT ![r] = v]

\* The process stops: those it worked for are not answered, the runs stay as they are.
Stop ==
  /\ \E L \in SUBSET {r \in Requests : response[r] = "pending"} :
       response' = [r \in Requests |-> IF r \in L THEN "lost" ELSE response[r]]
  /\ UNCHANGED status

Next ==
  \/ \E r \in Requests : Open(r) \/ \E answer \in {"ok", "error"} : Respond(r, answer)
  \/ Stop

Spec == Init /\ [][Next]_vars
=============================================================================
