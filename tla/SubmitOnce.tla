----------------------------- MODULE SubmitOnce -----------------------------
(***************************************************************************)
(* What submitting an exam promises, with every request one atomic step:   *)
(* an assignment's result is recorded by one request, all of it at once,   *)
(* and never changes; a request is told "created" only if it recorded the  *)
(* result, "conflict" only if some request had recorded one.  A lost reply *)
(* says nothing.  ExamSubmission implements this.                          *)
(***************************************************************************)
CONSTANTS
  Submits,      \* submit requests
  Assignments,
  Outcomes,     \* what grading one list of answers can produce
  None

VARIABLES
  result,       \* result[a]: the results recorded for assignment a
  reply         \* reply[s]: HTTP status sent to request s

vars == <<result, reply>>

Refusals == {400, 403, 404}

Init ==
  /\ result = [a \in Assignments |-> {}]
  /\ reply = [s \in Submits |-> None]

Accept(s) ==
  /\ reply[s] = None
  /\ \E a \in Assignments, o \in Outcomes :
       /\ result[a] = {}
       /\ result' = [result EXCEPT ![a] = {[by |-> s, outcome |-> o]}]
  /\ \E status \in {201, 500} : reply' = [reply EXCEPT ![s] = status]

Conflict(s) ==
  /\ reply[s] = None
  /\ \E a \in Assignments : result[a] # {}
  /\ reply' = [reply EXCEPT ![s] = 409]
  /\ UNCHANGED result

Refuse(s) ==
  /\ reply[s] = None
  /\ \E status \in Refusals : reply' = [reply EXCEPT ![s] = status]
  /\ UNCHANGED result

\* One request fails, or the server stops and every open request with it.
Lose(lost) ==
  /\ \A s \in lost : reply[s] = None
  /\ reply' = [s \in Submits |-> IF s \in lost THEN 500 ELSE reply[s]]
  /\ UNCHANGED result

Next ==
  \/ \E s \in Submits : Accept(s) \/ Conflict(s) \/ Refuse(s)
  \/ \E lost \in SUBSET Submits : Lose(lost)

Spec == Init /\ [][Next]_vars
=============================================================================
