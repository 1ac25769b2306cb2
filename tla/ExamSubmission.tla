--------------------------- MODULE ExamSubmission ---------------------------
(***************************************************************************)
(* Submitting an exam and reading results: the handlers of                 *)
(* app/api/v1/routes/submissions.py with the services and repositories     *)
(* they call, running concurrently over one PostgreSQL database at READ    *)
(* COMMITTED.  A handler yields at every await on the database, so every   *)
(* statement is an action; what a transaction wrote is visible to others   *)
(* only from its COMMIT on, except that the unique index on                *)
(* submission.exam_assignment_id makes a second INSERT of the same key     *)
(* wait for the transaction that holds it.                                 *)
(*                                                                         *)
(* The ids in a committed table stand for the request that drew them: a    *)
(* request inserts at most one submission.  The catalog (exams and         *)
(* assignments) is filled by CreateExam and AssignExam, one atomic commit  *)
(* each.                                                                   *)
(***************************************************************************)
EXTENDS Grading

CONSTANTS
  Submits, Views, Lists,   \* requests: submit, read one result, list an exam
  Users, Admins,           \* Admins: the users whose role is "admin"
  Exams, AssignmentIds,    \* ids the database may hand out
  ExamContents,            \* grading rows an exam may consist of
  AnswerLists              \* bodies of submit requests

ASSUME SubmissionAssumption ==
  /\ Admins \subseteq Users
  /\ Submits \intersect Views = {} /\ Submits \intersect Lists = {}
  /\ Views \intersect Lists = {}
  /\ None \notin Users \union Submits \union Views \union Lists \union Exams
  /\ None \notin ExamContents /\ None \notin 200..500
  /\ \A rows \in ExamContents : IsFiniteSet(DOMAIN rows)

VARIABLES
  exam,         \* exam[e]: the grading rows of exam e, or None
  assignment,   \* assignment[a]: [exam, user], or None
  submission,   \* committed rows [id, assignment, score]
  answer,       \* committed rows [submission, question, selected, correct]
  pc, req,      \* per request: where its handler is, and what was asked
  resp,         \* per request: HTTP status; 500 also for a dropped connection
  graded,       \* per submit request: the result of grade(), kept in memory
  tx,           \* per submit request: rows written and not yet committed
  seen          \* per read request: rows read so far

catalog == <<exam, assignment>>
tables  == <<submission, answer>>
vars    == <<exam, assignment, submission, answer, pc, req, resp, graded, tx, seen>>

Readers  == Views \union Lists
Requests == Submits \union Readers
NoRows   == [submission |-> {}, answer |-> {}]

Init ==
  /\ exam = [e \in Exams |-> None]
  /\ assignment = [a \in AssignmentIds |-> None]
  /\ submission = {} /\ answer = {}
  /\ pc = [r \in Requests |-> "idle"]
  /\ req = [r \in Requests |-> None]
  /\ resp = [r \in Requests |-> None]
  /\ graded = [s \in Submits |-> None]
  /\ tx = [s \in Submits |-> NoRows]
  /\ seen = [r \in Readers |-> NoRows]

Goto(r, label) == pc' = [pc EXCEPT ![r] = label] /\ UNCHANGED resp
Finish(r, status) ==
  pc' = [pc EXCEPT ![r] = "done"] /\ resp' = [resp EXCEPT ![r] = status]
Open(r) == pc[r] \notin {"idle", "done"}

-----------------------------------------------------------------------------
(* The catalog, as far as submissions see it.                              *)

CreateExam(e) ==
  /\ exam[e] = None
  /\ \E rows \in ExamContents : exam' = [exam EXCEPT ![e] = rows]
  /\ UNCHANGED <<assignment, tables, pc, req, resp, graded, tx, seen>>

\* assign_exam: an existing exam, a user whose role is "user", and a pair
\* that the unique constraint has not seen.
AssignExam(a) ==
  /\ assignment[a] = None
  /\ \E e \in Exams, u \in Users \ Admins :
       /\ exam[e] # None
       /\ \A b \in AssignmentIds : assignment[b] # [exam |-> e, user |-> u]
       /\ assignment' = [assignment EXCEPT ![a] = [exam |-> e, user |-> u]]
  /\ UNCHANGED <<exam, tables, pc, req, resp, graded, tx, seen>>

-----------------------------------------------------------------------------
(* POST /exams/{assignment_id}/submit                                      *)

ReceiveSubmit(s) ==
  /\ pc[s] = "idle"
  /\ \E u \in Users, a \in AssignmentIds, l \in AnswerLists :
       req' = [req EXCEPT ![s] = [user |-> u, assignment |-> a, answers |-> l]]
  /\ Goto(s, "assignment")
  /\ UNCHANGED <<catalog, tables, graded, tx, seen>>

\* Mutant: the ownership check is missing.
ReadAssignment_AnyUser(s) ==
  LET row == assignment[req[s].assignment] IN
  /\ pc[s] = "assignment"
  /\ \/ row = None /\ Finish(s, 404)
     \/ row # None /\ Goto(s, "grade")
  /\ UNCHANGED <<catalog, tables, req, graded, tx, seen>>

ReadAssignment(s) ==
  LET row == assignment[req[s].assignment] IN
  /\ pc[s] = "assignment"
  /\ \/ row = None /\ Finish(s, 404)
     \/ row # None /\ row.user # req[s].user /\ Finish(s, 403)
     \/ row # None /\ row.user = req[s].user /\ Goto(s, "grade")
  /\ UNCHANGED <<catalog, tables, req, graded, tx, seen>>

\* get_grading_data, the validation and grade() on what it returned, and the
\* rollback that ends the read transaction.
GradeAnswers(s) ==
  LET rows == exam[assignment[req[s].assignment].exam] IN
  /\ pc[s] = "grade"
  /\ \/ /\ HasInvalidAnswer(rows, req[s].answers)
        /\ Finish(s, 400)
        /\ UNCHANGED graded
     \/ /\ ~HasInvalidAnswer(rows, req[s].answers)
        /\ graded' = [graded EXCEPT ![s] = Grade(rows, req[s].answers)]
        /\ Goto(s, "insert")
  /\ UNCHANGED <<catalog, tables, req, tx, seen>>

\* Another transaction has inserted a submission for a and not ended yet.
HeldByOther(s, a) ==
  \E t \in Submits \ {s} : \E row \in tx[t].submission : row.assignment = a
Submitted(a) == \E row \in submission : row.assignment = a
SubmissionRow(s) ==
  [id |-> s, assignment |-> req[s].assignment, score |-> Score(graded[s])]

\* Mutant: no unique constraint; the service looks for a committed row first.
InsertSubmission_CheckFirst(s) ==
  /\ pc[s] = "insert"
  /\ \/ /\ Submitted(req[s].assignment)
        /\ Finish(s, 409)
        /\ UNCHANGED tx
     \/ /\ ~Submitted(req[s].assignment)
        /\ tx' = [tx EXCEPT ![s].submission = {SubmissionRow(s)}]
        /\ Goto(s, "answers")
  /\ UNCHANGED <<catalog, tables, req, graded, seen>>

\* Mutant: a key held by an open transaction is reported as a conflict.
InsertSubmission_NoWait(s) ==
  LET a == req[s].assignment IN
  /\ pc[s] = "insert"
  /\ \/ /\ Submitted(a) \/ HeldByOther(s, a)
        /\ Finish(s, 409)
        /\ UNCHANGED tx
     \/ /\ ~Submitted(a) /\ ~HeldByOther(s, a)
        /\ tx' = [tx EXCEPT ![s].submission = {SubmissionRow(s)}]
        /\ Goto(s, "answers")
  /\ UNCHANGED <<catalog, tables, req, graded, seen>>

\* Mutant: the submission is committed on its own, before its answers.
InsertSubmission_Autocommit(s) ==
  LET a == req[s].assignment IN
  /\ pc[s] = "insert"
  /\ \/ /\ Submitted(a)
        /\ Finish(s, 409)
        /\ UNCHANGED submission
     \/ /\ ~Submitted(a)
        /\ submission' = submission \union {SubmissionRow(s)}
        /\ Goto(s, "answers")
  /\ UNCHANGED <<catalog, answer, req, graded, tx, seen>>

\* The write transaction: BEGIN and the first flush.  The INSERT waits while
\* another transaction holds the key; a committed row makes it fail, which
\* submit_exam turns into a rollback and AlreadySubmittedError.
InsertSubmission(s) ==
  LET a == req[s].assignment IN
  /\ pc[s] = "insert"
  /\ ~HeldByOther(s, a)
  /\ \/ /\ Submitted(a)
        /\ Finish(s, 409)
        /\ UNCHANGED tx
     \/ /\ ~Submitted(a)
        /\ tx' = [tx EXCEPT ![s].submission = {SubmissionRow(s)}]
        /\ Goto(s, "answers")
  /\ UNCHANGED <<catalog, tables, req, graded, seen>>

AnswerRowsOf(s, g) ==
  { [submission |-> s, question |-> q, selected |-> g[q].selected,
     correct |-> g[q].correct] : q \in DOMAIN g }
AnswerRows(s) == AnswerRowsOf(s, graded[s])

FlushAnswers(s) ==
  /\ pc[s] = "answers"
  /\ tx' = [tx EXCEPT ![s].answer = AnswerRows(s)]
  /\ Goto(s, "commit")
  /\ UNCHANGED <<catalog, tables, req, graded, seen>>

\* Mutant: the reply is sent and the transaction is never committed.
Commit_NotDurable(s) ==
  /\ pc[s] = "commit"
  /\ tx' = [tx EXCEPT ![s] = NoRows]
  /\ \E status \in {201, 500} : Finish(s, status)
  /\ UNCHANGED <<catalog, tables, req, graded, seen>>

\* COMMIT.  The connection may break after the server has committed: then the
\* handler raises and the client gets a 500 for a result that is recorded.
Commit(s) ==
  /\ pc[s] = "commit"
  /\ submission' = submission \union tx[s].submission
  /\ answer' = answer \union tx[s].answer
  /\ tx' = [tx EXCEPT ![s] = NoRows]
  /\ \E status \in {201, 500} : Finish(s, status)
  /\ UNCHANGED <<catalog, req, graded, seen>>

-----------------------------------------------------------------------------
(* GET /submissions/{submission_id} and GET /exams/{exam_id}/submissions    *)

ReceiveView(v) ==
  /\ pc[v] = "idle"
  /\ \E u \in Users, s \in Submits :
       req' = [req EXCEPT ![v] = [user |-> u, submission |-> s]]
  /\ Goto(v, "owner")
  /\ UNCHANGED <<catalog, tables, graded, tx, seen>>

OwnerOf(row) == assignment[row.assignment].user

\* Mutant: whoever is not the owner gets the result.
ReadOwner_AnyUser(v) ==
  LET rows == { row \in submission : row.id = req[v].submission } IN
  /\ pc[v] = "owner"
  /\ \/ rows = {} /\ Finish(v, 404)
     \/ rows # {} /\ Goto(v, "row")
  /\ UNCHANGED <<catalog, tables, req, graded, tx, seen>>

\* get_owner_user_id and the checks on it.
ReadOwner(v) ==
  LET rows == { row \in submission : row.id = req[v].submission }
      mine == req[v].user \in Admins \/ \E row \in rows : OwnerOf(row) = req[v].user
  IN
  /\ pc[v] = "owner"
  /\ \/ rows = {} /\ Finish(v, 404)
     \/ rows # {} /\ ~mine /\ Finish(v, 403)
     \/ rows # {} /\ mine /\ Goto(v, "row")
  /\ UNCHANGED <<catalog, tables, req, graded, tx, seen>>

\* get_by_id_with_answers, first query; without a row the handler gives up.
ReadRow(v) ==
  LET rows == { row \in submission : row.id = req[v].submission } IN
  /\ pc[v] = "row"
  /\ \/ rows = {} /\ Finish(v, 404) /\ UNCHANGED seen
     \/ /\ rows # {}
        /\ seen' = [seen EXCEPT ![v].submission = rows]
        /\ Goto(v, "load")
  /\ UNCHANGED <<catalog, tables, req, graded, tx>>

\* require_role("admin") runs before the handler.
ReceiveList(l) ==
  /\ pc[l] = "idle"
  /\ \E u \in Users, e \in Exams :
       /\ req' = [req EXCEPT ![l] = [user |-> u, exam |-> e]]
       /\ IF u \in Admins THEN Goto(l, "rows") ELSE Finish(l, 403)
  /\ UNCHANGED <<catalog, tables, graded, tx, seen>>

\* list_for_exam, first query.
ReadRows(l) ==
  /\ pc[l] = "rows"
  /\ seen' = [seen EXCEPT ![l].submission =
       { row \in submission : assignment[row.assignment].exam = req[l].exam }]
  /\ Goto(l, "load")
  /\ UNCHANGED <<catalog, tables, req, graded, tx>>

\* The selectinload query: the answers of the rows just read.
LoadAnswers(r) ==
  /\ pc[r] = "load"
  /\ seen' = [seen EXCEPT ![r].answer =
       { row \in answer : \E sub \in seen[r].submission : row.submission = sub.id }]
  /\ Finish(r, 200)
  /\ UNCHANGED <<catalog, tables, req, graded, tx>>

-----------------------------------------------------------------------------
(* Failures: a statement or the connection fails and the exception leaves   *)
(* the handler, or the process dies.  Both end the open transactions.       *)

\* Mutant: the failed request's transaction stays open.
Fail_KeepsTransaction(r) ==
  /\ Open(r)
  /\ Finish(r, 500)
  /\ UNCHANGED <<catalog, tables, req, graded, tx, seen>>

Fail(r) ==
  /\ Open(r)
  /\ Finish(r, 500)
  /\ tx' = [s \in Submits |-> IF s = r THEN NoRows ELSE tx[s]]
  /\ UNCHANGED <<catalog, tables, req, graded, seen>>

Crash ==
  /\ \E r \in Requests : Open(r)
  /\ pc' = [r \in Requests |-> IF Open(r) THEN "done" ELSE pc[r]]
  /\ resp' = [r \in Requests |-> IF Open(r) THEN 500 ELSE resp[r]]
  /\ tx' = [s \in Submits |-> NoRows]
  /\ UNCHANGED <<catalog, tables, req, graded, seen>>

-----------------------------------------------------------------------------
SubmitStep(s) ==
  ReadAssignment(s) \/ GradeAnswers(s) \/ InsertSubmission(s) \/ FlushAnswers(s)
    \/ Commit(s)
ViewStep(v) == ReadOwner(v) \/ ReadRow(v) \/ LoadAnswers(v)
ListStep(l) == ReadRows(l) \/ LoadAnswers(l)

Next ==
  \/ \E e \in Exams : CreateExam(e)
  \/ \E a \in AssignmentIds : AssignExam(a)
  \/ \E s \in Submits : ReceiveSubmit(s) \/ SubmitStep(s)
  \/ \E v \in Views : ReceiveView(v) \/ ViewStep(v)
  \/ \E l \in Lists : ReceiveList(l) \/ ListStep(l)
  \/ \E r \in Requests : Fail(r)
  \/ Crash

Spec == Init /\ [][Next]_vars

\* The event loop resumes a handler whose statement has returned; clients may
\* stay silent and failures may never come.
FairSpec ==
  /\ Spec
  /\ \A s \in Submits : WF_vars(SubmitStep(s))
  /\ \A v \in Views : WF_vars(ViewStep(v))
  /\ \A l \in Lists : WF_vars(ListStep(l))
=============================================================================
