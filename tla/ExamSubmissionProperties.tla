---------------------- MODULE ExamSubmissionProperties ----------------------
(***************************************************************************)
(* What ExamSubmission guarantees: its type, the safety of the stored      *)
(* results, of the replies and of the reads, that it implements SubmitOnce,*)
(* that every request is answered, and the inductive invariant from which  *)
(* ExamSubmissionProofs derives the first of these.                        *)
(***************************************************************************)
EXTENDS ExamSubmission

Grades     == { Grade(rows, l) : rows \in ExamContents, l \in AnswerLists }
Submission == [id : Submits, assignment : AssignmentIds, score : Nat]
Answer     == UNION { AnswerRowsOf(s, g) : s \in Submits, g \in Grades }
Rows       == [submission : SUBSET Submission, answer : SUBSET Answer]

SubmitRequest == [user : Users, assignment : AssignmentIds, answers : AnswerLists]
ViewRequest   == [user : Users, submission : Submits]
ListRequest   == [user : Users, exam : Exams]

\* Every variable stays in its domain; in particular a stored score is a
\* number from the moment its row exists (submission.score is NOT NULL).
TypeOK ==
  /\ exam \in [Exams -> ExamContents \union {None}]
  /\ assignment \in [AssignmentIds -> [exam : Exams, user : Users] \union {None}]
  /\ submission \subseteq Submission /\ answer \subseteq Answer
  /\ pc \in [Requests -> {"idle", "assignment", "grade", "insert", "answers",
                          "commit", "owner", "row", "rows", "load", "done"}]
  /\ req \in [Requests -> SubmitRequest \union ViewRequest \union ListRequest
                            \union {None}]
  /\ resp \in [Requests -> {None, 200, 201, 400, 403, 404, 409, 500}]
  /\ graded \in [Submits -> Grades \union {None}]
  /\ tx \in [Submits -> Rows]
  /\ seen \in [Readers -> Rows]
  /\ \A s \in Submits : pc[s] # "idle" => req[s] \in SubmitRequest
  /\ \A v \in Views : pc[v] # "idle" => req[v] \in ViewRequest
  /\ \A l \in Lists : pc[l] # "idle" => req[l] \in ListRequest

AnswersOf(row, answers) == { x \in answers : x.submission = row.id }

\* row and its answers are a whole result: one answer for each question of the
\* assignment's exam and no other, and the score is the number of correct ones.
Whole(row, answers) ==
  LET own == AnswersOf(row, answers) IN
  /\ { x.question : x \in own } = Questions(exam[assignment[row.assignment].exam])
  /\ Cardinality(own) = Cardinality({ x.question : x \in own })
  /\ row.score = Cardinality({ x \in own : x.correct })

\* Whatever fails or interleaves, an assignment never has two submissions
\* (the retry of a lost request, two tabs), and no answer is left without its
\* submission.
OneResultPerAssignment ==
  /\ \A r1, r2 \in submission : r1.assignment = r2.assignment => r1 = r2
  /\ \A x \in answer : \E row \in submission : x.submission = row.id

\* A committed submission is whole: submit_exam.py:125-139 writes the row, the
\* score and an answer for every question in one transaction (CRIT-1).
StoredWhole == \A row \in submission : Whole(row, answer)

\* A result was written by the user its assignment belongs to.
OnlyOwnResult ==
  \A row \in submission :
    /\ assignment[row.assignment] # None
    /\ OwnerOf(row) = req[row.id].user

\* What the tables hold for an assignment is one result, whole, its owner's.
ResultsAreSound == OneResultPerAssignment /\ StoredWhole /\ OnlyOwnResult

\* The 201 body is built from memory (submit_exam.py:144-149), not read back:
\* it must be what is stored, and a 409 must mean that a result is stored.
RepliesAreTrue ==
  \A s \in Submits :
    /\ resp[s] = 201 => SubmissionRow(s) \in submission /\ AnswerRows(s) \subseteq answer
    /\ resp[s] = 409 => Submitted(req[s].assignment)
    /\ resp[s] \in {400, 403, 404, 409} => \A row \in submission : row.id # s

\* A reader gets each submission with all its answers although the two come
\* from two queries with different snapshots (get_results.py:40, WARN-4): the
\* "total_questions" it derives from the answers is the exam's.
ReadsAreWhole ==
  \A r \in Readers : resp[r] = 200 =>
    /\ \A row \in seen[r].submission : Whole(row, seen[r].answer)
    /\ \A x \in seen[r].answer : \E row \in seen[r].submission : x.submission = row.id

\* CRIT-2: no result data has been queried for a caller who is neither the
\* owner nor an admin, at any point of the handler.
ReadsAreAuthorised ==
  \A r \in Readers : \A row \in seen[r].submission :
    req[r].user \in Admins \/ OwnerOf(row) = req[r].user

-----------------------------------------------------------------------------
(* The inductive invariant behind the properties of the submit handler.    *)

AssignmentOf(s) == assignment[req[s].assignment]

\* An assignment's exam is in the catalog, and exactly the answered requests
\* have a status.
Catalogued ==
  /\ \A a \in AssignmentIds : assignment[a] # None => exam[assignment[a].exam] # None
  /\ \A r \in Requests : pc[r] = "done" <=> resp[r] # None

\* What a request past its checks knows is still so: the assignment is its
\* user's, and its grades are those of its answers in the assignment's exam.
GradedFor(s) ==
  /\ AssignmentOf(s) # None
  /\ AssignmentOf(s).user = req[s].user
  /\ graded[s] = Grade(exam[AssignmentOf(s).exam], req[s].answers)
InMemory ==
  /\ \A s \in Submits : pc[s] = "grade" =>
       AssignmentOf(s) # None /\ AssignmentOf(s).user = req[s].user
  /\ \A s \in Submits : pc[s] \in {"insert", "answers", "commit"} => GradedFor(s)

\* A transaction holds exactly the rows its request has flushed.
WriteSets ==
  \A s \in Submits :
    /\ pc[s] \in {"answers", "commit"} => tx[s].submission = {SubmissionRow(s)}
    /\ pc[s] \notin {"answers", "commit"} => tx[s].submission = {}
    /\ pc[s] = "commit" => tx[s].answer = AnswerRows(s)
    /\ pc[s] # "commit" => tx[s].answer = {}

\* Whoever holds the key of an assignment is alone, and nothing is committed.
HoldsKey(s) == pc[s] \in {"answers", "commit"}
KeyIsExclusive ==
  \A s \in Submits : HoldsKey(s) =>
    /\ ~Submitted(req[s].assignment)
    /\ \A t \in Submits : HoldsKey(t) /\ req[t].assignment = req[s].assignment
                            => t = s

\* Every committed row is traced to a finished request and has its answers.
CommittedRows ==
  /\ \A row \in submission :
       /\ pc[row.id] = "done" /\ resp[row.id] \in {201, 500}
       /\ row = SubmissionRow(row.id)
       /\ GradedFor(row.id)
       /\ AnswerRows(row.id) \subseteq answer
  /\ \A x \in answer :
       /\ \E row \in submission : row.id = x.submission
       /\ x \in AnswerRows(x.submission)

Replies ==
  \A s \in Submits :
    /\ resp[s] = 201 => SubmissionRow(s) \in submission
    /\ resp[s] = 409 => Submitted(req[s].assignment)
    /\ resp[s] # 200

UniqueRows == \A r1, r2 \in submission : r1.assignment = r2.assignment => r1 = r2

\* What TypeOK and the properties need to be preserved by every step: what
\* each request has in memory, what each open transaction holds and that no
\* two of them hold the same key, and where every committed row came from.
SubmitInvariant ==
  /\ TypeOK /\ Catalogued /\ InMemory /\ WriteSets /\ KeyIsExclusive
  /\ CommittedRows /\ Replies /\ UniqueRows

-----------------------------------------------------------------------------
(* The inductive invariant behind the properties of the readers.           *)

MayRead(r, row) == req[r].user \in Admins \/ OwnerOf(row) = req[r].user
AnswersTo(rows) == { x \in answer : \E row \in rows : x.submission = row.id }

\* What a reader has seen is committed and may be read by its user, which it
\* knows before the query; the answers of an answered request are those that
\* are committed still.
ReaderInvariant(r) ==
  /\ seen[r].submission \subseteq submission
  /\ pc[r] = "idle" => seen[r].submission = {}
  /\ r \in Views /\ pc[r] = "row" =>
       \E row \in submission : row.id = req[r].submission /\ MayRead(r, row)
  /\ r \in Lists /\ pc[r] = "rows" => req[r].user \in Admins
  /\ \A row \in seen[r].submission : MayRead(r, row)
  /\ resp[r] = 200 => seen[r].answer = AnswersTo(seen[r].submission)
ReadInvariant == \A r \in Readers : ReaderInvariant(r)

-----------------------------------------------------------------------------
\* The promise of SubmitOnce, read off the tables and the replies.
Outcome(g) ==
  [score |-> Score(g),
   answers |-> { [question |-> q, selected |-> g[q].selected, correct |-> g[q].correct]
                 : q \in DOMAIN g }]
Recorded(row) ==
  [by |-> row.id,
   outcome |-> [score |-> row.score,
                answers |-> { [question |-> x.question, selected |-> x.selected,
                               correct |-> x.correct] : x \in AnswersOf(row, answer) }]]
ResultsOf(a) == { Recorded(row) : row \in { r \in submission : r.assignment = a } }
Results == [a \in AssignmentIds |-> ResultsOf(a)]
Replied == [s \in Submits |-> resp[s]]
Promise == INSTANCE SubmitOnce WITH
  Assignments <- AssignmentIds, Outcomes <- { Outcome(g) : g \in Grades },
  result <- Results, reply <- Replied

\* Each request acts as one atomic step of SubmitOnce: results are recorded
\* once, whole, from one request's answers, never change, and the replies fit.
ImplementsSubmitOnce == Promise!Spec

\* A request whose handler started is answered: it may wait for another
\* submission of the same assignment, but every transaction ends.  A request is
\* served once and "done" is final, so each is answered if again and again none
\* is open.
EveryRequestIsAnswered == []<>(\A r \in Requests : ~Open(r))
=============================================================================
