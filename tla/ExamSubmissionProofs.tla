------------------------ MODULE ExamSubmissionProofs ------------------------
(***************************************************************************)
(* Proofs about ExamSubmission for every set of requests, users, exams and *)
(* answer lists: SubmitInvariant is inductive; the type invariant, the     *)
(* safety of results and replies, and the refinement of SubmitOnce follow; *)
(* on it rest the proofs about readers, for lists of any number of results.*)
(* Grade is used only through its domain: the proofs hold for any grading. *)
(***************************************************************************)
EXTENDS ExamSubmissionProperties, FiniteSetTheorems, TLAPS

\* An exam with finitely many rows has finitely many questions.
LEMMA QuestionsFinite ==
  ASSUME NEW rows, IsFiniteSet(DOMAIN rows)
  PROVE  IsFiniteSet(Questions(rows))
<1> DEFINE question == [i \in DOMAIN rows |-> rows[i].question]
<1>1. question \in Surjection(DOMAIN rows, Questions(rows))
  BY DEF Surjection, Questions
<1>2. QED BY <1>1, FS_Surjection

\* The score of a grading (submit_exam.py:121) is a natural number.
LEMMA ScoreType ==
  ASSUME NEW rows, IsFiniteSet(DOMAIN rows), NEW l
  PROVE  Score(Grade(rows, l)) \in Nat
<1> DEFINE graded0 == Grade(rows, l)
<1>1. DOMAIN graded0 = Questions(rows)
  BY DEF Grade
<1>2. IsFiniteSet({ q \in DOMAIN graded0 : graded0[q].correct })
  <2> HIDE DEF graded0
  <2> QED BY <1>1, QuestionsFinite, FS_Subset
<1>3. QED BY <1>2, FS_CardinalityType DEF Score

-----------------------------------------------------------------------------
\* The rows a request would write are fixed by what it has in memory.
LEMMA SameRows ==
  ASSUME NEW s, graded'[s] = graded[s], req'[s] = req[s]
  PROVE  SubmissionRow(s)' = SubmissionRow(s) /\ AnswerRows(s)' = AnswerRows(s)
BY DEF SubmissionRow, AnswerRows, AnswerRowsOf

\* What a request has graded still fits while catalog, answers and grades stay.
LEMMA SameGrades ==
  ASSUME NEW s, UNCHANGED catalog, graded'[s] = graded[s], req'[s] = req[s]
  PROVE  GradedFor(s)' <=> GradedFor(s)
BY DEF GradedFor, AssignmentOf, catalog

\* A step of one request that writes no table and no transaction keeps the
\* invariant when what it leaves in memory is as InMemory says.
LEMMA QuietStep ==
  ASSUME SubmitInvariant, TypeOK', Catalogued',
         UNCHANGED <<catalog, tables, tx>>,
         NEW r \in Requests,
         \A t \in Submits \ {r} :
           /\ pc'[t] = pc[t] /\ req'[t] = req[t]
           /\ resp'[t] = resp[t] /\ graded'[t] = graded[t],
         r \in Submits =>
           /\ pc[r] \notin {"answers", "commit", "done"}
           /\ pc'[r] \notin {"answers", "commit"}
           /\ pc'[r] = "grade" => AssignmentOf(r)' # None /\ AssignmentOf(r)'.user = req'[r].user
           /\ pc'[r] = "insert" => GradedFor(r)'
           /\ resp'[r] \notin {200, 201}
           /\ resp'[r] = 409 => Submitted(req'[r].assignment)
  PROVE  SubmitInvariant'
<1> USE DEF SubmitInvariant
<1>0. \A t \in Submits \ {r} :
        /\ SubmissionRow(t)' = SubmissionRow(t)
        /\ AnswerRows(t)' = AnswerRows(t)
        /\ GradedFor(t)' <=> GradedFor(t)
        /\ AssignmentOf(t)' = AssignmentOf(t)
  BY SameRows, SameGrades DEF AssignmentOf, catalog
<1>1. \A row \in submission : row.id \in Submits \ {r}
  BY DEF TypeOK, Submission, CommittedRows
<1>2. \A x \in answer : x.submission \in Submits \ {r}
  BY <1>1 DEF CommittedRows
<1>3. InMemory'
  BY <1>0 DEF InMemory
<1>4. WriteSets'
  BY <1>0 DEF WriteSets
<1>5. KeyIsExclusive'
  BY DEF KeyIsExclusive, HoldsKey, Submitted, tables
<1>6. CommittedRows'
  BY <1>0, <1>1, <1>2 DEF CommittedRows, tables
<1>7. Replies'
  BY <1>0 DEF Replies, Submitted, tables
<1>8. UniqueRows'
  BY DEF UniqueRows, tables
<1> QED BY <1>3, <1>4, <1>5, <1>6, <1>7, <1>8

\* A step of a reader, which touches nothing of a submit request.
LEMMA QuietReader ==
  ASSUME SubmitInvariant, TypeOK', Catalogued',
         UNCHANGED <<catalog, tables, graded, tx>>,
         NEW r \in Readers,
         \A t \in Requests \ {r} : pc'[t] = pc[t] /\ req'[t] = req[t] /\ resp'[t] = resp[t]
  PROVE  SubmitInvariant'
<1>1. r \in Requests /\ r \notin Submits /\ Submits \subseteq Requests \ {r}
  BY SubmissionAssumption DEF Requests, Readers
<1>2. QED
  BY <1>1, QuietStep

\* A submit request arrives.
LEMMA ReceiveSubmitStep ==
  ASSUME SubmitInvariant, NEW s \in Submits, ReceiveSubmit(s)
  PROVE  SubmitInvariant'
<1> USE SubmissionAssumption DEF ReceiveSubmit, Goto, Finish, Requests, Readers
<1>1. TypeOK'
  BY DEF SubmitInvariant, TypeOK, catalog, tables, SubmitRequest
<1>2. Catalogued'
  BY DEF SubmitInvariant, TypeOK, Catalogued, catalog
<1>3. \A t \in Submits \ {s} :
        /\ pc'[t] = pc[t] /\ req'[t] = req[t] /\ resp'[t] = resp[t] /\ graded'[t] = graded[t]
  BY DEF SubmitInvariant, TypeOK
<1>4. pc[s] = "idle" /\ pc'[s] = "assignment" /\ resp'[s] = None
  BY DEF SubmitInvariant, TypeOK, Catalogued
<1>5. UNCHANGED <<catalog, tables, tx>> /\ s \in Requests
  BY DEF catalog, tables
<1>6. QED
  BY <1>1, <1>2, <1>3, <1>4, <1>5, QuietStep

\* Its assignment is read and checked.
LEMMA ReadAssignmentStep ==
  ASSUME SubmitInvariant, NEW s \in Submits, ReadAssignment(s)
  PROVE  SubmitInvariant'
<1> USE SubmissionAssumption DEF ReadAssignment, Goto, Finish, Requests, Readers
<1>1. TypeOK'
  BY DEF SubmitInvariant, TypeOK, catalog, tables
<1>2. Catalogued'
  BY DEF SubmitInvariant, TypeOK, Catalogued, catalog
<1>3. \A t \in Submits \ {s} :
        /\ pc'[t] = pc[t] /\ req'[t] = req[t] /\ resp'[t] = resp[t] /\ graded'[t] = graded[t]
  BY DEF SubmitInvariant, TypeOK
<1>4. /\ pc[s] = "assignment" /\ pc'[s] \in {"grade", "done"}
      /\ resp'[s] \in {None, 403, 404}
  BY DEF SubmitInvariant, TypeOK, Catalogued
<1>5. pc'[s] = "grade" => AssignmentOf(s)' # None /\ AssignmentOf(s)'.user = req'[s].user
  BY DEF SubmitInvariant, TypeOK, AssignmentOf, catalog
<1>6. UNCHANGED <<catalog, tables, tx>> /\ s \in Requests
  BY DEF catalog, tables
<1>7. QED
  BY <1>1, <1>2, <1>3, <1>4, <1>5, <1>6, QuietStep

\* Its answers are validated and graded, or refused.
LEMMA GradeAnswersStep ==
  ASSUME SubmitInvariant, NEW s \in Submits, GradeAnswers(s)
  PROVE  SubmitInvariant'
<1> USE SubmissionAssumption DEF GradeAnswers, Goto, Finish, Requests, Readers
<1>1. /\ AssignmentOf(s) # None /\ AssignmentOf(s).user = req[s].user
      /\ AssignmentOf(s).exam \in Exams
      /\ exam[AssignmentOf(s).exam] \in ExamContents
      /\ req[s] \in SubmitRequest
  BY DEF SubmitInvariant, TypeOK, Catalogued, InMemory, AssignmentOf, SubmitRequest
<1>2. Grade(exam[AssignmentOf(s).exam], req[s].answers) \in Grades
  BY <1>1 DEF Grades, SubmitRequest
<1>3. graded' \in [Submits -> Grades \union {None}]
  BY <1>2 DEF SubmitInvariant, TypeOK, AssignmentOf
<1>4. TypeOK'
  BY <1>3 DEF SubmitInvariant, TypeOK, catalog, tables
<1>5. Catalogued'
  BY DEF SubmitInvariant, TypeOK, Catalogued, catalog
<1>6. pc'[s] = "insert" => GradedFor(s)'
  BY <1>1 DEF SubmitInvariant, TypeOK, GradedFor, AssignmentOf, catalog
<1>7. \A t \in Submits \ {s} :
        /\ pc'[t] = pc[t] /\ req'[t] = req[t] /\ resp'[t] = resp[t] /\ graded'[t] = graded[t]
  BY DEF SubmitInvariant, TypeOK
<1>8. pc[s] = "grade" /\ pc'[s] \in {"insert", "done"} /\ resp'[s] \in {None, 400}
  BY DEF SubmitInvariant, TypeOK, Catalogued
<1>9. UNCHANGED <<catalog, tables, tx>> /\ s \in Requests
  BY DEF catalog, tables
<1>10. QED
  BY <1>4, <1>5, <1>6, <1>7, <1>8, <1>9, QuietStep

\* A request for one result arrives.
LEMMA ReceiveViewStep ==
  ASSUME SubmitInvariant, NEW v \in Views, ReceiveView(v)
  PROVE  SubmitInvariant'
<1> USE SubmissionAssumption DEF ReceiveView, Goto, Finish, Requests, Readers
<1>1. TypeOK'
  BY DEF SubmitInvariant, TypeOK, catalog, tables, ViewRequest
<1>2. Catalogued'
  BY DEF SubmitInvariant, TypeOK, Catalogued, catalog
<1>3. \A t \in Requests \ {v} : pc'[t] = pc[t] /\ req'[t] = req[t] /\ resp'[t] = resp[t]
  BY DEF SubmitInvariant, TypeOK
<1>4. UNCHANGED <<catalog, tables, graded, tx>>
  BY DEF catalog, tables
<1>5. QED
  BY <1>1, <1>2, <1>3, <1>4, QuietReader

\* The owner is read and checked.
LEMMA ReadOwnerStep ==
  ASSUME SubmitInvariant, NEW v \in Views, ReadOwner(v)
  PROVE  SubmitInvariant'
<1> USE SubmissionAssumption DEF ReadOwner, Goto, Finish, Requests, Readers
<1>1. TypeOK'
  BY DEF SubmitInvariant, TypeOK, catalog, tables
<1>2. Catalogued'
  BY DEF SubmitInvariant, TypeOK, Catalogued, catalog
<1>3. \A t \in Requests \ {v} : pc'[t] = pc[t] /\ req'[t] = req[t] /\ resp'[t] = resp[t]
  BY DEF SubmitInvariant, TypeOK
<1>4. UNCHANGED <<catalog, tables, graded, tx>>
  BY DEF catalog, tables
<1>5. QED
  BY <1>1, <1>2, <1>3, <1>4, QuietReader

\* The submission row is read.
LEMMA ReadRowStep ==
  ASSUME SubmitInvariant, NEW v \in Views, ReadRow(v)
  PROVE  SubmitInvariant'
<1> USE SubmissionAssumption DEF ReadRow, Goto, Finish, Requests, Readers
<1>1. TypeOK'
  <2>1. { row \in submission : row.id = req[v].submission } \in SUBSET Submission
    BY DEF SubmitInvariant, TypeOK
  <2>2. v \in Readers /\ seen[v] \in Rows
    BY DEF SubmitInvariant, TypeOK
  <2>3. \/ seen' = seen
        \/ seen' = [seen EXCEPT ![v].submission =
                      { row \in submission : row.id = req[v].submission }]
    OBVIOUS
  <2>4. seen' \in [Readers -> Rows]
    <3>1. seen \in [Readers -> Rows]
      BY DEF SubmitInvariant, TypeOK
    <3>2. [seen[v] EXCEPT !.submission =
             { row \in submission : row.id = req[v].submission }] \in Rows
      BY <2>1, <2>2 DEF Rows
    <3>3. \/ seen' = seen
          \/ seen' = [seen EXCEPT ![v] = [seen[v] EXCEPT !.submission =
                        { row \in submission : row.id = req[v].submission }]]
      BY <2>3
    <3>4. QED
      BY <2>2, <3>1, <3>2, <3>3
  <2>5. QED
    BY <2>4 DEF SubmitInvariant, TypeOK, catalog, tables
<1>2. Catalogued'
  BY DEF SubmitInvariant, TypeOK, Catalogued, catalog
<1>3. \A t \in Requests \ {v} : pc'[t] = pc[t] /\ req'[t] = req[t] /\ resp'[t] = resp[t]
  BY DEF SubmitInvariant, TypeOK
<1>4. UNCHANGED <<catalog, tables, graded, tx>>
  BY DEF catalog, tables
<1>5. QED
  BY <1>1, <1>2, <1>3, <1>4, QuietReader

\* A request for the results of an exam arrives.
LEMMA ReceiveListStep ==
  ASSUME SubmitInvariant, NEW l \in Lists, ReceiveList(l)
  PROVE  SubmitInvariant'
<1> USE SubmissionAssumption DEF ReceiveList, Goto, Finish, Requests, Readers
<1>1. TypeOK'
  BY DEF SubmitInvariant, TypeOK, catalog, tables, ListRequest
<1>2. Catalogued'
  BY DEF SubmitInvariant, TypeOK, Catalogued, catalog
<1>3. \A t \in Requests \ {l} : pc'[t] = pc[t] /\ req'[t] = req[t] /\ resp'[t] = resp[t]
  BY DEF SubmitInvariant, TypeOK
<1>4. UNCHANGED <<catalog, tables, graded, tx>>
  BY DEF catalog, tables
<1>5. QED
  BY <1>1, <1>2, <1>3, <1>4, QuietReader

\* The submissions of an exam are read.
LEMMA ReadRowsStep ==
  ASSUME SubmitInvariant, NEW l \in Lists, ReadRows(l)
  PROVE  SubmitInvariant'
<1> USE SubmissionAssumption DEF ReadRows, Goto, Finish, Requests, Readers
<1>1. TypeOK'
  <2>1. seen' \in [Readers -> Rows]
    BY DEF SubmitInvariant, TypeOK, Rows
  <2>2. QED
    BY <2>1 DEF SubmitInvariant, TypeOK, catalog, tables
<1>2. Catalogued'
  BY DEF SubmitInvariant, TypeOK, Catalogued, catalog
<1>3. \A t \in Requests \ {l} : pc'[t] = pc[t] /\ req'[t] = req[t] /\ resp'[t] = resp[t]
  BY DEF SubmitInvariant, TypeOK
<1>4. UNCHANGED <<catalog, tables, graded, tx>>
  BY DEF catalog, tables
<1>5. QED
  BY <1>1, <1>2, <1>3, <1>4, QuietReader

\* The answers of the rows just read are loaded.
LEMMA LoadAnswersStep ==
  ASSUME SubmitInvariant, NEW r \in Readers, LoadAnswers(r)
  PROVE  SubmitInvariant'
<1> USE SubmissionAssumption DEF LoadAnswers, Goto, Finish, Requests, Readers
<1>1. TypeOK'
  <2>1. seen' \in [Readers -> Rows]
    BY DEF SubmitInvariant, TypeOK, Rows
  <2>2. QED
    BY <2>1 DEF SubmitInvariant, TypeOK, catalog, tables
<1>2. Catalogued'
  BY DEF SubmitInvariant, TypeOK, Catalogued, catalog
<1>3. \A t \in Requests \ {r} : pc'[t] = pc[t] /\ req'[t] = req[t] /\ resp'[t] = resp[t]
  BY DEF SubmitInvariant, TypeOK
<1>4. UNCHANGED <<catalog, tables, graded, tx>>
  BY DEF catalog, tables
<1>5. QED
  BY <1>1, <1>2, <1>3, <1>4, QuietReader

-----------------------------------------------------------------------------
(* The catalog grows; no exam and no assignment changes.                   *)

\* New exams and assignments keep what is known of the existing ones.
LEMMA CatalogStep ==
  ASSUME SubmitInvariant, TypeOK', Catalogued',
         UNCHANGED <<tables, pc, req, resp, graded, tx>>,
         \A e \in Exams : exam[e] # None => exam'[e] = exam[e],
         \A a \in AssignmentIds : assignment[a] # None => assignment'[a] = assignment[a]
  PROVE  SubmitInvariant'
<1> USE DEF SubmitInvariant
<1>1. \A s \in Submits :
        /\ SubmissionRow(s)' = SubmissionRow(s)
        /\ AnswerRows(s)' = AnswerRows(s)
  BY SameRows
<1>2. \A s \in Submits : pc[s] # "idle" /\ AssignmentOf(s) # None =>
        /\ AssignmentOf(s)' = AssignmentOf(s)
        /\ exam'[AssignmentOf(s).exam] = exam[AssignmentOf(s).exam]
  BY DEF TypeOK, Catalogued, AssignmentOf, SubmitRequest
<1>3. \A s \in Submits : pc[s] # "idle" /\ GradedFor(s) => GradedFor(s)'
  BY <1>2 DEF GradedFor
<1>4. \A row \in submission : row.id \in Submits
  BY DEF TypeOK, Submission
<1>5. InMemory'
  BY <1>2, <1>3 DEF InMemory
<1>6. WriteSets'
  BY <1>1 DEF WriteSets
<1>7. KeyIsExclusive' /\ Replies' /\ UniqueRows'
  BY <1>1 DEF KeyIsExclusive, HoldsKey, Submitted, Replies, UniqueRows, tables
<1>8. CommittedRows'
  BY <1>1, <1>3, <1>4 DEF CommittedRows, tables
<1>9. QED
  BY <1>5, <1>6, <1>7, <1>8

\* A new exam keeps the invariant.
LEMMA CreateExamStep ==
  ASSUME SubmitInvariant, NEW e \in Exams, CreateExam(e)
  PROVE  SubmitInvariant'
<1> USE SubmissionAssumption DEF CreateExam
<1>1. TypeOK'
  BY DEF SubmitInvariant, TypeOK, tables
<1>2. Catalogued'
  BY DEF SubmitInvariant, TypeOK, Catalogued
<1>3. QED
  BY <1>1, <1>2, CatalogStep DEF SubmitInvariant, TypeOK

\* A new assignment keeps the invariant.
LEMMA AssignExamStep ==
  ASSUME SubmitInvariant, NEW a \in AssignmentIds, AssignExam(a)
  PROVE  SubmitInvariant'
<1> USE DEF AssignExam
<1>1. assignment' \in [AssignmentIds -> [exam : Exams, user : Users] \union {None}]
  BY DEF SubmitInvariant, TypeOK
<1>2. TypeOK'
  BY <1>1 DEF SubmitInvariant, TypeOK, tables
<1>3. Catalogued'
  BY <1>1 DEF SubmitInvariant, TypeOK, Catalogued
<1>4. QED
  BY <1>2, <1>3, CatalogStep DEF SubmitInvariant, TypeOK

-----------------------------------------------------------------------------
(* The steps of the write transaction.                                     *)

\* What a request past grading would store is well-typed (submit_exam.py:120-139).
LEMMA GradedType ==
  ASSUME SubmitInvariant, NEW s \in Submits,
         pc[s] \in {"insert", "answers", "commit"}
  PROVE  /\ graded[s] \in Grades
         /\ SubmissionRow(s) \in Submission
         /\ AnswerRows(s) \subseteq Answer
<1>1. /\ GradedFor(s) /\ req[s] \in SubmitRequest
      /\ exam[AssignmentOf(s).exam] \in ExamContents
  BY DEF SubmitInvariant, TypeOK, Catalogued, InMemory, GradedFor, AssignmentOf, SubmitRequest
<1>2. graded[s] \in Grades
  BY <1>1 DEF GradedFor, Grades, SubmitRequest
<1>3. Score(graded[s]) \in Nat
  BY <1>1, ScoreType, SubmissionAssumption DEF GradedFor
<1>4. QED
  BY <1>1, <1>2, <1>3 DEF SubmissionRow, Submission, SubmitRequest, AnswerRows, Answer

\* The INSERT into submission, waiting or refused by the unique index.
LEMMA InsertSubmissionStep ==
  ASSUME SubmitInvariant, NEW s \in Submits, InsertSubmission(s)
  PROVE  SubmitInvariant'
<1> USE SubmissionAssumption DEF InsertSubmission, Goto, Finish, Requests, Readers
<1>1. CASE Submitted(req[s].assignment)
  <2>1. TypeOK' /\ Catalogued'
    BY <1>1 DEF SubmitInvariant, TypeOK, Catalogued, catalog, tables
  <2>2. QED
    BY <1>1, <2>1, QuietStep DEF SubmitInvariant, TypeOK, Submitted, catalog, tables
<1>2. CASE ~Submitted(req[s].assignment)
  <2>1. /\ pc' = [pc EXCEPT ![s] = "answers"]
        /\ tx' = [tx EXCEPT ![s].submission = {SubmissionRow(s)}]
        /\ UNCHANGED <<catalog, tables, req, graded, seen, resp>>
        /\ pc[s] = "insert" /\ ~HeldByOther(s, req[s].assignment)
    BY <1>2
  <2> HIDE DEF InsertSubmission
  <2> USE DEF SubmitInvariant
  <2>2. TypeOK'
    <3>1. SubmissionRow(s) \in Submission
      BY <2>1, GradedType
    <3>2. tx' \in [Submits -> Rows]
      BY <2>1, <3>1 DEF TypeOK, Rows
    <3>3. QED
      BY <2>1, <3>2 DEF TypeOK, catalog, tables
  <2>3. Catalogued'
    BY <2>1 DEF TypeOK, Catalogued, catalog
  <2>4. \A t \in Submits :
          /\ SubmissionRow(t)' = SubmissionRow(t)
          /\ AnswerRows(t)' = AnswerRows(t)
          /\ GradedFor(t)' <=> GradedFor(t)
          /\ AssignmentOf(t)' = AssignmentOf(t)
    BY <2>1, SameRows, SameGrades DEF AssignmentOf, catalog
  <2>5. InMemory'
    BY <2>1, <2>4 DEF TypeOK, InMemory
  <2>6. WriteSets'
    BY <2>1, <2>4 DEF TypeOK, Rows, WriteSets
  <2>7. \A t \in Submits \ {s} : HoldsKey(t) => req[t].assignment # req[s].assignment
    <3>1. \A t \in Submits : HoldsKey(t) => SubmissionRow(t) \in tx[t].submission
      BY DEF WriteSets, HoldsKey
    <3>2. \A t \in Submits : SubmissionRow(t).assignment = req[t].assignment
      BY DEF SubmissionRow
    <3>3. QED
      BY <2>1, <3>1, <3>2 DEF HeldByOther
  <2>8. KeyIsExclusive'
    BY <1>2, <2>1, <2>7 DEF TypeOK, KeyIsExclusive, HoldsKey, Submitted, tables
  <2>9. CommittedRows'
    <3>1. \A row \in submission : row.id \in Submits \ {s}
      BY <2>1 DEF TypeOK, Submission, CommittedRows
    <3>2. QED
      BY <2>1, <2>4, <3>1 DEF TypeOK, CommittedRows, tables
  <2>10. Replies' /\ UniqueRows'
    BY <2>1, <2>4 DEF Replies, Submitted, UniqueRows, tables
  <2>11. QED
    BY <2>2, <2>3, <2>5, <2>6, <2>8, <2>9, <2>10
<1>3. QED BY <1>1, <1>2

\* The INSERT of the answers into the open transaction.
LEMMA FlushAnswersStep ==
  ASSUME SubmitInvariant, NEW s \in Submits, FlushAnswers(s)
  PROVE  SubmitInvariant'
<1> USE SubmissionAssumption DEF FlushAnswers, Goto, Requests, Readers, SubmitInvariant
<1>1. TypeOK'
  <2>1. AnswerRows(s) \subseteq Answer
    BY GradedType
  <2>2. tx' \in [Submits -> Rows]
    BY <2>1 DEF TypeOK, Rows
  <2>3. QED
    BY <2>2 DEF TypeOK, catalog, tables
<1>2. Catalogued'
  BY DEF TypeOK, Catalogued, catalog
<1>3. \A t \in Submits :
        /\ SubmissionRow(t)' = SubmissionRow(t)
        /\ AnswerRows(t)' = AnswerRows(t)
        /\ GradedFor(t)' <=> GradedFor(t)
        /\ AssignmentOf(t)' = AssignmentOf(t)
  BY SameRows, SameGrades DEF AssignmentOf, catalog
<1>4. InMemory'
  BY <1>3 DEF TypeOK, InMemory
<1>5. WriteSets'
  BY <1>3 DEF TypeOK, Rows, WriteSets
<1>6. KeyIsExclusive'
  BY DEF TypeOK, KeyIsExclusive, HoldsKey, Submitted, tables
<1>7. CommittedRows'
  <2>1. \A row \in submission : row.id \in Submits \ {s}
    BY DEF TypeOK, Submission, CommittedRows
  <2>2. QED
    BY <1>3, <2>1 DEF TypeOK, CommittedRows, tables
<1>8. Replies' /\ UniqueRows'
  BY <1>3 DEF Replies, Submitted, UniqueRows, tables
<1>9. QED
  BY <1>1, <1>2, <1>4, <1>5, <1>6, <1>7, <1>8

\* COMMIT: the rows of the transaction become the committed ones.
LEMMA CommitStep ==
  ASSUME SubmitInvariant, NEW s \in Submits, Commit(s)
  PROVE  SubmitInvariant'
<1> USE SubmissionAssumption DEF Requests, Readers, SubmitInvariant
<1>1. /\ pc[s] = "commit" /\ pc' = [pc EXCEPT ![s] = "done"]
      /\ resp'[s] \in {201, 500} /\ resp' = [resp EXCEPT ![s] = resp'[s]]
      /\ submission' = submission \union {SubmissionRow(s)}
      /\ answer' = answer \union AnswerRows(s)
      /\ tx' = [tx EXCEPT ![s] = NoRows]
      /\ UNCHANGED <<catalog, req, graded, seen>>
  BY DEF Commit, Finish, WriteSets, TypeOK
<1>2. TypeOK'
  <2>1. SubmissionRow(s) \in Submission /\ AnswerRows(s) \subseteq Answer
    BY <1>1, GradedType
  <2>2. tx' \in [Submits -> Rows]
    BY <1>1 DEF TypeOK, Rows, NoRows
  <2>3. QED
    BY <1>1, <2>1, <2>2 DEF TypeOK, catalog
<1>3. Catalogued'
  BY <1>1 DEF TypeOK, Catalogued, catalog
<1>4. \A t \in Submits :
        /\ SubmissionRow(t)' = SubmissionRow(t)
        /\ AnswerRows(t)' = AnswerRows(t)
        /\ GradedFor(t)' <=> GradedFor(t)
        /\ AssignmentOf(t)' = AssignmentOf(t)
  BY <1>1, SameRows, SameGrades DEF AssignmentOf, catalog
<1>5. InMemory'
  BY <1>1, <1>4 DEF TypeOK, InMemory
<1>6. WriteSets'
  BY <1>1, <1>4 DEF TypeOK, NoRows, WriteSets
<1>7. SubmissionRow(s).id = s /\ SubmissionRow(s).assignment = req[s].assignment
  BY DEF SubmissionRow
<1>8. KeyIsExclusive'
  BY <1>1, <1>7 DEF TypeOK, KeyIsExclusive, HoldsKey, Submitted
<1>9. CommittedRows'
  <2>1. \A row \in submission : row.id \in Submits \ {s}
    BY <1>1 DEF TypeOK, Submission, CommittedRows
  <2>2. \A x \in answer : x.submission \in Submits
    BY <2>1 DEF CommittedRows
  <2>3. \A x \in AnswerRows(s) : x.submission = s
    BY DEF AnswerRows, AnswerRowsOf
  <2>4. GradedFor(s)
    BY <1>1 DEF InMemory
  <2>5. \A row \in submission' :
          /\ pc'[row.id] = "done" /\ resp'[row.id] \in {201, 500}
          /\ row = SubmissionRow(row.id)'
          /\ GradedFor(row.id)'
          /\ AnswerRows(row.id)' \subseteq answer'
    BY <1>1, <1>4, <1>7, <2>1, <2>4 DEF TypeOK, CommittedRows
  <2>6. \A x \in answer' :
          /\ \E row \in submission' : row.id = x.submission
          /\ x \in AnswerRows(x.submission)'
    BY <1>1, <1>4, <1>7, <2>2, <2>3 DEF CommittedRows
  <2>7. QED
    BY <2>5, <2>6 DEF CommittedRows
<1>10. Replies'
  BY <1>1, <1>4 DEF TypeOK, Replies, Submitted
<1>11. UniqueRows'
  BY <1>1, <1>7 DEF UniqueRows, KeyIsExclusive, HoldsKey, Submitted
<1>12. QED
  BY <1>2, <1>3, <1>5, <1>6, <1>8, <1>9, <1>10, <1>11

-----------------------------------------------------------------------------
(* Failures: some requests end, and their transactions with them.          *)

\* Ending any set of open requests, with their transactions, keeps the invariant.
LEMMA EndOpenRequests ==
  ASSUME SubmitInvariant, NEW ended \in SUBSET Requests,
         \A r \in ended : pc[r] # "done",
         pc' = [r \in Requests |-> IF r \in ended THEN "done" ELSE pc[r]],
         resp' = [r \in Requests |-> IF r \in ended THEN 500 ELSE resp[r]],
         \A s \in Submits : tx'[s] = IF s \in ended THEN NoRows ELSE tx[s],
         tx' \in [Submits -> Rows],
         \A r \in ended : pc[r] # "idle",
         UNCHANGED <<catalog, tables, req, graded, seen>>
  PROVE  SubmitInvariant'
<1> USE SubmissionAssumption DEF Requests, Readers, SubmitInvariant
<1>1. TypeOK'
  BY DEF TypeOK, catalog, tables
<1>2. Catalogued'
  BY DEF TypeOK, Catalogued, catalog
<1>3. \A t \in Submits :
        /\ SubmissionRow(t)' = SubmissionRow(t)
        /\ AnswerRows(t)' = AnswerRows(t)
        /\ GradedFor(t)' <=> GradedFor(t)
        /\ AssignmentOf(t)' = AssignmentOf(t)
  BY SameRows, SameGrades DEF AssignmentOf, catalog
<1>4. InMemory'
  BY <1>3 DEF TypeOK, InMemory
<1>5. WriteSets'
  BY <1>3 DEF TypeOK, NoRows, WriteSets
<1>6. KeyIsExclusive'
  BY DEF TypeOK, KeyIsExclusive, HoldsKey, Submitted, tables
<1>7. CommittedRows'
  <2>1. \A row \in submission : row.id \in Submits /\ row.id \notin ended
    BY DEF TypeOK, Submission, CommittedRows
  <2>2. QED
    BY <1>3, <2>1 DEF TypeOK, CommittedRows, tables
<1>8. Replies' /\ UniqueRows'
  BY <1>3 DEF Replies, Submitted, UniqueRows, tables
<1>9. QED
  BY <1>1, <1>2, <1>4, <1>5, <1>6, <1>7, <1>8

\* One failing request (any exception, submit_exam.py:127-142) keeps the invariant.
LEMMA FailStep ==
  ASSUME SubmitInvariant, NEW r \in Requests, Fail(r)
  PROVE  SubmitInvariant'
<1>1. tx' \in [Submits -> Rows]
  BY DEF Fail, SubmitInvariant, TypeOK, NoRows, Rows
<1>2. /\ pc' = [q \in Requests |-> IF q \in {r} THEN "done" ELSE pc[q]]
      /\ resp' = [q \in Requests |-> IF q \in {r} THEN 500 ELSE resp[q]]
  <2>1. /\ pc' = [pc EXCEPT ![r] = "done"] /\ resp' = [resp EXCEPT ![r] = 500]
        /\ DOMAIN pc = Requests /\ DOMAIN resp = Requests
        /\ pc = [q \in Requests |-> pc[q]] /\ resp = [q \in Requests |-> resp[q]]
    BY DEF Fail, Finish, SubmitInvariant, TypeOK
  <2>2. QED
    BY <2>1
<1>3. \A s \in Submits : tx'[s] = IF s \in {r} THEN NoRows ELSE tx[s]
  BY DEF Fail
<1>4. pc[r] # "done" /\ pc[r] # "idle" /\ UNCHANGED <<catalog, tables, req, graded, seen>>
  BY DEF Fail, Open
<1>5. QED
  BY <1>1, <1>2, <1>3, <1>4, EndOpenRequests

\* A restart of the process keeps the invariant.
LEMMA CrashStep ==
  ASSUME SubmitInvariant, Crash
  PROVE  SubmitInvariant'
<1> DEFINE open == { r \in Requests : Open(r) }
<1>1. tx' \in [Submits -> Rows]
  BY DEF Crash, NoRows, Rows
<1>2. /\ pc' = [r \in Requests |-> IF r \in open THEN "done" ELSE pc[r]]
      /\ resp' = [r \in Requests |-> IF r \in open THEN 500 ELSE resp[r]]
  BY DEF Crash
<1>3. \A s \in Submits : tx'[s] = IF s \in open THEN NoRows ELSE tx[s]
  <2>1. \A s \in Submits : s \notin open => tx[s] = NoRows
    BY DEF Open, SubmitInvariant, TypeOK, Rows, WriteSets, NoRows, Requests
  <2>2. QED
    BY <2>1 DEF Crash
<1>4. /\ \A r \in open : pc[r] # "done" /\ pc[r] # "idle"
      /\ UNCHANGED <<catalog, tables, req, graded, seen>>
  BY DEF Crash, Open
<1>5. QED
  <2> HIDE DEF open
  <2>1. open \in SUBSET Requests
    BY DEF open
  <2>2. QED
    BY <1>1, <1>2, <1>3, <1>4, <2>1, EndOpenRequests

\* Nothing changes in a stuttering step.
LEMMA StutteringStep ==
  ASSUME SubmitInvariant, UNCHANGED vars
  PROVE  SubmitInvariant'
<1> USE DEF vars, catalog, tables, SubmitInvariant
<1>1. \A s \in Submits :
        /\ SubmissionRow(s)' = SubmissionRow(s)
        /\ AnswerRows(s)' = AnswerRows(s)
        /\ GradedFor(s)' <=> GradedFor(s)
        /\ AssignmentOf(s)' = AssignmentOf(s)
  BY SameRows, SameGrades DEF AssignmentOf
<1>2. TypeOK' /\ Catalogued'
  BY DEF TypeOK, Catalogued
<1>3. InMemory' /\ WriteSets'
  BY <1>1 DEF InMemory, WriteSets
<1>4. KeyIsExclusive' /\ UniqueRows'
  BY DEF KeyIsExclusive, HoldsKey, Submitted, UniqueRows
<1>5. CommittedRows' /\ Replies'
  BY <1>1 DEF CommittedRows, Replies, Submitted, TypeOK, Submission
<1>6. QED
  BY <1>2, <1>3, <1>4, <1>5

-----------------------------------------------------------------------------
\* The empty database with no request satisfies the invariant.
LEMMA InitInvariant == Init => SubmitInvariant
<1> SUFFICES ASSUME Init PROVE SubmitInvariant
  OBVIOUS
<1> USE DEF Init, NoRows
<1>1. TypeOK
  BY DEF TypeOK, Rows, Requests, Readers
<1>2. Catalogued /\ InMemory /\ WriteSets /\ KeyIsExclusive
  BY SubmissionAssumption DEF Catalogued, InMemory, WriteSets, KeyIsExclusive, HoldsKey, Requests
<1>3. CommittedRows /\ Replies /\ UniqueRows
  BY SubmissionAssumption DEF CommittedRows, Replies, UniqueRows, Requests
<1>4. QED
  BY <1>1, <1>2, <1>3 DEF SubmitInvariant

\* The invariant is inductive: it holds initially and every step keeps it.
THEOREM SubmitInvariantHolds == Spec => []SubmitInvariant
<1>1. SubmitInvariant /\ [Next]_vars => SubmitInvariant'
  <2> SUFFICES ASSUME SubmitInvariant, [Next]_vars PROVE SubmitInvariant'
    OBVIOUS
  <2>1. ASSUME NEW e \in Exams, CreateExam(e) PROVE SubmitInvariant'
    BY <2>1, CreateExamStep
  <2>2. ASSUME NEW a \in AssignmentIds, AssignExam(a) PROVE SubmitInvariant'
    BY <2>2, AssignExamStep
  <2>3. ASSUME NEW s \in Submits, ReceiveSubmit(s) \/ SubmitStep(s) PROVE SubmitInvariant'
    BY <2>3, ReceiveSubmitStep, ReadAssignmentStep, GradeAnswersStep,
       InsertSubmissionStep, FlushAnswersStep, CommitStep DEF SubmitStep
  <2>4. ASSUME NEW v \in Views, ReceiveView(v) \/ ViewStep(v) PROVE SubmitInvariant'
    BY <2>4, ReceiveViewStep, ReadOwnerStep, ReadRowStep, LoadAnswersStep
       DEF ViewStep, Readers
  <2>5. ASSUME NEW l \in Lists, ReceiveList(l) \/ ListStep(l) PROVE SubmitInvariant'
    BY <2>5, ReceiveListStep, ReadRowsStep, LoadAnswersStep DEF ListStep, Readers
  <2>6. ASSUME NEW r \in Requests, Fail(r) PROVE SubmitInvariant'
    BY <2>6, FailStep
  <2>7. CASE Crash
    BY <2>7, CrashStep
  <2>8. CASE UNCHANGED vars
    BY <2>8, StutteringStep
  <2>9. QED
    BY <2>1, <2>2, <2>3, <2>4, <2>5, <2>6, <2>7, <2>8 DEF Next
<1>2. QED
  BY InitInvariant, <1>1, PTL DEF Spec

\* Every variable stays in its domain.
THEOREM TypeCorrectness == Spec => []TypeOK
<1>1. SubmitInvariant => TypeOK
  BY DEF SubmitInvariant
<1>2. QED
  BY <1>1, SubmitInvariantHolds, PTL

\* An assignment has at most one committed submission, and every committed
\* answer belongs to one, however requests interleave, fail or are retried.
THEOREM AtMostOneResult == Spec => []OneResultPerAssignment
<1>1. SubmitInvariant => OneResultPerAssignment
  BY DEF SubmitInvariant, UniqueRows, CommittedRows, OneResultPerAssignment
<1>2. QED
  BY <1>1, SubmitInvariantHolds, PTL

\* A committed submission was made by the assignment's user.
THEOREM ResultIsOwn == Spec => []OnlyOwnResult
<1>1. SubmitInvariant => OnlyOwnResult
  <2> SUFFICES ASSUME SubmitInvariant, NEW row \in submission
               PROVE  assignment[row.assignment] # None /\ OwnerOf(row) = req[row.id].user
    BY DEF OnlyOwnResult
  <2>1. row = SubmissionRow(row.id) /\ GradedFor(row.id)
    BY DEF SubmitInvariant, CommittedRows
  <2>2. row.assignment = req[row.id].assignment
    BY <2>1 DEF SubmissionRow
  <2>3. QED
    BY <2>1, <2>2 DEF GradedFor, AssignmentOf, OwnerOf
<1>2. QED
  BY <1>1, SubmitInvariantHolds, PTL

\* What a reply to a submit request says of the stored results is true.
THEOREM TrueReplies == Spec => []RepliesAreTrue
<1>1. SubmitInvariant => RepliesAreTrue
  <2> SUFFICES ASSUME SubmitInvariant, NEW s \in Submits
               PROVE  /\ resp[s] = 201 => SubmissionRow(s) \in submission
                                          /\ AnswerRows(s) \subseteq answer
                      /\ resp[s] = 409 => Submitted(req[s].assignment)
                      /\ resp[s] \in {400, 403, 404, 409} =>
                           \A row \in submission : row.id # s
    BY DEF RepliesAreTrue
  <2>1. SubmissionRow(s).id = s
    BY DEF SubmissionRow
  <2>2. QED
    BY <2>1 DEF SubmitInvariant, CommittedRows, Replies
<1>2. QED
  BY <1>1, SubmitInvariantHolds, PTL

-----------------------------------------------------------------------------
(* ExamSubmission implements SubmitOnce.                                   *)

\* Steps that commit nothing leave every recorded result as it was.
LEMMA SameResults ==
  ASSUME UNCHANGED tables
  PROVE  Results' = Results
<1>1. \A row : Recorded(row)' = Recorded(row)
  BY DEF Recorded, AnswersOf, tables
<1>2. \A a : ResultsOf(a)' = ResultsOf(a)
  BY <1>1 DEF ResultsOf, tables
<1>3. QED
  BY <1>2 DEF Results

\* The answer rows of a request are the answers of its outcome, tagged with its id.
LEMMA StoredOutcome ==
  ASSUME NEW s, NEW g
  PROVE  { [question |-> x.question, selected |-> x.selected, correct |-> x.correct]
           : x \in AnswerRowsOf(s, g) } = Outcome(g).answers
<1> DEFINE row(q) == [submission |-> s, question |-> q, selected |-> g[q].selected,
                      correct |-> g[q].correct]
           part(q) == [question |-> q, selected |-> g[q].selected, correct |-> g[q].correct]
           cut(x)  == [question |-> x.question, selected |-> x.selected, correct |-> x.correct]
<1>1. AnswerRowsOf(s, g) = { row(q) : q \in DOMAIN g }
  BY DEF AnswerRowsOf
<1>2. Outcome(g).answers = { part(q) : q \in DOMAIN g }
  BY DEF Outcome
<1>3. \A q : cut(row(q)) = part(q)
  OBVIOUS
<1> HIDE DEF row, part, cut
<1>4. { cut(x) : x \in { row(q) : q \in DOMAIN g } } = { part(q) : q \in DOMAIN g }
  BY <1>3
<1>5. QED
  BY <1>1, <1>2, <1>4 DEF cut

\* COMMIT records one result for one assignment that had none (submit_exam.py:126).
LEMMA RecordedAtCommit ==
  ASSUME SubmitInvariant, NEW s \in Submits, Commit(s),
         NEW a, a = req[s].assignment, NEW g, g = graded[s]
  PROVE  /\ a \in AssignmentIds /\ Results[a] = {}
         /\ Results' = [Results EXCEPT ![a] = {[by |-> s, outcome |-> Outcome(g)]}]
<1> SUFFICES ASSUME NEW new, new = SubmissionRow(s)
             PROVE  /\ a \in AssignmentIds /\ Results[a] = {}
                    /\ Results' = [Results EXCEPT ![a] = {[by |-> s, outcome |-> Outcome(g)]}]
  OBVIOUS
<1>1. /\ submission' = submission \union {new}
      /\ answer' = answer \union AnswerRowsOf(s, g)
      /\ pc[s] = "commit"
  BY DEF Commit, SubmitInvariant, WriteSets, AnswerRows
<1>2. a \in AssignmentIds /\ ~Submitted(a)
  BY <1>1 DEF SubmitInvariant, TypeOK, SubmitRequest, KeyIsExclusive, HoldsKey
<1>3. new.id = s /\ new.assignment = a /\ new.score = Score(g)
  BY DEF SubmissionRow
<1>4. \A row \in submission : row.id # s
  BY <1>1 DEF SubmitInvariant, CommittedRows
<1>5. \A x \in answer : x.submission # s
  BY <1>4 DEF SubmitInvariant, CommittedRows
<1>6. \A x \in AnswerRowsOf(s, g) : x.submission = s
  BY DEF AnswerRowsOf
<1>7. \A row \in submission : AnswersOf(row, answer') = AnswersOf(row, answer)
  BY <1>1, <1>4, <1>6 DEF AnswersOf
<1>8. \A row \in submission : Recorded(row)' = Recorded(row)
  BY <1>7 DEF Recorded
<1>9. AnswersOf(new, answer') = AnswerRowsOf(s, g)
  BY <1>1, <1>3, <1>5, <1>6 DEF AnswersOf
<1>10. Recorded(new)' = [by |-> s, outcome |-> Outcome(g)]
  <2>1. Outcome(g) = [score |-> Score(g), answers |-> Outcome(g).answers]
    BY DEF Outcome
  <2>2. { [question |-> x.question, selected |-> x.selected, correct |-> x.correct]
          : x \in AnswersOf(new, answer') } = Outcome(g).answers
    BY <1>9, StoredOutcome
  <2>3. Recorded(new)' =
          [by |-> new.id,
           outcome |-> [score |-> new.score, answers |-> Outcome(g).answers]]
    BY <2>2 DEF Recorded
  <2>4. QED
    BY <1>3, <2>1, <2>3
<1>11. ResultsOf(a) = {}
  BY <1>2 DEF ResultsOf, Submitted
<1>12. ResultsOf(a)' = {[by |-> s, outcome |-> Outcome(g)]}
  <2>1. { r \in submission' : r.assignment = a } = {new}
    BY <1>1, <1>2, <1>3 DEF Submitted
  <2>2. QED
    BY <1>10, <2>1 DEF ResultsOf
<1>13. \A b \in AssignmentIds \ {a} : ResultsOf(b)' = ResultsOf(b)
  <2> SUFFICES ASSUME NEW b \in AssignmentIds \ {a} PROVE ResultsOf(b)' = ResultsOf(b)
    OBVIOUS
  <2>1. { r \in submission' : r.assignment = b } = { r \in submission : r.assignment = b }
    BY <1>1, <1>3
  <2>2. QED
    BY <1>8, <2>1 DEF ResultsOf
<1>14. QED
  <2>1. Results[a] = {}
    BY <1>2, <1>11 DEF Results
  <2>2. Results' = [b \in AssignmentIds |-> ResultsOf(b)']
    BY DEF Results
  <2>3. QED
    BY <1>2, <1>12, <1>13, <2>1, <2>2 DEF Results

\* A request's reply is set once.
LEMMA RepliedAtFinish ==
  ASSUME SubmitInvariant, NEW s \in Submits, NEW status,
         Finish(s, status), pc[s] # "done"
  PROVE  Replied[s] = None /\ Replied' = [Replied EXCEPT ![s] = status]
<1>1. s \in Requests /\ resp[s] = None
  BY DEF Requests, SubmitInvariant, Catalogued
<1>2. \A t \in Submits : resp'[t] = IF t = s THEN status ELSE resp[t]
  BY DEF Finish, Requests, SubmitInvariant, TypeOK
<1>3. QED
  BY <1>1, <1>2 DEF Replied

\* Every step of the handlers is a step of SubmitOnce or a stutter.
LEMMA PromiseStep ==
  ASSUME SubmitInvariant, SubmitInvariant', [Next]_vars
  PROVE  [Promise!Next]_(Promise!vars)
<1> USE DEF Promise!vars
<1>1. ASSUME UNCHANGED <<tables>>,
             \A s \in Submits : resp'[s] = resp[s]
      PROVE  UNCHANGED Promise!vars
  BY <1>1, SameResults DEF Replied
<1>2. ASSUME NEW s \in Submits, Commit(s)
      PROVE  Promise!Accept(s)
  <2> DEFINE a == req[s].assignment
             g == graded[s]
  <2>1. g \in Grades
    BY <1>2, GradedType DEF Commit
  <2>2. /\ a \in AssignmentIds /\ Results[a] = {}
        /\ Results' = [Results EXCEPT ![a] = {[by |-> s, outcome |-> Outcome(g)]}]
    BY <1>2, RecordedAtCommit
  <2>3. PICK status \in {201, 500} : Finish(s, status)
    BY <1>2 DEF Commit
  <2>4. Replied[s] = None /\ Replied' = [Replied EXCEPT ![s] = status]
    BY <1>2, <2>3, RepliedAtFinish DEF Commit
  <2>5. PICK o \in { Outcome(h) : h \in Grades } : o = Outcome(g)
    BY <2>1
  <2>6. \E st \in {201, 500} : Replied' = [Replied EXCEPT ![s] = st]
    BY <2>4, ZenonT(60)
  <2> HIDE DEF a, g
  <2>7. Results' = [Results EXCEPT ![a] = {[by |-> s, outcome |-> o]}]
    BY <2>2, <2>5
  <2>8. QED
    BY <2>2, <2>4, <2>6, <2>7, ZenonT(60) DEF Promise!Accept
<1>3. ASSUME NEW s \in Submits, NEW status \in {400, 403, 404}, Finish(s, status),
             UNCHANGED tables, pc[s] # "done"
      PROVE  Promise!Refuse(s)
  <2>1. Replied[s] = None /\ Replied' = [Replied EXCEPT ![s] = status]
    BY <1>3, RepliedAtFinish
  <2>2. Results' = Results /\ status \in Promise!Refusals
    BY <1>3, SameResults DEF Promise!Refusals
  <2>3. QED
    BY <2>1, <2>2, Zenon DEF Promise!Refuse
<1>4. ASSUME NEW s \in Submits, Finish(s, 409), UNCHANGED tables, pc[s] = "insert",
             Submitted(req[s].assignment)
      PROVE  Promise!Conflict(s)
  <2>1. Replied[s] = None /\ Replied' = [Replied EXCEPT ![s] = 409]
    BY <1>4, RepliedAtFinish
  <2>2. req[s].assignment \in AssignmentIds
    BY <1>4 DEF SubmitInvariant, TypeOK, SubmitRequest
  <2>3. Results[req[s].assignment] # {}
    BY <1>4, <2>2 DEF Results, ResultsOf, Submitted
  <2>4. QED
    BY <1>4, <2>1, <2>2, <2>3, SameResults DEF Promise!Conflict
<1>5. ASSUME NEW lost \in SUBSET Submits, \A s \in lost : pc[s] # "done",
             \A s \in Submits : resp'[s] = IF s \in lost THEN 500 ELSE resp[s],
             UNCHANGED tables
      PROVE  Promise!Lose(lost)
  <2>1. \A s \in lost : Replied[s] = None
    BY <1>5 DEF SubmitInvariant, TypeOK, Catalogued, Requests, Replied
  <2>2. Replied' = [s \in Submits |-> IF s \in lost THEN 500 ELSE Replied[s]]
    BY <1>5 DEF Replied
  <2>3. QED
    BY <1>5, <2>1, <2>2, SameResults DEF Promise!Lose
<1>6. \A s \in Submits : s \in Requests /\ s \notin Readers
  BY SubmissionAssumption DEF Requests, Readers
<1>7. ASSUME NEW e \in Exams, CreateExam(e) PROVE UNCHANGED Promise!vars
  BY <1>1, <1>7 DEF CreateExam
<1>8. ASSUME NEW a \in AssignmentIds, AssignExam(a) PROVE UNCHANGED Promise!vars
  BY <1>1, <1>8 DEF AssignExam
<1>9. ASSUME NEW s \in Submits, ReceiveSubmit(s) \/ SubmitStep(s)
      PROVE  [Promise!Next]_(Promise!vars)
  <2>1. CASE ReceiveSubmit(s) \/ FlushAnswers(s)
    BY <1>1, <2>1 DEF ReceiveSubmit, FlushAnswers, Goto, tables
  <2>2. CASE ReadAssignment(s)
    BY <1>1, <1>3, <2>2 DEF ReadAssignment, Goto, tables, Promise!Next
  <2>3. CASE GradeAnswers(s)
    BY <1>1, <1>3, <2>3 DEF GradeAnswers, Goto, tables, Promise!Next
  <2>4. CASE InsertSubmission(s)
    BY <1>1, <1>4, <2>4 DEF InsertSubmission, Goto, tables, Promise!Next
  <2>5. CASE Commit(s)
    BY <1>2, <2>5 DEF Promise!Next
  <2>6. QED
    BY <1>9, <2>1, <2>2, <2>3, <2>4, <2>5 DEF SubmitStep
<1>10. ASSUME NEW v \in Views, ReceiveView(v) \/ ViewStep(v)
       PROVE  UNCHANGED Promise!vars
  BY <1>1, <1>6, <1>10 DEF ViewStep, ReceiveView, ReadOwner, ReadRow, LoadAnswers,
     Goto, Finish, Readers, tables, SubmitInvariant, TypeOK
<1>11. ASSUME NEW l \in Lists, ReceiveList(l) \/ ListStep(l)
       PROVE  UNCHANGED Promise!vars
  BY <1>1, <1>6, <1>11 DEF ListStep, ReceiveList, ReadRows, LoadAnswers,
     Goto, Finish, Readers, tables, SubmitInvariant, TypeOK
<1>12. ASSUME NEW r \in Requests, Fail(r) PROVE Promise!Next
  <2>1. \A s \in Submits : resp'[s] = IF s \in {r} \intersect Submits THEN 500 ELSE resp[s]
    BY <1>6, <1>12 DEF Fail, Finish, SubmitInvariant, TypeOK
  <2>2. \A s \in {r} \intersect Submits : pc[s] # "done"
    BY <1>12 DEF Fail, Open
  <2>3. Promise!Lose({r} \intersect Submits)
    BY <1>5, <1>12, <2>1, <2>2 DEF Fail
  <2>4. QED
    BY <2>3 DEF Promise!Next
<1>13. ASSUME Crash PROVE Promise!Next
  <2> DEFINE lost == { s \in Submits : Open(s) }
  <2>1. \A s \in Submits : resp'[s] = IF s \in lost THEN 500 ELSE resp[s]
    BY <1>6, <1>13 DEF Crash
  <2>2. \A s \in lost : pc[s] # "done"
    BY DEF Open
  <2>3. Promise!Lose(lost)
    <3> HIDE DEF lost
    <3>1. lost \in SUBSET Submits
      BY DEF lost
    <3>2. QED
      BY <1>5, <1>13, <2>1, <2>2, <3>1 DEF Crash
  <2>4. QED
    BY <2>3 DEF Promise!Next
<1>14. ASSUME UNCHANGED vars PROVE UNCHANGED Promise!vars
  BY <1>1, <1>14 DEF vars, tables
<1>15. QED
  BY <1>7, <1>8, <1>9, <1>10, <1>11, <1>12, <1>13, <1>14 DEF Next

\* Submitting is atomic for its clients: every behaviour of the handlers is
\* one in which each request is a single step of SubmitOnce.
THEOREM SubmissionImplementsSubmitOnce == Spec => ImplementsSubmitOnce
<1>1. Init => Promise!Init
  BY DEF Init, Promise!Init, Results, ResultsOf, Replied, Requests
<1>2. QED
  BY <1>1, PromiseStep, SubmitInvariantHolds, PTL DEF Spec, ImplementsSubmitOnce, Promise!Spec

-----------------------------------------------------------------------------
(* The stored results are whole.                                           *)

\* One row per graded question, and as many correct rows as the score says.
LEMMA AnswerRowCounts ==
  ASSUME NEW s, NEW g, IsFiniteSet(DOMAIN g)
  PROVE  /\ { x.question : x \in AnswerRowsOf(s, g) } = DOMAIN g
         /\ Cardinality(AnswerRowsOf(s, g)) = Cardinality(DOMAIN g)
         /\ Cardinality({ x \in AnswerRowsOf(s, g) : x.correct }) = Score(g)
<1> DEFINE row(q) == [submission |-> s, question |-> q, selected |-> g[q].selected,
                      correct |-> g[q].correct]
           right  == { q \in DOMAIN g : g[q].correct }
<1>1. AnswerRowsOf(s, g) = { row(q) : q \in DOMAIN g }
  BY DEF AnswerRowsOf
<1>2. \A q : row(q).question = q /\ (row(q).correct <=> g[q].correct)
  OBVIOUS
<1> HIDE DEF row
<1>3. { x \in AnswerRowsOf(s, g) : x.correct } = { row(q) : q \in right }
  BY <1>1, <1>2
<1>4. ASSUME NEW Q \in SUBSET DOMAIN g
      PROVE  Cardinality({ row(q) : q \in Q }) = Cardinality(Q)
  <2> DEFINE T == { row(q) : q \in Q }
             f == [q \in Q |-> row(q)]
  <2>1. IsFiniteSet(Q)
    BY FS_Subset
  <2>2. f \in Bijection(Q, T)
    BY <1>2 DEF Bijection, Injection, Surjection, IsInjective
  <2>3. ExistsBijection(Q, T)
    BY <2>2 DEF ExistsBijection
  <2>4. QED
    BY <2>1, <2>3, FS_Bijection
<1>5. { x.question : x \in AnswerRowsOf(s, g) } = DOMAIN g
  <2>1. { x.question : x \in AnswerRowsOf(s, g) } = { row(q).question : q \in DOMAIN g }
    BY <1>1
  <2>2. QED
    BY <1>2, <2>1
<1>6. Score(g) = Cardinality(right)
  BY DEF Score
<1>7. QED
  BY <1>1, <1>3, <1>4, <1>5, <1>6

\* The invariant traces a committed row to its grading, so it is whole.
LEMMA CommittedIsWhole ==
  ASSUME SubmitInvariant, NEW row \in submission
  PROVE  Whole(row, answer)
<1> DEFINE s == row.id
           g == graded[s]
<1>1. /\ row = SubmissionRow(s) /\ GradedFor(s) /\ AnswerRows(s) \subseteq answer
      /\ s \in Submits /\ pc[s] = "done" /\ resp[s] \in {201, 500}
  BY DEF SubmitInvariant, CommittedRows, TypeOK, Submission
<1>2. row.score = Score(g) /\ row.assignment = req[s].assignment
  BY <1>1 DEF SubmissionRow
<1>3. g = Grade(exam[AssignmentOf(s).exam], req[s].answers)
  BY <1>1 DEF GradedFor
<1>4. DOMAIN g = Questions(exam[AssignmentOf(s).exam])
  BY <1>3 DEF Grade
<1>5. IsFiniteSet(DOMAIN g)
  <2>1. req[s] \in SubmitRequest
    BY <1>1 DEF SubmitInvariant, TypeOK
  <2>2. exam[AssignmentOf(s).exam] \in ExamContents
    BY <1>1, <2>1 DEF SubmitInvariant, TypeOK, Catalogued, GradedFor, AssignmentOf, SubmitRequest
  <2>3. QED
    BY <1>4, <2>2, QuestionsFinite, SubmissionAssumption
<1>6. AnswersOf(row, answer) = AnswerRowsOf(s, g)
  <2>1. \A x \in AnswerRowsOf(s, g) : x.submission = s
    BY DEF AnswerRowsOf
  <2>2. \A x \in answer : x.submission = s => x \in AnswerRowsOf(s, g)
    BY DEF SubmitInvariant, CommittedRows, AnswerRows
  <2>3. AnswerRowsOf(s, g) \subseteq answer
    BY <1>1 DEF AnswerRows
  <2>4. QED
    BY <2>1, <2>2, <2>3 DEF AnswersOf
<1> HIDE DEF g, s
<1>7. QED
  BY <1>2, <1>4, <1>5, <1>6, AnswerRowCounts DEF Whole, AssignmentOf

\* A committed submission has one answer for each question of its exam, and
\* its score is the number of those that are correct.
THEOREM StoredResultsAreWhole == Spec => []StoredWhole
<1>1. SubmitInvariant => StoredWhole
  BY CommittedIsWhole DEF StoredWhole
<1>2. QED
  BY <1>1, SubmitInvariantHolds, PTL

\* What the tables hold for an assignment is one result, whole, its owner's,
\* whatever overlaps, fails or is retried.
THEOREM SoundResults == Spec => []ResultsAreSound
<1>1. OneResultPerAssignment /\ StoredWhole /\ OnlyOwnResult => ResultsAreSound
  BY DEF ResultsAreSound
<1>2. QED
  BY <1>1, AtMostOneResult, StoredResultsAreWhole, ResultIsOwn, PTL

-----------------------------------------------------------------------------
(* The readers: whatever is committed between the queries of a handler, it  *)
(* reads whole results, and only those that its user may read.              *)

\* The catalog only grows, and an assignment that exists stays as it is.
LEMMA CatalogGrows ==
  ASSUME SubmitInvariant, [Next]_vars, NEW a \in AssignmentIds, assignment[a] # None
  PROVE  assignment'[a] = assignment[a]
<1> USE DEF SubmitInvariant, TypeOK
<1>1. ASSUME NEW b \in AssignmentIds, AssignExam(b) PROVE assignment'[a] = assignment[a]
  BY <1>1 DEF AssignExam
<1>2. CASE UNCHANGED assignment
  BY <1>2
<1>3. QED
  BY <1>1, <1>2
     DEF Next, vars, catalog, CreateExam, ReceiveSubmit, SubmitStep, ReadAssignment,
         GradeAnswers, InsertSubmission, FlushAnswers, Commit, ReceiveView, ViewStep,
         ReadOwner, ReadRow, LoadAnswers, ReceiveList, ListStep, ReadRows, Fail, Crash

\* Committed results stay, their owner too, and get no further answers: what
\* a COMMIT adds belongs to a request that was not answered yet.
LEMMA TablesGrow ==
  ASSUME SubmitInvariant, [Next]_vars
  PROVE  /\ submission \subseteq submission' /\ answer \subseteq answer'
         /\ \A row \in submission : OwnerOf(row)' = OwnerOf(row)
         /\ \A x \in answer' \ answer : \A row \in submission : x.submission # row.id
<1>1. \A row \in submission : OwnerOf(row)' = OwnerOf(row)
  <2> SUFFICES ASSUME NEW row \in submission PROVE OwnerOf(row)' = OwnerOf(row)
    OBVIOUS
  <2>1. row \in Submission /\ row = SubmissionRow(row.id) /\ GradedFor(row.id)
    BY DEF SubmitInvariant, TypeOK, CommittedRows
  <2>2. row.assignment \in AssignmentIds /\ assignment[row.assignment] # None
    BY <2>1 DEF Submission, GradedFor, AssignmentOf, SubmissionRow
  <2>3. QED
    BY <2>2, CatalogGrows DEF OwnerOf
<1>2. ASSUME NEW s \in Submits, Commit(s)
      PROVE  /\ submission \subseteq submission' /\ answer \subseteq answer'
             /\ \A x \in answer' \ answer : \A row \in submission : x.submission # row.id
  <2>1. tx[s].answer = AnswerRows(s) /\ pc[s] = "commit"
    BY <1>2 DEF Commit, SubmitInvariant, WriteSets
  <2>2. \A x \in answer' \ answer : x.submission = s
    BY <1>2, <2>1 DEF Commit, AnswerRows, AnswerRowsOf
  <2>3. \A row \in submission : row.id # s
    BY <2>1 DEF SubmitInvariant, CommittedRows
  <2>4. QED
    BY <1>2, <2>2, <2>3 DEF Commit
<1>3. CASE UNCHANGED tables
  BY <1>1, <1>3 DEF tables
<1>4. (\E s \in Submits : Commit(s)) \/ UNCHANGED tables
  BY DEF Next, vars, tables, CreateExam, AssignExam, ReceiveSubmit, SubmitStep, ReadAssignment,
         GradeAnswers, InsertSubmission, FlushAnswers, ReceiveView, ViewStep,
         ReadOwner, ReadRow, LoadAnswers, ReceiveList, ListStep, ReadRows, Fail, Crash
<1>5. QED
  BY <1>1, <1>2, <1>3, <1>4

\* Rows that were committed keep their answers in every step.
LEMMA SameAnswers ==
  ASSUME SubmitInvariant, [Next]_vars, NEW rows \in SUBSET submission
  PROVE  AnswersTo(rows)' = AnswersTo(rows)
BY TablesGrow DEF AnswersTo

-----------------------------------------------------------------------------
\* A reader that a step does not serve, or ends with an error, keeps what it
\* has seen.
LEMMA UnservedReader ==
  ASSUME SubmitInvariant, [Next]_vars, NEW r \in Readers, ReaderInvariant(r),
         req'[r] = req[r], seen'[r] = seen[r],
         \/ pc'[r] = pc[r] /\ resp'[r] = resp[r]
         \/ pc'[r] = "done" /\ resp'[r] # 200
  PROVE  ReaderInvariant(r)'
<1> USE DEF ReaderInvariant
<1>1. submission \subseteq submission'
  BY TablesGrow
<1>2. \A row \in submission : MayRead(r, row)' <=> MayRead(r, row)
  BY TablesGrow DEF MayRead
<1>3. AnswersTo(seen[r].submission)' = AnswersTo(seen[r].submission)
  BY SameAnswers DEF AnswersTo
<1>4. \A row \in submission : row.id = req'[r].submission <=> row.id = req[r].submission
  OBVIOUS
<1>5. QED
  BY <1>1, <1>2, <1>3, <1>4

\* Nobody else is touched when one request takes a step of its handler.
LEMMA OthersUnserved ==
  ASSUME SubmitInvariant, [Next]_vars, NEW r \in Requests, ReadInvariant,
         \A q \in Readers \ {r} :
           pc'[q] = pc[q] /\ resp'[q] = resp[q] /\ req'[q] = req[q] /\ seen'[q] = seen[q],
         r \in Readers => ReaderInvariant(r)'
  PROVE  ReadInvariant'
<1> SUFFICES ASSUME NEW q \in Readers, q # r PROVE ReaderInvariant(q)'
  BY DEF ReadInvariant
<1> QED
  BY UnservedReader DEF ReadInvariant

\* A request for one result, or for an exam's results, arrives.
LEMMA ReaderArrives ==
  ASSUME SubmitInvariant, [Next]_vars, ReadInvariant, NEW r \in Readers,
         (r \in Views /\ ReceiveView(r)) \/ (r \in Lists /\ ReceiveList(r))
  PROVE  ReadInvariant'
<1> USE DEF ReceiveView, ReceiveList, Goto, Finish, SubmitInvariant, TypeOK, Requests
<1>1. /\ pc[r] = "idle" /\ seen'[r] = seen[r] /\ resp'[r] # 200
      /\ \A q \in Readers \ {r} :
           pc'[q] = pc[q] /\ resp'[q] = resp[q] /\ req'[q] = req[q] /\ seen'[q] = seen[q]
  BY SubmissionAssumption DEF Catalogued
<1>2. seen[r].submission = {}
  BY <1>1 DEF ReadInvariant, ReaderInvariant
<1>3. pc'[r] # "idle" /\ pc'[r] # "row"
  OBVIOUS
<1>4. pc'[r] = "rows" => req'[r].user \in Admins
  OBVIOUS
<1>5. ReaderInvariant(r)'
  BY <1>1, <1>2, <1>3, <1>4 DEF ReaderInvariant
<1>6. QED
  BY <1>1, <1>5, OthersUnserved

\* The owner is read and checked: the row it belongs to is the only one with
\* that id.
LEMMA ReadOwnerReads ==
  ASSUME SubmitInvariant, [Next]_vars, ReadInvariant, NEW v \in Views, ReadOwner(v)
  PROVE  ReadInvariant'
<1> USE DEF ReadOwner, Goto, Finish, SubmitInvariant, TypeOK, Requests, Readers
<1>1. /\ pc[v] = "owner" /\ seen'[v] = seen[v] /\ req'[v] = req[v]
      /\ resp'[v] # 200 /\ pc'[v] \in {"done", "row"}
      /\ UNCHANGED <<catalog, tables>>
      /\ \A q \in Readers \ {v} :
           pc'[q] = pc[q] /\ resp'[q] = resp[q] /\ req'[q] = req[q] /\ seen'[q] = seen[q]
  BY SubmissionAssumption DEF Catalogued
<1>2. pc'[v] = "row" =>
        \E row \in submission : row.id = req[v].submission /\ MayRead(v, row)
  BY DEF MayRead
<1>3. \A row \in submission : MayRead(v, row)' <=> MayRead(v, row)
  BY <1>1, TablesGrow DEF MayRead
<1>4. submission' = submission /\ ReaderInvariant(v)
  BY <1>1 DEF tables, ReadInvariant
<1>5. v \notin Lists
  BY SubmissionAssumption
<1>6. ReaderInvariant(v)'
  BY <1>1, <1>2, <1>3, <1>4, <1>5 DEF ReaderInvariant
<1>7. QED
  BY <1>1, <1>6, OthersUnserved

\* The submission row is read; its id is that of the row that was checked.
LEMMA ReadRowReads ==
  ASSUME SubmitInvariant, [Next]_vars, ReadInvariant, NEW v \in Views, ReadRow(v)
  PROVE  ReadInvariant'
<1> USE DEF ReadRow, Goto, Finish, SubmitInvariant, TypeOK, Requests, Readers
<1> DEFINE rows == { row \in submission : row.id = req[v].submission }
<1>1. /\ pc[v] = "row" /\ req'[v] = req[v]
      /\ resp'[v] # 200 /\ pc'[v] \in {"done", "load"}
      /\ UNCHANGED <<catalog, tables>>
      /\ \A q \in Readers \ {v} :
           pc'[q] = pc[q] /\ resp'[q] = resp[q] /\ req'[q] = req[q] /\ seen'[q] = seen[q]
  BY SubmissionAssumption DEF Catalogued
<1>2. seen'[v] = seen[v] \/ seen'[v].submission = rows
  <2>1. seen[v] \in Rows
    OBVIOUS
  <2>2. QED
    BY <2>1 DEF Rows
<1>3. \A row \in rows : MayRead(v, row)
  <2>1. PICK row \in submission : row.id = req[v].submission /\ MayRead(v, row)
    BY <1>1 DEF ReadInvariant, ReaderInvariant
  <2>2. \A other \in rows : other = row
    BY <2>1 DEF CommittedRows
  <2>3. QED
    BY <2>1, <2>2
<1>4. \A row \in submission : MayRead(v, row)' <=> MayRead(v, row)
  BY <1>1, TablesGrow DEF MayRead
<1>5. submission' = submission /\ ReaderInvariant(v)
  BY <1>1 DEF tables, ReadInvariant
<1>6. ReaderInvariant(v)'
  BY <1>1, <1>2, <1>3, <1>4, <1>5 DEF ReaderInvariant
<1>7. QED
  BY <1>1, <1>6, OthersUnserved

\* The rows of an exam are read, for an admin.
LEMMA ReadRowsReads ==
  ASSUME SubmitInvariant, [Next]_vars, ReadInvariant, NEW l \in Lists, ReadRows(l)
  PROVE  ReadInvariant'
<1> USE DEF ReadRows, Goto, Finish, SubmitInvariant, TypeOK, Requests, Readers
<1>1. /\ pc[l] = "rows" /\ req'[l] = req[l]
      /\ resp'[l] # 200 /\ pc'[l] = "load"
      /\ UNCHANGED <<catalog, tables>>
      /\ \A q \in Readers \ {l} :
           pc'[q] = pc[q] /\ resp'[q] = resp[q] /\ req'[q] = req[q] /\ seen'[q] = seen[q]
  BY SubmissionAssumption DEF Catalogued
<1>2. seen'[l].submission \subseteq submission
  <2>1. seen[l] \in Rows
    OBVIOUS
  <2>2. QED
    BY <2>1 DEF Rows
<1>3. req'[l].user \in Admins
  BY <1>1 DEF ReadInvariant, ReaderInvariant
<1>4. submission' = submission
  BY <1>1 DEF tables
<1>5. ReaderInvariant(l)'
  BY <1>1, <1>2, <1>3, <1>4 DEF ReaderInvariant, MayRead
<1>6. QED
  BY <1>1, <1>5, OthersUnserved

\* The answers of the rows are read, and the request is answered.
LEMMA LoadAnswersReads ==
  ASSUME SubmitInvariant, [Next]_vars, ReadInvariant, NEW r \in Readers, LoadAnswers(r)
  PROVE  ReadInvariant'
<1> USE DEF LoadAnswers, Finish, SubmitInvariant, TypeOK, Requests
<1>1. /\ pc'[r] = "done" /\ req'[r] = req[r]
      /\ UNCHANGED <<catalog, tables>>
      /\ \A q \in Readers \ {r} :
           pc'[q] = pc[q] /\ resp'[q] = resp[q] /\ req'[q] = req[q] /\ seen'[q] = seen[q]
  OBVIOUS
<1>2. seen'[r].submission = seen[r].submission /\ seen'[r].answer = AnswersTo(seen[r].submission)
  <2>1. seen[r] \in Rows
    OBVIOUS
  <2>2. QED
    BY <2>1 DEF Rows, AnswersTo
<1>3. \A row \in submission : MayRead(r, row)' <=> MayRead(r, row)
  BY <1>1, TablesGrow DEF MayRead
<1>4. submission' = submission /\ answer' = answer /\ ReaderInvariant(r)
  BY <1>1 DEF tables, ReadInvariant
<1>5. ReaderInvariant(r)'
  BY <1>1, <1>2, <1>3, <1>4 DEF ReaderInvariant, AnswersTo
<1>6. QED
  BY <1>1, <1>5, OthersUnserved

\* Steps of submit requests and of the catalog serve no reader.
LEMMA WritersStep ==
  ASSUME SubmitInvariant, [Next]_vars, ReadInvariant,
         \/ \E e \in Exams : CreateExam(e)
         \/ \E a \in AssignmentIds : AssignExam(a)
         \/ \E s \in Submits : ReceiveSubmit(s) \/ SubmitStep(s)
         \/ UNCHANGED vars
  PROVE  ReadInvariant'
<1> SUFFICES ASSUME NEW r \in Readers PROVE ReaderInvariant(r)'
  BY DEF ReadInvariant
<1>1. r \in Requests /\ r \notin Submits
  BY SubmissionAssumption DEF Requests, Readers
<1>2. pc'[r] = pc[r] /\ resp'[r] = resp[r] /\ req'[r] = req[r] /\ seen'[r] = seen[r]
  <2> USE <1>1 DEF SubmitInvariant, TypeOK, Goto, Finish
  <2>1. ASSUME NEW e \in Exams, CreateExam(e)
        PROVE  pc'[r] = pc[r] /\ resp'[r] = resp[r] /\ req'[r] = req[r] /\ seen'[r] = seen[r]
    BY <2>1 DEF CreateExam
  <2>2. ASSUME NEW a \in AssignmentIds, AssignExam(a)
        PROVE  pc'[r] = pc[r] /\ resp'[r] = resp[r] /\ req'[r] = req[r] /\ seen'[r] = seen[r]
    BY <2>2 DEF AssignExam
  <2>3. ASSUME NEW s \in Submits, ReceiveSubmit(s)
        PROVE  pc'[r] = pc[r] /\ resp'[r] = resp[r] /\ req'[r] = req[r] /\ seen'[r] = seen[r]
    BY <2>3 DEF ReceiveSubmit
  <2>4. ASSUME NEW s \in Submits, SubmitStep(s)
        PROVE  pc'[r] = pc[r] /\ resp'[r] = resp[r] /\ req'[r] = req[r] /\ seen'[r] = seen[r]
    <3>1. CASE ReadAssignment(s) \/ GradeAnswers(s) \/ InsertSubmission(s)
      BY <3>1 DEF ReadAssignment, GradeAnswers, InsertSubmission
    <3>2. CASE FlushAnswers(s)
      BY <3>2 DEF FlushAnswers
    <3>3. CASE Commit(s)
      BY <3>3 DEF Commit
    <3>4. QED
      BY <2>4, <3>1, <3>2, <3>3 DEF SubmitStep
  <2>5. CASE UNCHANGED vars
    BY <2>5 DEF vars
  <2>6. QED
    BY <2>1, <2>2, <2>3, <2>4, <2>5
<1>3. QED
  BY <1>2, UnservedReader DEF ReadInvariant

\* A failure or a crash answers readers with an error.
LEMMA FailureStep ==
  ASSUME SubmitInvariant, [Next]_vars, ReadInvariant, (\E q \in Requests : Fail(q)) \/ Crash
  PROVE  ReadInvariant'
<1> SUFFICES ASSUME NEW r \in Readers PROVE ReaderInvariant(r)'
  BY DEF ReadInvariant
<1>1. r \in Requests
  BY DEF Requests
<1>2. req'[r] = req[r] /\ seen'[r] = seen[r]
  BY DEF Fail, Crash
<1>3. \/ pc'[r] = pc[r] /\ resp'[r] = resp[r]
      \/ pc'[r] = "done" /\ resp'[r] # 200
  <2>1. ASSUME NEW q \in Requests, Fail(q)
        PROVE  \/ pc'[r] = pc[r] /\ resp'[r] = resp[r]
               \/ pc'[r] = "done" /\ resp'[r] # 200
    BY <1>1, <2>1 DEF SubmitInvariant, TypeOK, Finish, Fail
  <2>2. CASE Crash
    <3>1. CASE Open(r)
      BY <1>1, <2>2, <3>1 DEF Crash
    <3>2. CASE ~Open(r)
      BY <1>1, <2>2, <3>2 DEF Crash
    <3>3. QED
      BY <3>1, <3>2
  <2>3. QED
    BY <2>1, <2>2
<1>4. QED
  BY <1>2, <1>3, UnservedReader DEF ReadInvariant

-----------------------------------------------------------------------------
\* What the readers keep in memory is as ReaderInvariant says, in every
\* reachable state.
THEOREM ReadInvariantHolds == Spec => []ReadInvariant
<1>1. Init => ReadInvariant
  <2> SUFFICES ASSUME Init, NEW r \in Readers PROVE ReaderInvariant(r)
    BY DEF ReadInvariant
  <2>1. /\ seen[r] = NoRows /\ pc[r] = "idle" /\ resp[r] = None
    BY DEF Init, Requests
  <2>2. QED
    BY <2>1, SubmissionAssumption DEF ReaderInvariant, NoRows
<1>2. SubmitInvariant /\ ReadInvariant /\ [Next]_vars => ReadInvariant'
  <2> SUFFICES ASSUME SubmitInvariant, ReadInvariant, [Next]_vars PROVE ReadInvariant'
    OBVIOUS
  <2>1. ASSUME NEW v \in Views, ReceiveView(v) \/ ViewStep(v) PROVE ReadInvariant'
    BY <2>1, ReaderArrives, ReadOwnerReads, ReadRowReads, LoadAnswersReads DEF ViewStep, Readers
  <2>2. ASSUME NEW l \in Lists, ReceiveList(l) \/ ListStep(l) PROVE ReadInvariant'
    BY <2>2, ReaderArrives, ReadRowsReads, LoadAnswersReads DEF ListStep, Readers
  <2>3. QED
    BY <2>1, <2>2, WritersStep, FailureStep DEF Next
<1>3. QED
  BY <1>1, <1>2, SubmitInvariantHolds, PTL DEF Spec

\* CRIT-2: no result has been queried for a caller who is neither its owner
\* nor an admin, at any point of the handlers of get_results.py.
THEOREM AuthorisedReads == Spec => []ReadsAreAuthorised
<1>1. ReadInvariant => ReadsAreAuthorised
  BY DEF ReadInvariant, ReaderInvariant, ReadsAreAuthorised, MayRead
<1>2. QED
  BY <1>1, ReadInvariantHolds, PTL

\* A reader that is answered got each result with all of its answers and
\* nothing else, although it asked twice (get_results.py:40, WARN-4).
THEOREM WholeReads == Spec => []ReadsAreWhole
<1>1. SubmitInvariant /\ ReadInvariant => ReadsAreWhole
  <2> SUFFICES ASSUME SubmitInvariant, ReadInvariant, NEW r \in Readers, resp[r] = 200
               PROVE  /\ \A row \in seen[r].submission : Whole(row, seen[r].answer)
                      /\ \A x \in seen[r].answer :
                           \E row \in seen[r].submission : x.submission = row.id
    BY DEF ReadsAreWhole
  <2>1. seen[r].submission \subseteq submission /\ seen[r].answer = AnswersTo(seen[r].submission)
    BY DEF ReadInvariant, ReaderInvariant
  <2>2. ASSUME NEW row \in seen[r].submission PROVE Whole(row, seen[r].answer)
    <3>1. Whole(row, answer)
      BY <2>1, CommittedIsWhole
    <3>2. AnswersOf(row, seen[r].answer) = AnswersOf(row, answer)
      BY <2>1 DEF AnswersOf, AnswersTo
    <3>3. QED
      BY <3>1, <3>2 DEF Whole
  <2>3. QED
    BY <2>1, <2>2 DEF AnswersTo
<1>2. QED
  BY <1>1, SubmitInvariantHolds, ReadInvariantHolds, PTL
=============================================================================
