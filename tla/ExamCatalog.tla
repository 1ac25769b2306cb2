----------------------------- MODULE ExamCatalog -----------------------------
(***************************************************************************)
(* The question bank, exams and their assignment: the admin handlers of    *)
(* app/api/v1/routes/questions.py and exams.py with the services and       *)
(* repositories they call, running concurrently over one PostgreSQL        *)
(* database at READ COMMITTED and one image host.  An action is what a     *)
(* handler does between two awaits; a transaction's rows are in its write  *)
(* set until COMMIT.                                                       *)
(*                                                                         *)
(* The request that inserts a question, exam or assignment is its id.      *)
(* Titles and texts are left out; so are callers who are not admins, whom  *)
(* require_role turns away before any of these handlers runs.              *)
(***************************************************************************)
EXTENDS Grading

CONSTANTS
  Creates, Assembles, Assigns,   \* requests: new question, new exam, assignment
  Lists, Looks,                  \* requests: list questions, read one exam
  OptionLists,                   \* question bodies: is_correct of each option
  QuestionLists,                 \* exam bodies: sequences of question ids
  UserIds, Students              \* Students: the users whose role is "user"

ASSUME CatalogAssumption ==
  /\ Students \subseteq UserIds
  /\ Creates \intersect Assembles = {} /\ Lists \intersect Looks = {}
  /\ (Creates \union Assembles) \intersect (Assigns \union Lists \union Looks) = {}
  /\ Assigns \intersect (Lists \union Looks) = {}
  /\ OptionLists \subseteq Seq(BOOLEAN) /\ QuestionLists \subseteq Seq(Creates)
  /\ None \notin Creates /\ None \notin {"stored", "failed"}
  /\ None \notin {200, 201, 400, 404, 409, 500}

VARIABLES
  question,       \* committed rows [id, image]
  option,         \* committed rows [id, question, correct]
  exam,           \* committed rows [id]
  examQuestion,   \* committed rows [exam, question, order]
  assignment,     \* committed rows [id, exam, user]
  images,         \* question requests whose image the host has stored
  pc, req, resp,  \* per request: where its handler is, body, HTTP status
  upload,         \* per question request: None, "stored" or "failed"
  tx,             \* per writing request: rows written and not yet committed
  seen            \* per reading request: rows read so far

tables == <<question, option, exam, examQuestion, assignment>>
vars   == <<tables, images, pc, req, resp, upload, tx, seen>>

Writers  == Creates \union Assembles \union Assigns
Readers  == Lists \union Looks
Requests == Writers \union Readers
NoRows   == [question |-> {}, option |-> {}, exam |-> {}, examQuestion |-> {},
             assignment |-> {}]
Images   == {"none", "valid", "invalid"}   \* invalid: too large or not an image

Init ==
  /\ question = {} /\ option = {} /\ exam = {} /\ examQuestion = {}
  /\ assignment = {} /\ images = {}
  /\ pc = [r \in Requests |-> "idle"]
  /\ req = [r \in Requests |-> None] /\ resp = [r \in Requests |-> None]
  /\ upload = [c \in Creates |-> None]
  /\ tx = [w \in Writers |-> NoRows]
  /\ seen = [r \in Readers |-> NoRows]

Goto(r, label) == pc' = [pc EXCEPT ![r] = label] /\ UNCHANGED resp
Finish(r, status) ==
  pc' = [pc EXCEPT ![r] = "done"] /\ resp' = [resp EXCEPT ![r] = status]
Open(r) == pc[r] \notin {"idle", "done"}

-----------------------------------------------------------------------------
(* POST /questions                                                          *)

HasSingleCorrectOption(opts) ==
  Cardinality({ i \in DOMAIN opts : opts[i] }) = 1

\* Body parsing and create_question up to its first await.
ReceiveQuestion(c) ==
  /\ pc[c] = "idle"
  /\ \E opts \in OptionLists, image \in Images :
       /\ req' = [req EXCEPT ![c] = [options |-> opts, image |-> image]]
       /\ \/ /\ ~HasSingleCorrectOption(opts) \/ image = "invalid"
             /\ Finish(c, 400)
          \/ /\ HasSingleCorrectOption(opts) /\ image # "invalid"
             /\ Goto(c, IF image = "valid" THEN "upload" ELSE "insert")
  /\ UNCHANGED <<tables, images, upload, tx, seen>>

\* The host stores the image and answers, or upload() raises UploadError; then
\* the image may be at the host all the same.
UploadImage(c) ==
  /\ pc[c] = "upload"
  /\ \/ /\ images' = images \union {c}
        /\ upload' = [upload EXCEPT ![c] = "stored"]
     \/ /\ images' \in {images, images \union {c}}
        /\ upload' = [upload EXCEPT ![c] = "failed"]
  /\ Goto(c, "insert")
  /\ UNCHANGED <<tables, req, tx, seen>>

QuestionRow(c) == [id |-> c, image |-> IF upload[c] = "stored" THEN c ELSE None]
OptionRowsOf(c, opts) ==
  { [id |-> <<c, i>>, question |-> c, correct |-> opts[i]] : i \in DOMAIN opts }
OptionRows(c) == OptionRowsOf(c, req[c].options)

\* Mutant: the question is committed on its own, before its options.
InsertQuestion_Autocommit(c) ==
  /\ pc[c] = "insert"
  /\ question' = question \union {QuestionRow(c)}
  /\ Goto(c, "children")
  /\ UNCHANGED <<option, exam, examQuestion, assignment, images, req, upload, tx, seen>>

\* commit() first flushes: the question row, then its options.
InsertQuestion(c) ==
  /\ pc[c] = "insert"
  /\ tx' = [tx EXCEPT ![c].question = {QuestionRow(c)}]
  /\ Goto(c, "children")
  /\ UNCHANGED <<tables, images, req, upload, seen>>

InsertOptions(c) ==
  /\ pc[c] = "children"
  /\ tx' = [tx EXCEPT ![c].option = OptionRows(c)]
  /\ Goto(c, "commit")
  /\ UNCHANGED <<tables, images, req, upload, seen>>

-----------------------------------------------------------------------------
(* POST /exams                                                              *)

ReceiveExam(x) ==
  /\ pc[x] = "idle"
  /\ \E l \in QuestionLists : req' = [req EXCEPT ![x] = [questions |-> l]]
  /\ Goto(x, "existing")
  /\ UNCHANGED <<tables, images, upload, tx, seen>>

ExistingIds(ids) == { row.id : row \in { q \in question : q.id \in ids } }

ReadExisting(x) ==
  LET ids == ToSet(req[x].questions) IN
  /\ pc[x] = "existing"
  /\ \/ ids \ ExistingIds(ids) # {} /\ Finish(x, 404)
     \/ ids \ ExistingIds(ids) = {} /\ Goto(x, "insert")
  /\ UNCHANGED <<tables, images, req, upload, tx, seen>>

\* Mutant: the exam is committed on its own, before its questions.
InsertExam_Autocommit(x) ==
  /\ pc[x] = "insert"
  /\ exam' = exam \union {[id |-> x]}
  /\ Goto(x, "children")
  /\ UNCHANGED <<question, option, examQuestion, assignment, images, req, upload, tx,
                 seen>>

InsertExam(x) ==
  /\ pc[x] = "insert"
  /\ tx' = [tx EXCEPT ![x].exam = {[id |-> x]}]
  /\ Goto(x, "children")
  /\ UNCHANGED <<tables, images, req, upload, seen>>

\* Mutant: positions counted from one.
ExamQuestionRows_FromOne(x) ==
  { [exam |-> x, question |-> req[x].questions[i], order |-> i]
    : i \in DOMAIN req[x].questions }

ExamQuestionRows(x) ==
  { [exam |-> x, question |-> req[x].questions[i], order |-> i - 1]
    : i \in DOMAIN req[x].questions }

\* Mutant: INSERT ... ON CONFLICT DO NOTHING.
InsertExamQuestions_SkipRepeats(x) ==
  LET l == req[x].questions IN
  /\ pc[x] = "children"
  /\ tx' = [tx EXCEPT ![x].examQuestion =
              { row \in ExamQuestionRows(x) :
                  \A i \in 1..row.order : l[i] # row.question }]
  /\ Goto(x, "commit")
  /\ UNCHANGED <<tables, images, req, upload, seen>>

\* A question listed twice violates the primary key (exam_id, question_id), one
\* that does not exist the foreign key; nothing catches the IntegrityError, and
\* the request ends in a 500.
InsertExamQuestions(x) ==
  LET l == req[x].questions
      accepted == IsInjective(l) /\ ExistingIds(ToSet(l)) = ToSet(l)
  IN
  /\ pc[x] = "children"
  /\ \/ /\ accepted
        /\ tx' = [tx EXCEPT ![x].examQuestion = ExamQuestionRows(x)]
        /\ Goto(x, "commit")
     \/ /\ ~accepted
        /\ tx' = [tx EXCEPT ![x] = NoRows]
        /\ Finish(x, 500)
  /\ UNCHANGED <<tables, images, req, upload, seen>>

-----------------------------------------------------------------------------
(* POST /exams/{exam_id}/assign                                             *)

ReceiveAssign(a) ==
  /\ pc[a] = "idle"
  /\ \E e \in Assembles, u \in UserIds :
       req' = [req EXCEPT ![a] = [exam |-> e, user |-> u]]
  /\ Goto(a, "exam")
  /\ UNCHANGED <<tables, images, upload, tx, seen>>

ReadExam(a) ==
  /\ pc[a] = "exam"
  /\ \/ [id |-> req[a].exam] \in exam /\ Goto(a, "user")
     \/ [id |-> req[a].exam] \notin exam /\ Finish(a, 404)
  /\ UNCHANGED <<tables, images, req, upload, tx, seen>>

ReadUser(a) ==
  /\ pc[a] = "user"
  /\ \/ req[a].user \in Students /\ Goto(a, "insert")
     \/ req[a].user \notin Students /\ Finish(a, 404)
  /\ UNCHANGED <<tables, images, req, upload, tx, seen>>

AssignmentRow(a) == [id |-> a, exam |-> req[a].exam, user |-> req[a].user]
SamePair(r, s) == r.exam = s.exam /\ r.user = s.user
Assigned(a) == \E row \in assignment : SamePair(row, req[a])
\* Another transaction has inserted the pair and not ended yet.
HeldByOther(a) ==
  \E b \in Assigns \ {a} : \E row \in tx[b].assignment : SamePair(row, req[a])

\* Mutant: a pair held by an open transaction is reported as a duplicate.
InsertAssignment_NoWait(a) ==
  /\ pc[a] = "insert"
  /\ \/ (Assigned(a) \/ HeldByOther(a)) /\ Finish(a, 409) /\ UNCHANGED tx
     \/ /\ ~Assigned(a) /\ ~HeldByOther(a)
        /\ tx' = [tx EXCEPT ![a].assignment = {AssignmentRow(a)}]
        /\ Goto(a, "commit")
  /\ UNCHANGED <<tables, images, req, upload, seen>>

\* The flush of commit().  The INSERT waits while another transaction holds
\* the pair; a committed row makes it fail, and assign_exam rolls back.
InsertAssignment(a) ==
  /\ pc[a] = "insert"
  /\ ~HeldByOther(a)
  /\ \/ Assigned(a) /\ Finish(a, 409) /\ UNCHANGED tx
     \/ /\ ~Assigned(a)
        /\ tx' = [tx EXCEPT ![a].assignment = {AssignmentRow(a)}]
        /\ Goto(a, "commit")
  /\ UNCHANGED <<tables, images, req, upload, seen>>

-----------------------------------------------------------------------------
(* COMMIT, the same for all three.  The connection may break after the      *)
(* server has committed: the client then gets a 500 for a stored row.       *)

Commit(w) ==
  /\ pc[w] = "commit"
  /\ question' = question \union tx[w].question
  /\ option' = option \union tx[w].option
  /\ exam' = exam \union tx[w].exam
  /\ examQuestion' = examQuestion \union tx[w].examQuestion
  /\ assignment' = assignment \union tx[w].assignment
  /\ tx' = [tx EXCEPT ![w] = NoRows]
  /\ \E status \in {201, 500} : Finish(w, status)
  /\ UNCHANGED <<images, req, upload, seen>>

-----------------------------------------------------------------------------
(* GET /questions and GET /exams/{exam_id}: one query for the rows and a    *)
(* selectinload query for what belongs to them, each with its own snapshot. *)

ReceiveList(l) ==
  /\ pc[l] = "idle"
  /\ Goto(l, "questions")
  /\ UNCHANGED <<tables, images, req, upload, tx, seen>>

ReadQuestions(l) ==
  /\ pc[l] = "questions"
  /\ seen' = [seen EXCEPT ![l].question = question]
  /\ Goto(l, "options")
  /\ UNCHANGED <<tables, images, req, upload, tx>>

LoadOptions(l) ==
  /\ pc[l] = "options"
  /\ seen' = [seen EXCEPT ![l].option =
       { o \in option : \E q \in seen[l].question : o.question = q.id }]
  /\ Finish(l, 200)
  /\ UNCHANGED <<tables, images, req, upload, tx>>

ReceiveLook(k) ==
  /\ pc[k] = "idle"
  /\ \E e \in Assembles : req' = [req EXCEPT ![k] = [exam |-> e]]
  /\ Goto(k, "row")
  /\ UNCHANGED <<tables, images, upload, tx, seen>>

ReadExamRow(k) ==
  LET rows == { row \in exam : row.id = req[k].exam } IN
  /\ pc[k] = "row"
  /\ \/ rows = {} /\ Finish(k, 404) /\ UNCHANGED seen
     \/ rows # {} /\ seen' = [seen EXCEPT ![k].exam = rows] /\ Goto(k, "load")
  /\ UNCHANGED <<tables, images, req, upload, tx>>

LoadExamQuestions(k) ==
  /\ pc[k] = "load"
  /\ seen' = [seen EXCEPT ![k].examQuestion =
       { row \in examQuestion : [id |-> row.exam] \in seen[k].exam }]
  /\ Finish(k, 200)
  /\ UNCHANGED <<tables, images, req, upload, tx>>

-----------------------------------------------------------------------------
(* Failures: a statement or the connection fails and the exception leaves   *)
(* the handler, or the process dies.  Both end the open transactions; an    *)
(* image already uploaded stays at the host.                                *)

\* Mutant: the failed request's transaction stays open.
Fail_KeepsTransaction(r) ==
  /\ Open(r)
  /\ Finish(r, 500)
  /\ UNCHANGED <<tables, images, req, upload, tx, seen>>

Fail(r) ==
  /\ Open(r)
  /\ Finish(r, 500)
  /\ tx' = [w \in Writers |-> IF w = r THEN NoRows ELSE tx[w]]
  /\ UNCHANGED <<tables, images, req, upload, seen>>

Crash ==
  /\ \E r \in Requests : Open(r)
  /\ pc' = [r \in Requests |-> IF Open(r) THEN "done" ELSE pc[r]]
  /\ resp' = [r \in Requests |-> IF Open(r) THEN 500 ELSE resp[r]]
  /\ tx' = [w \in Writers |-> NoRows]
  /\ UNCHANGED <<tables, images, req, upload, seen>>

-----------------------------------------------------------------------------
CreateStep(c) ==
  UploadImage(c) \/ InsertQuestion(c) \/ InsertOptions(c) \/ Commit(c)
AssembleStep(x) ==
  ReadExisting(x) \/ InsertExam(x) \/ InsertExamQuestions(x) \/ Commit(x)
AssignStep(a) == ReadExam(a) \/ ReadUser(a) \/ InsertAssignment(a) \/ Commit(a)
ListStep(l) == ReadQuestions(l) \/ LoadOptions(l)
LookStep(k) == ReadExamRow(k) \/ LoadExamQuestions(k)

Next ==
  \/ \E c \in Creates : ReceiveQuestion(c) \/ CreateStep(c)
  \/ \E x \in Assembles : ReceiveExam(x) \/ AssembleStep(x)
  \/ \E a \in Assigns : ReceiveAssign(a) \/ AssignStep(a)
  \/ \E l \in Lists : ReceiveList(l) \/ ListStep(l)
  \/ \E k \in Looks : ReceiveLook(k) \/ LookStep(k)
  \/ \E r \in Requests : Fail(r)
  \/ Crash

Spec == Init /\ [][Next]_vars

\* The event loop resumes a handler whose statement or upload has returned;
\* clients may stay silent and failures may never come.
FairSpec ==
  /\ Spec
  /\ \A c \in Creates : WF_vars(CreateStep(c))
  /\ \A x \in Assembles : WF_vars(AssembleStep(x))
  /\ \A a \in Assigns : WF_vars(AssignStep(a))
  /\ \A l \in Lists : WF_vars(ListStep(l))
  /\ \A k \in Looks : WF_vars(LookStep(k))
=============================================================================
