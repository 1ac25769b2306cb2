------------------------ MODULE ExamCatalogProperties ------------------------
(***************************************************************************)
(* What ExamCatalog guarantees: whole questions and exams, assignments     *)
(* that exist once, true replies, whole reads, and that it implements      *)
(* PublishedExams, on which submission and grading rely.                   *)
(***************************************************************************)
EXTENDS ExamCatalog

QuestionIds == { row.id : row \in question }
OptionsIn(rows, q) == { o \in rows : o.question = q }
QuestionsIn(rows, e) == { row \in rows : row.exam = e }

OptionId   == Creates \X UNION { DOMAIN opts : opts \in OptionLists }
Places     == UNION { { i - 1 : i \in DOMAIN l } : l \in QuestionLists }
Question   == [id : Creates, image : Creates \union {None}]
Option     == [id : OptionId, question : Creates, correct : BOOLEAN]
Exam       == [id : Assembles]
ExamQuestion == [exam : Assembles, question : Creates, order : Places]
Assignment == [id : Assigns, exam : Assembles, user : UserIds]
Rows == [question : SUBSET Question, option : SUBSET Option, exam : SUBSET Exam,
         examQuestion : SUBSET ExamQuestion, assignment : SUBSET Assignment]

\* Every variable stays in its domain.
TypeOK ==
  /\ question \subseteq Question /\ option \subseteq Option /\ exam \subseteq Exam
  /\ examQuestion \subseteq ExamQuestion /\ assignment \subseteq Assignment
  /\ images \subseteq Creates
  /\ pc \in [Requests -> {"idle", "upload", "insert", "children", "commit", "existing",
                          "exam", "user", "questions", "options", "row", "load", "done"}]
  /\ resp \in [Requests -> {None, 200, 201, 400, 404, 409, 500}]
  /\ upload \in [Creates -> {None, "stored", "failed"}]
  /\ tx \in [Writers -> Rows] /\ seen \in [Readers -> Rows]
  /\ DOMAIN req = Requests
  /\ \A c \in Creates : pc[c] # "idle" =>
       req[c] \in [options : OptionLists, image : Images]
  /\ \A x \in Assembles : pc[x] # "idle" => req[x] \in [questions : QuestionLists]
  /\ \A a \in Assigns : pc[a] # "idle" => req[a] \in [exam : Assembles, user : UserIds]
  /\ \A k \in Looks : pc[k] # "idle" => req[k] \in [exam : Assembles]

\* A question has the options of its request, exactly one of them correct
\* (create_question.py:63), no option stands without its question, and a stored
\* image_url leads to an image the host has.
WholeQuestions ==
  /\ \A q \in question :
       /\ Cardinality(OptionsIn(option, q.id)) = Len(req[q.id].options)
       /\ Cardinality({ o \in OptionsIn(option, q.id) : o.correct }) = 1
  /\ \A o \in option : o.question \in QuestionIds
  /\ \A q \in question : q.image # None => q.image \in images

\* An exam holds the requested questions in the requested order, each once,
\* and all of them are in the bank (assemble_exam.py:23-40).
WholeExams ==
  /\ \A e \in exam :
       LET l == req[e.id].questions
           rows == QuestionsIn(examQuestion, e.id)
       IN  /\ Cardinality(rows) = Len(l)
           /\ \A i \in DOMAIN l : \E row \in rows : row.order = i - 1 /\ row.question = l[i]
  /\ \A row \in examQuestion : [id |-> row.exam] \in exam /\ row.question \in QuestionIds

\* The bank never holds half of a question or of an exam: nothing in the schema
\* says so, the tables are flushed one by one, and what was validated is
\* written several statements later.
BankIsWhole == WholeQuestions /\ WholeExams

\* 201 is answered only for what is stored, as stored, with the upload warning
\* exactly if an image was sent and dropped; 409 only if the pair is assigned;
\* a refused request has stored nothing.
RepliesAreTrue ==
  /\ \A c \in Creates : resp[c] = 201 =>
       /\ QuestionRow(c) \in question /\ OptionRows(c) \subseteq option
       /\ (upload[c] = "failed") <=> (req[c].image = "valid" /\ [id |-> c, image |-> None] \in question)
  /\ \A x \in Assembles : resp[x] = 201 =>
       [id |-> x] \in exam /\ ExamQuestionRows(x) \subseteq examQuestion
  /\ \A a \in Assigns :
       /\ resp[a] = 201 => AssignmentRow(a) \in assignment
       /\ resp[a] = 409 => Assigned(a)
  /\ \A w \in Writers : resp[w] \in {400, 404, 409} =>
       /\ w \notin QuestionIds /\ [id |-> w] \notin exam
       /\ \A row \in assignment : row.id # w

\* A reader never sees a question without its options or an exam without its
\* questions, although each comes from a second query.
ReadsAreWhole ==
  /\ \A l \in Lists : resp[l] = 200 => \A q \in seen[l].question :
       OptionsIn(seen[l].option, q.id) = OptionRows(q.id)
  /\ \A k \in Looks : resp[k] = 200 =>
       seen[k].examQuestion = ExamQuestionRows(req[k].exam)

-----------------------------------------------------------------------------
(* The inductive invariant behind these properties.                         *)

\* What a handler knows while its transaction has not ended: the body is valid,
\* the image was dealt with, and what it has looked up is still there.
InMemory ==
  /\ \A c \in Creates :
       /\ pc[c] \in {"upload", "insert", "children", "commit"} =>
            HasSingleCorrectOption(req[c].options)
       /\ pc[c] = "upload" => req[c].image = "valid"
       /\ pc[c] \in {"idle", "upload"} => upload[c] = None
       /\ pc[c] \in {"insert", "children", "commit"} =>
            (upload[c] = None <=> req[c].image # "valid")
       /\ upload[c] = "stored" => c \in images
  /\ \A x \in Assembles : pc[x] = "commit" =>
       IsInjective(req[x].questions) /\ ToSet(req[x].questions) \subseteq QuestionIds
  /\ \A a \in Assigns :
       /\ pc[a] \in {"user", "insert", "commit"} => [id |-> req[a].exam] \in exam
       /\ pc[a] \in {"insert", "commit"} => req[a].user \in Students

\* What a transaction has written, by the place its handler has reached.
WriteSets ==
  \A w \in Writers :
    /\ tx[w].question = IF w \in Creates /\ pc[w] \in {"children", "commit"}
                        THEN {QuestionRow(w)} ELSE {}
    /\ tx[w].option = IF w \in Creates /\ pc[w] = "commit" THEN OptionRows(w) ELSE {}
    /\ tx[w].exam = IF w \in Assembles /\ pc[w] \in {"children", "commit"}
                    THEN {[id |-> w]} ELSE {}
    /\ tx[w].examQuestion = IF w \in Assembles /\ pc[w] = "commit"
                            THEN ExamQuestionRows(w) ELSE {}
    /\ tx[w].assignment = IF w \in Assigns /\ pc[w] = "commit" THEN {AssignmentRow(w)} ELSE {}

\* A committed row comes from its request, which has ended and was not refused,
\* with everything that belongs to it.
CommittedRows ==
  /\ \A q \in question :
       /\ q = QuestionRow(q.id) /\ resp[q.id] \in {201, 500}
       /\ OptionRows(q.id) \subseteq option
       /\ HasSingleCorrectOption(req[q.id].options)
       /\ upload[q.id] = None <=> req[q.id].image # "valid"
  /\ \A o \in option : o.question \in QuestionIds /\ o \in OptionRows(o.question)
  /\ \A e \in exam :
       /\ resp[e.id] \in {201, 500} /\ ExamQuestionRows(e.id) \subseteq examQuestion
       /\ IsInjective(req[e.id].questions) /\ ToSet(req[e.id].questions) \subseteq QuestionIds
  /\ \A row \in examQuestion :
       [id |-> row.exam] \in exam /\ row \in ExamQuestionRows(row.exam)
  /\ \A row \in assignment :
       /\ row = AssignmentRow(row.id) /\ resp[row.id] \in {201, 500}
       /\ [id |-> row.exam] \in exam /\ row.user \in Students

\* A pair is assigned by one transaction, and no other is about to commit it.
PairIsExclusive ==
  \A a \in Assigns : pc[a] = "commit" \/ (\E row \in assignment : row.id = a) =>
    /\ \A row \in assignment : SamePair(row, req[a]) => row.id = a
    /\ \A b \in Assigns : pc[b] = "commit" /\ SamePair(req[a], req[b]) => b = a

\* A reader has read committed rows, and in the end all that belong to them.
PartialReads ==
  /\ \A l \in Lists : pc[l] = "options" \/ resp[l] = 200 =>
       \A q \in seen[l].question : q.id \in QuestionIds
  /\ \A k \in Looks :
       /\ pc[k] = "load" => seen[k].exam = {[id |-> req[k].exam]}
       /\ pc[k] = "load" \/ resp[k] = 200 => [id |-> req[k].exam] \in exam

StatusIsFinal == \A r \in Requests : resp[r] # None => pc[r] = "done"

CatalogInvariant ==
  /\ TypeOK /\ StatusIsFinal /\ InMemory /\ WriteSets /\ CommittedRows /\ PairIsExclusive
  /\ PartialReads /\ RepliesAreTrue /\ ReadsAreWhole

-----------------------------------------------------------------------------
\* The promise of PublishedExams: an exam is what get_grading_data would join.
RowsOf(e) ==
  JoinedRows({ [order |-> row.order, question |-> row.question]
               : row \in QuestionsIn(examQuestion, e) }, option)
Published == [e \in Assembles |-> IF [id |-> e] \in exam THEN RowsOf(e) ELSE None]
AssignmentRows(a) == { row \in assignment : row.id = a }
AssignedTo ==
  [a \in Assigns |-> IF AssignmentRows(a) = {} THEN None
                     ELSE LET row == CHOOSE r \in AssignmentRows(a) : TRUE
                          IN  [exam |-> row.exam, user |-> row.user]]
\* Lists of different questions, each with exactly one correct option.
GradableContents ==
  UNION { { JoinedRows({ [order |-> i - 1, question |-> l[i]] : i \in DOMAIN l },
                       UNION { OptionRowsOf(c, opts[c]) : c \in ToSet(l) })
            : opts \in [ToSet(l) -> { o \in OptionLists : HasSingleCorrectOption(o) }] }
          : l \in { q \in QuestionLists : IsInjective(q) } }
ASSUME ContentsAssumption ==
  None \notin GradableContents /\ None \notin [exam : Assembles, user : UserIds]
Promise == INSTANCE PublishedExams WITH
  Exams <- Assembles, Assignments <- Assigns, Contents <- GradableContents,
  exam <- Published, assignment <- AssignedTo

\* Exams appear whole, of questions with one correct option, their grading rows
\* never change afterwards, and assignments are of published exams, each pair
\* once: what grade() reads is fixed before anyone can submit the exam.
ImplementsPublishedExams == Promise!Spec

\* A request whose handler started is answered; an assignment may wait for
\* another one of the same pair, but every transaction ends.
EveryRequestIsAnswered == \A r \in Requests : Open(r) ~> pc[r] = "done"
=============================================================================
