-------------------------- MODULE ExamCatalogProofs --------------------------
(***************************************************************************)
(* Proofs about ExamCatalog for every set of requests, users and bodies:   *)
(* CatalogInvariant is inductive; whole questions and exams, whole reads,  *)
(* true replies and the refinement of PublishedExams follow.  First what   *)
(* one step may do to one request and to the tables, then each part of the *)
(* invariant from these facts.                                             *)
(***************************************************************************)
EXTENDS ExamCatalogProperties, FiniteSetTheorems, FunctionTheorems, TLAPS

LEMMA RequestSets ==
  /\ Creates \subseteq Writers /\ Assembles \subseteq Writers /\ Assigns \subseteq Writers
  /\ Lists \subseteq Readers /\ Looks \subseteq Readers
  /\ Writers \subseteq Requests /\ Readers \subseteq Requests
  /\ \A w \in Writers : w \notin Readers
  /\ \A c \in Creates : c \notin Assembles /\ c \notin Assigns
  /\ \A x \in Assembles : x \notin Creates /\ x \notin Assigns
  /\ \A a \in Assigns : a \notin Creates /\ a \notin Assembles
  /\ \A l \in Lists : l \notin Looks
  /\ \A k \in Looks : k \notin Lists
BY CatalogAssumption DEF Writers, Readers, Requests

LEMMA Domains ==
  ASSUME TypeOK
  PROVE  /\ DOMAIN pc = Requests /\ DOMAIN resp = Requests /\ DOMAIN req = Requests
         /\ DOMAIN upload = Creates /\ DOMAIN tx = Writers /\ DOMAIN seen = Readers
         /\ \A w \in Writers : DOMAIN tx[w] = DOMAIN NoRows
         /\ \A r \in Readers : DOMAIN seen[r] = DOMAIN NoRows
BY DEF TypeOK, Rows, NoRows

-----------------------------------------------------------------------------
(* Types.                                                                   *)

LEMMA QuestionRowType ==
  ASSUME NEW c \in Creates
  PROVE  QuestionRow(c) \in Question /\ QuestionRow(c).id = c
BY DEF QuestionRow, Question

LEMMA OptionRowsType ==
  ASSUME NEW c \in Creates, NEW opts \in OptionLists
  PROVE  /\ OptionRowsOf(c, opts) \subseteq Option
         /\ \A o \in OptionRowsOf(c, opts) : o.question = c
<1>1. \A i \in DOMAIN opts : opts[i] \in BOOLEAN
  BY CatalogAssumption
<1>2. \A i \in DOMAIN opts : <<c, i>> \in OptionId
  BY DEF OptionId
<1>3. \A i \in DOMAIN opts : [id |-> <<c, i>>, question |-> c, correct |-> opts[i]] \in Option
  BY <1>1, <1>2 DEF Option
<1>4. QED
  BY <1>3 DEF OptionRowsOf

LEMMA ExamQuestionRowsType ==
  ASSUME NEW x \in Assembles, req[x] \in [questions : QuestionLists]
  PROVE  ExamQuestionRows(x) \subseteq ExamQuestion
<1>1. req[x].questions \in QuestionLists /\ req[x].questions \in Seq(Creates)
  BY CatalogAssumption
<1>2. \A i \in DOMAIN req[x].questions :
        req[x].questions[i] \in Creates /\ i - 1 \in Places
  BY <1>1 DEF Places
<1>3. QED
  BY <1>2 DEF ExamQuestionRows, ExamQuestion

\* A transaction that has written one more set of rows, or none.
LEMMA TxType ==
  ASSUME TypeOK, NEW w \in Writers
  PROVE  /\ NoRows \in Rows /\ [tx EXCEPT ![w] = NoRows] \in [Writers -> Rows]
         /\ \A rows \in SUBSET Question : [tx EXCEPT ![w].question = rows] \in [Writers -> Rows]
         /\ \A rows \in SUBSET Option : [tx EXCEPT ![w].option = rows] \in [Writers -> Rows]
         /\ \A rows \in SUBSET Exam : [tx EXCEPT ![w].exam = rows] \in [Writers -> Rows]
         /\ \A rows \in SUBSET ExamQuestion :
              [tx EXCEPT ![w].examQuestion = rows] \in [Writers -> Rows]
         /\ \A rows \in SUBSET Assignment :
              [tx EXCEPT ![w].assignment = rows] \in [Writers -> Rows]
BY DEF TypeOK, Rows, NoRows

\* The same for what a reader has read.
LEMMA SeenType ==
  ASSUME TypeOK, NEW r \in Readers
  PROVE  /\ \A rows \in SUBSET Question : [seen EXCEPT ![r].question = rows] \in [Readers -> Rows]
         /\ \A rows \in SUBSET Option : [seen EXCEPT ![r].option = rows] \in [Readers -> Rows]
         /\ \A rows \in SUBSET Exam : [seen EXCEPT ![r].exam = rows] \in [Readers -> Rows]
         /\ \A rows \in SUBSET ExamQuestion :
              [seen EXCEPT ![r].examQuestion = rows] \in [Readers -> Rows]
<1>1. seen[r] \in Rows /\ seen \in [Readers -> Rows]
  BY DEF TypeOK
<1>2. /\ \A rows \in SUBSET Question : [seen[r] EXCEPT !.question = rows] \in Rows
      /\ \A rows \in SUBSET Option : [seen[r] EXCEPT !.option = rows] \in Rows
      /\ \A rows \in SUBSET Exam : [seen[r] EXCEPT !.exam = rows] \in Rows
      /\ \A rows \in SUBSET ExamQuestion : [seen[r] EXCEPT !.examQuestion = rows] \in Rows
  BY <1>1 DEF Rows
<1>3. QED
  BY <1>1, <1>2

LEMMA CommitTypes ==
  ASSUME TypeOK, NEW w \in Writers, Commit(w)
  PROVE  TypeOK'
<1> USE RequestSets
<1>1. tx' \in [Writers -> Rows]
  BY TxType DEF Commit
<1>2. tx[w] \in Rows
  BY DEF TypeOK
<1>3. /\ tx[w].question \subseteq Question /\ tx[w].option \subseteq Option
      /\ tx[w].exam \subseteq Exam /\ tx[w].examQuestion \subseteq ExamQuestion
      /\ tx[w].assignment \subseteq Assignment
  BY <1>2 DEF Rows
<1>4. /\ question' \subseteq Question /\ option' \subseteq Option /\ exam' \subseteq Exam
      /\ examQuestion' \subseteq ExamQuestion /\ assignment' \subseteq Assignment
  BY <1>3 DEF Commit, TypeOK
<1>5. QED
  BY <1>1, <1>4 DEF Commit, Finish, TypeOK

LEMMA CreateTypes ==
  ASSUME TypeOK, NEW c \in Creates, ReceiveQuestion(c) \/ CreateStep(c)
  PROVE  TypeOK'
<1> USE RequestSets DEF Goto, Finish, tables
<1>1. CASE ReceiveQuestion(c)
  <2>1. PICK opts \in OptionLists, image \in Images :
          req' = [req EXCEPT ![c] = [options |-> opts, image |-> image]]
    BY <1>1 DEF ReceiveQuestion
  <2>2. /\ DOMAIN req' = Requests /\ req'[c] \in [options : OptionLists, image : Images]
        /\ \A r \in Requests \ {c} : req'[r] = req[r]
    BY <2>1 DEF TypeOK
  <2>3. /\ pc' \in [Requests -> {"idle", "upload", "insert", "children", "commit", "existing",
                          "exam", "user", "questions", "options", "row", "load", "done"}]
        /\ resp' \in [Requests -> {None, 200, 201, 400, 404, 409, 500}]
        /\ \A r \in Requests \ {c} : pc'[r] = pc[r]
    BY <1>1 DEF ReceiveQuestion, TypeOK
  <2>4. QED
    BY <1>1, <2>2, <2>3 DEF ReceiveQuestion, TypeOK
<1>2. CASE UploadImage(c)
  BY <1>2 DEF UploadImage, TypeOK
<1>3. CASE InsertQuestion(c)
  <2>1. {QuestionRow(c)} \in SUBSET Question
    BY QuestionRowType
  <2>2. tx' \in [Writers -> Rows]
    BY <1>3, <2>1, TxType DEF InsertQuestion
  <2>3. QED
    BY <1>3, <2>2 DEF InsertQuestion, TypeOK
<1>4. CASE InsertOptions(c)
  <2>1. tx' \in [Writers -> Rows]
    BY <1>4, TxType, OptionRowsType DEF InsertOptions, TypeOK, OptionRows
  <2>2. QED
    BY <1>4, <2>1 DEF InsertOptions, TypeOK
<1>5. CASE Commit(c)
  BY <1>5, CommitTypes
<1>6. QED
  BY <1>1, <1>2, <1>3, <1>4, <1>5 DEF CreateStep

LEMMA AssembleTypes ==
  ASSUME TypeOK, NEW x \in Assembles, ReceiveExam(x) \/ AssembleStep(x)
  PROVE  TypeOK'
<1> USE RequestSets DEF Goto, Finish, tables
<1>1. CASE ReceiveExam(x)
  BY <1>1 DEF ReceiveExam, TypeOK
<1>2. CASE ReadExisting(x)
  BY <1>2 DEF ReadExisting, TypeOK
<1>3. CASE InsertExam(x)
  <2>1. {[id |-> x]} \in SUBSET Exam
    BY DEF Exam
  <2>2. tx' \in [Writers -> Rows]
    BY <1>3, <2>1, TxType DEF InsertExam
  <2>3. QED
    BY <1>3, <2>2 DEF InsertExam, TypeOK
<1>4. CASE InsertExamQuestions(x)
  <2>1. ExamQuestionRows(x) \in SUBSET ExamQuestion
    BY <1>4, ExamQuestionRowsType DEF InsertExamQuestions, TypeOK
  <2>2. tx' \in [Writers -> Rows]
    BY <1>4, <2>1, TxType DEF InsertExamQuestions
  <2>3. QED
    BY <1>4, <2>2 DEF InsertExamQuestions, TypeOK
<1>5. CASE Commit(x)
  BY <1>5, CommitTypes
<1>6. QED
  BY <1>1, <1>2, <1>3, <1>4, <1>5 DEF AssembleStep

LEMMA AssignTypes ==
  ASSUME TypeOK, NEW a \in Assigns, ReceiveAssign(a) \/ AssignStep(a)
  PROVE  TypeOK'
<1> USE RequestSets DEF Goto, Finish, tables
<1>1. CASE ReceiveAssign(a)
  BY <1>1 DEF ReceiveAssign, TypeOK
<1>2. CASE ReadExam(a) \/ ReadUser(a)
  BY <1>2 DEF ReadExam, ReadUser, TypeOK
<1>3. CASE InsertAssignment(a)
  <2>1. {AssignmentRow(a)} \in SUBSET Assignment
    BY <1>3 DEF InsertAssignment, TypeOK, AssignmentRow, Assignment
  <2>2. tx' = tx \/ tx' = [tx EXCEPT ![a].assignment = {AssignmentRow(a)}]
    BY <1>3 DEF InsertAssignment
  <2>3. tx' \in [Writers -> Rows]
    <3>1. tx \in [Writers -> Rows] /\ a \in Writers
      BY DEF TypeOK
    <3>2. [tx EXCEPT ![a].assignment = {AssignmentRow(a)}] \in [Writers -> Rows]
      BY <2>1, <3>1, TxType
    <3>3. QED
      BY <2>2, <3>1, <3>2
  <2>4. QED
    BY <1>3, <2>3 DEF InsertAssignment, TypeOK
<1>4. CASE Commit(a)
  BY <1>4, CommitTypes
<1>5. QED
  BY <1>1, <1>2, <1>3, <1>4 DEF AssignStep

LEMMA ReaderTypes ==
  ASSUME TypeOK,
         \/ \E l \in Lists : ReceiveList(l) \/ ListStep(l)
         \/ \E k \in Looks : ReceiveLook(k) \/ LookStep(k)
  PROVE  TypeOK'
<1> USE RequestSets DEF Goto, Finish, tables
<1>1. ASSUME NEW l \in Lists, ReceiveList(l) \/ ListStep(l) PROVE TypeOK'
  <2>1. /\ question \in SUBSET Question
        /\ { o \in option : \E q \in seen[l].question : o.question = q.id } \in SUBSET Option
    BY DEF TypeOK
  <2>2. \/ seen' = seen \/ seen' = [seen EXCEPT ![l].question = question]
        \/ seen' = [seen EXCEPT ![l].option =
                      { o \in option : \E q \in seen[l].question : o.question = q.id }]
    BY <1>1 DEF ReceiveList, ListStep, ReadQuestions, LoadOptions
  <2>3. seen' \in [Readers -> Rows]
    <3>1. seen \in [Readers -> Rows] /\ l \in Readers
      BY DEF TypeOK
    <3>2. /\ [seen EXCEPT ![l].question = question] \in [Readers -> Rows]
          /\ [seen EXCEPT ![l].option =
                { o \in option : \E q \in seen[l].question : o.question = q.id }]
               \in [Readers -> Rows]
      BY <2>1, <3>1, SeenType
    <3>3. QED
      BY <2>2, <3>1, <3>2
  <2>4. QED
    BY <1>1, <2>3 DEF ReceiveList, ListStep, ReadQuestions, LoadOptions, TypeOK
<1>2. ASSUME NEW k \in Looks, ReceiveLook(k) \/ LookStep(k) PROVE TypeOK'
  <2>1. /\ { row \in exam : row.id = req[k].exam } \in SUBSET Exam
        /\ { row \in examQuestion : [id |-> row.exam] \in seen[k].exam } \in SUBSET ExamQuestion
    BY DEF TypeOK
  <2>2. \/ seen' = seen
        \/ seen' = [seen EXCEPT ![k].exam = { row \in exam : row.id = req[k].exam }]
        \/ seen' = [seen EXCEPT ![k].examQuestion =
                      { row \in examQuestion : [id |-> row.exam] \in seen[k].exam }]
    BY <1>2 DEF ReceiveLook, LookStep, ReadExamRow, LoadExamQuestions
  <2>3. seen' \in [Readers -> Rows]
    <3>1. seen \in [Readers -> Rows] /\ k \in Readers
      BY DEF TypeOK
    <3>2. /\ [seen EXCEPT ![k].exam = { row \in exam : row.id = req[k].exam }] \in [Readers -> Rows]
          /\ [seen EXCEPT ![k].examQuestion =
                { row \in examQuestion : [id |-> row.exam] \in seen[k].exam }]
               \in [Readers -> Rows]
      BY <2>1, <3>1, SeenType
    <3>3. QED
      BY <2>2, <3>1, <3>2
  <2>4. QED
    BY <1>2, <2>3 DEF ReceiveLook, LookStep, ReadExamRow, LoadExamQuestions, TypeOK
<1>3. QED
  BY <1>1, <1>2

LEMMA TypesKept ==
  ASSUME TypeOK, [Next]_vars
  PROVE  TypeOK'
<1>1. ASSUME NEW r \in Requests, Fail(r) PROVE TypeOK'
  <2>1. tx' \in [Writers -> Rows]
    BY <1>1 DEF Fail, TypeOK, Rows, NoRows
  <2>2. QED
    BY <1>1, <2>1 DEF Fail, Finish, Open, tables, TypeOK
<1>2. CASE Crash
  <2>1. tx' \in [Writers -> Rows]
    BY <1>2 DEF Crash, TypeOK, Rows, NoRows
  <2>2. \A r \in Requests : pc'[r] # "idle" => pc[r] # "idle"
    BY <1>2 DEF Crash, Open
  <2>3. QED
    BY <1>2, <2>1, <2>2, RequestSets DEF Crash, tables, TypeOK
<1>3. CASE UNCHANGED vars
  BY <1>3 DEF vars, tables, TypeOK
<1>4. QED
  BY <1>1, <1>2, <1>3, CreateTypes, AssembleTypes, AssignTypes, ReaderTypes DEF Next

-----------------------------------------------------------------------------
(* What a step may do to a request.                                         *)

Stays(r) == pc'[r] = pc[r] /\ req'[r] = req[r] /\ resp'[r] = resp[r]
Passes(r, from, to) == pc[r] = from /\ pc'[r] = to /\ req'[r] = req[r] /\ resp'[r] = resp[r]
Fails(r) == Open(r) /\ pc'[r] = "done" /\ resp'[r] = 500 /\ req'[r] = req[r]

CreateMoves(c) ==
  \/ Stays(c) /\ upload'[c] = upload[c] /\ tx'[c] = tx[c]
  \/ /\ pc[c] = "idle" /\ upload'[c] = upload[c] /\ tx'[c] = tx[c] /\ tables' = tables
     /\ \/ pc'[c] = "done" /\ resp'[c] = 400
        \/ /\ resp'[c] = resp[c] /\ HasSingleCorrectOption(req'[c].options)
           /\ pc'[c] = IF req'[c].image = "valid" THEN "upload" ELSE "insert"
  \/ /\ Passes(c, "upload", "insert") /\ tx'[c] = tx[c]
     /\ upload'[c] \in {"stored", "failed"} /\ (upload'[c] = "stored" => c \in images')
  \/ /\ Passes(c, "insert", "children") /\ upload'[c] = upload[c]
     /\ tx'[c] = [tx[c] EXCEPT !.question = {QuestionRow(c)}]
  \/ /\ Passes(c, "children", "commit") /\ upload'[c] = upload[c]
     /\ tx'[c] = [tx[c] EXCEPT !.option = OptionRows(c)]
  \/ /\ pc[c] = "commit" /\ pc'[c] = "done" /\ resp'[c] \in {201, 500} /\ req'[c] = req[c]
     /\ upload'[c] = upload[c] /\ tx'[c] = NoRows
     /\ QuestionRow(c) \in question' /\ OptionRows(c) \subseteq option'
  \/ Fails(c) /\ upload'[c] = upload[c] /\ tx'[c] = NoRows

AssembleMoves(x) ==
  \/ Stays(x) /\ tx'[x] = tx[x]
  \/ /\ pc[x] = "idle" /\ pc'[x] = "existing" /\ resp'[x] = resp[x] /\ tx'[x] = tx[x]
     /\ tables' = tables
  \/ Passes(x, "existing", "insert") /\ tx'[x] = tx[x]
  \/ /\ pc[x] = "existing" /\ pc'[x] = "done" /\ resp'[x] = 404 /\ req'[x] = req[x]
     /\ tx'[x] = tx[x] /\ tables' = tables
  \/ Passes(x, "insert", "children") /\ tx'[x] = [tx[x] EXCEPT !.exam = {[id |-> x]}]
  \/ /\ Passes(x, "children", "commit") /\ tables' = tables
     /\ tx'[x] = [tx[x] EXCEPT !.examQuestion = ExamQuestionRows(x)]
     /\ IsInjective(req[x].questions) /\ ToSet(req[x].questions) \subseteq QuestionIds
  \/ /\ pc[x] = "commit" /\ pc'[x] = "done" /\ resp'[x] \in {201, 500} /\ req'[x] = req[x]
     /\ tx'[x] = NoRows /\ [id |-> x] \in exam' /\ ExamQuestionRows(x) \subseteq examQuestion'
  \/ Fails(x) /\ tx'[x] = NoRows

AssignMoves(a) ==
  \/ Stays(a) /\ tx'[a] = tx[a]
  \/ /\ pc[a] = "idle" /\ pc'[a] = "exam" /\ resp'[a] = resp[a] /\ tx'[a] = tx[a]
     /\ tables' = tables
  \/ Passes(a, "exam", "user") /\ tx'[a] = tx[a] /\ [id |-> req[a].exam] \in exam
  \/ Passes(a, "user", "insert") /\ tx'[a] = tx[a] /\ req[a].user \in Students
  \/ /\ pc[a] \in {"exam", "user"} /\ pc'[a] = "done" /\ resp'[a] = 404 /\ req'[a] = req[a]
     /\ tx'[a] = tx[a] /\ tables' = tables
  \/ /\ pc[a] = "insert" /\ pc'[a] = "done" /\ resp'[a] = 409 /\ req'[a] = req[a]
     /\ tx'[a] = tx[a] /\ Assigned(a) /\ tables' = tables
  \/ /\ Passes(a, "insert", "commit") /\ tx'[a] = [tx[a] EXCEPT !.assignment = {AssignmentRow(a)}]
     /\ ~Assigned(a) /\ ~HeldByOther(a) /\ tables' = tables
     /\ \A b \in Assigns \ {a} : Stays(b)
  \/ /\ pc[a] = "commit" /\ pc'[a] = "done" /\ resp'[a] \in {201, 500} /\ req'[a] = req[a]
     /\ tx'[a] = NoRows /\ AssignmentRow(a) \in assignment'
  \/ Fails(a) /\ tx'[a] = NoRows

ListMoves(l) ==
  \/ Stays(l) /\ seen'[l] = seen[l]
  \/ Passes(l, "idle", "questions") /\ seen'[l] = seen[l]
  \/ Passes(l, "questions", "options") /\ seen'[l].question = question
  \/ /\ pc[l] = "options" /\ pc'[l] = "done" /\ resp'[l] = 200 /\ tables' = tables
     /\ seen'[l] = [seen[l] EXCEPT !.option =
                      { o \in option : \E q \in seen[l].question : o.question = q.id }]
  \/ Fails(l) /\ seen'[l] = seen[l]

LookMoves(k) ==
  \/ Stays(k) /\ seen'[k] = seen[k]
  \/ pc[k] = "idle" /\ pc'[k] = "row" /\ resp'[k] = resp[k] /\ seen'[k] = seen[k]
  \/ /\ pc[k] = "row" /\ pc'[k] = "done" /\ resp'[k] = 404 /\ seen'[k] = seen[k]
  \/ /\ Passes(k, "row", "load") /\ [id |-> req[k].exam] \in exam
     /\ seen'[k].exam = {[id |-> req[k].exam]}
  \/ /\ pc[k] = "load" /\ pc'[k] = "done" /\ resp'[k] = 200 /\ req'[k] = req[k]
     /\ tables' = tables
     /\ seen'[k].examQuestion = { row \in examQuestion : [id |-> row.exam] \in seen[k].exam }
  \/ Fails(k) /\ seen'[k] = seen[k]

\* A step of one request leaves the others alone.
OthersStay(r) ==
  /\ \A q \in Requests \ {r} : Stays(q)
  /\ \A c \in Creates \ {r} : upload'[c] = upload[c]
  /\ \A w \in Writers \ {r} : tx'[w] = tx[w]
  /\ \A q \in Readers \ {r} : seen'[q] = seen[q]

LEMMA StepsOfOne ==
  ASSUME TypeOK, [Next]_vars
  PROVE  \/ \E c \in Creates : (ReceiveQuestion(c) \/ CreateStep(c)) /\ OthersStay(c)
         \/ \E x \in Assembles : (ReceiveExam(x) \/ AssembleStep(x)) /\ OthersStay(x)
         \/ \E a \in Assigns : (ReceiveAssign(a) \/ AssignStep(a)) /\ OthersStay(a)
         \/ \E l \in Lists : (ReceiveList(l) \/ ListStep(l)) /\ OthersStay(l)
         \/ \E k \in Looks : (ReceiveLook(k) \/ LookStep(k)) /\ OthersStay(k)
         \/ \E r \in Requests : Fail(r) /\ OthersStay(r)
         \/ Crash \/ UNCHANGED vars
<1> USE RequestSets, Domains DEF Goto, Finish, Stays, OthersStay
<1>1. ASSUME NEW c \in Creates, ReceiveQuestion(c) \/ CreateStep(c) PROVE OthersStay(c)
  BY <1>1 DEF ReceiveQuestion, CreateStep, UploadImage, InsertQuestion, InsertOptions, Commit
<1>2. ASSUME NEW x \in Assembles, ReceiveExam(x) \/ AssembleStep(x) PROVE OthersStay(x)
  BY <1>2 DEF ReceiveExam, AssembleStep, ReadExisting, InsertExam, InsertExamQuestions, Commit
<1>3. ASSUME NEW a \in Assigns, ReceiveAssign(a) \/ AssignStep(a) PROVE OthersStay(a)
  BY <1>3 DEF ReceiveAssign, AssignStep, ReadExam, ReadUser, InsertAssignment, Commit
<1>4. ASSUME NEW l \in Lists, ReceiveList(l) \/ ListStep(l) PROVE OthersStay(l)
  BY <1>4 DEF ReceiveList, ListStep, ReadQuestions, LoadOptions
<1>5. ASSUME NEW k \in Looks, ReceiveLook(k) \/ LookStep(k) PROVE OthersStay(k)
  BY <1>5 DEF ReceiveLook, LookStep, ReadExamRow, LoadExamQuestions
<1>6. ASSUME NEW r \in Requests, Fail(r) PROVE OthersStay(r)
  BY <1>6 DEF Fail
<1>7. QED
  BY <1>1, <1>2, <1>3, <1>4, <1>5, <1>6 DEF Next

\* A request that has not started or has ended has no rows in its transaction.
LEMMA NothingPending ==
  ASSUME TypeOK, WriteSets, NEW w \in Writers, ~Open(w)
  PROVE  tx[w] = NoRows
<1>1. /\ tx[w].question = {} /\ tx[w].option = {} /\ tx[w].exam = {}
      /\ tx[w].examQuestion = {} /\ tx[w].assignment = {}
  BY DEF WriteSets, Open
<1>2. tx[w] = [question |-> tx[w].question, option |-> tx[w].option, exam |-> tx[w].exam,
               examQuestion |-> tx[w].examQuestion, assignment |-> tx[w].assignment]
  BY DEF TypeOK, Rows
<1>3. QED
  BY <1>1, <1>2 DEF NoRows

\* A failure, or a crash, ends the requests under way.
LEMMA FailureSteps ==
  ASSUME TypeOK, WriteSets, NEW q \in Requests,
         (\E r \in Requests : Fail(r)) \/ Crash \/ UNCHANGED vars
  PROVE  /\ Stays(q) \/ Fails(q)
         /\ q \in Creates => upload'[q] = upload[q]
         /\ q \in Writers => tx'[q] = IF Stays(q) THEN tx[q] ELSE NoRows
         /\ q \in Readers => seen'[q] = seen[q]
<1> USE RequestSets, Domains DEF Finish, Stays, Fails
<1>1. ASSUME NEW r \in Requests, Fail(r)
      PROVE  /\ Stays(q) \/ Fails(q)
             /\ q \in Creates => upload'[q] = upload[q]
             /\ q \in Writers => tx'[q] = IF Stays(q) THEN tx[q] ELSE NoRows
             /\ q \in Readers => seen'[q] = seen[q]
  BY <1>1 DEF Fail, Open
<1>2. CASE Crash
  <2>1. upload' = upload /\ req' = req /\ seen' = seen /\ (q \in Writers => tx'[q] = NoRows)
    BY <1>2 DEF Crash
  <2>2. CASE Open(q)
    BY <1>2, <2>1, <2>2 DEF Crash, Open
  <2>3. CASE ~Open(q)
    BY <1>2, <2>1, <2>3, NothingPending DEF Crash
  <2>4. QED
    BY <2>2, <2>3
<1>3. CASE UNCHANGED vars
  BY <1>3 DEF vars
<1>4. QED
  BY <1>1, <1>2, <1>3

LEMMA CreateSteps ==
  ASSUME TypeOK, WriteSets, [Next]_vars, NEW c \in Creates
  PROVE  CreateMoves(c)
<1> USE RequestSets, Domains DEF Goto, Finish, Stays, Passes
<1>1. CASE ReceiveQuestion(c)
  BY <1>1 DEF ReceiveQuestion, CreateMoves
<1>2. CASE UploadImage(c)
  BY <1>2 DEF UploadImage, CreateMoves
<1>3. CASE InsertQuestion(c) \/ InsertOptions(c)
  <2>1. CASE InsertQuestion(c)
    BY <2>1 DEF InsertQuestion, CreateMoves
  <2>2. CASE InsertOptions(c)
    BY <2>2 DEF InsertOptions, CreateMoves
  <2>3. QED
    BY <1>3, <2>1, <2>2
<1>4. CASE Commit(c)
  <2>1. tx[c].question = {QuestionRow(c)} /\ tx[c].option = OptionRows(c)
    BY <1>4, ZenonT(40) DEF Commit, WriteSets
  <2>2. QED
    BY <1>4, <2>1, SMTT(20) DEF Commit, CreateMoves
<1>5. ASSUME NEW r \in Requests \ {c}, OthersStay(r) PROVE CreateMoves(c)
  BY <1>5 DEF OthersStay, CreateMoves
<1>6. CASE (\E r \in Requests : Fail(r)) \/ Crash \/ UNCHANGED vars
  BY <1>6, FailureSteps DEF CreateMoves
<1>7. QED
  BY <1>1, <1>2, <1>3, <1>4, <1>5, <1>6, StepsOfOne DEF CreateStep

LEMMA AssembleSteps ==
  ASSUME TypeOK, WriteSets, [Next]_vars, NEW x \in Assembles
  PROVE  AssembleMoves(x)
<1> USE RequestSets, Domains DEF Goto, Finish, Stays, Passes
<1>1. CASE ReceiveExam(x) \/ ReadExisting(x) \/ InsertExam(x)
  <2>1. CASE ReceiveExam(x)
    BY <2>1 DEF ReceiveExam, AssembleMoves
  <2>2. CASE ReadExisting(x)
    BY <2>2 DEF ReadExisting, AssembleMoves
  <2>3. CASE InsertExam(x)
    BY <2>3 DEF InsertExam, AssembleMoves
  <2>4. QED
    BY <1>1, <2>1, <2>2, <2>3
<1>2. CASE InsertExamQuestions(x)
  <2>1. ExistingIds(ToSet(req[x].questions)) \subseteq QuestionIds
    BY DEF ExistingIds, QuestionIds
  <2>2. QED
    BY <1>2, <2>1 DEF InsertExamQuestions, AssembleMoves, Fails, Open
<1>3. CASE Commit(x)
  <2>1. tx[x].exam = {[id |-> x]} /\ tx[x].examQuestion = ExamQuestionRows(x)
    BY <1>3, ZenonT(40) DEF Commit, WriteSets
  <2>2. QED
    BY <1>3, <2>1, SMTT(20) DEF Commit, AssembleMoves
<1>4. ASSUME NEW r \in Requests \ {x}, OthersStay(r) PROVE AssembleMoves(x)
  BY <1>4 DEF OthersStay, AssembleMoves
<1>5. CASE (\E r \in Requests : Fail(r)) \/ Crash \/ UNCHANGED vars
  BY <1>5, FailureSteps DEF AssembleMoves
<1>6. QED
  BY <1>1, <1>2, <1>3, <1>4, <1>5, StepsOfOne DEF AssembleStep

LEMMA AssignSteps ==
  ASSUME TypeOK, WriteSets, [Next]_vars, NEW a \in Assigns
  PROVE  AssignMoves(a)
<1> USE RequestSets, Domains DEF Goto, Finish, Stays, Passes
<1>1. CASE ReceiveAssign(a) \/ ReadExam(a) \/ ReadUser(a)
  <2>1. CASE ReceiveAssign(a)
    BY <2>1 DEF ReceiveAssign, AssignMoves
  <2>2. CASE ReadExam(a)
    BY <2>2 DEF ReadExam, AssignMoves
  <2>3. CASE ReadUser(a)
    BY <2>3 DEF ReadUser, AssignMoves
  <2>4. QED
    BY <1>1, <2>1, <2>2, <2>3
<1>2. CASE InsertAssignment(a)
  BY <1>2, ZenonT(40) DEF InsertAssignment, AssignMoves
<1>3. CASE Commit(a)
  <2>1. tx[a].assignment = {AssignmentRow(a)}
    BY <1>3, ZenonT(40) DEF Commit, WriteSets
  <2>2. QED
    BY <1>3, <2>1, SMTT(20) DEF Commit, AssignMoves
<1>4. ASSUME NEW r \in Requests \ {a}, OthersStay(r) PROVE AssignMoves(a)
  BY <1>4 DEF OthersStay, AssignMoves
<1>5. CASE (\E r \in Requests : Fail(r)) \/ Crash \/ UNCHANGED vars
  BY <1>5, FailureSteps DEF AssignMoves
<1>6. QED
  BY <1>1, <1>2, <1>3, <1>4, <1>5, StepsOfOne DEF AssignStep

LEMMA ListSteps ==
  ASSUME TypeOK, WriteSets, [Next]_vars, NEW l \in Lists
  PROVE  ListMoves(l)
<1> USE RequestSets, Domains DEF Goto, Finish, Stays, Passes
<1>0. CASE ReceiveList(l) \/ ReadQuestions(l)
  BY <1>0 DEF ReceiveList, ReadQuestions, ListMoves, NoRows
<1>1. CASE LoadOptions(l)
  BY <1>1 DEF LoadOptions, ListMoves
<1>2. ASSUME NEW r \in Requests \ {l}, OthersStay(r) PROVE ListMoves(l)
  BY <1>2 DEF OthersStay, ListMoves
<1>3. CASE (\E r \in Requests : Fail(r)) \/ Crash \/ UNCHANGED vars
  BY <1>3, FailureSteps DEF ListMoves
<1>4. QED
  BY <1>0, <1>1, <1>2, <1>3, StepsOfOne DEF ListStep

LEMMA LookSteps ==
  ASSUME TypeOK, WriteSets, [Next]_vars, NEW k \in Looks
  PROVE  LookMoves(k)
<1> USE RequestSets, Domains DEF Goto, Finish, Stays, Passes
<1>1. CASE ReceiveLook(k) \/ LoadExamQuestions(k)
  BY <1>1 DEF ReceiveLook, LoadExamQuestions, LookMoves, NoRows
<1>2. CASE ReadExamRow(k)
  <2>1. \A row \in exam : row = [id |-> row.id]
    BY DEF TypeOK, Exam
  <2>2. { row \in exam : row.id = req[k].exam } \in {{}, {[id |-> req[k].exam]}}
    BY <2>1
  <2>3. QED
    BY <1>2, <2>2 DEF ReadExamRow, LookMoves, NoRows
<1>3. ASSUME NEW r \in Requests \ {k}, OthersStay(r) PROVE LookMoves(k)
  BY <1>3 DEF OthersStay, LookMoves
<1>4. CASE (\E r \in Requests : Fail(r)) \/ Crash \/ UNCHANGED vars
  BY <1>4, FailureSteps DEF LookMoves
<1>5. QED
  BY <1>1, <1>2, <1>3, <1>4, StepsOfOne DEF LookStep

-----------------------------------------------------------------------------
(* What a step may do to the tables.                                        *)

CommitsQuestion(c) ==
  /\ c \in Creates /\ pc[c] = "commit" /\ resp'[c] \in {201, 500}
  /\ question' = question \union {QuestionRow(c)} /\ option' = option \union OptionRows(c)
  /\ exam' = exam /\ examQuestion' = examQuestion /\ assignment' = assignment
CommitsExam(x) ==
  /\ x \in Assembles /\ pc[x] = "commit" /\ resp'[x] \in {201, 500}
  /\ exam' = exam \union {[id |-> x]} /\ examQuestion' = examQuestion \union ExamQuestionRows(x)
  /\ question' = question /\ option' = option /\ assignment' = assignment
CommitsAssignment(a) ==
  /\ a \in Assigns /\ pc[a] = "commit" /\ resp'[a] \in {201, 500}
  /\ assignment' = assignment \union {AssignmentRow(a)}
  /\ question' = question /\ option' = option /\ exam' = exam /\ examQuestion' = examQuestion

LEMMA TableSteps ==
  ASSUME TypeOK, WriteSets, [Next]_vars
  PROVE  \/ tables' = tables
         \/ \E w \in Writers : /\ OthersStay(w) /\ req' = req /\ upload' = upload
                               /\ CommitsQuestion(w) \/ CommitsExam(w) \/ CommitsAssignment(w)
<1> USE RequestSets, Domains DEF tables
<1>1. ASSUME NEW w \in Writers, Commit(w)
      PROVE  /\ req' = req /\ upload' = upload
             /\ CommitsQuestion(w) \/ CommitsExam(w) \/ CommitsAssignment(w)
  <2>1. /\ w \in Creates \/ w \in Assembles \/ w \in Assigns
        /\ resp'[w] \in {201, 500}
    BY <1>1 DEF Writers, Commit, Finish
  <2>2. /\ tx[w].question = IF w \in Creates THEN {QuestionRow(w)} ELSE {}
        /\ tx[w].option = IF w \in Creates THEN OptionRows(w) ELSE {}
        /\ tx[w].exam = IF w \in Assembles THEN {[id |-> w]} ELSE {}
        /\ tx[w].examQuestion = IF w \in Assembles THEN ExamQuestionRows(w) ELSE {}
        /\ tx[w].assignment = IF w \in Assigns THEN {AssignmentRow(w)} ELSE {}
    <3>1. pc[w] = "commit"
      BY <1>1 DEF Commit
    <3>2. QED
      BY <3>1 DEF WriteSets
  <2>3. QED
    BY <1>1, <2>1, <2>2 DEF Commit, CommitsQuestion, CommitsExam, CommitsAssignment
<1>2. CASE (\E r \in Requests : Fail(r)) \/ Crash \/ UNCHANGED vars
  BY <1>2 DEF Fail, Crash, vars
<1>3. QED
  BY <1>1, <1>2, StepsOfOne
     DEF ReceiveQuestion, CreateStep, UploadImage, InsertQuestion, InsertOptions,
         ReceiveExam, AssembleStep, ReadExisting, InsertExam, InsertExamQuestions,
         ReceiveAssign, AssignStep, ReadExam, ReadUser, InsertAssignment,
         ReceiveList, ListStep, ReadQuestions, LoadOptions,
         ReceiveLook, LookStep, ReadExamRow, LoadExamQuestions

\* Rows are only added.
LEMMA TablesGrow ==
  ASSUME TypeOK, WriteSets, [Next]_vars
  PROVE  /\ question \subseteq question' /\ option \subseteq option' /\ exam \subseteq exam'
         /\ examQuestion \subseteq examQuestion' /\ assignment \subseteq assignment'
         /\ QuestionIds \subseteq QuestionIds'
BY TableSteps DEF tables, CommitsQuestion, CommitsExam, CommitsAssignment, QuestionIds

-----------------------------------------------------------------------------
(* The invariant, part by part.                                             *)

\* A request that has been answered stays as it is.
LEMMA AnsweredStay ==
  ASSUME TypeOK, WriteSets, StatusIsFinal, [Next]_vars, NEW r \in Requests,
         pc[r] = "done" \/ resp[r] # None
  PROVE  /\ Stays(r) /\ (r \in Creates => upload'[r] = upload[r])
         /\ r \in Readers => seen'[r] = seen[r]
<1>1. pc[r] = "done"
  BY DEF StatusIsFinal
<1>2. \/ r \in Creates \/ r \in Assembles \/ r \in Assigns \/ r \in Lists \/ r \in Looks
  BY DEF Requests, Writers, Readers
<1>3. CASE r \in Creates
  <2>1. CreateMoves(r)
    BY <1>3, CreateSteps
  <2>2. Stays(r) /\ upload'[r] = upload[r]
    BY <1>1, <2>1 DEF CreateMoves, Passes, Fails, Open
  <2>3. QED
    BY <1>3, <2>2, RequestSets
<1>4. CASE r \in Assembles
  <2>1. AssembleMoves(r)
    BY <1>4, AssembleSteps
  <2>2. Stays(r)
    BY <1>1, <2>1 DEF AssembleMoves, Passes, Fails, Open
  <2>3. QED
    BY <1>4, <2>2, RequestSets
<1>5. CASE r \in Assigns
  <2>1. AssignMoves(r)
    BY <1>5, AssignSteps
  <2>2. Stays(r)
    BY <1>1, <2>1 DEF AssignMoves, Passes, Fails, Open
  <2>3. QED
    BY <1>5, <2>2, RequestSets
<1>6. CASE r \in Lists
  <2>1. ListMoves(r)
    BY <1>6, ListSteps
  <2>2. Stays(r) /\ seen'[r] = seen[r]
    BY <1>1, <2>1 DEF ListMoves, Passes, Fails, Open
  <2>3. QED
    BY <1>6, <2>2, RequestSets
<1>7. CASE r \in Looks
  <2>1. LookMoves(r)
    BY <1>7, LookSteps
  <2>2. Stays(r) /\ seen'[r] = seen[r]
    BY <1>1, <2>1 DEF LookMoves, Passes, Fails, Open
  <2>3. QED
    BY <1>7, <2>2, RequestSets
<1>8. QED
  BY <1>2, <1>3, <1>4, <1>5, <1>6, <1>7

LEMMA StatusIsFinalKept ==
  ASSUME TypeOK, WriteSets, StatusIsFinal, [Next]_vars
  PROVE  StatusIsFinal'
<1> SUFFICES ASSUME NEW r \in Requests, resp'[r] # None PROVE pc'[r] = "done"
  BY DEF StatusIsFinal
<1>1. \/ r \in Creates \/ r \in Assembles \/ r \in Assigns \/ r \in Lists \/ r \in Looks
  BY DEF Requests, Writers, Readers
<1>2. CASE resp[r] # None
  BY <1>2, AnsweredStay DEF StatusIsFinal, Stays
<1>3. CASE resp[r] = None /\ r \in Creates
  <2>1. CreateMoves(r)
    BY <1>3, CreateSteps
  <2>2. QED
    BY <1>3, <2>1 DEF CreateMoves, Stays, Passes, Fails
<1>4. CASE resp[r] = None /\ r \in Assembles
  <2>1. AssembleMoves(r)
    BY <1>4, AssembleSteps
  <2>2. QED
    BY <1>4, <2>1 DEF AssembleMoves, Stays, Passes, Fails
<1>5. CASE resp[r] = None /\ r \in Assigns
  <2>1. AssignMoves(r)
    BY <1>5, AssignSteps
  <2>2. QED
    BY <1>5, <2>1 DEF AssignMoves, Stays, Passes, Fails
<1>6. CASE resp[r] = None /\ r \in Lists
  <2>1. ListMoves(r)
    BY <1>6, ListSteps
  <2>2. QED
    BY <1>6, <2>1 DEF ListMoves, Stays, Passes, Fails
<1>7. CASE resp[r] = None /\ r \in Looks
  <2>1. LookMoves(r)
    BY <1>7, LookSteps
  <2>2. QED
    BY <1>7, <2>1 DEF LookMoves, Stays, Passes, Fails
<1>8. QED
  BY <1>1, <1>2, <1>3, <1>4, <1>5, <1>6, <1>7

LEMMA InMemoryKept ==
  ASSUME TypeOK, WriteSets, InMemory, TypeOK', [Next]_vars
  PROVE  InMemory'
<1>1. ASSUME NEW c \in Creates
      PROVE  /\ pc'[c] \in {"upload", "insert", "children", "commit"} =>
                  HasSingleCorrectOption(req'[c].options)
             /\ pc'[c] = "upload" => req'[c].image = "valid"
             /\ pc'[c] \in {"idle", "upload"} => upload'[c] = None
             /\ pc'[c] \in {"insert", "children", "commit"} =>
                  (upload'[c] = None <=> req'[c].image # "valid")
             /\ upload'[c] = "stored" => c \in images'
  <2>1. images \subseteq images'
    BY DEF Next, ReceiveQuestion, CreateStep, UploadImage, InsertQuestion, InsertOptions,
         ReceiveExam, AssembleStep, ReadExisting, InsertExam, InsertExamQuestions,
         ReceiveAssign, AssignStep, ReadExam, ReadUser, InsertAssignment, Commit,
         ReceiveList, ListStep, ReadQuestions, LoadOptions,
         ReceiveLook, LookStep, ReadExamRow, LoadExamQuestions, Fail, Crash, vars
  <2>2. CreateMoves(c)
    BY CreateSteps
  <2>3. QED
    BY <2>1, <2>2, CatalogAssumption DEF CreateMoves, InMemory, Stays, Passes, Fails, Open
<1>2. ASSUME NEW x \in Assembles, pc'[x] = "commit"
      PROVE  IsInjective(req'[x].questions) /\ ToSet(req'[x].questions) \subseteq QuestionIds'
  <2>1. AssembleMoves(x)
    BY AssembleSteps
  <2>2. /\ IsInjective(req[x].questions) /\ ToSet(req[x].questions) \subseteq QuestionIds
        /\ req'[x] = req[x]
    BY <1>2, <2>1 DEF AssembleMoves, InMemory, Stays, Passes, Fails
  <2>3. QED
    BY <2>2, TablesGrow
<1>3. ASSUME NEW a \in Assigns
      PROVE  /\ pc'[a] \in {"user", "insert", "commit"} => [id |-> req'[a].exam] \in exam'
             /\ pc'[a] \in {"insert", "commit"} => req'[a].user \in Students
  <2>1. AssignMoves(a) /\ exam \subseteq exam'
    BY AssignSteps, TablesGrow
  <2>2. QED
    BY <2>1 DEF AssignMoves, InMemory, Stays, Passes, Fails
<1>4. QED
  BY <1>1, <1>2, <1>3 DEF InMemory

LEMMA WriteSetsKept ==
  ASSUME TypeOK, WriteSets, StatusIsFinal, [Next]_vars
  PROVE  WriteSets'
<1> SUFFICES ASSUME NEW w \in Writers
             PROVE  /\ tx'[w].question = IF w \in Creates /\ pc'[w] \in {"children", "commit"}
                                         THEN {QuestionRow(w)'} ELSE {}
                    /\ tx'[w].option = IF w \in Creates /\ pc'[w] = "commit"
                                       THEN OptionRows(w)' ELSE {}
                    /\ tx'[w].exam = IF w \in Assembles /\ pc'[w] \in {"children", "commit"}
                                     THEN {[id |-> w]} ELSE {}
                    /\ tx'[w].examQuestion = IF w \in Assembles /\ pc'[w] = "commit"
                                             THEN ExamQuestionRows(w)' ELSE {}
                    /\ tx'[w].assignment = IF w \in Assigns /\ pc'[w] = "commit"
                                           THEN {AssignmentRow(w)'} ELSE {}
  BY DEF WriteSets
<1>1. w \in Creates \/ w \in Assembles \/ w \in Assigns
  BY DEF Writers
<1>2. /\ DOMAIN tx[w] = {"question", "option", "exam", "examQuestion", "assignment"}
      /\ NoRows.question = {} /\ NoRows.option = {} /\ NoRows.exam = {}
      /\ NoRows.examQuestion = {} /\ NoRows.assignment = {}
  BY DEF TypeOK, Rows, NoRows
<1>3. CASE w \in Creates
  <2>1. /\ req'[w] = req[w] => OptionRows(w)' = OptionRows(w)
        /\ upload'[w] = upload[w] => QuestionRow(w)' = QuestionRow(w)
    BY DEF OptionRows, OptionRowsOf, QuestionRow
  <2>2. CreateMoves(w) /\ w \notin Assembles /\ w \notin Assigns
    BY <1>3, CreateSteps, RequestSets
  <2>3. /\ tx[w].question = IF pc[w] \in {"children", "commit"} THEN {QuestionRow(w)} ELSE {}
        /\ tx[w].option = IF pc[w] = "commit" THEN OptionRows(w) ELSE {}
        /\ tx[w].exam = {} /\ tx[w].examQuestion = {} /\ tx[w].assignment = {}
    BY <1>3, <2>2 DEF WriteSets
  <2>4. QED
    BY <1>2, <1>3, <2>1, <2>2, <2>3, ZenonT(60) DEF CreateMoves, Stays, Passes, Fails
<1>4. CASE w \in Assembles
  <2>1. req'[w] = req[w] => ExamQuestionRows(w)' = ExamQuestionRows(w)
    BY DEF ExamQuestionRows
  <2>2. AssembleMoves(w) /\ w \notin Creates /\ w \notin Assigns
    BY <1>4, AssembleSteps, RequestSets
  <2>3. /\ tx[w].exam = IF pc[w] \in {"children", "commit"} THEN {[id |-> w]} ELSE {}
        /\ tx[w].examQuestion = IF pc[w] = "commit" THEN ExamQuestionRows(w) ELSE {}
        /\ tx[w].question = {} /\ tx[w].option = {} /\ tx[w].assignment = {}
    BY <1>4, <2>2 DEF WriteSets
  <2>4. QED
    BY <1>2, <1>4, <2>1, <2>2, <2>3, ZenonT(60) DEF AssembleMoves, Stays, Passes, Fails
<1>5. CASE w \in Assigns
  <2>1. req'[w] = req[w] => AssignmentRow(w)' = AssignmentRow(w)
    BY DEF AssignmentRow
  <2>2. AssignMoves(w) /\ w \notin Creates /\ w \notin Assembles
    BY <1>5, AssignSteps, RequestSets
  <2>3. /\ tx[w].assignment = IF pc[w] = "commit" THEN {AssignmentRow(w)} ELSE {}
        /\ tx[w].question = {} /\ tx[w].option = {} /\ tx[w].exam = {}
        /\ tx[w].examQuestion = {}
    BY <1>5, <2>2 DEF WriteSets
  <2>4. QED
    BY <1>2, <1>5, <2>1, <2>2, <2>3, ZenonT(60) DEF AssignMoves, Stays, Passes, Fails
<1>6. QED
  BY <1>1, <1>3, <1>4, <1>5

\* Whose rows the tables hold.
LEMMA RowIds ==
  ASSUME TypeOK, CommittedRows, StatusIsFinal
  PROVE  /\ \A q \in question : q.id \in Creates /\ pc[q.id] = "done"
         /\ \A c \in QuestionIds : c \in Creates /\ pc[c] = "done"
         /\ \A e \in exam : e.id \in Assembles /\ pc[e.id] = "done" /\ e = [id |-> e.id]
         /\ \A x : [id |-> x] \in exam => x \in Assembles /\ pc[x] = "done"
         /\ \A row \in examQuestion : row.exam \in Assembles
         /\ \A row \in assignment : row.id \in Assigns /\ pc[row.id] = "done"
<1>1. \A q \in question : q.id \in Creates /\ pc[q.id] = "done"
  BY CatalogAssumption, RequestSets DEF TypeOK, Question, CommittedRows, StatusIsFinal
<1>2. \A e \in exam : e.id \in Assembles /\ pc[e.id] = "done" /\ e = [id |-> e.id]
  BY CatalogAssumption, RequestSets DEF TypeOK, Exam, CommittedRows, StatusIsFinal
<1>3. \A row \in assignment : row.id \in Assigns /\ pc[row.id] = "done"
  <2>1. \A row \in assignment : row.id \in Assigns
    <3>1. assignment \subseteq Assignment
      BY DEF TypeOK
    <3>2. QED
      BY <3>1 DEF Assignment
  <2>2. \A row \in assignment : resp[row.id] # None
    <3>1. \A row \in assignment : resp[row.id] \in {201, 500}
      BY ZenonT(40) DEF CommittedRows
    <3>2. QED
      BY <3>1, CatalogAssumption
  <2>3. QED
    BY <2>1, <2>2, RequestSets DEF StatusIsFinal
<1>4. \A row \in examQuestion : row.exam \in Assembles
  BY DEF TypeOK, ExamQuestion
<1>5. QED
  BY <1>1, <1>2, <1>3, <1>4 DEF QuestionIds

\* The rows of an answered request are fixed.
LEMMA RowsFixed ==
  ASSUME TypeOK, WriteSets, StatusIsFinal, [Next]_vars
  PROVE  /\ \A c \in Creates : pc[c] = "done" =>
              /\ QuestionRow(c)' = QuestionRow(c) /\ OptionRows(c)' = OptionRows(c)
              /\ req'[c] = req[c] /\ upload'[c] = upload[c] /\ resp'[c] = resp[c]
         /\ \A x \in Assembles : pc[x] = "done" =>
              ExamQuestionRows(x)' = ExamQuestionRows(x) /\ req'[x] = req[x] /\ resp'[x] = resp[x]
         /\ \A a \in Assigns : pc[a] = "done" =>
              AssignmentRow(a)' = AssignmentRow(a) /\ req'[a] = req[a] /\ resp'[a] = resp[a]
BY AnsweredStay, RequestSets
   DEF Stays, QuestionRow, OptionRows, OptionRowsOf, ExamQuestionRows, AssignmentRow

LEMMA OptionRowsOwned ==
  ASSUME NEW c, NEW o \in OptionRows(c)
  PROVE  o.question = c
BY DEF OptionRows, OptionRowsOf

LEMMA CommittedRowsKept ==
  ASSUME TypeOK, WriteSets, StatusIsFinal, InMemory, CommittedRows, [Next]_vars
  PROVE  CommittedRows'
<1>0. /\ QuestionIds \subseteq QuestionIds' /\ option \subseteq option' /\ exam \subseteq exam'
      /\ examQuestion \subseteq examQuestion'
  BY TablesGrow
<1>1. ASSUME NEW q \in question'
      PROVE  /\ q = QuestionRow(q.id)' /\ resp'[q.id] \in {201, 500}
             /\ OptionRows(q.id)' \subseteq option'
             /\ HasSingleCorrectOption(req'[q.id].options)
             /\ upload'[q.id] = None <=> req'[q.id].image # "valid"
  <2>1. CASE q \in question
    <3>1. q.id \in Creates /\ pc[q.id] = "done"
      BY <2>1, RowIds
    <3>2. QED
      BY <1>0, <2>1, <3>1, RowsFixed DEF CommittedRows
  <2>2. CASE q \notin question
    <3>1. PICK w \in Writers : CommitsQuestion(w) /\ req' = req /\ upload' = upload
      BY <1>1, <2>2, TableSteps DEF tables, CommitsExam, CommitsAssignment
    <3>2. /\ q = QuestionRow(w) /\ OptionRows(w) \subseteq option' /\ resp'[w] \in {201, 500}
          /\ HasSingleCorrectOption(req[w].options) /\ w \in Creates
          /\ upload[w] = None <=> req[w].image # "valid"
      BY <1>1, <2>2, <3>1 DEF CommitsQuestion, InMemory
    <3>3. QuestionRow(w)' = QuestionRow(w) /\ OptionRows(w)' = OptionRows(w) /\ q.id = w
      BY <3>1, <3>2 DEF QuestionRow, OptionRows, OptionRowsOf
    <3>4. QED
      BY <3>1, <3>2, <3>3
  <2>3. QED
    BY <2>1, <2>2
<1>2. ASSUME NEW o \in option'
      PROVE  o.question \in QuestionIds' /\ o \in OptionRows(o.question)'
  <2>1. CASE o \in option
    <3>1. o.question \in QuestionIds /\ o \in OptionRows(o.question)
      BY <2>1 DEF CommittedRows
    <3>2. o.question \in Creates /\ pc[o.question] = "done"
      BY <3>1, RowIds
    <3>3. QED
      BY <1>0, <3>1, <3>2, RowsFixed
  <2>2. CASE o \notin option
    <3>1. PICK w \in Writers : CommitsQuestion(w) /\ req' = req /\ upload' = upload
      BY <1>2, <2>2, TableSteps DEF tables, CommitsExam, CommitsAssignment
    <3>2. o \in OptionRows(w) /\ QuestionRow(w) \in question' /\ QuestionRow(w).id = w
      BY <1>2, <2>2, <3>1 DEF CommitsQuestion, QuestionRow
    <3>3. OptionRows(w)' = OptionRows(w) /\ o.question = w
      BY <3>1, <3>2, OptionRowsOwned DEF OptionRows, OptionRowsOf
    <3>4. QED
      BY <3>2, <3>3 DEF QuestionIds
  <2>3. QED
    BY <2>1, <2>2
<1>3. ASSUME NEW e \in exam'
      PROVE  /\ resp'[e.id] \in {201, 500} /\ ExamQuestionRows(e.id)' \subseteq examQuestion'
             /\ IsInjective(req'[e.id].questions)
             /\ ToSet(req'[e.id].questions) \subseteq QuestionIds'
  <2>1. CASE e \in exam
    <3>1. e.id \in Assembles /\ pc[e.id] = "done"
      BY <2>1, RowIds
    <3>2. QED
      BY <1>0, <2>1, <3>1, RowsFixed DEF CommittedRows
  <2>2. CASE e \notin exam
    <3>1. PICK w \in Writers : CommitsExam(w) /\ req' = req
      BY <1>3, <2>2, TableSteps DEF tables, CommitsQuestion, CommitsAssignment
    <3>2. /\ e = [id |-> w] /\ ExamQuestionRows(w) \subseteq examQuestion'
          /\ resp'[w] \in {201, 500} /\ ToSet(req[w].questions) \subseteq QuestionIds
          /\ IsInjective(req[w].questions)
      BY <1>3, <2>2, <3>1 DEF CommitsExam, InMemory
    <3>3. ExamQuestionRows(w)' = ExamQuestionRows(w) /\ e.id = w
      BY <3>1, <3>2 DEF ExamQuestionRows
    <3>4. QED
      BY <1>0, <3>1, <3>2, <3>3
  <2>3. QED
    BY <2>1, <2>2
<1>4. ASSUME NEW row \in examQuestion'
      PROVE  [id |-> row.exam] \in exam' /\ row \in ExamQuestionRows(row.exam)'
  <2>1. CASE row \in examQuestion
    <3>1. [id |-> row.exam] \in exam /\ row \in ExamQuestionRows(row.exam)
      BY <2>1 DEF CommittedRows
    <3>2. row.exam \in Assembles /\ pc[row.exam] = "done"
      BY <3>1, RowIds
    <3>3. QED
      BY <1>0, <3>1, <3>2, RowsFixed
  <2>2. CASE row \notin examQuestion
    <3>1. PICK w \in Writers : CommitsExam(w) /\ req' = req
      BY <1>4, <2>2, TableSteps DEF tables, CommitsQuestion, CommitsAssignment
    <3>2. row \in ExamQuestionRows(w) /\ [id |-> w] \in exam'
      BY <1>4, <2>2, <3>1 DEF CommitsExam
    <3>3. ExamQuestionRows(w)' = ExamQuestionRows(w) /\ row.exam = w
      BY <3>1, <3>2 DEF ExamQuestionRows
    <3>4. QED
      BY <3>2, <3>3
  <2>3. QED
    BY <2>1, <2>2
<1>5. ASSUME NEW row \in assignment'
      PROVE  /\ row = AssignmentRow(row.id)' /\ resp'[row.id] \in {201, 500}
             /\ [id |-> row.exam] \in exam' /\ row.user \in Students
  <2>1. CASE row \in assignment
    <3>1. row.id \in Assigns /\ pc[row.id] = "done"
      BY <2>1, RowIds
    <3>2. QED
      BY <1>0, <2>1, <3>1, RowsFixed DEF CommittedRows
  <2>2. CASE row \notin assignment
    <3>1. PICK w \in Writers : CommitsAssignment(w) /\ req' = req
      BY <1>5, <2>2, TableSteps DEF tables, CommitsQuestion, CommitsExam
    <3>2. /\ row = AssignmentRow(w) /\ resp'[w] \in {201, 500}
          /\ [id |-> req[w].exam] \in exam /\ req[w].user \in Students
      BY <1>5, <2>2, <3>1 DEF CommitsAssignment, InMemory
    <3>3. AssignmentRow(w)' = AssignmentRow(w) /\ row.id = w
          /\ row.exam = req[w].exam /\ row.user = req[w].user
      BY <3>1, <3>2 DEF AssignmentRow
    <3>4. QED
      BY <1>0, <3>2, <3>3
  <2>3. QED
    BY <2>1, <2>2
<1>6. QED
  BY <1>1, <1>2, <1>3, <1>4, <1>5 DEF CommittedRows

LEMMA InsertionSteps ==
  ASSUME NEW a, AssignMoves(a)
  PROVE  /\ pc'[a] = "commit" => pc[a] = "commit" \/ Passes(a, "insert", "commit")
         /\ Passes(a, "insert", "commit") =>
              /\ ~Assigned(a) /\ ~HeldByOther(a) /\ tables' = tables
              /\ \A b \in Assigns \ {a} : Stays(b)
         /\ pc[a] \in {"commit", "done"} => req'[a] = req[a]
<1> USE DEF Passes, Fails
<1>1. pc'[a] = "commit" => pc[a] = "commit" \/ Passes(a, "insert", "commit")
  BY DEF AssignMoves, Stays
<1>2. ASSUME Passes(a, "insert", "commit")
      PROVE  /\ ~Assigned(a) /\ ~HeldByOther(a) /\ tables' = tables
             /\ \A b \in Assigns \ {a} : Stays(b)
  <2>1. pc'[a] # pc[a] /\ pc[a] = "insert" /\ pc'[a] = "commit"
    BY <1>2
  <2>2. ~Stays(a)
    BY <2>1 DEF Stays
  <2>3. QED
    BY <2>1, <2>2 DEF AssignMoves
<1>3. pc[a] \in {"commit", "done"} => req'[a] = req[a]
  BY DEF AssignMoves, Stays
<1>4. QED
  BY <1>1, <1>2, <1>3

LEMMA PairIsExclusiveKept ==
  ASSUME TypeOK, WriteSets, StatusIsFinal, CommittedRows, PairIsExclusive, [Next]_vars
  PROVE  PairIsExclusive'
<1> USE RequestSets
<1>0. \A a \in Assigns : AssignMoves(a)
  BY AssignSteps
<1>1. ASSUME NEW a \in Assigns, Passes(a, "insert", "commit")
      PROVE  /\ ~Assigned(a) /\ tables' = tables
             /\ \A b \in Assigns \ {a} : /\ Stays(b)
                                         /\ pc[b] = "commit" => ~SamePair(req[a], req[b])
                                                                /\ ~SamePair(req[b], req[a])
  <2>1. /\ ~Assigned(a) /\ ~HeldByOther(a) /\ tables' = tables
        /\ \A b \in Assigns \ {a} : Stays(b)
    BY <1>0, <1>1, InsertionSteps
  <2>2. ASSUME NEW b \in Assigns \ {a}, pc[b] = "commit"
        PROVE  ~SamePair(req[a], req[b]) /\ ~SamePair(req[b], req[a])
    <3>1. AssignmentRow(b) \in tx[b].assignment
      BY <2>2 DEF WriteSets
    <3>2. ~SamePair(AssignmentRow(b), req[a])
      BY <2>1, <3>1 DEF HeldByOther
    <3>3. QED
      BY <3>2 DEF SamePair, AssignmentRow
  <2>3. QED
    BY <2>1, <2>2
<1>2. ASSUME NEW a \in Assigns, pc'[a] = "commit" PROVE pc[a] = "commit" \/ Passes(a, "insert", "commit")
  BY <1>0, <1>2, InsertionSteps
<1>3. ASSUME NEW a \in Assigns, \E row \in assignment' : row.id = a
      PROVE  pc[a] = "commit" \/ \E row \in assignment : row.id = a
  BY <1>3, TableSteps
     DEF tables, CommitsQuestion, CommitsExam, CommitsAssignment, AssignmentRow
<1>4. ASSUME NEW a \in Assigns, Passes(a, "insert", "commit")
      PROVE  /\ \A row \in assignment' : SamePair(row, req'[a]) => row.id = a
             /\ \A b \in Assigns : pc'[b] = "commit" /\ SamePair(req'[a], req'[b]) => b = a
  BY <1>1, <1>4 DEF Passes, Stays, Assigned, tables
<1>5. ASSUME NEW a \in Assigns, pc[a] = "commit" \/ \E row \in assignment : row.id = a
      PROVE  /\ \A row \in assignment' : SamePair(row, req'[a]) => row.id = a
             /\ \A b \in Assigns : pc'[b] = "commit" /\ SamePair(req'[a], req'[b]) => b = a
  <2>1. /\ \A row \in assignment : SamePair(row, req[a]) => row.id = a
        /\ \A b \in Assigns : pc[b] = "commit" /\ SamePair(req[a], req[b]) => b = a
    BY <1>5 DEF PairIsExclusive
  <2>2. req'[a] = req[a]
    BY <1>0, <1>5, RowIds, InsertionSteps
  <2>3. ASSUME NEW row \in assignment', SamePair(row, req'[a]) PROVE row.id = a
    <3>1. CASE row \in assignment
      BY <2>1, <2>2, <2>3, <3>1
    <3>2. CASE row \notin assignment
      <4>1. PICK w \in Assigns : row = AssignmentRow(w) /\ pc[w] = "commit"
        BY <2>3, <3>2, TableSteps DEF tables, CommitsQuestion, CommitsExam, CommitsAssignment
      <4>2. SamePair(req[a], req[w]) /\ row.id = w
        BY <2>2, <2>3, <4>1 DEF SamePair, AssignmentRow
      <4>3. QED
        BY <2>1, <4>1, <4>2
    <3>3. QED
      BY <3>1, <3>2
  <2>4. ASSUME NEW b \in Assigns, pc'[b] = "commit", SamePair(req'[a], req'[b]) PROVE b = a
    <3>1. CASE pc[b] = "commit"
      <4>1. req'[b] = req[b]
        BY <1>0, <3>1, InsertionSteps
      <4>2. QED
        BY <2>1, <2>2, <2>4, <3>1, <4>1
    <3>2. CASE Passes(b, "insert", "commit") /\ b # a
      <4>1. pc[a] # "commit" /\ ~Assigned(b)
        BY <1>1, <2>2, <2>4, <3>2 DEF Passes
      <4>2. PICK row \in assignment : row.id = a
        BY <1>5, <4>1
      <4>3. row = AssignmentRow(a) /\ req'[b] = req[b]
        <5>1. \A r \in assignment : r = AssignmentRow(r.id)
          BY ZenonT(40) DEF CommittedRows
        <5>2. QED
          BY <3>2, <4>2, <5>1 DEF Passes
      <4>4. SamePair(row, req[b])
        BY <2>2, <2>4, <4>3 DEF SamePair, AssignmentRow
      <4>5. QED
        BY <4>1, <4>2, <4>4 DEF Assigned
    <3>3. QED
      BY <1>2, <2>4, <3>1, <3>2
  <2>5. QED
    BY <2>3, <2>4
<1>6. QED
  BY <1>2, <1>3, <1>4, <1>5 DEF PairIsExclusive

LEMMA PartialReadsKept ==
  ASSUME TypeOK, WriteSets, StatusIsFinal, PartialReads, [Next]_vars
  PROVE  PartialReads'
<1>0. QuestionIds \subseteq QuestionIds' /\ exam \subseteq exam'
      /\ \A q \in question : q.id \in QuestionIds
  BY TablesGrow DEF QuestionIds
<1>1. ASSUME NEW l \in Lists, pc'[l] = "options" \/ resp'[l] = 200, NEW q \in seen'[l].question
      PROVE  q.id \in QuestionIds'
  <2>1. CASE pc[l] = "options" \/ resp[l] = 200
    <3>1. DOMAIN seen[l] = {"question", "option", "exam", "examQuestion", "assignment"}
      BY RequestSets DEF TypeOK, Rows
    <3>2. ListMoves(l) /\ (resp[l] = 200 => seen'[l] = seen[l])
      BY ListSteps, AnsweredStay, RequestSets, CatalogAssumption
    <3>3. q \in seen[l].question
      BY <1>1, <2>1, <3>1, <3>2 DEF ListMoves, Stays, Passes, Fails
    <3>4. QED
      BY <1>0, <2>1, <3>3 DEF PartialReads
  <2>2. CASE pc[l] # "options" /\ resp[l] # 200
    <3>1. ListMoves(l)
      BY ListSteps
    <3>2. seen'[l].question = question
      BY <1>1, <2>2, <3>1 DEF ListMoves, Stays, Passes, Fails
    <3>3. QED
      BY <1>0, <1>1, <3>2
  <2>3. QED
    BY <2>1, <2>2
<1>2. ASSUME NEW k \in Looks
      PROVE  /\ pc'[k] = "load" => seen'[k].exam = {[id |-> req'[k].exam]}
             /\ pc'[k] = "load" \/ resp'[k] = 200 => [id |-> req'[k].exam] \in exam'
  <2>1. LookMoves(k) /\ (resp[k] = 200 => Stays(k))
    BY LookSteps, AnsweredStay, RequestSets, CatalogAssumption
  <2>2. QED
    BY <1>0, <2>1 DEF LookMoves, Stays, Passes, Fails, PartialReads
<1>3. QED
  BY <1>1, <1>2 DEF PartialReads

LEMMA ReadsAreWholeKept ==
  ASSUME TypeOK, WriteSets, StatusIsFinal, CommittedRows, PartialReads, ReadsAreWhole,
         [Next]_vars
  PROVE  ReadsAreWhole'
<1>1. ASSUME NEW l \in Lists, resp'[l] = 200, NEW q \in seen'[l].question
      PROVE  OptionsIn(seen'[l].option, q.id) = OptionRows(q.id)'
  <2>1. CASE resp[l] = 200
    <3>1. seen'[l] = seen[l]
      BY <2>1, AnsweredStay, RequestSets, CatalogAssumption
    <3>2. q.id \in QuestionIds /\ OptionsIn(seen[l].option, q.id) = OptionRows(q.id)
      BY <1>1, <2>1, <3>1 DEF PartialReads, ReadsAreWhole
    <3>3. QED
      BY <3>1, <3>2, RowIds, RowsFixed
  <2>2. CASE resp[l] # 200
    <3>1. DOMAIN seen[l] = {"question", "option", "exam", "examQuestion", "assignment"}
      BY RequestSets DEF TypeOK, Rows
    <3>2. ListMoves(l)
      BY ListSteps
    <3>3. /\ pc[l] = "options"
          /\ seen'[l] = [seen[l] EXCEPT !.option =
                           { o \in option : \E r \in seen[l].question : o.question = r.id }]
      BY <1>1, <2>2, <3>2 DEF ListMoves, Stays, Passes, Fails
    <3>4. /\ q \in seen[l].question /\ q.id \in QuestionIds
          /\ seen'[l].option = { o \in option : \E r \in seen[l].question : o.question = r.id }
      BY <1>1, <3>1, <3>3 DEF PartialReads
    <3>5. OptionsIn(seen'[l].option, q.id) = OptionsIn(option, q.id)
      BY <3>4 DEF OptionsIn
    <3>6. OptionsIn(option, q.id) = OptionRows(q.id)
      BY <3>4, OptionRowsOwned DEF CommittedRows, OptionsIn, QuestionIds
    <3>7. QED
      BY <3>4, <3>5, <3>6, RowIds, RowsFixed
  <2>3. QED
    BY <2>1, <2>2
<1>2. ASSUME NEW k \in Looks, resp'[k] = 200
      PROVE  seen'[k].examQuestion = ExamQuestionRows(req[k].exam)'
  <2>1. CASE resp[k] = 200
    <3>1. seen'[k] = seen[k] /\ req'[k] = req[k]
      BY <2>1, AnsweredStay, RequestSets, CatalogAssumption DEF Stays
    <3>2. /\ [id |-> req[k].exam] \in exam
          /\ seen[k].examQuestion = ExamQuestionRows(req[k].exam)
      BY <2>1 DEF ReadsAreWhole, PartialReads
    <3>3. QED
      BY <3>1, <3>2, RowIds, RowsFixed
  <2>2. CASE resp[k] # 200
    <3>1. LookMoves(k)
      BY LookSteps
    <3>2. /\ pc[k] = "load" /\ req'[k] = req[k]
          /\ seen'[k].examQuestion = { row \in examQuestion : [id |-> row.exam] \in seen[k].exam }
      BY <1>2, <2>2, <3>1 DEF LookMoves, Stays, Passes, Fails
    <3>3. /\ seen[k].exam = {[id |-> req[k].exam]} /\ [id |-> req[k].exam] \in exam
      BY <3>2 DEF PartialReads
    <3>4. seen'[k].examQuestion = { row \in examQuestion : row.exam = req[k].exam }
      BY <3>2, <3>3
    <3>5. { row \in examQuestion : row.exam = req[k].exam } = ExamQuestionRows(req[k].exam)
      <4>1. \A row \in ExamQuestionRows(req[k].exam) : row.exam = req[k].exam
        BY DEF ExamQuestionRows
      <4>2. QED
        BY <3>3, <4>1 DEF CommittedRows
    <3>6. QED
      BY <3>2, <3>3, <3>4, <3>5, RowIds, RowsFixed
  <2>3. QED
    BY <2>1, <2>2
<1>3. QED
  BY <1>1, <1>2 DEF ReadsAreWhole

\* A stored row is one that a committing transaction wrote, so a request that
\* was refused has none, and the row says what became of the image.
LEMMA RepliesAreTrueKept ==
  ASSUME TypeOK, WriteSets, StatusIsFinal, RepliesAreTrue, TypeOK', CommittedRows', [Next]_vars
  PROVE  RepliesAreTrue'
<1> USE RequestSets
<1>0. /\ question \subseteq question' /\ option \subseteq option' /\ exam \subseteq exam'
      /\ examQuestion \subseteq examQuestion' /\ assignment \subseteq assignment'
  BY TablesGrow
<1>1. ASSUME NEW c \in Creates, resp'[c] = 201
      PROVE  /\ QuestionRow(c)' \in question' /\ OptionRows(c)' \subseteq option'
             /\ (upload'[c] = "failed") <=>
                  (req'[c].image = "valid" /\ [id |-> c, image |-> None] \in question')
  <2>1. QuestionRow(c)' \in question' /\ OptionRows(c)' \subseteq option'
    <3>1. CASE resp[c] = 201
      <4>1. QuestionRow(c) \in question /\ OptionRows(c) \subseteq option
        BY <3>1 DEF RepliesAreTrue
      <4>2. pc[c] = "done"
        BY <3>1, CatalogAssumption DEF StatusIsFinal
      <4>3. QED
        BY <1>0, <4>1, <4>2, RowsFixed
    <3>2. CASE resp[c] # 201
      <4>1. CreateMoves(c)
        BY CreateSteps
      <4>2. /\ req'[c] = req[c] /\ upload'[c] = upload[c]
            /\ QuestionRow(c) \in question' /\ OptionRows(c) \subseteq option'
        BY <1>1, <3>2, <4>1 DEF CreateMoves, Stays, Passes, Fails
      <4>3. QED
        BY <4>2 DEF QuestionRow, OptionRows, OptionRowsOf
    <3>3. QED
      BY <3>1, <3>2
  <2>2. upload'[c] = None <=> req'[c].image # "valid"
    BY <2>1 DEF CommittedRows, QuestionRow
  <2>3. [id |-> c, image |-> None] \in question' <=> upload'[c] # "stored"
    <3>1. QuestionRow(c)' = [id |-> c, image |-> IF upload'[c] = "stored" THEN c ELSE None]
      BY DEF QuestionRow
    <3>2. ASSUME [id |-> c, image |-> None] \in question' PROVE upload'[c] # "stored"
      <4>1. [id |-> c, image |-> None] = QuestionRow(c)'
        BY <3>2 DEF CommittedRows
      <4>2. [id |-> c, image |-> None].image = QuestionRow(c)'.image
        BY <4>1
      <4>3. QED
        BY <3>1, <4>2, CatalogAssumption
    <3>3. QED
      BY <2>1, <3>1, <3>2
  <2>4. upload'[c] \in {None, "stored", "failed"}
    BY DEF TypeOK
  <2>5. QED
    BY <2>1, <2>2, <2>3, <2>4, CatalogAssumption
<1>2. ASSUME NEW x \in Assembles, resp'[x] = 201
      PROVE  [id |-> x] \in exam' /\ ExamQuestionRows(x)' \subseteq examQuestion'
  <2>1. CASE resp[x] = 201
    <3>1. [id |-> x] \in exam /\ ExamQuestionRows(x) \subseteq examQuestion
      BY <2>1 DEF RepliesAreTrue
    <3>2. pc[x] = "done"
      BY <2>1, CatalogAssumption DEF StatusIsFinal
    <3>3. QED
      BY <1>0, <3>1, <3>2, RowsFixed
  <2>2. CASE resp[x] # 201
    <3>1. AssembleMoves(x)
      BY AssembleSteps
    <3>2. QED
      BY <1>2, <2>2, <3>1 DEF AssembleMoves, Stays, Passes, Fails, ExamQuestionRows
  <2>3. QED
    BY <2>1, <2>2
<1>3. ASSUME NEW a \in Assigns
      PROVE  /\ resp'[a] = 201 => AssignmentRow(a)' \in assignment'
             /\ resp'[a] = 409 => Assigned(a)'
  <2>1. CASE resp[a] \in {201, 409}
    <3>1. pc[a] = "done"
      BY <2>1, CatalogAssumption DEF StatusIsFinal
    <3>2. AssignmentRow(a)' = AssignmentRow(a) /\ req'[a] = req[a] /\ resp'[a] = resp[a]
      BY <3>1, RowsFixed
    <3>3. QED
      BY <1>0, <2>1, <3>2 DEF RepliesAreTrue, Assigned
  <2>2. CASE resp[a] \notin {201, 409}
    <3>1. AssignMoves(a)
      BY AssignSteps
    <3>2. /\ resp'[a] = 201 => req'[a] = req[a] /\ AssignmentRow(a) \in assignment'
          /\ resp'[a] = 409 => req'[a] = req[a] /\ Assigned(a)
      BY <2>2, <3>1 DEF AssignMoves, Stays, Passes, Fails
    <3>3. QED
      BY <1>0, <3>2 DEF AssignmentRow, Assigned
  <2>3. QED
    BY <2>1, <2>2
<1>4. ASSUME NEW w \in Writers, resp'[w] \in {400, 404, 409}
      PROVE  /\ w \notin QuestionIds' /\ [id |-> w] \notin exam'
             /\ \A row \in assignment' : row.id # w
  <2>1. \A q \in question' : resp'[q.id] \in {201, 500}
    BY ZenonT(40) DEF CommittedRows
  <2>2. \A e \in exam' : resp'[e.id] \in {201, 500}
    BY ZenonT(40) DEF CommittedRows
  <2>3. \A row \in assignment' : resp'[row.id] \in {201, 500}
    BY ZenonT(40) DEF CommittedRows
  <2>4. QED
    BY <1>4, <2>1, <2>2, <2>3 DEF QuestionIds
<1>5. QED
  BY <1>1, <1>2, <1>3, <1>4 DEF RepliesAreTrue

-----------------------------------------------------------------------------
LEMMA CatalogInit == Init => CatalogInvariant
<1> SUFFICES ASSUME Init PROVE CatalogInvariant
  OBVIOUS
<1> USE RequestSets DEF Init
<1>1. TypeOK
  BY DEF TypeOK, Rows, NoRows
<1>2. /\ \A r \in Requests : pc[r] = "idle" /\ resp[r] = None
      /\ \A c \in Creates : upload[c] = None
      /\ \A w \in Writers : tx[w] = NoRows
      /\ QuestionIds = {}
  BY DEF QuestionIds
<1>3. StatusIsFinal /\ InMemory /\ CommittedRows /\ PairIsExclusive /\ PartialReads
  BY <1>2, CatalogAssumption DEF StatusIsFinal, InMemory, CommittedRows, PairIsExclusive,
     PartialReads
<1>4. WriteSets
  BY <1>2 DEF WriteSets, NoRows
<1>5. RepliesAreTrue /\ ReadsAreWhole
  BY <1>2, CatalogAssumption DEF RepliesAreTrue, ReadsAreWhole
<1>6. QED
  BY <1>1, <1>3, <1>4, <1>5 DEF CatalogInvariant

\* What every handler knows, has written and has read fits together, for any
\* requests, whatever fails.
THEOREM CatalogInvariantHolds == Spec => []CatalogInvariant
<1>1. Init => CatalogInvariant
  BY CatalogInit
<1>2. CatalogInvariant /\ [Next]_vars => CatalogInvariant'
  BY TypesKept, StatusIsFinalKept, InMemoryKept, WriteSetsKept, CommittedRowsKept,
     PairIsExclusiveKept, PartialReadsKept, ReadsAreWholeKept, RepliesAreTrueKept
     DEF CatalogInvariant
<1>3. QED
  BY <1>1, <1>2, PTL DEF Spec

\* Every variable stays in its domain.
THEOREM CatalogTypes == Spec => []TypeOK
<1>1. CatalogInvariant => TypeOK
  BY DEF CatalogInvariant
<1>2. QED
  BY <1>1, CatalogInvariantHolds, PTL

\* A reply says what the tables hold.
THEOREM CatalogRepliesAreTrue == Spec => []RepliesAreTrue
<1>1. CatalogInvariant => RepliesAreTrue
  BY DEF CatalogInvariant
<1>2. QED
  BY <1>1, CatalogInvariantHolds, PTL

\* No reader sees half of a question or of an exam.
THEOREM CatalogReadsAreWhole == Spec => []ReadsAreWhole
<1>1. CatalogInvariant => ReadsAreWhole
  BY DEF CatalogInvariant
<1>2. QED
  BY <1>1, CatalogInvariantHolds, PTL

-----------------------------------------------------------------------------
(* Whole questions and exams: counting rows.                                *)

\* Rows made from different indices are as many as the indices.
LEMMA ImageCount ==
  ASSUME NEW S, IsFiniteSet(S), NEW f, DOMAIN f = S,
         \A i, j \in S : f[i] = f[j] => i = j,
         f = [i \in S |-> f[i]]
  PROVE  Cardinality({ f[i] : i \in S }) = Cardinality(S)
<1> DEFINE T == { f[i] : i \in S }
<1>1. f \in [S -> T]
  OBVIOUS
<1>2. f \in Injection(S, T)
  BY <1>1 DEF Injection, IsInjective
<1>3. f \in Surjection(S, T)
  BY <1>1 DEF Surjection
<1>4. ExistsBijection(S, T)
  BY <1>2, <1>3 DEF ExistsBijection, Bijection
<1>5. QED
  BY <1>4, FS_Bijection

\* A question has one row per option of its body, and one correct option.
LEMMA OptionCount ==
  ASSUME NEW c, NEW opts \in Seq(BOOLEAN)
  PROVE  /\ Cardinality(OptionRowsOf(c, opts)) = Len(opts)
         /\ Cardinality({ o \in OptionRowsOf(c, opts) : o.correct })
              = Cardinality({ i \in DOMAIN opts : opts[i] })
<1> DEFINE row(i) == [id |-> <<c, i>>, question |-> c, correct |-> opts[i]]
           rowAt == [i \in DOMAIN opts |-> row(i)]
           right == { i \in DOMAIN opts : opts[i] }
           rightAt == [i \in right |-> row(i)]
<1>1. Len(opts) \in Nat /\ DOMAIN opts = 1 .. Len(opts)
  OBVIOUS
<1>2. IsFiniteSet(DOMAIN opts) /\ Cardinality(DOMAIN opts) = Len(opts)
  BY <1>1, FS_Interval
<1>3. \A i, j : row(i) = row(j) => i = j
  <2> SUFFICES ASSUME NEW i, NEW j, row(i) = row(j) PROVE i = j
    OBVIOUS
  <2>1. row(i).id = row(j).id
    OBVIOUS
  <2>2. QED
    BY <2>1
<1>4. OptionRowsOf(c, opts) = { rowAt[i] : i \in DOMAIN opts }
  BY DEF OptionRowsOf
<1>5. { o \in OptionRowsOf(c, opts) : o.correct } = { rightAt[i] : i \in right }
  <2>1. \A i \in DOMAIN opts : row(i).correct = opts[i]
    OBVIOUS
  <2>2. OptionRowsOf(c, opts) = { row(i) : i \in DOMAIN opts }
    BY DEF OptionRowsOf
  <2>3. \A i \in right : rightAt[i] = row(i)
    OBVIOUS
  <2> HIDE DEF row, rightAt
  <2>4. QED
    BY <2>1, <2>2, <2>3
<1>6. IsFiniteSet(right)
  BY <1>2, FS_Subset
<1>7. /\ \A i, j \in DOMAIN opts : rowAt[i] = rowAt[j] => i = j
      /\ \A i, j \in right : rightAt[i] = rightAt[j] => i = j
  <2>1. (\A i \in DOMAIN opts : rowAt[i] = row(i)) /\ (\A i \in right : rightAt[i] = row(i))
    OBVIOUS
  <2> HIDE DEF row, rowAt, rightAt
  <2>2. QED
    BY <1>3, <2>1
<1>8. /\ DOMAIN rowAt = DOMAIN opts /\ rowAt = [i \in DOMAIN opts |-> rowAt[i]]
      /\ DOMAIN rightAt = right /\ rightAt = [i \in right |-> rightAt[i]]
  OBVIOUS
<1> HIDE DEF row, rowAt, right, rightAt
<1>9. /\ Cardinality({ rowAt[i] : i \in DOMAIN opts }) = Cardinality(DOMAIN opts)
      /\ Cardinality({ rightAt[i] : i \in right }) = Cardinality(right)
  BY <1>2, <1>6, <1>7, <1>8, ImageCount
<1>10. QED
  BY <1>2, <1>4, <1>5, <1>9 DEF right

\* An exam has one row per question of its body.
LEMMA ExamQuestionCount ==
  ASSUME NEW x, req[x].questions \in Seq(Creates)
  PROVE  Cardinality(ExamQuestionRows(x)) = Len(req[x].questions)
<1> DEFINE l == req[x].questions
           row(i) == [exam |-> x, question |-> l[i], order |-> i - 1]
           rowAt == [i \in DOMAIN l |-> row(i)]
<1>1. Len(l) \in Nat /\ DOMAIN l = 1 .. Len(l)
  OBVIOUS
<1>2. IsFiniteSet(DOMAIN l) /\ Cardinality(DOMAIN l) = Len(l)
  BY <1>1, FS_Interval
<1>3. \A i, j \in DOMAIN l : rowAt[i] = rowAt[j] => i = j
  <2> SUFFICES ASSUME NEW i \in DOMAIN l, NEW j \in DOMAIN l, row(i) = row(j) PROVE i = j
    OBVIOUS
  <2>1. row(i).order = row(j).order
    OBVIOUS
  <2>2. i - 1 = j - 1
    BY <2>1
  <2>3. QED
    BY <1>1, <2>2
<1>4. ExamQuestionRows(x) = { rowAt[i] : i \in DOMAIN l }
  BY DEF ExamQuestionRows
<1>5. DOMAIN rowAt = DOMAIN l /\ rowAt = [i \in DOMAIN l |-> rowAt[i]]
  OBVIOUS
<1> HIDE DEF rowAt, l
<1>6. Cardinality({ rowAt[i] : i \in DOMAIN l }) = Cardinality(DOMAIN l)
  BY <1>2, <1>3, <1>5, ImageCount
<1>7. QED
  BY <1>2, <1>4, <1>6 DEF l

\* The rows of a stored question, or exam, are those its request has written.
LEMMA StoredRows ==
  ASSUME TypeOK, CommittedRows
  PROVE  /\ \A c \in QuestionIds : OptionsIn(option, c) = OptionRows(c)
         /\ \A x : [id |-> x] \in exam => QuestionsIn(examQuestion, x) = ExamQuestionRows(x)
<1>1. ASSUME NEW c \in QuestionIds PROVE OptionsIn(option, c) = OptionRows(c)
  BY <1>1, OptionRowsOwned DEF CommittedRows, OptionsIn, QuestionIds
<1>2. ASSUME NEW x, [id |-> x] \in exam PROVE QuestionsIn(examQuestion, x) = ExamQuestionRows(x)
  <2>1. \A row \in ExamQuestionRows(x) : row.exam = x
    BY DEF ExamQuestionRows
  <2>2. ExamQuestionRows(x) \subseteq examQuestion
    <3>1. ExamQuestionRows([id |-> x].id) \subseteq examQuestion
      BY <1>2 DEF CommittedRows
    <3>2. QED
      BY <3>1
  <2>3. \A row \in examQuestion : row \in ExamQuestionRows(row.exam)
    BY ZenonT(40) DEF CommittedRows
  <2>4. QED
    BY <2>1, <2>2, <2>3 DEF QuestionsIn
<1>3. QED
  BY <1>1, <1>2

\* The tables never hold half of a question or of an exam.
THEOREM BankIsAlwaysWhole == Spec => []BankIsWhole
<1>1. ASSUME CatalogInvariant PROVE BankIsWhole
  <2>1. TypeOK /\ InMemory /\ CommittedRows /\ StatusIsFinal
    BY <1>1 DEF CatalogInvariant
  <2>2. ASSUME NEW q \in question
        PROVE  /\ Cardinality(OptionsIn(option, q.id)) = Len(req[q.id].options)
               /\ Cardinality({ o \in OptionsIn(option, q.id) : o.correct }) = 1
               /\ q.image # None => q.image \in images
    <3>1. q.id \in Creates /\ q.id \in QuestionIds /\ pc[q.id] = "done"
      BY <2>1, RowIds DEF QuestionIds
    <3>2. req[q.id].options \in Seq(BOOLEAN)
      BY <2>1, <3>1, CatalogAssumption DEF TypeOK
    <3>3. OptionsIn(option, q.id) = OptionRowsOf(q.id, req[q.id].options)
      BY <2>1, <3>1, StoredRows DEF OptionRows
    <3>4. HasSingleCorrectOption(req[q.id].options) /\ q = QuestionRow(q.id)
      BY <2>1 DEF CommittedRows
    <3>5. q.image # None => upload[q.id] = "stored" /\ q.image = q.id
      BY <3>4 DEF QuestionRow
    <3>6. q.image # None => q.image \in images
      BY <2>1, <3>1, <3>5 DEF InMemory
    <3>7. Cardinality({ o \in OptionRowsOf(q.id, req[q.id].options) : o.correct })
            = Cardinality({ i \in DOMAIN req[q.id].options : req[q.id].options[i] })
          /\ Cardinality(OptionRowsOf(q.id, req[q.id].options)) = Len(req[q.id].options)
      BY <3>2, OptionCount
    <3>8. QED
      BY <3>3, <3>4, <3>6, <3>7 DEF HasSingleCorrectOption
  <2>3. \A o \in option : o.question \in QuestionIds
    BY <2>1 DEF CommittedRows
  <2>4. ASSUME NEW e \in exam
        PROVE  LET l == req[e.id].questions
                   rows == QuestionsIn(examQuestion, e.id)
               IN  /\ Cardinality(rows) = Len(l)
                   /\ \A i \in DOMAIN l :
                        \E row \in rows : row.order = i - 1 /\ row.question = l[i]
    <3>1. e.id \in Assembles /\ pc[e.id] = "done" /\ [id |-> e.id] \in exam
      BY <2>1, RowIds
    <3>2. req[e.id].questions \in Seq(Creates)
      BY <2>1, <3>1, CatalogAssumption, RequestSets DEF TypeOK
    <3>3. QuestionsIn(examQuestion, e.id) = ExamQuestionRows(e.id)
      BY <2>1, <3>1, StoredRows
    <3>4. Cardinality(ExamQuestionRows(e.id)) = Len(req[e.id].questions)
      BY <3>2, ExamQuestionCount
    <3>5. \A i \in DOMAIN req[e.id].questions :
            \E row \in ExamQuestionRows(e.id) :
              row.order = i - 1 /\ row.question = req[e.id].questions[i]
      <4> TAKE i \in DOMAIN req[e.id].questions
      <4> DEFINE made == [exam |-> e.id, question |-> req[e.id].questions[i], order |-> i - 1]
      <4>1. made \in ExamQuestionRows(e.id)
        BY DEF ExamQuestionRows
      <4>2. made.order = i - 1 /\ made.question = req[e.id].questions[i]
        OBVIOUS
      <4>3. QED
        BY <4>1, <4>2
    <3>6. QED
      BY <3>3, <3>4, <3>5
  <2>5. ASSUME NEW row \in examQuestion
        PROVE  [id |-> row.exam] \in exam /\ row.question \in QuestionIds
    <3>1. [id |-> row.exam] \in exam /\ row \in ExamQuestionRows(row.exam)
      BY <2>1 DEF CommittedRows
    <3>2. row.question \in ToSet(req[row.exam].questions)
      BY <3>1 DEF ExamQuestionRows, ToSet
    <3>3. ToSet(req[[id |-> row.exam].id].questions) \subseteq QuestionIds
      BY <2>1, <3>1 DEF CommittedRows
    <3>4. QED
      BY <3>1, <3>2, <3>3
  <2>6. QED
    BY <2>2, <2>3, <2>4, <2>5 DEF BankIsWhole, WholeQuestions, WholeExams
<1>2. QED
  BY <1>1, CatalogInvariantHolds, PTL

-----------------------------------------------------------------------------
(* The promise: exams are published whole and never change.                 *)

\* Grading rows depend on the options of the questions joined, and no others.
LEMMA JoinedSame ==
  ASSUME NEW E, NEW O, NEW P,
         \A eq \in E : { o \in O : o.question = eq.question } = { o \in P : o.question = eq.question }
  PROVE  JoinedRows(E, O) = JoinedRows(E, P)
<1> DEFINE own(eq, S) == { o \in S : o.question = eq.question }
           rowsFor(eq, mine) ==
             IF mine = {}
             THEN {[order |-> eq.order, question |-> eq.question, option |-> None, correct |-> None]}
             ELSE { [order |-> eq.order, question |-> eq.question,
                     option |-> o.id, correct |-> o.correct] : o \in mine }
<1>1. /\ JoinedRows(E, O) = UNION { rowsFor(eq, own(eq, O)) : eq \in E }
      /\ JoinedRows(E, P) = UNION { rowsFor(eq, own(eq, P)) : eq \in E }
  BY DEF JoinedRows
<1>2. \A eq \in E : own(eq, O) = own(eq, P)
  OBVIOUS
<1> HIDE DEF own, rowsFor
<1>3. { rowsFor(eq, own(eq, O)) : eq \in E } = { rowsFor(eq, own(eq, P)) : eq \in E }
  BY <1>2
<1>4. QED
  BY <1>1, <1>3

\* What follows from the invariant in every state, and is needed of the state
\* after a step as well.
OwnRows ==
  /\ \A c \in QuestionIds : OptionsIn(option, c) = OptionRows(c)
  /\ \A x : [id |-> x] \in exam => QuestionsIn(examQuestion, x) = ExamQuestionRows(x)
PublishedIsGradable ==
  \A x : [id |-> x] \in exam => RowsOf(x) \in GradableContents

LEMMA GradableRows ==
  ASSUME NEW l \in QuestionLists, IsInjective(l),
         NEW opts \in [ToSet(l) -> { o \in OptionLists : HasSingleCorrectOption(o) }]
  PROVE  JoinedRows({ [order |-> i - 1, question |-> l[i]] : i \in DOMAIN l },
                    UNION { OptionRowsOf(c, opts[c]) : c \in ToSet(l) })
           \in GradableContents
<1> DEFINE made(q, o) ==
             JoinedRows({ [order |-> i - 1, question |-> q[i]] : i \in DOMAIN q },
                        UNION { OptionRowsOf(c, o[c]) : c \in ToSet(q) })
           choices(q) == [ToSet(q) -> { o \in OptionLists : HasSingleCorrectOption(o) }]
           good == { q \in QuestionLists : IsInjective(q) }
<1>1. GradableContents = UNION { { made(q, o) : o \in choices(q) } : q \in good }
  BY DEF GradableContents
<1>2. l \in good /\ opts \in choices(l)
  OBVIOUS
<1>3. made(l, opts) \in GradableContents
  <2> HIDE DEF made, choices, good
  <2>1. made(l, opts) \in { made(l, o) : o \in choices(l) }
    BY <1>2
  <2>2. QED
    BY <1>1, <1>2, <2>1
<1>4. QED
  BY <1>3

LEMMA InvariantImplies ==
  ASSUME CatalogInvariant
  PROVE  OwnRows /\ PublishedIsGradable
<1>0. TypeOK /\ CommittedRows /\ StatusIsFinal
  BY DEF CatalogInvariant
<1>1. OwnRows
  BY <1>0, StoredRows DEF OwnRows
<1>2. ASSUME NEW x, [id |-> x] \in exam PROVE RowsOf(x) \in GradableContents
  <2> DEFINE l == req[x].questions
             opts == [c \in ToSet(l) |-> req[c].options]
             O == UNION { OptionRowsOf(c, opts[c]) : c \in ToSet(l) }
             E == { [order |-> i - 1, question |-> l[i]] : i \in DOMAIN l }
  <2>1. x \in Assembles /\ pc[x] = "done"
    BY <1>0, <1>2, RowIds
  <2>2. l \in QuestionLists
    BY <1>0, <2>1, RequestSets DEF TypeOK
  <2>3. IsInjective(l) /\ ToSet(l) \subseteq QuestionIds
    <3>1. IsInjective(req[[id |-> x].id].questions)
          /\ ToSet(req[[id |-> x].id].questions) \subseteq QuestionIds
      BY <1>0, <1>2 DEF CommittedRows
    <3>2. QED
      BY <3>1
  <2>4. \A c \in QuestionIds : req[c].options \in OptionLists
                               /\ HasSingleCorrectOption(req[c].options)
    <3>1. \A c \in QuestionIds : c \in Creates /\ pc[c] = "done"
      BY <1>0, RowIds
    <3>2. \A c \in QuestionIds : HasSingleCorrectOption(req[c].options)
      BY <1>0 DEF CommittedRows, QuestionIds
    <3>3. QED
      BY <1>0, <3>1, <3>2, RequestSets DEF TypeOK
  <2>5. opts \in [ToSet(l) -> { o \in OptionLists : HasSingleCorrectOption(o) }]
    BY <2>3, <2>4
  <2>6. { [order |-> row.order, question |-> row.question]
          : row \in QuestionsIn(examQuestion, x) } = E
    <3>1. QuestionsIn(examQuestion, x)
            = { [exam |-> x, question |-> l[i], order |-> i - 1] : i \in DOMAIN l }
      BY <1>1, <1>2 DEF OwnRows, ExamQuestionRows
    <3> DEFINE row(i) == [exam |-> x, question |-> l[i], order |-> i - 1]
               pair(r) == [order |-> r.order, question |-> r.question]
               place(i) == [order |-> i - 1, question |-> l[i]]
    <3>2. \A i \in DOMAIN l : pair(row(i)) = place(i)
      OBVIOUS
    <3>3. E = { place(i) : i \in DOMAIN l }
      OBVIOUS
    <3>4. QuestionsIn(examQuestion, x) = { row(i) : i \in DOMAIN l }
      BY <3>1
    <3> HIDE DEF row, place, l, E
    <3>5. { pair(r) : r \in QuestionsIn(examQuestion, x) } = E
      <4> HIDE DEF pair
      <4>1. QED
        BY <3>2, <3>3, <3>4
    <3>6. QED
      BY <3>5
  <2>7. ASSUME NEW eq \in E
        PROVE  { o \in option : o.question = eq.question } = { o \in O : o.question = eq.question }
    <3>1. eq.question \in ToSet(l) /\ eq.question \in QuestionIds
      BY <2>3, <2>7 DEF ToSet
    <3>2. { o \in option : o.question = eq.question } = OptionRowsOf(eq.question, opts[eq.question])
      BY <1>1, <3>1 DEF OwnRows, OptionsIn, OptionRows
    <3>3. \A c \in ToSet(l) : \A o \in OptionRowsOf(c, opts[c]) : o.question = c
      BY DEF OptionRowsOf
    <3> HIDE DEF opts
    <3>4. QED
      BY <3>1, <3>2, <3>3
  <2>8. RowsOf(x) = JoinedRows(E, O)
    <3>1. RowsOf(x) = JoinedRows(E, option)
      BY <2>6 DEF RowsOf
    <3>2. \A eq \in E : { o \in option : o.question = eq.question }
                       = { o \in O : o.question = eq.question }
      <4> HIDE DEF E, O
      <4>1. QED
        BY <2>7
    <3> HIDE DEF E, O
    <3>3. JoinedRows(E, option) = JoinedRows(E, O)
      BY <3>2, JoinedSame
    <3>4. QED
      BY <3>1, <3>3
  <2>9. QED
    <3>1. JoinedRows(E, O) \in GradableContents
      BY <2>2, <2>3, <2>5, GradableRows
    <3> HIDE DEF E, O
    <3>2. QED
      BY <2>8, <3>1
<1>3. QED
  BY <1>1, <1>2 DEF PublishedIsGradable

\* The rows of a published exam are never touched again.
LEMMA PublishedStays ==
  ASSUME CatalogInvariant, [Next]_vars, OwnRows', NEW x, [id |-> x] \in exam
  PROVE  [id |-> x] \in exam' /\ RowsOf(x)' = RowsOf(x)
<1>0. TypeOK /\ WriteSets /\ CommittedRows /\ StatusIsFinal /\ OwnRows
  BY InvariantImplies DEF CatalogInvariant
<1>1. [id |-> x] \in exam' /\ QuestionIds \subseteq QuestionIds'
  BY <1>0, TablesGrow
<1>2. x \in Assembles /\ pc[x] = "done" /\ \A c \in QuestionIds : c \in Creates /\ pc[c] = "done"
  BY <1>0, RowIds
<1>3. QuestionsIn(examQuestion', x) = QuestionsIn(examQuestion, x)
  <2>1. QuestionsIn(examQuestion, x) = ExamQuestionRows(x)
    BY <1>0 DEF OwnRows
  <2>2. QuestionsIn(examQuestion', x) = ExamQuestionRows(x)'
    BY <1>1 DEF OwnRows
  <2>3. ExamQuestionRows(x)' = ExamQuestionRows(x)
    BY <1>0, <1>2, RowsFixed
  <2>4. QED
    BY <2>1, <2>2, <2>3
<1>4. ASSUME NEW c \in QuestionIds PROVE OptionsIn(option', c) = OptionsIn(option, c)
  <2>1. OptionsIn(option, c) = OptionRows(c)
    BY <1>0, <1>4 DEF OwnRows
  <2>2. OptionsIn(option', c) = OptionRows(c)'
    BY <1>1, <1>4 DEF OwnRows
  <2>3. OptionRows(c)' = OptionRows(c)
    BY <1>0, <1>2, <1>4, RowsFixed
  <2>4. QED
    BY <2>1, <2>2, <2>3
<1>5. \A row \in QuestionsIn(examQuestion, x) : row.question \in QuestionIds
  <2>1. QuestionsIn(examQuestion, x) = ExamQuestionRows(x)
    BY <1>0 DEF OwnRows
  <2>2. \A row \in ExamQuestionRows(x) : row.question \in ToSet(req[x].questions)
    BY DEF ExamQuestionRows, ToSet
  <2>3. ToSet(req[[id |-> x].id].questions) \subseteq QuestionIds
    BY <1>0 DEF CommittedRows
  <2>4. QED
    BY <2>1, <2>2, <2>3
<1> DEFINE pair(row) == [order |-> row.order, question |-> row.question]
           E == { pair(row) : row \in QuestionsIn(examQuestion, x) }
<1>6. \A eq \in E : eq.question \in QuestionIds
  BY <1>5
<1>7. RowsOf(x) = JoinedRows(E, option) /\ RowsOf(x)' = JoinedRows(E, option')
  BY <1>3 DEF RowsOf
<1> HIDE DEF E
<1>8. \A eq \in E : { o \in option : o.question = eq.question }
                    = { o \in option' : o.question = eq.question }
  BY <1>4, <1>6 DEF OptionsIn
<1>9. JoinedRows(E, option) = JoinedRows(E, option')
  BY <1>8, JoinedSame
<1>10. QED
  BY <1>1, <1>7, <1>9

\* Exams published before stay published as they were.
LEMMA PublishedKept ==
  ASSUME CatalogInvariant, [Next]_vars, OwnRows', exam' = exam
  PROVE  Published' = Published
<1>1. \A x : [id |-> x] \in exam => RowsOf(x)' = RowsOf(x)
  BY PublishedStays
<1>2. QED
  BY <1>1 DEF Published

LEMMA CommitsExamPublishes ==
  ASSUME CatalogInvariant, [Next]_vars, OwnRows', PublishedIsGradable', NEW x, CommitsExam(x)
  PROVE  Promise!Publish(x)
<1>0. TypeOK /\ CommittedRows /\ StatusIsFinal
  BY DEF CatalogInvariant
<1>1. /\ x \in Assembles /\ pc[x] = "commit" /\ assignment' = assignment
      /\ exam' = exam \union {[id |-> x]}
  BY DEF CommitsExam
<1>2. [id |-> x] \notin exam
  BY <1>0, <1>1, RowIds
<1>3. RowsOf(x)' \in GradableContents
  BY <1>1 DEF PublishedIsGradable
<1>4. \A y : y # x => (([id |-> y] \in exam') <=> [id |-> y] \in exam)
  <2>1. \A y : [id |-> y] = [id |-> x] => y = x
    <3> TAKE y
    <3> HAVE [id |-> y] = [id |-> x]
    <3>1. [id |-> y].id = [id |-> x].id
      OBVIOUS
    <3>2. QED
      BY <3>1
  <2>2. QED
    BY <1>1, <2>1
<1>5. \A y : [id |-> y] \in exam => RowsOf(y)' = RowsOf(y)
  BY PublishedStays
<1>6. Published[x] = None
  BY <1>1, <1>2 DEF Published
<1>7. Published' = [Published EXCEPT ![x] = RowsOf(x)']
  <2>1. Published' = [e \in Assembles |-> IF [id |-> e] \in exam' THEN RowsOf(e)' ELSE None]
    BY DEF Published
  <2>2. [Published EXCEPT ![x] = RowsOf(x)']
          = [e \in Assembles |-> IF e = x THEN RowsOf(x)'
                                 ELSE IF [id |-> e] \in exam THEN RowsOf(e) ELSE None]
    BY DEF Published
  <2>3. ASSUME NEW e \in Assembles
        PROVE (IF [id |-> e] \in exam' THEN RowsOf(e)' ELSE None)
              = IF e = x THEN RowsOf(x)'
                ELSE IF [id |-> e] \in exam THEN RowsOf(e) ELSE None
    BY <1>1, <1>4, <1>5, <2>3
  <2>4. QED
    BY <2>1, <2>2, <2>3
<1>8. AssignedTo' = AssignedTo
  BY <1>1 DEF AssignedTo, AssignmentRows
<1>9. QED
  BY <1>3, <1>6, <1>7, <1>8 DEF Promise!Publish

LEMMA CommitsAssignmentAssigns ==
  ASSUME CatalogInvariant, [Next]_vars, OwnRows', NEW a, CommitsAssignment(a)
  PROVE  Promise!Assign(a)
<1>0. /\ TypeOK /\ CommittedRows /\ StatusIsFinal /\ InMemory /\ PairIsExclusive
      /\ PublishedIsGradable
  BY InvariantImplies DEF CatalogInvariant
<1> DEFINE e == req[a].exam
           u == req[a].user
<1>1. /\ a \in Assigns /\ pc[a] = "commit" /\ exam' = exam
      /\ assignment' = assignment \union {AssignmentRow(a)}
  BY DEF CommitsAssignment
<1>2. [id |-> e] \in exam /\ u \in Students
  BY <1>0, <1>1 DEF InMemory
<1>3. e \in Assembles
  BY <1>0, <1>2, RowIds
<1>4. \A row \in assignment : row.id # a
  BY <1>0, <1>1, RowIds
<1>5. Published[e] # None
  BY <1>0, <1>2, <1>3, ContentsAssumption DEF Published, PublishedIsGradable
<1>6. ASSUME NEW b \in Assigns PROVE AssignedTo[b] # [exam |-> e, user |-> u]
  <2>1. CASE AssignmentRows(b) = {}
    <3>1. [exam |-> e, user |-> u] \in [exam : Assembles, user : UserIds]
      BY <1>2, <1>3, CatalogAssumption
    <3>2. AssignedTo[b] = None
      BY <2>1 DEF AssignedTo
    <3>3. QED
      BY <3>1, <3>2, ContentsAssumption
  <2>2. CASE AssignmentRows(b) # {}
    <3> DEFINE row == CHOOSE r \in AssignmentRows(b) : TRUE
    <3>1. row \in AssignmentRows(b)
      BY <2>2
    <3>2. AssignedTo[b] = [exam |-> row.exam, user |-> row.user]
      BY <2>2 DEF AssignedTo
    <3> HIDE DEF row
    <3>3. row \in assignment
      BY <3>1 DEF AssignmentRows
    <3>4. ~SamePair(row, req[a])
      BY <1>0, <1>1, <1>4, <3>3 DEF PairIsExclusive
    <3>5. row.exam # e \/ row.user # u
      BY <3>4 DEF SamePair
    <3>6. ASSUME [exam |-> row.exam, user |-> row.user] = [exam |-> e, user |-> u] PROVE FALSE
      <4>1. /\ [exam |-> row.exam, user |-> row.user].exam = [exam |-> e, user |-> u].exam
            /\ [exam |-> row.exam, user |-> row.user].user = [exam |-> e, user |-> u].user
        BY <3>6
      <4>2. QED
        BY <3>5, <4>1
    <3>7. QED
      BY <3>2, <3>6
  <2>3. QED
    BY <2>1, <2>2
<1>7. AssignedTo[a] = None
  BY <1>1, <1>4 DEF AssignedTo, AssignmentRows
<1>8. AssignedTo' = [AssignedTo EXCEPT ![a] = [exam |-> e, user |-> u]]
  <2>1. AssignmentRow(a).id = a /\ AssignmentRow(a).exam = e /\ AssignmentRow(a).user = u
    BY DEF AssignmentRow
  <2>2. AssignmentRows(a)' = {AssignmentRow(a)}
    BY <1>1, <1>4, <2>1 DEF AssignmentRows
  <2>3. \A b : b # a => AssignmentRows(b)' = AssignmentRows(b)
    BY <1>1, <2>1 DEF AssignmentRows
  <2>4. AssignedTo'[a] = [exam |-> e, user |-> u]
    <3> DEFINE row == CHOOSE r \in AssignmentRows(a)' : TRUE
    <3>1. row = AssignmentRow(a)
      BY <2>2
    <3>2. AssignmentRows(a)' # {}
      BY <2>2
    <3>3. AssignedTo'[a] = [exam |-> row.exam, user |-> row.user]
      BY <1>1, <3>2 DEF AssignedTo
    <3>4. QED
      BY <2>1, <3>1, <3>3
  <2>5. ASSUME NEW b \in Assigns, b # a PROVE AssignedTo'[b] = AssignedTo[b]
    <3> DEFINE shown(S) == IF S = {} THEN None
                           ELSE LET row == CHOOSE r \in S : TRUE
                                IN  [exam |-> row.exam, user |-> row.user]
    <3>1. AssignedTo[b] = shown(AssignmentRows(b)) /\ AssignedTo'[b] = shown(AssignmentRows(b)')
      BY DEF AssignedTo
    <3> HIDE DEF shown
    <3>2. QED
      BY <2>3, <2>5, <3>1
  <2>6. /\ AssignedTo' = [b \in Assigns |-> AssignedTo'[b]]
        /\ AssignedTo = [b \in Assigns |-> AssignedTo[b]]
    BY DEF AssignedTo
  <2>7. QED
    BY <2>4, <2>5, <2>6
<1>9. Published' = Published
  BY <1>1, PublishedKept
<1>10. QED
  BY <1>2, <1>3, <1>5, <1>6, <1>7, <1>8, <1>9 DEF Promise!Assign

\* Every step is one of PublishedExams or leaves what it shows unchanged.
LEMMA StepsKeepPromise ==
  ASSUME CatalogInvariant, [Next]_vars, OwnRows', PublishedIsGradable'
  PROVE  [Promise!Next]_(Promise!vars)
<1>0. TypeOK /\ WriteSets
  BY DEF CatalogInvariant
<1>1. CASE tables' = tables
  <2>1. exam' = exam /\ assignment' = assignment
    BY <1>1 DEF tables
  <2>2. Published' = Published /\ AssignedTo' = AssignedTo
    BY <2>1, PublishedKept DEF AssignedTo, AssignmentRows
  <2>3. QED
    BY <2>2 DEF Promise!vars
<1>2. ASSUME NEW w \in Writers, CommitsQuestion(w) PROVE [Promise!Next]_(Promise!vars)
  <2>1. exam' = exam /\ assignment' = assignment
    BY <1>2 DEF CommitsQuestion
  <2>2. Published' = Published /\ AssignedTo' = AssignedTo
    BY <2>1, PublishedKept DEF AssignedTo, AssignmentRows
  <2>3. QED
    BY <2>2 DEF Promise!vars
<1>3. ASSUME NEW w \in Writers, CommitsExam(w) PROVE Promise!Next
  BY <1>3, CommitsExamPublishes DEF Promise!Next, CommitsExam
<1>4. ASSUME NEW w \in Writers, CommitsAssignment(w) PROVE Promise!Next
  BY <1>4, CommitsAssignmentAssigns DEF Promise!Next, CommitsAssignment
<1>5. QED
  BY <1>0, <1>1, <1>2, <1>3, <1>4, TableSteps

\* The catalog implements PublishedExams: what grading will read of an exam is
\* complete and fixed from the moment the exam can be assigned, and a pair of
\* exam and user is assigned once.
THEOREM CatalogImplementsPublishedExams == Spec => ImplementsPublishedExams
<1>1. Init => Promise!Init
  BY DEF Init, Promise!Init, Published, AssignedTo, AssignmentRows
<1>2. CatalogInvariant => OwnRows /\ PublishedIsGradable
  BY InvariantImplies
<1>3. CatalogInvariant /\ [Next]_vars /\ OwnRows' /\ PublishedIsGradable'
        => [Promise!Next]_(Promise!vars)
  BY StepsKeepPromise
<1>4. QED
  BY <1>1, <1>2, <1>3, CatalogInvariantHolds, PTL
     DEF Spec, ImplementsPublishedExams, Promise!Spec
=============================================================================
