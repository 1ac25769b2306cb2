--------------------------- MODULE GradingProperties ---------------------------
(***************************************************************************)
(* Grading one list of answers, compared with definitions that say what    *)
(* the result is without saying how it is computed.                        *)
(***************************************************************************)
EXTENDS Grading

CONSTANTS
  ExamTables,    \* exams: sets of exam_question rows
  OptionTables,  \* question banks: sets of option rows
  AnswerLists    \* lists of answers

\* What the tables' keys and columns guarantee.
ASSUME GradingAssumption ==
  /\ None \notin Nat
  /\ \A e \in ExamTables :
       /\ IsFiniteSet(e) /\ \A x \in e : x \in [order : Nat, question : Nat]
       /\ \A x, y \in e : x.question = y.question => x = y
  /\ \A t \in OptionTables :
       /\ IsFiniteSet(t) /\ \A o \in t : o \in [id : Nat, question : Nat, correct : BOOLEAN]
       /\ \A o, p \in t : o.id = p.id => o = p
  /\ \A l \in AnswerLists : l \in Seq([question : Nat, option : Nat \union {None}])

VARIABLES input, out
vars == <<input, out>>

Inputs == [exam : ExamTables, options : OptionTables, answers : AnswerLists]
Rows   == GradingData(input.exam, input.options)

Init == input \in Inputs /\ out = [status |-> "new"]

Reject ==
  /\ out.status = "new" /\ HasInvalidAnswer(Rows, input.answers)
  /\ out' = [status |-> "invalid"]
  /\ UNCHANGED input

Accept ==
  /\ out.status = "new" /\ ~HasInvalidAnswer(Rows, input.answers)
  /\ LET graded == Grade(Rows, input.answers)
     IN out' = [status |-> "graded", graded |-> graded, score |-> Score(graded)]
  /\ UNCHANGED input

Next == Reject \/ Accept
Spec == Init /\ [][Next]_vars

-----------------------------------------------------------------------------
ExamQuestions == { eq.question : eq \in input.exam }
OwnOptions(q) == { o \in input.options : o.question = q }

\* grade() (submit_exam.py:56-76) marks a question correct iff the last answer
\* sent for it selects the key's option, whatever was sent for it before and
\* for other questions; the score counts these questions once each.
LastAnswerDecides ==
  LET last(q, i) == /\ input.answers[i].question = q
                    /\ \A j \in DOMAIN input.answers :
                         input.answers[j].question = q => j <= i
      right == { q \in ExamQuestions :
                   \E i \in DOMAIN input.answers, o \in OwnOptions(q) :
                     /\ last(q, i)
                     /\ o.id = input.answers[i].option
                     /\ o.correct
                     /\ \A p \in OwnOptions(q) : p.correct => o.id <= p.id }
  IN out.status = "graded" =>
       /\ \A q \in ExamQuestions : out.graded[q].correct <=> q \in right
       /\ out.score = Cardinality(right)

\* What the answer table may receive: validation looks at every answer, also
\* one that a later answer replaces (submit_exam.py:108-118), so a stored
\* option is always one of its question's own.  A list is refused only for an
\* option that another question has, not for a blank answer and not for an
\* answer to a question outside the exam.
StoredOptionsBelong ==
  /\ out.status = "graded" =>
       /\ DOMAIN out.graded = ExamQuestions
       /\ \A q \in ExamQuestions :
            out.graded[q].selected \in
              { o.id : o \in OwnOptions(q) } \union {None}
       /\ \A i \in DOMAIN input.answers :
            input.answers[i].question \in ExamQuestions =>
              input.answers[i].option \in
                { o.id : o \in OwnOptions(input.answers[i].question) }
                  \union {None}
  /\ out.status = "invalid" =>
       \E i \in DOMAIN input.answers :
         /\ input.answers[i].question \in ExamQuestions
         /\ input.answers[i].option # None
         /\ \A o \in OwnOptions(input.answers[i].question) :
              o.id # input.answers[i].option
=============================================================================
