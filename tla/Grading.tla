------------------------------- MODULE Grading -------------------------------
(***************************************************************************)
(* The pure part of submitting an exam: the answer key that submit_exam    *)
(* builds from the rows of ExamRepository.get_grading_data, the check of   *)
(* the selected options against it, and grade().  Nothing here has state;  *)
(* ExamSubmission calls these operators from its handler steps.            *)
(*                                                                         *)
(* A row is [question, option, correct], in the order the query returns.   *)
(* A question without options has one row whose option is None (the LEFT   *)
(* JOIN placeholder).  An answer is [question, option], where None stands  *)
(* for an unanswered question.                                             *)
(***************************************************************************)
EXTENDS Integers, SequencesExt

CONSTANT None   \* Python's None; differs from every question and option id

-----------------------------------------------------------------------------
(* The rows of one exam: exam_question LEFT JOIN option, sorted by the     *)
(* question's place in the exam, the question, and the option.             *)

JoinedRows(examQuestions, options) ==
  UNION { LET own == { o \in options : o.question = eq.question }
          IN  IF own = {}
              THEN {[order |-> eq.order, question |-> eq.question,
                     option |-> None, correct |-> None]}
              ELSE { [order |-> eq.order, question |-> eq.question,
                      option |-> o.id, correct |-> o.correct] : o \in own }
          : eq \in examQuestions }

RowBefore(r, s) ==
  \/ r.order < s.order
  \/ r.order = s.order /\ r.question < s.question
  \/ r.order = s.order /\ r.question = s.question /\ r.option < s.option

\* The row at place i has i - 1 rows before it.
GradingData(examQuestions, options) ==
  LET rows       == JoinedRows(examQuestions, options)
      earlier(r) == { s \in rows \ {r} : RowBefore(s, r) }
      row(i)     == CHOOSE r \in rows : Cardinality(earlier(r)) = i - 1
  IN  [i \in 1 .. Cardinality(rows) |-> [question |-> row(i).question,
                                         option   |-> row(i).option,
                                         correct  |-> row(i).correct]]

-----------------------------------------------------------------------------
(* The loop of submit_exam over the rows.                                  *)

Questions(rows) == { rows[i].question : i \in DOMAIN rows }

OptionsOf(rows, q) ==
  { rows[i].option : i \in { j \in DOMAIN rows : rows[j].question = q } }
    \ {None}

\* One row: setdefault to None, then the first correct option wins.
KeyStep(key, row) ==
  LET known == [q \in DOMAIN key \union {row.question} |->
                  IF q \in DOMAIN key THEN key[q] ELSE None]
  IN  IF row.option # None /\ row.correct /\ known[row.question] = None
      THEN [known EXCEPT ![row.question] = row.option]
      ELSE known

AnswerKey(rows) == FoldLeft(KeyStep, [q \in {} |-> None], rows)

-----------------------------------------------------------------------------
(* Validation, grading and scoring of one list of answers.                 *)

\* Mutant: only the answer that wins is validated, not every answer sent.
HasInvalidAnswer_FirstOnly(rows, answers) ==
  /\ answers # <<>>
  /\ answers[1].option # None
  /\ answers[1].question \in Questions(rows)
  /\ answers[1].option \notin OptionsOf(rows, answers[1].question)

\* Mutant: a blank answer counts as an option the question does not have.
HasInvalidAnswer_BlankToo(rows, answers) ==
  \E i \in DOMAIN answers :
    /\ answers[i].question \in Questions(rows)
    /\ answers[i].option \notin OptionsOf(rows, answers[i].question)

\* Answers to questions outside the exam are not looked at.
HasInvalidAnswer(rows, answers) ==
  \E i \in DOMAIN answers :
    /\ answers[i].option # None
    /\ answers[i].question \in Questions(rows)
    /\ answers[i].option \notin OptionsOf(rows, answers[i].question)

\* Mutant: the first answer to a question wins instead of the last.
Selected_FirstWins(answers, q) ==
  LET i == SelectInSeq(answers, LAMBDA a : a.question = q)
  IN  IF i = 0 THEN None ELSE answers[i].option

\* submitted.get(q): in the dict comprehension the last answer to q wins.
Selected(answers, q) ==
  LET i == SelectLastInSeq(answers, LAMBDA a : a.question = q)
  IN  IF i = 0 THEN None ELSE answers[i].option

\* One graded answer per question of the exam, answered or not.
Grade(rows, answers) ==
  LET key == AnswerKey(rows)
  IN  [q \in Questions(rows) |->
         LET o == Selected(answers, q)
         IN  [selected |-> o, correct |-> o # None /\ o = key[q]]]

Score(graded) == Cardinality({ q \in DOMAIN graded : graded[q].correct })
=============================================================================
