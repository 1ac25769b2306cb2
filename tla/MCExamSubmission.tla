-------------------------- MODULE MCExamSubmission --------------------------
(***************************************************************************)
(* Instances of ExamSubmission for TLC: a bank of three questions with one *)
(* correct option each, two exams made of it, and lists of answers.        *)
(***************************************************************************)
EXTENDS ExamSubmissionProperties

Options ==
  { [id |-> 1, question |-> 1, correct |-> TRUE],
    [id |-> 2, question |-> 1, correct |-> FALSE],
    [id |-> 3, question |-> 2, correct |-> TRUE],
    [id |-> 4, question |-> 3, correct |-> TRUE] }

Exam(questions) == GradingData(questions, Options)
OneAndTwo   == Exam({[order |-> 0, question |-> 2], [order |-> 1, question |-> 1]})
OneAndThree == Exam({[order |-> 0, question |-> 1], [order |-> 1, question |-> 3]})

MCTwoExams == {OneAndTwo, OneAndThree}

\* Questions 1 and 3, the latter with an option of question 1: refused for
\* OneAndThree; for OneAndTwo the second answer is ignored.
MCAnswers == {<< [question |-> 1, option |-> 1], [question |-> 3, option |-> 2] >>}
=============================================================================
