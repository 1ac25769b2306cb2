------------------------------ MODULE MCGrading ------------------------------
(***************************************************************************)
(* Every small exam, question bank and list of answers for TLC.            *)
(***************************************************************************)
EXTENDS GradingProperties

CONSTANTS
  QuestionIds,   \* the question bank; the last one is never in the exam
  OptionIds,     \* every option belongs to one question of the bank
  MaxAnswers     \* bound on the length of an answer list

Bank == QuestionIds \ {Max(QuestionIds)}

\* create_exam numbers the questions of an exam by their place in the list.
MCExamTables ==
  { { [order |-> i, question |-> s[i]] : i \in DOMAIN s }
    : s \in { t \in SeqOf(Bank, Cardinality(Bank)) : IsInjective(t) } }

MCOptionTables ==
  { { [id |-> o, question |-> t[o].question, correct |-> t[o].correct]
      : o \in OptionIds }
    : t \in [OptionIds -> [question : Bank, correct : BOOLEAN]] }

MCAnswerLists ==
  SeqOf([question : QuestionIds, option : OptionIds \union {None}], MaxAnswers)
=============================================================================
