\* Every exam over two questions, three options and lists of up to two answers.
CONSTANTS
  None = None
  QuestionIds = {1, 2, 3}
  OptionIds = {1, 2, 3}
  MaxAnswers = 2
  ExamTables <- MCExamTables
  OptionTables <- MCOptionTables
  AnswerLists <- MCAnswerLists
SPECIFICATION Spec
INVARIANTS
  LastAnswerDecides
  StoredOptionsBelong
CHECK_DEADLOCK FALSE
