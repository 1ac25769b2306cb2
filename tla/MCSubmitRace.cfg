\* Two submit requests for one assignment, by two users or a retry, while one
\* request reads a result and another lists the exam's results, under fair
\* scheduling; any of them may fail or the server may restart.
CONSTANTS
  None = None
  Submits = {s1, s2}
  Views = {v1}
  Lists = {l1}
  Users = {u1, u2, adm}
  Admins = {adm}
  Exams = {e1}
  AssignmentIds = {a1}
  ExamContents <- MCTwoExams
  AnswerLists <- MCAnswers
SPECIFICATION FairSpec
INVARIANTS
  SubmitInvariant
  ResultsAreSound
  RepliesAreTrue
  ReadsAreWhole
  ReadsAreAuthorised
PROPERTIES
  ImplementsSubmitOnce
  EveryRequestIsAnswered
CHECK_DEADLOCK FALSE
