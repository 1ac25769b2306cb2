\* Three assignments of one exam race with each other and with the creation of
\* the exam and its question, for two users, one of them an admin or unknown.
CONSTANTS
  None = None
  Creates = {c1}
  Assembles = {x1}
  Assigns = {a1, a2, a3}
  Lists = {}
  Looks = {}
  OptionLists <- MCOneOption
  QuestionLists <- MCSingletons
  UserIds = {u1, adm}
  Students = {u1}
SPECIFICATION FairSpec
INVARIANTS
  TypeOK
  RepliesAreTrue
PROPERTIES
  ImplementsPublishedExams
  EveryRequestIsAnswered
CHECK_DEADLOCK FALSE
