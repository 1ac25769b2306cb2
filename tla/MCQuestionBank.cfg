\* Two questions are created while an exam is made of them, repetitions
\* included, and both are listed and read.
CONSTANTS
  None = None
  Creates = {c1, c2}
  Assembles = {x1}
  Assigns = {}
  Lists = {l1}
  Looks = {k1}
  OptionLists <- MCOptionLists
  QuestionLists <- MCQuestionLists
  UserIds = {}
  Students = {}
SYMMETRY SymmetricBank
SPECIFICATION Spec
INVARIANTS
  BankIsWhole
  ReadsAreWhole
CHECK_DEADLOCK FALSE
