---------------------------- MODULE MCExamCatalog ----------------------------
(***************************************************************************)
(* Instances of ExamCatalog for TLC.                                       *)
(***************************************************************************)
EXTENDS ExamCatalogProperties

\* One body with exactly one correct option, one with two, one with none.
MCOptionLists == {<<TRUE, FALSE>>, <<TRUE, TRUE>>, <<>>}
MCOneOption   == {<<TRUE>>}

\* Every list of at most two questions, repetitions included.
MCQuestionLists == UNION { [1..n -> Creates] : n \in 0..2 }
MCSingletons    == [1..1 -> Creates]

SymmetricBank   == Permutations(Creates)
SymmetricAssign == Permutations(Assembles) \union Permutations(Assigns)
=============================================================================
