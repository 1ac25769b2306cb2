--------------------------- MODULE PublishedExams ---------------------------
(***************************************************************************)
(* What the exam catalog promises to submission and grading: an exam       *)
(* appears all at once with the rows grading will join for it, those rows  *)
(* never change, and a user is assigned an exam at most once.  ExamCatalog *)
(* implements this; the actions CreateExam and AssignExam of               *)
(* ExamSubmission assume it.                                               *)
(***************************************************************************)
CONSTANTS
  Exams, Assignments,   \* ids
  Contents,             \* sets of rows an exam may consist of
  Students,             \* the users an exam may be assigned to
  None

VARIABLES
  exam,         \* exam[e]: the rows of exam e, or None
  assignment    \* assignment[a]: [exam, user], or None

vars == <<exam, assignment>>

Init ==
  /\ exam = [e \in Exams |-> None]
  /\ assignment = [a \in Assignments |-> None]

Publish(e) ==
  /\ exam[e] = None
  /\ \E rows \in Contents : exam' = [exam EXCEPT ![e] = rows]
  /\ UNCHANGED assignment

Assign(a) ==
  /\ assignment[a] = None
  /\ \E e \in Exams, u \in Students :
       /\ exam[e] # None
       /\ \A b \in Assignments : assignment[b] # [exam |-> e, user |-> u]
       /\ assignment' = [assignment EXCEPT ![a] = [exam |-> e, user |-> u]]
  /\ UNCHANGED exam

Next == (\E e \in Exams : Publish(e)) \/ (\E a \in Assignments : Assign(a))

Spec == Init /\ [][Next]_vars
=============================================================================
