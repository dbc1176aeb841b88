--------------------------- MODULE MCLessonLedger ---------------------------
(***************************************************************************)
(* Small instances of LessonLedger. Two requests are in flight at a time,  *)
(* against lessons of one student; lessons and enrollments come from the   *)
(* cfg. e1 and e2 are taught by different teachers, so that completing     *)
(* their lessons contends for the student's row only.                      *)
(***************************************************************************)
EXTENDS LessonLedger, TLC

CONSTANTS l1, l2, e1, e2, t1, t2, s1

MCTeacherOf == [e \in Enrollment |-> IF e = e1 THEN t1 ELSE t2]
MCStudentOf == [e \in Enrollment |-> s1]

\* l1 of e1 and l2 of e2 are scheduled.
TwoBooked == [l \in Lesson |-> IF l = l1 THEN e1 ELSE e2]

\* Only l1 is scheduled: the other ids are for lessons that replace it.
OneBooked == [l \in Lesson |-> IF l = l1 THEN e1 ELSE None]

Symmetry == Permutations(Request)
===============================================================================
