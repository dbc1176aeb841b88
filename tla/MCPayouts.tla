------------------------------ MODULE MCPayouts ------------------------------
\* Small instances of Payouts: one teacher with one lesson.
EXTENDS Payouts, TLC

CONSTANTS LessonA, TeacherA

OwnTeacher == [l \in Lesson |-> TeacherA]

Rates == [l \in Lesson |-> 1]

\* Two neighbouring periods and one that overlaps both.
Periods == {<<0, 1>>, <<1, 2>>, <<0, 2>>}

\* A single period.
First == {<<0, 1>>}

Symmetry == Permutations(Request)

===============================================================================
