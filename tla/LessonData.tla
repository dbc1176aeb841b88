------------------------------ MODULE LessonData ------------------------------
(***************************************************************************)
(* The rows that completing, moving and paying for a lesson touch: lessons,*)
(* enrollments, student balances and the transactions ledger               *)
(* (prisma/lesson.prisma, prisma/payment.prisma). Money is an integer      *)
(* number of the smallest unit; times, notes, URLs and the teacher's rate  *)
(* are left out, because the code never reads them to decide anything here.*)
(***************************************************************************)
EXTENDS Integers, Sequences

CONSTANTS
    Lesson,       \* lesson ids, those of lessons not created yet included
    Enrollment,   \* teacher-student pairings with a tariff
    Teacher,
    Student,
    TeacherOf,    \* the enrollment's teacher
    StudentOf,    \* the enrollment's student
    Booked,       \* lessons that exist at the start, each with its enrollment
    Price,        \* lesson prices, zero (a trial lesson) included
    Amount,       \* top-up amounts
    MaxBalance,   \* the largest value of the balance column, Decimal(12,2)
    None

ASSUME DataAssumption ==
    /\ TeacherOf \in [Enrollment -> Teacher]
    /\ StudentOf \in [Enrollment -> Student]
    /\ Booked \in [Lesson -> Enrollment \cup {None}]
    /\ Price \subseteq Nat
    /\ Amount \subseteq Nat \ {0}
    /\ MaxBalance \in Nat
    /\ None \notin Lesson \cup Enrollment \cup Price

\* "NONE": no row with this id, either not created yet or deleted; an id
\* (a cuid) is never used twice, so a deleted one is kept apart.
Status == {"NONE", "SCHEDULED", "COMPLETED", "CANCELED", "RESCHEDULED", "DELETED"}

LessonRow == [status: Status, enrollment: Enrollment \cup {None},
              price: Price \cup {None}, rescheduledTo: Lesson \cup {None}]

NoLesson(status) ==
    [status |-> status, enrollment |-> None, price |-> None, rescheduledTo |-> None]

Scheduled(enrollment, price) ==
    [status |-> "SCHEDULED", enrollment |-> enrollment, price |-> price,
     rescheduledTo |-> None]

Exists(row) == row.status \notin {"NONE", "DELETED"}

\* A row of "transactions" of one student.
Entry == [type: {"LESSON_CHARGE", "MANUAL_TOPUP"}, lesson: Lesson \cup {None},
          amount: Int, balanceBefore: Int, balanceAfter: Int]

Charge(l, price, before) ==
    [type |-> "LESSON_CHARGE", lesson |-> l, amount |-> -price,
     balanceBefore |-> before, balanceAfter |-> before - price]

TopUpEntry(amount, before) ==
    [type |-> "MANUAL_TOPUP", lesson |-> None, amount |-> amount,
     balanceBefore |-> before, balanceAfter |-> before + amount]

\* Decimal(12,2) holds both signs; a value outside is rejected by the database.
Fits(b) == b \in -MaxBalance .. MaxBalance
===============================================================================
