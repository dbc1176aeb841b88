SPECIFICATION Spec
SYMMETRY Symmetry
CONSTANTS
    None = None
    l1 = l1
    l2 = l2
    e1 = e1
    e2 = e2
    t1 = t1
    t2 = t2
    s1 = s1
    Request = {r1, r2}
    Lesson = {l1, l2}
    Enrollment = {e1, e2}
    Teacher = {t1, t2}
    Student = {s1}
    TeacherOf <- MCTeacherOf
    StudentOf <- MCStudentOf
    Booked <- TwoBooked
    Price = {0, 1}
    Amount = {1}
    MaxBalance = 1
    MaxEntries = 2
INVARIANTS
    TypeOK
    LedgerChain
    ChargedOnce
    MoneyConserved
