SPECIFICATION Spec

CONSTANTS
    None = None
    teacher = teacher
    student = student
    manager = manager
    Lesson = {l1, l2}
    Booked = {l1}
    Request = {q1, q2}
    User = {teacher, student, manager}
    Staff = {manager}
    Account <- Accounts
    TeacherOf <- MCTeacherOf
    StudentOf <- MCStudentOf
    Call = {c1, c2}
SYMMETRY Symmetry
INVARIANTS
    TypeOK
    ApprovedOnce
    RequestsHaveLessons
    DecidedByOtherSide
    OnlyRemovalsDeadlock
PROPERTIES
    ResolutionsStand
