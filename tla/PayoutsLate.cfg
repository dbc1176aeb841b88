CONSTANTS
    LessonA = la
    TeacherA = ta
    Lesson = {la}
    Teacher = {ta}
    TeacherOf <- OwnTeacher
    Rate <- Rates
    BonusAmount = 5
    Period <- First
    Windows = {1}
    MaxTime = 2
    Slot = {0}
    Request = {r1}
    None = None
SYMMETRY Symmetry
SPECIFICATION Spec
INVARIANT RatesPaid
CHECK_DEADLOCK FALSE
