CONSTANTS
    LessonA = la
    TeacherA = ta
    Lesson = {la}
    Teacher = {ta}
    TeacherOf <- OwnTeacher
    Rate <- Rates
    BonusAmount = 5
    Period <- Periods
    Windows = {1, 2}
    MaxTime = 3
    Slot = {0, 1, 2}
    Request = {r1, r2}
    None = None
SYMMETRY Symmetry
SPECIFICATION Spec
INVARIANTS
    TypeOK
    PayoutsDisjoint
    BonusesPaid
PROPERTIES
    BonusWindowsClosed
    SavesWhatWasShown
    PayoutsFinal
CHECK_DEADLOCK FALSE
