SPECIFICATION Spec
SYMMETRY Symmetry
CONSTANTS
    None = None
    Enrollment = {e1}
    Template = {t1}
    EnrollmentOf <- MCEnrollmentOf
    Slot = {monday}
    Zone = {home}
    DueAt <- EveryInstant
    Now = 1
    Window <- WholeTime
    Ahead = {1}
    Lesson = {l1, l2}
    Request = {r1, r2}
    MaxEdits = 3
    Patch <- Patches
INVARIANTS
    TypeOK
PROPERTIES
    CreatedWhileEnrolled
    GenerationIsComplete
CHECK_DEADLOCK FALSE
