SPECIFICATION FairSpec
CONSTANTS
    None = None
    l1 = l1
    l2 = l2
    e1 = e1
    e2 = e2
    t1 = t1
    t2 = t2
    s1 = s1
    Request = {r1, r2}
    Lesson = {l1, l2, l3}
    Enrollment = {e1}
    Teacher = {t1, t2}
    Student = {s1}
    TeacherOf <- MCTeacherOf
    StudentOf <- MCStudentOf
    Booked <- OneBooked
    Price = {1}
    Amount = {1}
    MaxBalance = 1
    MaxEntries = 1
INVARIANTS
    RescheduleLinks
PROPERTIES
    DecisionsStand
    ImplementsBook
    RequestsEnd
