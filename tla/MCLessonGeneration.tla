-------------------------- MODULE MCLessonGeneration --------------------------
\* A small instance of LessonGeneration: a weekly slot that falls due twice.
EXTENDS LessonGeneration, TLC

MCEnrollmentOf == [t \in Template |-> CHOOSE e \in Enrollment : TRUE]

EveryInstant == [p \in Slot \X Zone |-> Time]

\* New slots alone and with isActive; isActive alone.
Patches == {[slots |-> Slot, active |-> {}, zone |-> {}],
            [slots |-> Slot, active |-> {TRUE}, zone |-> Zone],
            [slots |-> {}, active |-> {TRUE}, zone |-> {}],
            [slots |-> {}, active |-> {FALSE}, zone |-> {}]}

WholeTime == {<<0, Now>>}

Symmetry == Permutations(Request) \cup Permutations(Lesson)

===============================================================================
