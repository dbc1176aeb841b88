------------------------ MODULE MCRescheduleRequests ------------------------
(***************************************************************************)
(* A small instance of RescheduleRequests: lessons of one teacher and one  *)
(* student. One Telegram account is used by both.                          *)
(***************************************************************************)
EXTENDS RescheduleRequests, TLC

CONSTANTS teacher, student, manager

MCTeacherOf == [l \in Lesson |-> teacher]
MCStudentOf == [l \in Lesson |-> student]
Accounts == {{teacher, student}, {student}}

Symmetry == Permutations(Call) \cup Permutations(Request)
=============================================================================
