-------------------------- MODULE LessonLedgerProofs --------------------------
(***************************************************************************)
(* Proofs about LessonLedger for any number of requests, lessons, students *)
(* and prices. The inductive invariant says who holds which row while what *)
(* it has read is still true.                                              *)
(***************************************************************************)
EXTENDS LessonLedger, FiniteSums

\* A lesson that exists belongs to an enrollment, and only a moved one names
\* its replacement.
RowsOK ==
    \A l \in Lesson :
      /\ Exists(lesson[l]) => lesson[l].enrollment \in Enrollment
      /\ lesson[l].rescheduledTo # None => lesson[l].status = "RESCHEDULED"

\* A request's label and fields belong to its operation.
RequestOK(r) ==
    /\ pc[r] = "idle" => req[r].op = "none"
    /\ pc[r] \in {"lockTeacher", "readLesson"} => req[r].op = "complete"
    /\ pc[r] \in {"lockStudent", "readBalance"} => req[r].op \in {"complete", "topUp"}
    /\ pc[r] = "takeLesson" => req[r].op \in LessonOp
    /\ pc[r] \in {"shareTeacher", "shareStudent"} => req[r].op = "reschedule"
    /\ pc[r] = "unlink" => req[r].op = "remove"
    /\ req[r].op \in LessonOp => req[r].lesson \in Lesson
    /\ req[r].op = "complete" => req[r].teacher \in Teacher /\ req[r].student \in Student
    /\ req[r].op = "complete" /\ pc[r] \in {"takeLesson", "readBalance", "commit"}
         => req[r].amount \in Price
    /\ req[r].op = "update" => req[r].amount \in Price
    /\ req[r].op = "topUp" => req[r].amount \in Amount /\ req[r].student \in Student

\* No row is locked by two requests, unless both share it.
LocksExclusive ==
    \A r, q \in Request : r # q => held[r] \cap (held[q] \cup shared[q]) = {}

\* After its conditional UPDATE a request holds the lesson, and the lesson
\* still has a status the request accepts.
Taken(r) == /\ pc[r] \in {"readBalance", "shareTeacher", "shareStudent", "unlink", "commit"}
            /\ req[r].op \in LessonOp

LessonTaken ==
    \A r \in Request : Taken(r) =>
      /\ <<"lesson", req[r].lesson>> \in held[r]
      /\ lesson[req[r].lesson].status \in Takes(req[r].op)

\* A request about to remove a lesson holds the lesson that one replaced.
LinkTaken ==
    \A r \in Request : pc[r] = "commit" /\ req[r].op = "remove" =>
      \A m \in Replaced(req[r].lesson) : <<"lesson", m>> \in held[r]

\* From the lock on the student's profile to the end of the request, and what
\* was read under it.
StudentTaken(r) ==
    \/ /\ req[r].op = "complete"
       /\ pc[r] \in {"readLesson", "takeLesson", "readBalance", "commit"}
    \/ /\ req[r].op = "topUp"
       /\ pc[r] \in {"readBalance", "commit"}

WritesBalance(r) ==
    /\ pc[r] = "commit"
    /\ req[r].op = "topUp" \/ (req[r].op = "complete" /\ req[r].amount # 0)

BalanceFresh ==
    \A r \in Request :
      /\ StudentTaken(r) => <<"student", req[r].student>> \in held[r]
      /\ WritesBalance(r) => req[r].balance = balance[req[r].student]

IInv ==
    /\ TypeOK
    /\ RowsOK
    /\ \A r \in Request : RequestOK(r)
    /\ LocksExclusive
    /\ LessonTaken
    /\ LinkTaken
    /\ BalanceFresh
    /\ LedgerChain

-------------------------------------------------------------------------------
USE DataAssumption

\* The initial tables satisfy the invariant: nobody has asked for anything.
LEMMA InitInv == Init => IInv
<1> SUFFICES ASSUME Init PROVE IInv
    OBVIOUS
<1> USE DEF Init, Books!Init, Books!NoLesson, Books!Scheduled
<1>1. TypeOK
  BY DEF TypeOK, Label, Asked, LessonRow, Status, NoLesson, Scheduled, NoRequest, Fits
<1>2. RowsOK
  <2> PICK price \in [Lesson -> Price \cup {None}] :
        lesson = [l \in Lesson |-> IF Booked[l] = None THEN NoLesson("NONE")
                                  ELSE Scheduled(Booked[l], price[l])]
    BY DEF NoLesson, Scheduled
  <2> SUFFICES ASSUME NEW l \in Lesson
               PROVE  /\ Exists(lesson[l]) => lesson[l].enrollment \in Enrollment
                      /\ lesson[l].rescheduledTo = None
      BY DEF RowsOK
  <2>1. CASE Booked[l] = None
    BY <2>1 DEF Exists, NoLesson
  <2>2. CASE Booked[l] # None
    BY <2>2 DEF Exists, Scheduled
  <2> QED
    BY <2>1, <2>2
<1>3. \A r \in Request : RequestOK(r)
  BY DEF RequestOK, NoRequest, LessonOp
<1>4. LocksExclusive /\ LessonTaken /\ LinkTaken
  BY DEF LocksExclusive, LessonTaken, Taken, LinkTaken
<1>5. BalanceFresh
  BY DEF BalanceFresh, StudentTaken, WritesBalance, NoRequest
<1>6. LedgerChain
  BY DEF LedgerChain
<1> QED
  BY <1>1, <1>2, <1>3, <1>4, <1>5, <1>6 DEF IInv

\* complete begins: it has only looked up whose profiles to lock.
LEMMA BeginCompleteInv ==
  ASSUME IInv, NEW r \in Request, NEW l \in Lesson, BeginComplete(r, l)
  PROVE  IInv'
<1> USE DEF IInv, BeginComplete, bookVars, Goto
<1>1. TypeOK'
  BY DEF TypeOK, Label, Asked, NoRequest, LessonOp, RowsOK
<1>2. RowsOK'
  BY DEF RowsOK
<1>3. ASSUME NEW q \in Request PROVE RequestOK(q)'
  BY DEF RequestOK, NoRequest, LessonOp, TypeOK, RowsOK
<1>4. LocksExclusive'
  BY DEF LocksExclusive
<1>5. LessonTaken'
  BY DEF LessonTaken, Taken, TypeOK, NoRequest
<1>6. LinkTaken'
  BY DEF LinkTaken, Replaced, TypeOK, NoRequest
<1>7. BalanceFresh'
  BY DEF BalanceFresh, StudentTaken, WritesBalance, TypeOK, NoRequest
<1>8. LedgerChain'
  BY DEF LedgerChain
<1> QED
  BY <1>1, <1>2, <1>3, <1>4, <1>5, <1>6, <1>7, <1>8

\* Any other operation on a lesson begins: it holds nothing yet.
LEMMA BeginLessonOpInv ==
  ASSUME IInv, NEW r \in Request, NEW op \in LessonOp, NEW l \in Lesson, NEW amount \in Price \cup {None}, BeginLessonOp(r, op, l, amount)
  PROVE  IInv'
<1> USE DEF IInv, BeginLessonOp, bookVars, Goto
<1>1. TypeOK'
  BY DEF TypeOK, Label, Asked, RequestOK, RowsOK, NoRequest, LessonOp
<1>2. RowsOK'
  BY DEF RowsOK, NoRequest, LessonOp
<1>3. ASSUME NEW q \in Request PROVE RequestOK(q)'
  BY DEF RequestOK, LessonOp, TypeOK, Label, Asked, NoRequest
<1>4. LocksExclusive'
  BY DEF LocksExclusive, TypeOK, Label, Asked, NoRequest, LessonOp
<1>5. LessonTaken'
  BY DEF LessonTaken, Taken, TypeOK, Label, Asked, NoRequest, LessonOp
<1>6. LinkTaken'
  BY DEF LinkTaken, Replaced, TypeOK, Label, Asked, NoRequest, LessonOp
<1>7. BalanceFresh'
  BY DEF BalanceFresh, StudentTaken, WritesBalance, TypeOK, Label, Asked, NoRequest, LessonOp
<1>8. LedgerChain'
  BY DEF LedgerChain, NoRequest, LessonOp
<1> QED
  BY <1>1, <1>2, <1>3, <1>4, <1>5, <1>6, <1>7, <1>8

\* A top-up begins: it holds nothing yet.
LEMMA BeginTopUpInv ==
  ASSUME IInv, NEW r \in Request, NEW s \in Student, NEW amount \in Amount, BeginTopUp(r, s, amount)
  PROVE  IInv'
<1> USE DEF IInv, BeginTopUp, bookVars, Goto
<1>1. TypeOK'
  BY DEF TypeOK, Label, Asked, RequestOK, RowsOK, NoRequest
<1>2. RowsOK'
  BY DEF RowsOK, NoRequest
<1>3. ASSUME NEW q \in Request PROVE RequestOK(q)'
  BY DEF RequestOK, LessonOp, TypeOK, Label, Asked, NoRequest
<1>4. LocksExclusive'
  BY DEF LocksExclusive, TypeOK, Label, Asked, NoRequest
<1>5. LessonTaken'
  BY DEF LessonTaken, Taken, TypeOK, Label, Asked, NoRequest
<1>6. LinkTaken'
  BY DEF LinkTaken, Replaced, TypeOK, Label, Asked, NoRequest
<1>7. BalanceFresh'
  BY DEF BalanceFresh, StudentTaken, WritesBalance, TypeOK, Label, Asked, NoRequest
<1>8. LedgerChain'
  BY DEF LedgerChain, NoRequest
<1> QED
  BY <1>1, <1>2, <1>3, <1>4, <1>5, <1>6, <1>7, <1>8

\* Taking a row nobody else has, or sharing one nobody holds, keeps rows exclusive.
LEMMA LockExclusive ==
  ASSUME TypeOK, LocksExclusive, NEW r \in Request, NEW row, Lock(r, row)
  PROVE  LocksExclusive'
<1> SUFFICES ASSUME NEW a \in Request, NEW b \in Request, a # b, NEW x,
                    x \in held'[a], x \in held'[b] \cup shared'[b]
             PROVE  FALSE
    BY DEF LocksExclusive
<1>1. CASE x \in held[a] /\ x \in held[b] \cup shared[b]
  BY <1>1 DEF LocksExclusive
<1>2. CASE x \notin held[a]
  BY <1>2 DEF Lock, Lockable, TypeOK
<1>3. CASE x \notin held[b] \cup shared[b]
  BY <1>3 DEF Lock, Lockable, TypeOK
<1> QED
  BY <1>1, <1>2, <1>3

\* Sharing a row nobody has exclusively keeps rows exclusive.
LEMMA ShareExclusive ==
  ASSUME TypeOK, LocksExclusive, NEW r \in Request, NEW row, Share(r, row)
  PROVE  LocksExclusive'
<1> SUFFICES ASSUME NEW a \in Request, NEW b \in Request, a # b, NEW x,
                    x \in held'[a], x \in held'[b] \cup shared'[b]
             PROVE  FALSE
    BY DEF LocksExclusive
<1>1. CASE x \in held[b] \cup shared[b]
  BY <1>1 DEF LocksExclusive, Share
<1>2. CASE x \notin held[b] \cup shared[b]
  BY <1>2 DEF Share, Sharable, TypeOK
<1> QED
  BY <1>1, <1>2

\* Noting a lesson, a price or a balance in a request keeps the request typed.
LEMMA AskedUpdate ==
  ASSUME NEW a \in Asked
  PROVE  /\ \A amount \in Price : [a EXCEPT !.amount = amount] \in Asked
         /\ \A b \in Int : [a EXCEPT !.balance = b] \in Asked
BY DEF Asked

\* complete waits for the teacher's profile and takes it.
LEMMA LockTeacherInv ==
  ASSUME IInv, NEW r \in Request, LockTeacher(r)
  PROVE  IInv'
<1> USE DEF IInv, LockTeacher, bookVars, Goto
<1>1. TypeOK'
  BY DEF TypeOK, Label, Asked, RequestOK, RowsOK, Lock, Row
<1>2. RowsOK'
  BY DEF RowsOK, Lock, Row, RequestOK
<1>3. ASSUME NEW q \in Request PROVE RequestOK(q)'
  BY DEF RequestOK, LessonOp, TypeOK, Label, Asked, Lock, Row
<1>4. LocksExclusive'
  BY LockExclusive
<1>5. LessonTaken'
  BY DEF LessonTaken, Taken, TypeOK, Label, Asked, Lock, Row, RequestOK
<1>6. LinkTaken'
  BY DEF LinkTaken, Replaced, TypeOK, Label, Asked, Lock, Row, RequestOK
<1>7. BalanceFresh'
  BY DEF BalanceFresh, StudentTaken, WritesBalance, TypeOK, Label, Asked, Lock, Row, RequestOK
<1>8. LedgerChain'
  BY DEF LedgerChain, Lock, Row, RequestOK
<1> QED
  BY <1>1, <1>2, <1>3, <1>4, <1>5, <1>6, <1>7, <1>8

\* Locking the student keeps the invariant: its balance has not been read yet.
LEMMA LockStudentInv ==
  ASSUME IInv, NEW r \in Request, LockStudent(r)
  PROVE  IInv'
<1> USE DEF IInv, LockStudent, bookVars, Goto
<1>1. TypeOK'
  BY DEF TypeOK, Label, Asked, RequestOK, RowsOK, Lock, Row, LessonOp
<1>2. RowsOK'
  BY DEF RowsOK, Lock, Row, RequestOK, LessonOp
<1>3. ASSUME NEW q \in Request PROVE RequestOK(q)'
  BY DEF RequestOK, LessonOp, TypeOK, Label, Asked, Lock, Row
<1>4. LocksExclusive'
  BY LockExclusive
<1>5. LessonTaken'
  BY DEF LessonTaken, Taken, TypeOK, Label, Asked, Lock, Row, RequestOK, LessonOp
<1>6. LinkTaken'
  BY DEF LinkTaken, Replaced, TypeOK, Label, Asked, Lock, Row, RequestOK, LessonOp
<1>7. BalanceFresh'
  BY DEF BalanceFresh, StudentTaken, WritesBalance, TypeOK, Label, Asked, Lock, Row, RequestOK, LessonOp
<1>8. LedgerChain'
  BY DEF LedgerChain, Lock, Row, RequestOK, LessonOp
<1> QED
  BY <1>1, <1>2, <1>3, <1>4, <1>5, <1>6, <1>7, <1>8

\* complete reads the lesson without taking it.
LEMMA ReadLessonInv ==
  ASSUME IInv, NEW r \in Request, ReadLesson(r)
  PROVE  IInv'
<1> USE DEF IInv, ReadLesson, bookVars, Goto
<1>a. /\ req[r].lesson \in Lesson
      /\ PriceOf(req[r].lesson) \in Price
  BY DEF TypeOK, LessonRow, Status, RowsOK, RequestOK, LessonOp, PriceOf, Exists
<1>b. [req[r] EXCEPT !.amount = PriceOf(req[r].lesson)] \in Asked
  BY <1>a, AskedUpdate DEF TypeOK
<1>1. TypeOK'
  BY <1>b DEF TypeOK, Label, Asked, RequestOK, RowsOK
<1>2. RowsOK'
  BY DEF RowsOK
<1>3. ASSUME NEW q \in Request PROVE RequestOK(q)'
  BY <1>a DEF RequestOK, LessonOp, TypeOK, Label, Asked
<1>4. LocksExclusive'
  BY DEF LocksExclusive, TypeOK, Label, Asked
<1>5. LessonTaken'
  BY DEF LessonTaken, Taken, TypeOK, Label, Asked
<1>6. LinkTaken'
  BY DEF LinkTaken, Replaced, TypeOK, Label, Asked
<1>7. BalanceFresh'
  BY DEF BalanceFresh, StudentTaken, WritesBalance, TypeOK, Label, Asked
<1>8. LedgerChain'
  BY DEF LedgerChain
<1> QED
  BY <1>1, <1>2, <1>3, <1>4, <1>5, <1>6, <1>7, <1>8

\* The conditional UPDATE gives its request the lesson, in a status it may take.
LEMMA TakeLessonInv ==
  ASSUME IInv, NEW r \in Request, TakeLesson(r)
  PROVE  IInv'
<1> USE DEF IInv, TakeLesson, bookVars, Goto
<1>1. TypeOK'
  BY DEF TypeOK, Label, Asked, RequestOK, RowsOK, Lock, Row, AfterTake, Takes, LessonOp
<1>2. RowsOK'
  BY DEF RowsOK, Lock, Row, AfterTake, Takes, RequestOK, LessonOp
<1>3. ASSUME NEW q \in Request PROVE RequestOK(q)'
  BY DEF RequestOK, LessonOp, TypeOK, Label, Asked, Lock, Row, AfterTake, Takes
<1>4. LocksExclusive'
  BY LockExclusive
<1>5. LessonTaken'
  BY DEF LessonTaken, Taken, TypeOK, Label, Asked, Lock, Row, AfterTake, Takes, RequestOK, LessonOp
<1>6. LinkTaken'
  BY DEF LinkTaken, Replaced, TypeOK, Label, Asked, Lock, Row, AfterTake, Takes, RequestOK, LessonOp
<1>7. BalanceFresh'
  BY DEF BalanceFresh, StudentTaken, WritesBalance, TypeOK, Label, Asked, Lock, Row, AfterTake, Takes, RequestOK, LessonOp
<1>8. LedgerChain'
  BY DEF LedgerChain, Lock, Row, AfterTake, Takes, RequestOK, LessonOp
<1> QED
  BY <1>1, <1>2, <1>3, <1>4, <1>5, <1>6, <1>7, <1>8

\* What is read of a balance under the student's lock is what it is.
LEMMA ReadBalanceInv ==
  ASSUME IInv, NEW r \in Request, ReadBalance(r)
  PROVE  IInv'
<1> USE DEF IInv, ReadBalance, bookVars, Goto
<1>a. req[r].student \in Student
  BY DEF TypeOK, RequestOK, LessonOp
<1>b. [req[r] EXCEPT !.balance = balance[req[r].student]] \in Asked
  BY <1>a, AskedUpdate DEF TypeOK
<1>c. ASSUME NEW q \in Request
      PROVE  /\ Taken(q)' => Taken(q)
             /\ req'[q].op = req[q].op /\ req'[q].lesson = req[q].lesson
             /\ req'[q].student = req[q].student
             /\ q # r => req'[q] = req[q] /\ pc'[q] = pc[q]
             /\ StudentTaken(q)' => StudentTaken(q)
  BY DEF Taken, StudentTaken, TypeOK, Label, Asked, RequestOK
<1>1. TypeOK'
  BY <1>b DEF TypeOK, Label, Asked, RequestOK, RowsOK, LessonOp
<1>2. RowsOK'
  BY DEF RowsOK, RequestOK, LessonOp
<1>3. ASSUME NEW q \in Request PROVE RequestOK(q)'
  BY DEF RequestOK, LessonOp, TypeOK, Label, Asked
<1>4. LocksExclusive'
  BY DEF LocksExclusive, TypeOK, Label, Asked, RequestOK, LessonOp
<1>5. LessonTaken'
  BY <1>c DEF LessonTaken, Taken, TypeOK, Label, Asked, RequestOK, LessonOp
<1>6. LinkTaken'
  BY DEF LinkTaken, Replaced, TypeOK, Label, Asked, RequestOK, LessonOp
<1>7. BalanceFresh'
  <2>1. ASSUME NEW q \in Request, StudentTaken(q)'
        PROVE  <<"student", req'[q].student>> \in held'[q]
    BY <1>c, <2>1 DEF BalanceFresh
  <2>2. ASSUME NEW q \in Request, WritesBalance(q)', q # r
        PROVE  req'[q].balance = balance'[req'[q].student]
    <3>1. req'[q] = req[q] /\ pc'[q] = pc[q]
      BY <1>c, <2>2
    <3>2. WritesBalance(q)
      BY <2>2, <3>1 DEF WritesBalance
    <3> QED
      BY <3>1, <3>2 DEF BalanceFresh
  <2>3. req'[r].balance = balance'[req'[r].student]
    BY DEF TypeOK, Label, Asked
  <2> QED
    BY <2>1, <2>2, <2>3 DEF BalanceFresh
<1>8. LedgerChain'
  BY DEF LedgerChain, RequestOK, LessonOp
<1> QED
  BY <1>1, <1>2, <1>3, <1>4, <1>5, <1>6, <1>7, <1>8

\* The foreign key of a new lesson shares its teacher's row.
LEMMA ShareTeacherInv ==
  ASSUME IInv, NEW r \in Request, ShareTeacher(r)
  PROVE  IInv'
<1> USE DEF IInv, ShareTeacher, bookVars, Goto
<1>a. /\ req[r].lesson \in Lesson
      /\ lesson[req[r].lesson].enrollment \in Enrollment
  BY DEF RowsOK, RequestOK, LessonOp, LessonTaken, Taken, Takes, Exists
<1>1. TypeOK'
  BY <1>a DEF TypeOK, Label, Asked, RequestOK, RowsOK, Share, Row
<1>2. RowsOK'
  BY DEF RowsOK, Share, Row, RequestOK
<1>3. ASSUME NEW q \in Request PROVE RequestOK(q)'
  BY DEF RequestOK, LessonOp, TypeOK, Label, Asked, Share, Row
<1>4. LocksExclusive'
  BY ShareExclusive
<1>5. LessonTaken'
  BY DEF LessonTaken, Taken, TypeOK, Label, Asked, Share, Row, RequestOK
<1>6. LinkTaken'
  BY DEF LinkTaken, Replaced, TypeOK, Label, Asked, Share, Row, RequestOK
<1>7. BalanceFresh'
  BY DEF BalanceFresh, StudentTaken, WritesBalance, TypeOK, Label, Asked, Share, Row, RequestOK
<1>8. LedgerChain'
  BY DEF LedgerChain, Share, Row, RequestOK
<1> QED
  BY <1>1, <1>2, <1>3, <1>4, <1>5, <1>6, <1>7, <1>8

\* The foreign key of a new lesson shares its student's row.
LEMMA ShareStudentInv ==
  ASSUME IInv, NEW r \in Request, ShareStudent(r)
  PROVE  IInv'
<1> USE DEF IInv, ShareStudent, bookVars, Goto
<1>a. /\ req[r].lesson \in Lesson
      /\ lesson[req[r].lesson].enrollment \in Enrollment
  BY DEF RowsOK, RequestOK, LessonOp, LessonTaken, Taken, Takes, Exists
<1>1. TypeOK'
  BY <1>a DEF TypeOK, Label, Asked, RequestOK, RowsOK, Share, Row
<1>2. RowsOK'
  BY DEF RowsOK, Share, Row, RequestOK
<1>3. ASSUME NEW q \in Request PROVE RequestOK(q)'
  BY DEF RequestOK, LessonOp, TypeOK, Label, Asked, Share, Row
<1>4. LocksExclusive'
  BY ShareExclusive
<1>5. LessonTaken'
  BY DEF LessonTaken, Taken, TypeOK, Label, Asked, Share, Row, RequestOK
<1>6. LinkTaken'
  BY DEF LinkTaken, Replaced, TypeOK, Label, Asked, Share, Row, RequestOK
<1>7. BalanceFresh'
  BY DEF BalanceFresh, StudentTaken, WritesBalance, TypeOK, Label, Asked, Share, Row, RequestOK
<1>8. LedgerChain'
  BY DEF LedgerChain, Share, Row, RequestOK
<1> QED
  BY <1>1, <1>2, <1>3, <1>4, <1>5, <1>6, <1>7, <1>8

\* remove takes the lessons that name the one to be removed.
LEMMA UnlinkInv ==
  ASSUME IInv, NEW r \in Request, Unlink(r)
  PROVE  IInv'
<1> USE DEF IInv, Unlink, bookVars, Goto
<1>a. ASSUME NEW q \in Request
      PROVE  (Taken(q)' => Taken(q)) /\ held[q] \subseteq held'[q]
  BY DEF Taken, TypeOK, RequestOK
<1>1. TypeOK'
  BY DEF TypeOK, Label, Asked, RequestOK, RowsOK, Lockable, Row, Replaced
<1>2. RowsOK'
  BY DEF RowsOK, Lockable, Row, Replaced, RequestOK
<1>3. ASSUME NEW q \in Request PROVE RequestOK(q)'
  BY DEF RequestOK, LessonOp, TypeOK, Label, Asked, Lockable, Row, Replaced
<1>4. LocksExclusive'
  BY DEF LocksExclusive, TypeOK, Label, Asked, Lockable, Row, Replaced, RequestOK
<1>5. LessonTaken'
  BY <1>a DEF LessonTaken, Taken, TypeOK, Label, Asked, Lockable, Row, Replaced, RequestOK
<1>6. LinkTaken'
  BY DEF LinkTaken, Replaced, TypeOK, Label, Asked, Lockable, Row, RequestOK
<1>7. BalanceFresh'
  BY DEF BalanceFresh, StudentTaken, WritesBalance, TypeOK, Label, Asked, Lockable, Row, Replaced, RequestOK
<1>8. LedgerChain'
  BY DEF LedgerChain, Lockable, Row, Replaced, RequestOK
<1> QED
  BY <1>1, <1>2, <1>3, <1>4, <1>5, <1>6, <1>7, <1>8

-------------------------------------------------------------------------------
\* Ending: the other requests keep what they hold, and the one that ends holds nothing.

\* The request that ends is idle and holds nothing; the others are as they were.
LEMMA EndFrame ==
  ASSUME IInv, NEW r \in Request, End(r)
  PROVE  /\ pc' \in [Request -> Label] /\ req' \in [Request -> Asked]
         /\ held' \in [Request -> SUBSET Row] /\ shared' \in [Request -> SUBSET Row]
         /\ \A q \in Request : RequestOK(q)'
         /\ LocksExclusive'
         /\ pc'[r] = "idle" /\ req'[r].op = "none"
         /\ \A q \in Request : q # r =>
              pc'[q] = pc[q] /\ req'[q] = req[q] /\ held'[q] = held[q] /\ shared'[q] = shared[q]
<1> USE DEF IInv, End, Goto
<1>1. /\ pc' \in [Request -> Label] /\ req' \in [Request -> Asked]
      /\ held' \in [Request -> SUBSET Row] /\ shared' \in [Request -> SUBSET Row]
  BY DEF TypeOK, Label, Asked, NoRequest, Label
<1>2. /\ pc'[r] = "idle" /\ req'[r].op = "none" /\ held'[r] = {} /\ shared'[r] = {}
      /\ req'[r] = NoRequest
      /\ \A q \in Request : q # r =>
           pc'[q] = pc[q] /\ req'[q] = req[q] /\ held'[q] = held[q] /\ shared'[q] = shared[q]
  BY DEF TypeOK, NoRequest
<1>3. ASSUME NEW q \in Request PROVE RequestOK(q)'
  <2>1. CASE q = r
    BY <1>2, <2>1 DEF RequestOK, NoRequest, LessonOp
  <2>2. CASE q # r
    BY <1>2, <2>2 DEF RequestOK
  <2> QED
    BY <2>1, <2>2
<1>4. LocksExclusive'
  BY <1>2 DEF LocksExclusive
<1> QED
  BY <1>1, <1>2, <1>3, <1>4

\* Nobody else loses its lesson when the ending request wrote only lessons that
\* it held itself or that did not exist.
LEMMA EndLessons ==
  ASSUME IInv, NEW r \in Request, End(r),
         \A l \in Lesson : <<"lesson", l>> \notin held[r] /\ lesson[l].status # "NONE"
                           => lesson'[l].status = lesson[l].status
  PROVE  LessonTaken'
<1> SUFFICES ASSUME NEW q \in Request, Taken(q)'
             PROVE  /\ <<"lesson", req'[q].lesson>> \in held'[q]
                    /\ lesson'[req'[q].lesson].status \in Takes(req'[q].op)
    BY DEF LessonTaken
<1>1. q # r
  BY EndFrame DEF Taken
<1>2. pc'[q] = pc[q] /\ req'[q] = req[q] /\ held'[q] = held[q]
  BY EndFrame, <1>1
<1>3. Taken(q)
  BY <1>2 DEF Taken
<1>4. /\ <<"lesson", req[q].lesson>> \in held[q]
      /\ lesson[req[q].lesson].status \in Takes(req[q].op)
      /\ req[q].lesson \in Lesson
  BY <1>3 DEF IInv, LessonTaken, RequestOK, Taken
<1>5. <<"lesson", req[q].lesson>> \notin held[r]
  BY <1>1, <1>4 DEF IInv, LocksExclusive
<1> QED
  BY <1>2, <1>4, <1>5 DEF Takes

\* Nobody else's removal meets a new link to its lesson when the ending request
\* makes none to a lesson that already existed.
LEMMA EndLinks ==
  ASSUME IInv, NEW r \in Request, End(r),
         \A l \in Lesson, m \in Lesson :
           lesson[l].status # "NONE" /\ lesson'[m].rescheduledTo = l
             => lesson[m].rescheduledTo = l
  PROVE  LinkTaken'
<1> SUFFICES ASSUME NEW q \in Request, pc'[q] = "commit", req'[q].op = "remove",
                    NEW m \in Lesson, lesson'[m].rescheduledTo = req'[q].lesson
             PROVE  <<"lesson", m>> \in held'[q]
    BY DEF LinkTaken, Replaced
<1>1. q # r
  BY EndFrame
<1>2. pc'[q] = pc[q] /\ req'[q] = req[q] /\ held'[q] = held[q]
  BY EndFrame, <1>1
<1>3. req[q].lesson \in Lesson /\ lesson[req[q].lesson].status # "NONE"
  BY <1>2 DEF IInv, RequestOK, LessonOp, LessonTaken, Taken, Takes
<1> QED
  BY <1>2, <1>3 DEF IInv, LinkTaken, Replaced

\* What the others read of a balance stays true when only a balance whose
\* student's row the ending request held was written.
LEMMA EndBalances ==
  ASSUME IInv, NEW r \in Request, End(r),
         \A s \in Student : <<"student", s>> \notin held[r] => balance'[s] = balance[s]
  PROVE  BalanceFresh'
<1> SUFFICES ASSUME NEW q \in Request
             PROVE  /\ StudentTaken(q)' => <<"student", req'[q].student>> \in held'[q]
                    /\ WritesBalance(q)' => req'[q].balance = balance'[req'[q].student]
    BY DEF BalanceFresh
<1>1. CASE q = r
  BY <1>1, EndFrame DEF StudentTaken, WritesBalance
<1>2. CASE q # r
  <2>1. pc'[q] = pc[q] /\ req'[q] = req[q] /\ held'[q] = held[q]
    BY EndFrame, <1>2
  <2>2. StudentTaken(q)' => <<"student", req'[q].student>> \in held'[q]
    BY <2>1 DEF IInv, BalanceFresh, StudentTaken
  <2>3. ASSUME WritesBalance(q)' PROVE req'[q].balance = balance'[req'[q].student]
    <3>1. WritesBalance(q) /\ StudentTaken(q)
      BY <2>1, <2>3 DEF WritesBalance, StudentTaken
    <3>2. req[q].student \in Student
      BY <3>1 DEF IInv, RequestOK, StudentTaken
    <3>3. <<"student", req[q].student>> \in held[q] /\ req[q].balance = balance[req[q].student]
      BY <3>1 DEF IInv, BalanceFresh
    <3>4. <<"student", req[q].student>> \notin held[r]
      BY <1>2, <3>3 DEF IInv, LocksExclusive
    <3> QED
      BY <2>1, <3>2, <3>3, <3>4
  <2> QED
    BY <2>2, <2>3
<1> QED
  BY <1>1, <1>2

\* A request that ends without writing anything.
LEMMA RollbackInv ==
  ASSUME IInv, NEW r \in Request, End(r), UNCHANGED bookVars
  PROVE  IInv'
<1> USE DEF bookVars
<1>1. TypeOK'
  BY EndFrame DEF IInv, TypeOK, Label
<1>2. RowsOK' /\ LedgerChain'
  BY DEF IInv, RowsOK, LedgerChain
<1>3. LessonTaken' /\ LinkTaken'
  BY EndLessons, EndLinks
<1>4. BalanceFresh'
  BY EndBalances
<1> QED
  BY <1>1, <1>2, <1>3, <1>4, EndFrame DEF IInv

\* A change of an enrollment's price touches nothing a request holds.
LEMMA SetTariffInv ==
  ASSUME IInv, NEW e \in Enrollment, NEW price \in Price, SetTariff(e, price)
  PROVE  IInv'
<1> USE DEF IInv, SetTariff
<1>1. TypeOK'
  BY DEF TypeOK
<1>2. \A q \in Request : RequestOK(q)'
  BY DEF RequestOK
<1>3. RowsOK' /\ LocksExclusive' /\ LedgerChain'
  BY DEF RowsOK, LocksExclusive, LedgerChain
<1>4. LessonTaken' /\ LinkTaken' /\ BalanceFresh'
  BY DEF LessonTaken, Taken, LinkTaken, Replaced, BalanceFresh, StudentTaken, WritesBalance
<1> QED
  BY <1>1, <1>2, <1>3, <1>4

-------------------------------------------------------------------------------
\* Commits.

\* A commit that leaves every balance alone keeps the invariant when it writes
\* lessons as the lemmas above ask and gives each row its type.
LEMMA LessonCommitInv ==
  ASSUME IInv, NEW r \in Request, End(r), UNCHANGED <<tariff, balance, paid, ledger>>,
         lesson' \in [Lesson -> LessonRow], RowsOK', LessonTaken', LinkTaken'
  PROVE  IInv'
<1>1. TypeOK'
  BY EndFrame DEF IInv, TypeOK
<1>2. LedgerChain'
  BY DEF IInv, LedgerChain
<1>3. BalanceFresh'
  BY EndBalances
<1> QED
  BY <1>1, <1>2, <1>3, EndFrame DEF IInv

\* What a commit of an operation on a lesson may rely on.
LEMMA CommitFacts ==
  ASSUME IInv, NEW r \in Request, pc[r] = "commit", req[r].op \in LessonOp
  PROVE  /\ req[r].lesson \in Lesson
         /\ <<"lesson", req[r].lesson>> \in held[r]
         /\ lesson[req[r].lesson].status \in Takes(req[r].op)
         /\ lesson[req[r].lesson] \in LessonRow
         /\ lesson[req[r].lesson].enrollment \in Enrollment
BY DEF IInv, RequestOK, LessonTaken, Taken, Takes, RowsOK, Exists, TypeOK

\* cancel writes one lesson it holds.
LEMMA CommitCancelInv ==
  ASSUME IInv, NEW r \in Request, CommitCancel(r)
  PROVE  IInv'
<1> DEFINE l == req[r].lesson
<1> USE DEF CommitCancel
<1>1. /\ l \in Lesson /\ <<"lesson", l>> \in held[r] /\ lesson[l].status = "SCHEDULED"
      /\ lesson[l] \in LessonRow /\ lesson[l].enrollment \in Enrollment
  BY CommitFacts DEF LessonOp, Takes
<1>2. lesson' \in [Lesson -> LessonRow]
  BY <1>1 DEF IInv, TypeOK, LessonRow, Status
<1>3. RowsOK'
  BY <1>1 DEF IInv, TypeOK, RowsOK, Exists
<1>4. LessonTaken'
  BY <1>1, EndLessons DEF IInv, TypeOK
<1>5. LinkTaken'
  BY <1>1, EndLinks DEF IInv, TypeOK, LessonRow
<1> QED
  BY <1>2, <1>3, <1>4, <1>5, LessonCommitInv

\* update writes the price of one lesson it holds.
LEMMA CommitUpdateInv ==
  ASSUME IInv, NEW r \in Request, CommitUpdate(r)
  PROVE  IInv'
<1> DEFINE l == req[r].lesson
<1> USE DEF CommitUpdate
<1>1. /\ l \in Lesson /\ <<"lesson", l>> \in held[r] /\ lesson[l].status = "SCHEDULED"
      /\ lesson[l] \in LessonRow /\ lesson[l].enrollment \in Enrollment
      /\ req[r].amount \in Price
  BY CommitFacts DEF LessonOp, Takes, IInv, RequestOK
<1>2. lesson' \in [Lesson -> LessonRow]
  BY <1>1 DEF IInv, TypeOK, LessonRow, Status
<1>3. RowsOK'
  BY <1>1 DEF IInv, TypeOK, RowsOK, Exists
<1>4. LessonTaken'
  BY <1>1, EndLessons DEF IInv, TypeOK
<1>5. LinkTaken'
  BY <1>1, EndLinks DEF IInv, TypeOK, LessonRow
<1> QED
  BY <1>2, <1>3, <1>4, <1>5, LessonCommitInv

\* reschedule writes the lesson it holds and a lesson that did not exist.
LEMMA CommitRescheduleInv ==
  ASSUME IInv, NEW r \in Request, NEW n \in Lesson, CommitReschedule(r, n)
  PROVE  IInv'
<1> DEFINE l == req[r].lesson
<1> USE DEF CommitReschedule
<1>1. /\ l \in Lesson /\ <<"lesson", l>> \in held[r] /\ lesson[l].status = "SCHEDULED"
      /\ lesson[l] \in LessonRow /\ lesson[l].enrollment \in Enrollment
      /\ lesson[n].status = "NONE" /\ n # l
  BY CommitFacts DEF LessonOp, Takes
<1>2. /\ lesson'[n] = Scheduled(lesson[l].enrollment, lesson[l].price)
      /\ lesson'[l] = [lesson[l] EXCEPT !.status = "RESCHEDULED", !.rescheduledTo = n]
      /\ \A m \in Lesson : m # n /\ m # l => lesson'[m] = lesson[m]
      /\ DOMAIN lesson' = Lesson /\ lesson' = [m \in Lesson |-> lesson'[m]]
  BY <1>1 DEF IInv, TypeOK
<1>3. lesson' \in [Lesson -> LessonRow]
  <2>1. lesson'[n] \in LessonRow
    BY <1>1, <1>2 DEF LessonRow, Status, Scheduled
  <2>2. lesson'[l] \in LessonRow
    BY <1>1, <1>2 DEF LessonRow, Status
  <2> QED
    BY <1>2, <2>1, <2>2 DEF IInv, TypeOK
<1>4. RowsOK'
  BY <1>1, <1>2 DEF IInv, TypeOK, RowsOK, Exists, Scheduled, LessonRow
<1>5. LessonTaken'
  BY <1>1, <1>2, EndLessons
<1>6. LinkTaken'
  <2>1. lesson'[l].rescheduledTo = n /\ lesson'[n].rescheduledTo = None
    BY <1>1, <1>2 DEF LessonRow, Scheduled
  <2>2. ASSUME NEW k \in Lesson, NEW m \in Lesson,
               lesson[k].status # "NONE", lesson'[m].rescheduledTo = k
        PROVE  lesson[m].rescheduledTo = k
    BY <1>1, <1>2, <2>1, <2>2
  <2> QED
    BY <2>2, EndLinks
<1> QED
  BY <1>3, <1>4, <1>5, <1>6, LessonCommitInv

\* remove deletes the lesson it holds and unlinks the lessons it holds.
LEMMA CommitRemoveInv ==
  ASSUME IInv, NEW r \in Request, CommitRemove(r)
  PROVE  IInv'
<1> DEFINE l == req[r].lesson
<1> USE DEF CommitRemove
<1>1. /\ l \in Lesson /\ <<"lesson", l>> \in held[r]
      /\ \A m \in Replaced(l) : <<"lesson", m>> \in held[r]
  BY CommitFacts DEF LessonOp, IInv, LinkTaken
<1>2. /\ lesson'[l] = NoLesson("DELETED")
      /\ \A m \in Lesson : m # l => /\ lesson'[m].status = lesson[m].status
                                  /\ lesson'[m].enrollment = lesson[m].enrollment
                                  /\ lesson'[m].rescheduledTo \in {None, lesson[m].rescheduledTo}
  BY <1>1 DEF IInv, TypeOK, LessonRow
<1>3. lesson' \in [Lesson -> LessonRow]
  <2>1. NoLesson("DELETED") \in LessonRow
    BY DEF NoLesson, LessonRow, Status
  <2>2. \A m \in Lesson : [lesson[m] EXCEPT !.rescheduledTo = None] \in LessonRow
    <3> SUFFICES ASSUME NEW m \in Lesson
                 PROVE  [lesson[m] EXCEPT !.rescheduledTo = None] \in LessonRow
        OBVIOUS
    <3>1. lesson[m] \in LessonRow
      BY DEF IInv, TypeOK
    <3> QED
      BY <3>1 DEF LessonRow
  <2> QED
    BY <2>1, <2>2 DEF IInv, TypeOK
<1>4. RowsOK'
  BY <1>2 DEF IInv, RowsOK, Exists, NoLesson
<1>5. LessonTaken'
  BY <1>1, <1>2, EndLessons
<1>6. LinkTaken'
  BY <1>1, <1>2, EndLinks DEF NoLesson
<1> QED
  BY <1>3, <1>4, <1>5, <1>6, LessonCommitInv

\* An entry that starts at the balance and is posted with it extends the chain.
LEMMA PostChain ==
  ASSUME TypeOK, LedgerChain, NEW s \in Student, NEW entry \in Entry,
         entry.balanceBefore = balance[s],
         entry.balanceAfter = entry.balanceBefore + entry.amount,
         Fits(entry.balanceAfter), Post(s, entry)
  PROVE  /\ LedgerChain'
         /\ balance' \in [Student -> Int]
         /\ \A t \in Student : Fits(balance'[t])
         /\ ledger' \in [Student -> Seq(Entry)]
<1>1. /\ balance' \in [Student -> Int]
      /\ \A t \in Student : Fits(balance'[t])
      /\ ledger' \in [Student -> Seq(Entry)]
  <2>1. entry.balanceAfter \in Int
    BY DEF Entry
  <2>2. Append(ledger[s], entry) \in Seq(Entry)
    BY DEF TypeOK
  <2>3. balance' \in [Student -> Int] /\ \A t \in Student : Fits(balance'[t])
    BY <2>1 DEF Post, TypeOK
  <2> QED
    BY <2>2, <2>3 DEF Post, TypeOK
<1>2. ASSUME NEW t \in Student, t # s
      PROVE  ledger'[t] = ledger[t] /\ balance'[t] = balance[t]
  BY <1>2 DEF Post, TypeOK
<1>3. /\ balance'[s] = entry.balanceAfter
      /\ ledger'[s] = Append(ledger[s], entry)
      /\ Len(ledger'[s]) = Len(ledger[s]) + 1
      /\ ledger'[s][Len(ledger[s]) + 1] = entry
      /\ \A i \in 1 .. Len(ledger[s]) : ledger'[s][i] = ledger[s][i]
      /\ Len(ledger[s]) \in Nat
  BY DEF Post, TypeOK
<1>4. LedgerChain'
  <2> SUFFICES ASSUME NEW t \in Student
               PROVE  /\ \A i \in 1 .. Len(ledger'[t]) :
                           /\ ledger'[t][i].balanceAfter
                                = ledger'[t][i].balanceBefore + ledger'[t][i].amount
                           /\ ledger'[t][i].balanceBefore
                                = IF i = 1 THEN 0 ELSE ledger'[t][i - 1].balanceAfter
                      /\ balance'[t] = IF Len(ledger'[t]) = 0 THEN 0
                                       ELSE ledger'[t][Len(ledger'[t])].balanceAfter
      BY DEF LedgerChain
  <2>1. CASE t # s
    BY <2>1, <1>2 DEF LedgerChain
  <2>2. CASE t = s
    <3>1. ASSUME NEW i \in 1 .. Len(ledger[s])
          PROVE  /\ ledger'[s][i].balanceAfter = ledger'[s][i].balanceBefore + ledger'[s][i].amount
                 /\ ledger'[s][i].balanceBefore
                      = IF i = 1 THEN 0 ELSE ledger'[s][i - 1].balanceAfter
      BY <1>3 DEF LedgerChain
    <3>2. entry.balanceBefore
            = IF Len(ledger[s]) = 0 THEN 0 ELSE ledger'[s][Len(ledger[s])].balanceAfter
      BY <1>3 DEF LedgerChain
    <3>3. ASSUME NEW i \in 1 .. Len(ledger'[s])
          PROVE  /\ ledger'[s][i].balanceAfter = ledger'[s][i].balanceBefore + ledger'[s][i].amount
                 /\ ledger'[s][i].balanceBefore
                      = IF i = 1 THEN 0 ELSE ledger'[s][i - 1].balanceAfter
      <4>1. CASE i \in 1 .. Len(ledger[s])
        BY <3>1, <4>1
      <4>2. CASE i = Len(ledger[s]) + 1
        BY <1>3, <3>2, <4>2
      <4> QED
        BY <1>3, <4>1, <4>2
    <3>4. balance'[s] = ledger'[s][Len(ledger'[s])].balanceAfter /\ Len(ledger'[s]) # 0
      BY <1>3
    <3> QED
      BY <2>2, <3>3, <3>4
  <2> QED
    BY <2>1, <2>2
<1> QED
  BY <1>1, <1>4

\* Both writers of a balance hold the student's row and write from what it still is.
LEMMA CommitCompleteInv ==
  ASSUME IInv, NEW r \in Request, CommitComplete(r)
  PROVE  IInv'
<1> DEFINE l == req[r].lesson
           s == req[r].student
           price == req[r].amount
<1> USE DEF CommitComplete
<1>1. /\ l \in Lesson /\ <<"lesson", l>> \in held[r] /\ lesson[l].status = "SCHEDULED"
      /\ lesson[l] \in LessonRow /\ lesson[l].enrollment \in Enrollment
      /\ price \in Price /\ s \in Student
  BY CommitFacts DEF LessonOp, Takes, IInv, RequestOK
<1>2. lesson' \in [Lesson -> LessonRow]
  BY <1>1 DEF IInv, TypeOK, LessonRow, Status
<1>3. RowsOK'
  BY <1>1 DEF IInv, TypeOK, RowsOK, Exists
<1>4. LessonTaken'
  BY <1>1, EndLessons DEF IInv, TypeOK
<1>5. LinkTaken'
  BY <1>1, EndLinks DEF IInv, TypeOK, LessonRow
<1>6. CASE price = 0
  BY <1>2, <1>3, <1>4, <1>5, <1>6, LessonCommitInv
<1>7. CASE price # 0
  <2> DEFINE entry == Charge(l, price, req[r].balance)
  <2>1. <<"student", s>> \in held[r] /\ req[r].balance = balance[s]
    BY <1>7 DEF IInv, BalanceFresh, StudentTaken, WritesBalance
  <2>2. balance[s] \in Int /\ price \in Int
    BY <1>1 DEF IInv, TypeOK
  <2>3. /\ entry \in Entry
        /\ entry.balanceBefore = balance[s]
        /\ entry.balanceAfter = entry.balanceBefore + entry.amount
        /\ Fits(entry.balanceAfter)
        /\ Post(s, entry)
    BY <1>1, <1>7, <2>1, <2>2 DEF Charge, Entry
  <2>4. /\ LedgerChain'
        /\ balance' \in [Student -> Int]
        /\ \A t \in Student : Fits(balance'[t])
        /\ ledger' \in [Student -> Seq(Entry)]
    <3> HIDE DEF entry
    <3> QED
      BY <1>1, <2>3, PostChain DEF IInv
  <2>5. TypeOK'
    BY <1>2, <2>4, EndFrame DEF IInv, TypeOK
  <2>6. \A t \in Student : <<"student", t>> \notin held[r] => balance'[t] = balance[t]
    BY <2>1, <2>3 DEF Post, IInv, TypeOK
  <2>7. BalanceFresh'
    BY <2>6, EndBalances
  <2> QED
    BY <1>3, <1>4, <1>5, <2>4, <2>5, <2>7, EndFrame DEF IInv
<1> QED
  BY <1>6, <1>7

\* A top-up writes the balance it has read under the student's lock.
LEMMA CommitTopUpInv ==
  ASSUME IInv, NEW r \in Request, CommitTopUp(r)
  PROVE  IInv'
<1> DEFINE s == req[r].student
           amount == req[r].amount
           entry == TopUpEntry(amount, req[r].balance)
<1> USE DEF CommitTopUp
<1>1. s \in Student /\ amount \in Nat /\ amount \in Amount
  BY DEF IInv, RequestOK
<1>2. <<"student", s>> \in held[r] /\ req[r].balance = balance[s]
  BY DEF IInv, BalanceFresh, StudentTaken, WritesBalance
<1>3. balance[s] \in Int
  BY <1>1 DEF IInv, TypeOK
<1>4. /\ entry \in Entry
      /\ entry.balanceBefore = balance[s]
      /\ entry.balanceAfter = entry.balanceBefore + entry.amount
      /\ Fits(entry.balanceAfter)
      /\ Post(s, entry)
  BY <1>1, <1>2, <1>3 DEF TopUpEntry, Entry
<1>5. /\ LedgerChain'
      /\ balance' \in [Student -> Int]
      /\ \A t \in Student : Fits(balance'[t])
      /\ ledger' \in [Student -> Seq(Entry)]
  <2> HIDE DEF entry
  <2> QED
    BY <1>1, <1>4, PostChain DEF IInv
<1>6. TypeOK'
  <2>1. paid' \in [Student -> Nat]
    BY <1>1 DEF IInv, TypeOK
  <2> QED
    BY <1>5, <2>1, EndFrame DEF IInv, TypeOK
<1>7. RowsOK' /\ LessonTaken' /\ LinkTaken'
  BY EndLessons, EndLinks DEF IInv, RowsOK
<1>8. ASSUME NEW t \in Student, <<"student", t>> \notin held[r]
      PROVE  balance'[t] = balance[t]
  <2>1. t # s
    BY <1>2, <1>8
  <2> QED
    BY <1>4, <2>1 DEF Post, IInv, TypeOK
<1>9. BalanceFresh'
  BY <1>8, EndBalances
<1> QED
  BY <1>5, <1>6, <1>7, <1>9, EndFrame DEF IInv

-------------------------------------------------------------------------------
\* Stuttering preserves the invariant.
LEMMA StutterInv == IInv /\ UNCHANGED vars => IInv'
<1> SUFFICES ASSUME IInv, UNCHANGED vars PROVE IInv'
    OBVIOUS
<1> USE DEF IInv, vars
<1>1. TypeOK' /\ RowsOK' /\ LocksExclusive' /\ LedgerChain'
  BY DEF TypeOK, RowsOK, LocksExclusive, LedgerChain
<1>2. \A r \in Request : RequestOK(r)'
  BY DEF RequestOK
<1>3. LessonTaken' /\ LinkTaken'
  BY DEF LessonTaken, Taken, LinkTaken, Replaced
<1>4. BalanceFresh'
  BY DEF BalanceFresh, StudentTaken, WritesBalance
<1> QED
  BY <1>1, <1>2, <1>3, <1>4

\* Every step of every request preserves the invariant.
LEMMA NextInv == IInv /\ [Next]_vars => IInv'
<1> SUFFICES ASSUME IInv, [Next]_vars PROVE IInv'
    OBVIOUS
<1>1. ASSUME NEW r \in Request, Begin(r) PROVE IInv'
  BY <1>1, BeginCompleteInv, BeginLessonOpInv, BeginTopUpInv DEF Begin
<1>2. ASSUME NEW r \in Request, Commit(r) PROVE IInv'
  BY <1>2, CommitCompleteInv, CommitCancelInv, CommitUpdateInv, CommitRescheduleInv,
     CommitRemoveInv, CommitTopUpInv DEF Commit
<1>3. ASSUME NEW r \in Request, Statement(r) PROVE IInv'
  BY <1>2, <1>3, LockTeacherInv, LockStudentInv, ReadLessonInv, TakeLessonInv, ReadBalanceInv,
     ShareTeacherInv, ShareStudentInv, UnlinkInv, RollbackInv DEF Statement, Reject
<1>4. ASSUME NEW r \in Request, Fail(r) \/ DeadlockVictim(r) PROVE IInv'
  BY <1>4, RollbackInv DEF Fail, DeadlockVictim
<1> QED
  BY <1>1, <1>3, <1>4, SetTariffInv, StutterInv DEF Next

\* The inductive invariant holds in every reachable state: locks are exclusive,
\* who took a lesson finds it as it was taken (lockScheduledLesson), and a balance
\* read under the student's lock is still the balance when it is written.
THEOREM Invariance == Spec => []IInv
BY InitInv, NextInv, PTL DEF Spec

\* Whatever requests run concurrently, every table and every request keeps to
\* its type and every balance to the range of its column.
THEOREM TypeCorrect == Spec => []TypeOK
<1>1. IInv => TypeOK
  BY DEF IInv
<1> QED
  BY <1>1, Invariance, PTL

\* Whatever requests run concurrently, and wherever they fail, each student's
\* ledger is an unbroken chain that ends at the balance: no read-compute-write
\* of a balance (lessons.service.ts complete, payments.service.ts create) is
\* lost to another.
THEOREM LedgerExplainsBalance == Spec => []LedgerChain
<1>1. IInv => LedgerChain
  BY DEF IInv
<1> QED
  BY <1>1, Invariance, PTL

-------------------------------------------------------------------------------
\* What one step may do to a lesson.

LessonStep(l) ==
    /\ Settled(l)
    /\ lesson[l].status # "NONE" => lesson'[l].status # "NONE"
    /\ lesson[l].status # "NONE" /\ Exists(lesson'[l]) =>
         Exists(lesson[l]) /\ lesson'[l].enrollment = lesson[l].enrollment

\* A step that leaves the lessons alone does nothing to a lesson.
LEMMA LessonUnchanged ==
  ASSUME UNCHANGED lesson, NEW l \in Lesson
  PROVE  LessonStep(l)
BY DEF LessonStep, Settled

\* A commit writes only lessons its request took, or that did not exist.
LEMMA CommitLessonStep ==
  ASSUME IInv, NEW r \in Request, Commit(r), NEW k \in Lesson
  PROVE  LessonStep(k)
<1> DEFINE l == req[r].lesson
<1> USE DEF LessonStep, Settled, Exists
<1>1. CASE CommitTopUp(r)
  BY <1>1 DEF CommitTopUp
<1>2. CASE CommitComplete(r) \/ CommitCancel(r) \/ CommitUpdate(r)
  <2>1. l \in Lesson /\ lesson[l].status = "SCHEDULED" /\ lesson[l] \in LessonRow
    BY <1>2, CommitFacts DEF CommitComplete, CommitCancel, CommitUpdate, LessonOp, Takes
  <2>2. /\ lesson'[l].status # "NONE" /\ lesson'[l].enrollment = lesson[l].enrollment
        /\ \A m \in Lesson : m # l => lesson'[m] = lesson[m]
    <3>1. CASE CommitComplete(r)
      BY <2>1, <3>1 DEF CommitComplete, IInv, TypeOK, LessonRow
    <3>2. CASE CommitCancel(r)
      BY <2>1, <3>2 DEF CommitCancel, IInv, TypeOK, LessonRow
    <3>3. CASE CommitUpdate(r)
      BY <2>1, <3>3 DEF CommitUpdate, IInv, TypeOK, LessonRow
    <3> QED
      BY <1>2, <3>1, <3>2, <3>3
  <2>3. CASE k = l
    BY <2>1, <2>2, <2>3
  <2>4. CASE k # l
    BY <2>2, <2>4
  <2> QED
    BY <2>3, <2>4
<1>3. ASSUME NEW n \in Lesson, CommitReschedule(r, n) PROVE LessonStep(k)
  <2>1. l \in Lesson /\ lesson[l].status = "SCHEDULED" /\ lesson[l] \in LessonRow
    BY <1>3, CommitFacts DEF CommitReschedule, LessonOp, Takes
  <2> QED
    BY <1>3, <2>1 DEF CommitReschedule, IInv, TypeOK, LessonRow
<1>4. CASE CommitRemove(r)
  <2>1. /\ l \in Lesson /\ lesson[l] \in LessonRow
        /\ lesson[l].status \in {"SCHEDULED", "CANCELED", "RESCHEDULED"}
    BY <1>4, CommitFacts DEF CommitRemove, LessonOp, Takes
  <2>2. CASE k = l
    BY <1>4, <2>1, <2>2 DEF CommitRemove, NoLesson
  <2>3. CASE k # l /\ k \notin Replaced(l)
    BY <1>4, <2>3 DEF CommitRemove
  <2>4. CASE k # l /\ k \in Replaced(l)
    <3>1. lesson[k].status = "RESCHEDULED" /\ lesson[k] \in LessonRow
      BY <2>1, <2>4 DEF Replaced, IInv, TypeOK, RowsOK
    <3>2. lesson'[k] = [lesson[k] EXCEPT !.rescheduledTo = None]
      BY <1>4, <2>4 DEF CommitRemove
    <3> QED
      BY <3>1, <3>2 DEF LessonRow
  <2> QED
    BY <2>2, <2>3, <2>4
<1> QED
  BY <1>1, <1>2, <1>3, <1>4 DEF Commit

\* No step undoes a decision about a lesson.
LEMMA NextLessonStep == IInv /\ [Next]_vars => \A l \in Lesson : LessonStep(l)
<1> SUFFICES ASSUME IInv, [Next]_vars, NEW l \in Lesson PROVE LessonStep(l)
    OBVIOUS
<1>1. ASSUME NEW r \in Request, Commit(r) PROVE LessonStep(l)
  BY <1>1, CommitLessonStep
<1>2. ASSUME NEW r \in Request, Begin(r) \/ (Statement(r) /\ ~Commit(r))
                                \/ Fail(r) \/ DeadlockVictim(r)
      PROVE  UNCHANGED lesson
  BY <1>2 DEF Begin, BeginComplete, BeginLessonOp, BeginTopUp, Statement, LockTeacher,
              LockStudent, ReadLesson, TakeLesson, ReadBalance, ShareTeacher, ShareStudent,
              Unlink, Reject, Fail, DeadlockVictim, bookVars
<1>3. (\E e \in Enrollment, price \in Price : SetTariff(e, price)) \/ UNCHANGED vars
        => UNCHANGED lesson
  BY DEF SetTariff, vars
<1> QED
  BY <1>1, <1>2, <1>3, LessonUnchanged DEF Next, Statement

\* Whatever requests race, a completed lesson never changes again and a canceled
\* or moved one can only be deleted: the WHERE of the conditional UPDATE and
\* the row lock it takes are enough (lessons.service.ts complete, cancelWithin,
\* rescheduleWithin, update, remove).
THEOREM LessonDecisionsStand == Spec => DecisionsStand
<1>1. IInv /\ [Next]_vars => [\A l \in Lesson : Settled(l)]_vars
  BY NextLessonStep DEF LessonStep
<1> QED
  BY <1>1, Invariance, PTL DEF Spec, DecisionsStand

-------------------------------------------------------------------------------
\* The refinement of LessonBook.

\* complete found the student before it locked the lesson: as long as the lesson
\* exists, it is still this student's.
ParticipantsOK ==
    \A r \in Request : req[r].op = "complete" =>
      /\ lesson[req[r].lesson].status # "NONE"
      /\ Exists(lesson[req[r].lesson])
           => req[r].student = StudentOf[lesson[req[r].lesson].enrollment]

\* A request that completes a lesson has just begun, or was completing the same
\* lesson of the same student before.
LEMMA ReqStep ==
  ASSUME IInv, [Next]_vars, NEW q \in Request, req'[q].op = "complete"
  PROVE  \/ \E l \in Lesson : BeginComplete(q, l)
         \/ /\ req[q].op = "complete" /\ req'[q].lesson = req[q].lesson
            /\ req'[q].student = req[q].student
<1> DEFINE Kept == /\ req[q].op = "complete" /\ req'[q].lesson = req[q].lesson
                   /\ req'[q].student = req[q].student
<1>1. ASSUME NEW r \in Request, End(r) PROVE Kept
  <2>1. q # r
    BY <1>1, EndFrame
  <2> QED
    BY <1>1, <2>1, EndFrame
<1>2. ASSUME NEW r \in Request, NEW l \in Lesson, BeginComplete(r, l)
      PROVE  q = r \/ Kept
  BY <1>2 DEF BeginComplete, IInv, TypeOK
<1>3. ASSUME NEW r \in Request, NEW l \in Lesson, NEW op \in LessonOp,
             NEW amount \in Price \cup {None}, BeginLessonOp(r, op, l, amount)
      PROVE  Kept
  BY <1>3 DEF BeginLessonOp, NoRequest, LessonOp, IInv, TypeOK
<1>4. ASSUME NEW r \in Request, NEW s \in Student, NEW amount \in Amount,
             BeginTopUp(r, s, amount)
      PROVE  Kept
  BY <1>4 DEF BeginTopUp, NoRequest, IInv, TypeOK
<1>5. ASSUME NEW r \in Request, ReadLesson(r) \/ ReadBalance(r) PROVE Kept
  <2>1. req[q] \in Asked /\ req[r] \in Asked /\ req \in [Request -> Asked]
    BY DEF IInv, TypeOK
  <2>2. CASE ReadLesson(r)
    BY <2>1, <2>2 DEF ReadLesson, Asked
  <2>3. CASE ReadBalance(r)
    BY <2>1, <2>3 DEF ReadBalance, Asked
  <2> QED
    BY <1>5, <2>2, <2>3
<1>6. ASSUME NEW r \in Request,
             \/ LockTeacher(r) \/ LockStudent(r) \/ TakeLesson(r)
             \/ ShareTeacher(r) \/ ShareStudent(r) \/ Unlink(r)
      PROVE  Kept
  BY <1>6 DEF LockTeacher, LockStudent, TakeLesson, ShareTeacher, ShareStudent, Unlink
<1>7. ASSUME NEW r \in Request, Commit(r) PROVE Kept
  BY <1>1, <1>7 DEF Commit, CommitComplete, CommitCancel, CommitUpdate, CommitReschedule,
                    CommitRemove, CommitTopUp
<1>8. ASSUME NEW r \in Request, Reject(r) \/ Fail(r) \/ DeadlockVictim(r) PROVE Kept
  BY <1>1, <1>8 DEF Reject, Fail, DeadlockVictim
<1>9. ASSUME (\E e \in Enrollment, price \in Price : SetTariff(e, price)) \/ UNCHANGED vars
      PROVE  Kept
  BY <1>9 DEF SetTariff, vars
<1> QED
  BY <1>2, <1>3, <1>4, <1>5, <1>6, <1>7, <1>8, <1>9 DEF Next, Begin, Statement

\* A charge goes to the student of the lesson that is charged.
LEMMA ParticipantsInv == IInv /\ ParticipantsOK /\ [Next]_vars => ParticipantsOK'
<1> SUFFICES ASSUME IInv, ParticipantsOK, [Next]_vars, NEW q \in Request,
                    req'[q].op = "complete"
             PROVE  /\ lesson'[req'[q].lesson].status # "NONE"
                    /\ Exists(lesson'[req'[q].lesson])
                         => req'[q].student = StudentOf[lesson'[req'[q].lesson].enrollment]
    BY DEF ParticipantsOK, Exists
<1>1. CASE \E l \in Lesson : BeginComplete(q, l)
  BY <1>1 DEF BeginComplete, Exists, IInv, TypeOK, NoRequest, bookVars
<1>2. CASE /\ req[q].op = "complete" /\ req'[q].lesson = req[q].lesson
           /\ req'[q].student = req[q].student
  <2>1. req[q].lesson \in Lesson
    BY <1>2 DEF IInv, RequestOK, LessonOp
  <2>2. LessonStep(req[q].lesson)
    BY <2>1, NextLessonStep
  <2> QED
    BY <1>2, <2>1, <2>2 DEF ParticipantsOK, LessonStep
<1> QED
  BY <1>1, <1>2, ReqStep

\* A commit is one step of the book; everything else leaves the book alone.
LEMMA CommitIsBookStep ==
  ASSUME IInv, ParticipantsOK, NEW r \in Request, Commit(r)
  PROVE  Books!Next
<1> DEFINE l == req[r].lesson
           s == req[r].student
<1>1. CASE CommitComplete(r)
  <2>1. /\ l \in Lesson /\ lesson[l].status = "SCHEDULED" /\ req[r].amount \in Price
        /\ s = StudentOf[lesson[l].enrollment] /\ s \in Student
    BY <1>1, CommitFacts DEF CommitComplete, LessonOp, Takes, ParticipantsOK, Exists, IInv,
                             RequestOK
  <2>2. req[r].amount # 0 => req[r].balance = balance[s]
    BY <1>1 DEF CommitComplete, IInv, BalanceFresh, WritesBalance
  <2>3. Books!Complete(l, req[r].amount)
    BY <1>1, <2>1, <2>2 DEF CommitComplete, Books!Complete, Books!Fits, Books!Charge, Fits,
                            Charge, Post
  <2> QED
    BY <2>1, <2>3 DEF Books!Next
<1>2. CASE CommitCancel(r)
  <2>1. l \in Lesson /\ lesson[l].status = "SCHEDULED"
    BY <1>2, CommitFacts DEF CommitCancel, LessonOp, Takes
  <2> QED
    BY <1>2, <2>1 DEF CommitCancel, Books!Cancel, Books!Next
<1>3. CASE CommitUpdate(r)
  <2>1. l \in Lesson /\ lesson[l].status = "SCHEDULED" /\ req[r].amount \in Price
    BY <1>3, CommitFacts DEF CommitUpdate, LessonOp, Takes, IInv, RequestOK
  <2>2. Books!Reprice(l, req[r].amount)
    BY <1>3, <2>1 DEF CommitUpdate, Books!Reprice
  <2> QED
    BY <2>1, <2>2 DEF Books!Next
<1>4. ASSUME NEW n \in Lesson, CommitReschedule(r, n) PROVE Books!Next
  <2>1. l \in Lesson /\ lesson[l].status = "SCHEDULED"
    BY <1>4, CommitFacts DEF CommitReschedule, LessonOp, Takes
  <2>2. Books!Reschedule(l, n)
    BY <1>4, <2>1 DEF CommitReschedule, Books!Reschedule, Books!Scheduled, Scheduled
  <2> QED
    BY <2>1, <2>2 DEF Books!Next
<1>5. CASE CommitRemove(r)
  <2>1. l \in Lesson /\ lesson[l].status \in {"SCHEDULED", "CANCELED", "RESCHEDULED"}
    BY <1>5, CommitFacts DEF CommitRemove, LessonOp, Takes
  <2>2. Books!Remove(l)
    BY <1>5, <2>1 DEF CommitRemove, Books!Remove, Books!NoLesson, NoLesson, Replaced
  <2> QED
    BY <2>1, <2>2 DEF Books!Next
<1>6. CASE CommitTopUp(r)
  <2>1. s \in Student /\ req[r].amount \in Amount /\ req[r].balance = balance[s]
    BY <1>6 DEF CommitTopUp, IInv, RequestOK, BalanceFresh, WritesBalance
  <2>2. Books!TopUp(s, req[r].amount)
    BY <1>6, <2>1 DEF CommitTopUp, Books!TopUp, Books!Fits, Books!TopUpEntry, Fits, TopUpEntry,
                      Post
  <2> QED
    BY <2>1, <2>2 DEF Books!Next
<1> QED
  BY <1>1, <1>2, <1>3, <1>4, <1>5, <1>6 DEF Commit

\* Every step is a step of the book or leaves the book alone.
LEMMA NextIsBookStep == IInv /\ ParticipantsOK /\ [Next]_vars => [Books!Next]_(Books!bookVars)
<1> SUFFICES ASSUME IInv, ParticipantsOK, [Next]_vars
             PROVE  Books!Next \/ UNCHANGED bookVars
    BY DEF bookVars, Books!bookVars
<1>1. ASSUME NEW r \in Request, Commit(r) PROVE Books!Next
  BY <1>1, CommitIsBookStep
<1>2. ASSUME NEW r \in Request, Begin(r) \/ (Statement(r) /\ ~Commit(r))
                                \/ Fail(r) \/ DeadlockVictim(r)
      PROVE  UNCHANGED bookVars
  BY <1>2 DEF Begin, BeginComplete, BeginLessonOp, BeginTopUp, Statement, LockTeacher,
              LockStudent, ReadLesson, TakeLesson, ReadBalance, ShareTeacher, ShareStudent,
              Unlink, Reject, Fail, DeadlockVictim
<1>3. ASSUME NEW e \in Enrollment, NEW price \in Price, SetTariff(e, price)
      PROVE  Books!Next
  BY <1>3 DEF SetTariff, Books!SetTariff, Books!Next
<1>4. UNCHANGED vars => UNCHANGED bookVars
  BY DEF vars, bookVars
<1> QED
  BY <1>1, <1>2, <1>3, <1>4 DEF Next, Statement

\* Every interleaving of requests, failures included, is a behavior of the book
\* in which each successful request takes effect at one instant.
THEOREM LedgerImplementsBook == Spec => ImplementsBook
<1>1. Init => Books!Init /\ ParticipantsOK
  BY DEF Init, ParticipantsOK, NoRequest
<1> QED
  BY <1>1, Invariance, ParticipantsInv, NextIsBookStep, PTL
     DEF Spec, ImplementsBook, Books!Spec

-------------------------------------------------------------------------------
\* What the book promises about charges and links. A step of the book is one
\* request, so nothing is left of the interleaving here.

\* Only a charge names a lesson.
EntriesOK ==
    \A s \in Student : \A i \in DOMAIN ledger[s] :
      IF ledger[s][i].type = "LESSON_CHARGE" THEN ledger[s][i].lesson \in Lesson
      ELSE ledger[s][i].lesson = None

BookInv == EntriesOK /\ ChargedOnce /\ RescheduleLinks

\* A step that neither writes the ledger nor touches or makes a completed
\* lesson leaves every charge with its lesson.
LEMMA ChargesKept ==
  ASSUME TypeOK, RowsOK, EntriesOK, ChargedOnce, UNCHANGED ledger,
         \A l \in Lesson : "COMPLETED" \in {lesson[l].status, lesson'[l].status}
                             => lesson'[l] = lesson[l]
  PROVE  EntriesOK' /\ ChargedOnce'
<1>1. EntriesOK'
  BY DEF EntriesOK
<1>2. ASSUME NEW s \in Student, NEW i \in DOMAIN ledger[s],
             ledger[s][i].type = "LESSON_CHARGE"
      PROVE  lesson'[ledger[s][i].lesson] = lesson[ledger[s][i].lesson]
  BY <1>2 DEF EntriesOK, ChargedOnce
<1>3. ASSUME NEW l \in Lesson, lesson'[l].status = "COMPLETED"
      PROVE  lesson'[l] = lesson[l]
  BY <1>3
<1>4. ASSUME NEW s \in Student, NEW i \in DOMAIN ledger[s],
             ledger[s][i].type = "LESSON_CHARGE"
      PROVE  LET row == lesson'[ledger[s][i].lesson]
             IN  /\ row.status = "COMPLETED"
                 /\ StudentOf[row.enrollment] = s
                 /\ ledger[s][i].amount = -row.price
  BY <1>2, <1>4 DEF ChargedOnce
<1>5. ASSUME NEW l \in Lesson, lesson'[l].status = "COMPLETED", lesson'[l].price # 0
      PROVE  \E i \in DOMAIN ledger[StudentOf[lesson'[l].enrollment]] :
               ledger[StudentOf[lesson'[l].enrollment]][i].lesson = l
  BY <1>3, <1>5 DEF ChargedOnce
<1>6. \A s, t \in Student : \A i \in DOMAIN ledger[s], j \in DOMAIN ledger[t] :
         /\ ledger[s][i].lesson = ledger[t][j].lesson
         /\ ledger[s][i].lesson # None
         => s = t /\ i = j
  BY DEF ChargedOnce
<1> QED
  BY <1>1, <1>4, <1>5, <1>6 DEF ChargedOnce

\* A new entry comes after the others and changes none of them.
LEMMA EntryAdded ==
  ASSUME TypeOK, NEW s \in Student, NEW entry \in Entry,
         ledger' = [ledger EXCEPT ![s] = Append(@, entry)]
  PROVE  LET last == Len(ledger[s]) + 1
         IN  /\ \A t \in Student : \A i \in DOMAIN ledger[t] :
                  i \in DOMAIN ledger'[t] /\ ledger'[t][i] = ledger[t][i]
             /\ last \in DOMAIN ledger'[s] /\ ledger'[s][last] = entry
             /\ \A t \in Student : \A i \in DOMAIN ledger'[t] :
                  \/ i \in DOMAIN ledger[t] /\ ledger'[t][i] = ledger[t][i]
                  \/ t = s /\ i = last
<1> ledger \in [Student -> Seq(Entry)] /\ ledger[s] \in Seq(Entry)
  BY DEF TypeOK
<1>1. ledger'[s] = Append(ledger[s], entry)
  OBVIOUS
<1>2. \A t \in Student \ {s} : ledger'[t] = ledger[t]
  OBVIOUS
<1> HIDE DEF Entry
<1>3. /\ Len(ledger[s]) \in Nat
      /\ DOMAIN ledger[s] = 1 .. Len(ledger[s])
      /\ DOMAIN ledger'[s] = 1 .. Len(ledger[s]) + 1
      /\ \A i \in 1 .. Len(ledger[s]) : ledger'[s][i] = ledger[s][i]
      /\ ledger'[s][Len(ledger[s]) + 1] = entry
  BY <1>1
<1> QED
  BY <1>2, <1>3

\* A top-up charges nothing.
LEMMA TopUpCharges ==
  ASSUME IInv, BookInv, NEW s \in Student, NEW amount \in Amount, Books!TopUp(s, amount)
  PROVE  BookInv'
<1> DEFINE entry == TopUpEntry(amount, balance[s])
           last == Len(ledger[s]) + 1
<1>1. entry \in Entry /\ entry.type = "MANUAL_TOPUP" /\ entry.lesson = None
  BY DEF TopUpEntry, Entry, IInv, TypeOK
<1>2. lesson' = lesson /\ ledger' = [ledger EXCEPT ![s] = Append(@, entry)]
  BY DEF Books!TopUp, Books!TopUpEntry, TopUpEntry
<1> HIDE DEF entry
<1>3. /\ \A t \in Student : \A i \in DOMAIN ledger[t] :
           i \in DOMAIN ledger'[t] /\ ledger'[t][i] = ledger[t][i]
      /\ last \in DOMAIN ledger'[s] /\ ledger'[s][last] = entry
      /\ \A t \in Student : \A i \in DOMAIN ledger'[t] :
           \/ i \in DOMAIN ledger[t] /\ ledger'[t][i] = ledger[t][i]
           \/ t = s /\ i = last
  BY <1>1, <1>2, EntryAdded DEF IInv
<1> HIDE DEF last
<1>4. EntriesOK'
  BY <1>1, <1>3 DEF EntriesOK, BookInv
<1>5. ASSUME NEW t \in Student, NEW i \in DOMAIN ledger'[t], ledger'[t][i].lesson # None
      PROVE  i \in DOMAIN ledger[t] /\ ledger'[t][i] = ledger[t][i]
  BY <1>1, <1>3, <1>5
<1>6. ASSUME NEW t \in Student, NEW i \in DOMAIN ledger'[t],
             ledger'[t][i].type = "LESSON_CHARGE"
      PROVE  i \in DOMAIN ledger[t] /\ ledger'[t][i] = ledger[t][i]
  BY <1>1, <1>3, <1>6
<1>7. ASSUME NEW l \in Lesson, lesson[l].status = "COMPLETED", lesson[l].price # 0
      PROVE  StudentOf[lesson[l].enrollment] \in Student
  BY <1>7 DEF IInv, RowsOK, Exists
<1>8. ChargedOnce'
  BY <1>2, <1>3, <1>5, <1>6, <1>7 DEF ChargedOnce, BookInv
<1>9. RescheduleLinks'
  BY <1>2 DEF RescheduleLinks, Exists, BookInv
<1> QED
  BY <1>4, <1>8, <1>9 DEF BookInv

\* A lesson that is completed had no charge, and gets one unless it is free.
LEMMA CompleteCharges ==
  ASSUME IInv, BookInv, NEW l \in Lesson, NEW price \in Price, Books!Complete(l, price)
  PROVE  EntriesOK' /\ ChargedOnce'
<1> DEFINE s == StudentOf[lesson[l].enrollment]
           entry == Charge(l, price, balance[s])
           last == Len(ledger[s]) + 1
<1>1. /\ lesson \in [Lesson -> LessonRow] /\ lesson[l].status = "SCHEDULED"
      /\ lesson' = [lesson EXCEPT ![l].status = "COMPLETED", ![l].price = price]
  BY DEF Books!Complete, IInv, TypeOK
<1>2. /\ lesson'[l].status = "COMPLETED" /\ lesson'[l].price = price
      /\ lesson'[l].enrollment = lesson[l].enrollment
      /\ \A m \in Lesson : m # l => lesson'[m] = lesson[m]
  BY <1>1 DEF LessonRow
<1>3. s \in Student
  BY <1>1 DEF IInv, RowsOK, Exists
<1>4. \A t \in Student : \A i \in DOMAIN ledger[t] : ledger[t][i].lesson # l
  BY <1>1 DEF BookInv, EntriesOK, ChargedOnce
<1>5. CASE price = 0
  <2>1. ledger' = ledger
    BY <1>5 DEF Books!Complete
  <2>2. EntriesOK'
    BY <2>1 DEF EntriesOK, BookInv
  <2>3. ChargedOnce'
    BY <1>2, <1>4, <1>5, <2>1 DEF ChargedOnce, EntriesOK, BookInv
  <2> QED
    BY <2>2, <2>3
<1>6. CASE price # 0
  <2>1. /\ entry \in Entry /\ entry.type = "LESSON_CHARGE"
        /\ entry.lesson = l /\ entry.amount = -price
    <3>1. balance[s] \in Int /\ price \in Int
      BY <1>3 DEF IInv, TypeOK
    <3> HIDE DEF s
    <3> QED
      BY <3>1 DEF Charge, Entry
  <2>2. ledger' = [ledger EXCEPT ![s] = Append(@, entry)]
    BY <1>6 DEF Books!Complete, Books!Charge, Charge
  <2> HIDE DEF entry
  <2>3. /\ \A t \in Student : \A i \in DOMAIN ledger[t] :
             i \in DOMAIN ledger'[t] /\ ledger'[t][i] = ledger[t][i]
        /\ last \in DOMAIN ledger'[s] /\ ledger'[s][last] = entry
        /\ \A t \in Student : \A i \in DOMAIN ledger'[t] :
             \/ i \in DOMAIN ledger[t] /\ ledger'[t][i] = ledger[t][i]
             \/ t = s /\ i = last
    BY <1>3, <2>1, <2>2, EntryAdded DEF IInv
  <2> HIDE DEF last, s
  <2>4. EntriesOK'
    BY <2>1, <2>3 DEF EntriesOK, BookInv
  <2>5. ASSUME NEW t \in Student, NEW i \in DOMAIN ledger'[t],
               ledger'[t][i].type = "LESSON_CHARGE"
        PROVE  /\ lesson'[ledger'[t][i].lesson].status = "COMPLETED"
               /\ StudentOf[lesson'[ledger'[t][i].lesson].enrollment] = t
               /\ ledger'[t][i].amount = -lesson'[ledger'[t][i].lesson].price
    <3>1. CASE i \in DOMAIN ledger[t] /\ ledger'[t][i] = ledger[t][i]
      <4>1. ledger[t][i].lesson \in Lesson \ {l}
        BY <1>4, <2>5, <3>1 DEF EntriesOK, BookInv
      <4>2. lesson'[ledger[t][i].lesson] = lesson[ledger[t][i].lesson]
        BY <1>2, <4>1
      <4> QED
        BY <2>5, <3>1, <4>2 DEF ChargedOnce, BookInv
    <3>2. CASE t = s /\ i = last
      BY <1>2, <2>1, <2>3, <3>2 DEF s
    <3> QED
      BY <2>3, <3>1, <3>2
  <2>6. ASSUME NEW m \in Lesson, lesson'[m].status = "COMPLETED", lesson'[m].price # 0
        PROVE  \E i \in DOMAIN ledger'[StudentOf[lesson'[m].enrollment]] :
                 ledger'[StudentOf[lesson'[m].enrollment]][i].lesson = m
    <3>1. CASE m = l
      BY <1>2, <2>1, <2>3, <3>1 DEF s
    <3>2. CASE m # l
      <4>1. lesson'[m] = lesson[m] /\ StudentOf[lesson[m].enrollment] \in Student
        BY <1>2, <2>6, <3>2 DEF IInv, RowsOK, Exists
      <4> QED
        BY <2>3, <2>6, <4>1 DEF ChargedOnce, BookInv
    <3> QED
      BY <3>1, <3>2
  <2>7. ASSUME NEW t \in Student, NEW u \in Student,
               NEW i \in DOMAIN ledger'[t], NEW j \in DOMAIN ledger'[u],
               ledger'[t][i].lesson = ledger'[u][j].lesson, ledger'[t][i].lesson # None
        PROVE  t = u /\ i = j
    <3>1. CASE ledger'[t][i].lesson = l
      <4>1. t = s /\ i = last
        BY <1>4, <2>3, <3>1
      <4>2. ledger'[u][j].lesson = l
        BY <2>7, <3>1
      <4>3. u = s /\ j = last
        BY <1>4, <2>3, <4>2
      <4> QED
        BY <4>1, <4>3
    <3>2. CASE ledger'[t][i].lesson # l
      <4>1. /\ i \in DOMAIN ledger[t] /\ ledger'[t][i] = ledger[t][i]
            /\ j \in DOMAIN ledger[u] /\ ledger'[u][j] = ledger[u][j]
        BY <2>1, <2>3, <2>7, <3>2
      <4> QED
        BY <2>7, <4>1 DEF ChargedOnce, BookInv
    <3> QED
      BY <3>1, <3>2
  <2> QED
    BY <2>4, <2>5, <2>6, <2>7 DEF ChargedOnce
<1> QED
  BY <1>5, <1>6

\* Only Reschedule makes a link, to a row that is new; only Remove takes a row
\* away, and it clears the links to it.
LEMMA LinksKept ==
  ASSUME TypeOK, RescheduleLinks, UNCHANGED lesson
  PROVE  RescheduleLinks'
BY DEF RescheduleLinks, Exists

\* Completing, canceling or repricing a lesson leaves its links and those to it.
LEMMA StatusKeepsLinks ==
  ASSUME TypeOK, RescheduleLinks, NEW l \in Lesson, lesson[l].status = "SCHEDULED",
         lesson'[l].status \in {"SCHEDULED", "COMPLETED", "CANCELED"},
         lesson'[l].enrollment = lesson[l].enrollment,
         lesson'[l].rescheduledTo = lesson[l].rescheduledTo,
         \A m \in Lesson : m # l => lesson'[m] = lesson[m]
  PROVE  RescheduleLinks'
<1>1. lesson[l].rescheduledTo = None
  BY DEF RescheduleLinks
<1>2. ASSUME NEW m \in Lesson
      PROVE  /\ lesson'[m].rescheduledTo = lesson[m].rescheduledTo
             /\ lesson'[m].enrollment = lesson[m].enrollment
             /\ lesson'[m].rescheduledTo # None => lesson'[m].status = lesson[m].status
             /\ Exists(lesson[m]) => Exists(lesson'[m])
  BY <1>1 DEF Exists
<1>3. \A m \in Lesson : lesson[m].rescheduledTo \in Lesson \cup {None}
  BY DEF TypeOK, LessonRow
<1> QED
  BY <1>2, <1>3 DEF RescheduleLinks

\* A replacement is linked to by the lesson it replaces and by no other.
LEMMA RescheduleKeepsLinks ==
  ASSUME TypeOK, RescheduleLinks, NEW l \in Lesson, NEW n \in Lesson, Books!Reschedule(l, n)
  PROVE  RescheduleLinks'
<1>1. /\ lesson \in [Lesson -> LessonRow]
      /\ lesson[l].status = "SCHEDULED" /\ lesson[n].status = "NONE"
      /\ lesson' = [lesson EXCEPT ![n] = Scheduled(lesson[l].enrollment, lesson[l].price),
                                  ![l].status = "RESCHEDULED", ![l].rescheduledTo = n]
  BY DEF Books!Reschedule, Books!Scheduled, Scheduled, TypeOK
<1>2. n # l
  BY <1>1
<1>3. /\ lesson'[l].status = "RESCHEDULED" /\ lesson'[l].rescheduledTo = n
      /\ lesson'[l].enrollment = lesson[l].enrollment
  BY <1>1, <1>2 DEF LessonRow
<1>4. /\ lesson'[n].status = "SCHEDULED" /\ lesson'[n].rescheduledTo = None
      /\ lesson'[n].enrollment = lesson[l].enrollment
  BY <1>1, <1>2 DEF Scheduled
<1>5. \A m \in Lesson \ {l, n} : lesson'[m] = lesson[m]
  BY <1>1
<1>6. \A m \in Lesson : lesson[m].rescheduledTo # n
  BY <1>1 DEF RescheduleLinks, Exists
<1>7. \A m \in Lesson : lesson[m].rescheduledTo \in Lesson \cup {None}
  BY <1>1 DEF LessonRow
<1>8. ASSUME NEW m \in Lesson, lesson'[m].rescheduledTo # None
      PROVE  /\ lesson'[m].status = "RESCHEDULED"
             /\ Exists(lesson'[lesson'[m].rescheduledTo])
             /\ lesson'[lesson'[m].rescheduledTo].enrollment = lesson'[m].enrollment
  <2>1. CASE m = l
    BY <1>3, <1>4, <2>1 DEF Exists
  <2>2. CASE m # l
    <3>1. m # n /\ lesson'[m] = lesson[m]
      BY <1>4, <1>5, <1>8, <2>2
    <3>2. CASE lesson[m].rescheduledTo = l
      BY <1>3, <3>1, <3>2, <1>8 DEF RescheduleLinks, Exists
    <3>3. CASE lesson[m].rescheduledTo # l
      <4>1. lesson'[lesson[m].rescheduledTo] = lesson[lesson[m].rescheduledTo]
        BY <1>5, <1>6, <1>7, <1>8, <3>1, <3>3
      <4> QED
        BY <1>8, <3>1, <4>1 DEF RescheduleLinks
    <3> QED
      BY <3>2, <3>3
  <2> QED
    BY <2>1, <2>2
<1>9. ASSUME NEW m \in Lesson, NEW k \in Lesson,
             lesson'[m].rescheduledTo = lesson'[k].rescheduledTo,
             lesson'[m].rescheduledTo # None
      PROVE  m = k
  <2>1. m # n /\ k # n
    BY <1>4, <1>9
  <2>2. CASE m # l /\ k # l
    BY <1>5, <1>9, <2>1, <2>2 DEF RescheduleLinks
  <2>3. CASE m = l \/ k = l
    BY <1>3, <1>5, <1>6, <1>9, <2>1, <2>3
  <2> QED
    BY <2>2, <2>3
<1> QED
  BY <1>8, <1>9 DEF RescheduleLinks

\* A removed lesson links nowhere, and nothing links to it.
LEMMA RemoveKeepsLinks ==
  ASSUME TypeOK, RescheduleLinks, NEW l \in Lesson, Books!Remove(l)
  PROVE  RescheduleLinks'
<1>1. lesson'[l].rescheduledTo = None
  BY DEF Books!Remove, Books!NoLesson
<1>2. ASSUME NEW m \in Lesson, m # l
      PROVE  /\ lesson'[m].status = lesson[m].status
             /\ lesson'[m].enrollment = lesson[m].enrollment
             /\ lesson'[m].rescheduledTo = IF lesson[m].rescheduledTo = l THEN None
                                           ELSE lesson[m].rescheduledTo
  BY <1>2 DEF Books!Remove, TypeOK, LessonRow
<1>3. \A m \in Lesson : lesson[m].rescheduledTo \in Lesson \cup {None}
  BY DEF TypeOK, LessonRow
<1>4. ASSUME NEW m \in Lesson, lesson'[m].rescheduledTo # None
      PROVE  /\ m # l /\ lesson[m].rescheduledTo = lesson'[m].rescheduledTo
             /\ lesson[m].rescheduledTo \in Lesson \ {l}
             /\ lesson[m].rescheduledTo # None
  BY <1>1, <1>2, <1>3, <1>4
<1>5. ASSUME NEW m \in Lesson, lesson'[m].rescheduledTo # None
      PROVE  /\ lesson'[m].status = "RESCHEDULED"
             /\ Exists(lesson'[lesson'[m].rescheduledTo])
             /\ lesson'[lesson'[m].rescheduledTo].enrollment = lesson'[m].enrollment
  BY <1>2, <1>4, <1>5 DEF RescheduleLinks, Exists
<1> QED
  BY <1>4, <1>5 DEF RescheduleLinks

\* Every request, taken as one step of the book, keeps charges and links.
LEMMA BookStep == IInv /\ BookInv /\ [Books!Next]_(Books!bookVars) => BookInv'
<1> SUFFICES ASSUME IInv, BookInv, [Books!Next]_(Books!bookVars) PROVE BookInv'
    OBVIOUS
<1> TypeOK /\ RowsOK /\ lesson \in [Lesson -> LessonRow]
  BY DEF IInv, TypeOK
<1>1. ASSUME UNCHANGED <<lesson, ledger>> PROVE BookInv'
  BY <1>1, ChargesKept, LinksKept DEF BookInv
<1>2. ASSUME NEW l \in Lesson, NEW price \in Price, Books!Complete(l, price) PROVE BookInv'
  <2>1. /\ lesson[l].status = "SCHEDULED"
        /\ lesson' = [lesson EXCEPT ![l].status = "COMPLETED", ![l].price = price]
    BY <1>2 DEF Books!Complete
  <2>2. RescheduleLinks'
    BY <2>1, StatusKeepsLinks DEF LessonRow, BookInv
  <2> QED
    BY <1>2, <2>2, CompleteCharges DEF BookInv
<1>3. ASSUME NEW l \in Lesson,
             Books!Cancel(l) \/ \E price \in Price : Books!Reprice(l, price)
      PROVE  BookInv'
  <2>1. /\ lesson[l].status = "SCHEDULED" /\ lesson'[l].status \in {"SCHEDULED", "CANCELED"}
        /\ lesson'[l].enrollment = lesson[l].enrollment
        /\ lesson'[l].rescheduledTo = lesson[l].rescheduledTo
        /\ \A m \in Lesson : m # l => lesson'[m] = lesson[m]
        /\ ledger' = ledger
    <3>1. CASE Books!Cancel(l)
      BY <3>1 DEF Books!Cancel, LessonRow
    <3>2. CASE \E price \in Price : Books!Reprice(l, price)
      BY <3>2 DEF Books!Reprice, LessonRow
    <3> QED
      BY <1>3, <3>1, <3>2
  <2>2. \A m \in Lesson : "COMPLETED" \in {lesson[m].status, lesson'[m].status}
                            => lesson'[m] = lesson[m]
    BY <2>1
  <2> QED
    BY <2>1, <2>2, ChargesKept, StatusKeepsLinks DEF BookInv
<1>4. ASSUME NEW l \in Lesson, Books!Remove(l) PROVE BookInv'
  <2>1. \A m \in Lesson : "COMPLETED" \in {lesson[m].status, lesson'[m].status}
                            => lesson'[m] = lesson[m]
    BY <1>4 DEF Books!Remove, Books!NoLesson, RowsOK, LessonRow
  <2>2. ledger' = ledger
    BY <1>4 DEF Books!Remove
  <2> QED
    BY <1>4, <2>1, <2>2, ChargesKept, RemoveKeepsLinks DEF BookInv
<1>5. ASSUME NEW l \in Lesson, NEW n \in Lesson, Books!Reschedule(l, n) PROVE BookInv'
  <2>1. \A m \in Lesson : "COMPLETED" \in {lesson[m].status, lesson'[m].status}
                            => lesson'[m] = lesson[m]
    BY <1>5 DEF Books!Reschedule, Books!Scheduled, LessonRow
  <2>2. ledger' = ledger
    BY <1>5 DEF Books!Reschedule
  <2> QED
    BY <1>5, <2>1, <2>2, ChargesKept, RescheduleKeepsLinks DEF BookInv
<1>6. ASSUME NEW e \in Enrollment, NEW price \in Price, Books!SetTariff(e, price)
      PROVE  BookInv'
  BY <1>1, <1>6 DEF Books!SetTariff
<1>7. UNCHANGED Books!bookVars => BookInv'
  BY <1>1 DEF Books!bookVars
<1>8. ASSUME NEW s \in Student, NEW amount \in Amount, Books!TopUp(s, amount)
      PROVE  BookInv'
  BY <1>8, TopUpCharges
<1>9. CASE Books!Next
  <2>1. CASE \E l \in Lesson, price \in Price : Books!Complete(l, price) \/ Books!Reprice(l, price)
    BY <1>2, <1>3, <2>1
  <2>2. CASE \E l \in Lesson : Books!Cancel(l)
    BY <1>3, <2>2
  <2>3. CASE \E l \in Lesson : Books!Remove(l) \/ \E n \in Lesson : Books!Reschedule(l, n)
    BY <1>4, <1>5, <2>3
  <2> QED
    BY <1>6, <1>8, <1>9, <2>1, <2>2, <2>3, Zenon DEF Books!Next
<1> QED
  BY <1>7, <1>9

\* The book starts with no charges and no links.
LEMMA InitBook == Init => BookInv /\ ParticipantsOK
<1> SUFFICES ASSUME Init PROVE BookInv /\ ParticipantsOK
    OBVIOUS
<1>1. ledger = [s \in Student |-> <<>>]
  BY DEF Init, Books!Init
<1>2. ASSUME NEW l \in Lesson
      PROVE  lesson[l].status # "COMPLETED" /\ lesson[l].rescheduledTo = None
  <2>1. PICK price \in [Lesson -> Price \cup {None}] :
          lesson = [k \in Lesson |-> IF Booked[k] = None THEN NoLesson("NONE")
                                    ELSE Scheduled(Booked[k], price[k])]
    BY DEF Init, Books!Init, Books!NoLesson, Books!Scheduled, NoLesson, Scheduled
  <2>2. CASE Booked[l] = None
    BY <2>1, <2>2 DEF NoLesson
  <2>3. CASE Booked[l] # None
    BY <2>1, <2>3 DEF Scheduled
  <2> QED
    BY <2>2, <2>3
<1>3. EntriesOK
  BY <1>1 DEF EntriesOK
<1>4. ChargedOnce
  BY <1>1, <1>2 DEF ChargedOnce
<1>5. RescheduleLinks
  BY <1>2 DEF RescheduleLinks
<1>6. ParticipantsOK
  BY DEF Init, ParticipantsOK, NoRequest
<1> QED
  BY <1>3, <1>4, <1>5, <1>6 DEF BookInv

\* Charges and links keep their promises in every reachable state, because they
\* do so in the book.
LEMMA BookInvariance == Spec => []BookInv
<1>1. IInv /\ ParticipantsOK /\ BookInv /\ [Next]_vars => BookInv'
  BY NextIsBookStep, BookStep
<1> QED
  BY <1>1, Invariance, ParticipantsInv, InitBook, PTL DEF Spec

\* Whatever requests race and wherever they fail, a completed lesson is charged
\* once, to its own student, at the price stored on it, and nothing else is
\* charged (lessons.service.ts complete).
THEOREM LessonsAreChargedOnce == Spec => []ChargedOnce
<1>1. BookInv => ChargedOnce
  BY DEF BookInv
<1> QED
  BY <1>1, BookInvariance, PTL

\* A replacement exists as long as the lesson it replaced links to it, belongs to
\* the same enrollment and replaces no other, also when either end is removed
\* meanwhile (lessons.service.ts rescheduleWithin, remove).
THEOREM LinksLeadToReplacements == Spec => []RescheduleLinks
<1>1. BookInv => RescheduleLinks
  BY DEF BookInv
<1> QED
  BY <1>1, BookInvariance, PTL
-------------------------------------------------------------------------------
\* Money: the balance is what was paid in less the prices of completed lessons.

\* The cost of finitely many lessons is the sum of their prices.
LEMMA CostIsSum ==
  ASSUME NEW rows, NEW S, IsFiniteSet(S)
  PROVE  Cost(rows, S) = SumOf([l \in S |-> rows[l].price], S)
<1> DEFINE f == [l \in S |-> rows[l].price]
           Eq(g) == g = [T \in SUBSET S |->
                           IF T = {} THEN 0 ELSE rows[Pick(T)].price + g[T \ {Pick(T)}]]
           c == CHOOSE g : Eq(g)
<1>1. Cost(rows, S) = c[S]
  BY DEF Cost, MapThenSumSet, MapThenFoldSet, Pick
<1>2. ASSUME NEW g PROVE Sums(g, f, S) <=> Eq(g)
  <2>1. \A T \in SUBSET S : T # {} => f[Pick(T)] = rows[Pick(T)].price
    BY PickIn
  <2>2. [T \in SUBSET S |-> IF T = {} THEN 0 ELSE f[Pick(T)] + g[T \ {Pick(T)}]]
        = [T \in SUBSET S |-> IF T = {} THEN 0 ELSE rows[Pick(T)].price + g[T \ {Pick(T)}]]
    <3> HIDE DEF f
    <3> QED
      BY <2>1
  <2> HIDE DEF f
  <2> QED
    BY <2>2 DEF Sums
<1> HIDE DEF f, Eq
<1>3. Eq(c)
  <2>1. \E g : Eq(g)
    BY <1>2, SumsExist
  <2> QED
    BY <2>1
<1>4. c[S] = SumOf(f, S)
  <2>1. Sums(c, f, S)
    BY <1>2, <1>3
  <2> QED
    BY <2>1, SumsAreSumOf
<1> QED
  BY <1>1, <1>4 DEF f

\* Completed lessons are finitely many, and have a price.
CompletedOK ==
    /\ \A s \in Student : IsFiniteSet(CompletedOf(s))
    /\ \A l \in Lesson : lesson[l].status = "COMPLETED" => lesson[l].price \in Price

MoneyInv == CompletedOK /\ MoneyConserved

\* What completed lessons cost is a number.
LEMMA CostIsInt ==
  ASSUME MoneyInv, NEW s \in Student
  PROVE  Cost(lesson, CompletedOf(s)) \in Int
<1> DEFINE S == CompletedOf(s)
           f == [l \in S |-> lesson[l].price]
<1>1. IsFiniteSet(S)
  BY DEF MoneyInv, CompletedOK
<1>2. \A l \in S : f[l] \in Int
  <2>1. \A l \in S : lesson[l].price \in Price
    BY DEF MoneyInv, CompletedOK, CompletedOf
  <2> HIDE DEF S
  <2>2. \A l \in S : f[l] = lesson[l].price
    OBVIOUS
  <2> HIDE DEF f
  <2>3. Price \subseteq Int
    OBVIOUS
  <2> QED
    BY <2>1, <2>2, <2>3
<1>3. Cost(lesson, S) = SumOf(f, S)
  BY <1>1, CostIsSum
<1> HIDE DEF f, S
<1>4. SumOf(f, S) \in Int
  <2>1. Int \in {Nat, Int}
    OBVIOUS
  <2> QED
    BY <1>1, <1>2, <2>1, SumOfType, Zenon
<1> QED
  BY <1>3, <1>4 DEF S

\* Other lessons may change without changing what completed ones cost.
LEMMA CompletedKept ==
  ASSUME MoneyInv,
         \A l \in Lesson : "COMPLETED" \in {lesson[l].status, lesson'[l].status}
                             => lesson'[l] = lesson[l]
  PROVE  /\ CompletedOK'
         /\ \A s \in Student : Cost(lesson, CompletedOf(s))' = Cost(lesson, CompletedOf(s))
<1>1. \A s \in Student : CompletedOf(s)' = CompletedOf(s)
  BY DEF CompletedOf
<1>2. CompletedOK'
  BY <1>1 DEF MoneyInv, CompletedOK
<1>3. ASSUME NEW s \in Student
      PROVE  Cost(lesson', CompletedOf(s)) = Cost(lesson, CompletedOf(s))
  <2> DEFINE S == CompletedOf(s)
  <2>1. IsFiniteSet(S)
    BY DEF MoneyInv, CompletedOK
  <2>2. \A l \in S : lesson'[l] = lesson[l]
    BY DEF CompletedOf
  <2> HIDE DEF S
  <2>3. [l \in S |-> lesson'[l].price] = [l \in S |-> lesson[l].price]
    BY <2>2
  <2>4. Cost(lesson', S) = Cost(lesson, S)
    BY <2>1, <2>3, CostIsSum
  <2> QED
    BY <2>4 DEF S
<1> QED
  BY <1>1, <1>2, <1>3

\* Completing a lesson adds its price to the cost, to no other student's.
LEMMA CompletedAdded ==
  ASSUME RowsOK, MoneyInv, NEW l \in Lesson, NEW price \in Price,
         lesson[l].status = "SCHEDULED",
         lesson'[l].status = "COMPLETED", lesson'[l].price = price,
         lesson'[l].enrollment = lesson[l].enrollment,
         \A m \in Lesson : m # l => lesson'[m] = lesson[m]
  PROVE  /\ CompletedOK'
         /\ \A s \in Student :
              Cost(lesson, CompletedOf(s))' =
                Cost(lesson, CompletedOf(s))
                  + (IF s = StudentOf[lesson[l].enrollment] THEN price ELSE 0)
         /\ \A s \in Student : Cost(lesson, CompletedOf(s)) \in Nat
<1> DEFINE owner == StudentOf[lesson[l].enrollment]
<1>1. price \in Nat
  OBVIOUS
<1>2. ASSUME NEW s \in Student
      PROVE  CompletedOf(s)' = IF s = owner THEN CompletedOf(s) \cup {l} ELSE CompletedOf(s)
  BY DEF CompletedOf
<1>3. ASSUME NEW s \in Student
      PROVE  /\ l \notin CompletedOf(s)
             /\ IsFiniteSet(CompletedOf(s))
             /\ \A m \in CompletedOf(s) : lesson'[m] = lesson[m] /\ lesson[m].price \in Nat
  BY DEF CompletedOf, MoneyInv, CompletedOK
<1>4. CompletedOK'
  <2>1. \A s \in Student : IsFiniteSet(CompletedOf(s)')
    BY <1>2, <1>3, FS_AddElement
  <2>2. \A m \in Lesson : lesson'[m].status = "COMPLETED" => lesson'[m].price \in Price
    BY DEF MoneyInv, CompletedOK
  <2> QED
    BY <2>1, <2>2 DEF CompletedOK
<1>5. ASSUME NEW s \in Student
      PROVE  /\ Cost(lesson, CompletedOf(s)) \in Nat
             /\ Cost(lesson', CompletedOf(s)) = Cost(lesson, CompletedOf(s))
             /\ Cost(lesson', CompletedOf(s) \cup {l}) = price + Cost(lesson, CompletedOf(s))
  <2> DEFINE S == CompletedOf(s)
             f == [m \in S |-> lesson[m].price]
             g == [m \in S \cup {l} |-> lesson'[m].price]
  <2>1. IsFiniteSet(S) /\ l \notin S /\ IsFiniteSet(S \cup {l})
    BY <1>3, FS_AddElement
  <2>2. \A m \in S : lesson'[m] = lesson[m] /\ lesson[m].price \in Nat
    BY <1>3
  <2> HIDE DEF S
  <2>3. /\ g[l] = price /\ price \in Nat
        /\ \A m \in S : f[m] = lesson[m].price /\ g[m] = lesson'[m].price
    BY <1>1
  <2>4. f = [m \in S |-> lesson'[m].price]
    BY <2>2
  <2>5. /\ Cost(lesson, S) = SumOf(f, S)
        /\ Cost(lesson', S) = SumOf([m \in S |-> lesson'[m].price], S)
        /\ Cost(lesson', S \cup {l}) = SumOf(g, S \cup {l})
    BY <2>1, CostIsSum, Zenon
  <2> HIDE DEF f, g
  <2>6. /\ \A m \in S : f[m] = g[m]
        /\ \A m \in S : f[m] \in Nat
        /\ \A m \in S \cup {l} : g[m] \in Int
    BY <2>2, <2>3
  <2>7. SumOf(f, S) \in Nat
    BY <2>1, <2>6, SumOfType
  <2>8. SumOf(f, S) = SumOf(g, S)
    <3>1. IsFiniteSet(S)
      BY <2>1
    <3>2. \A m \in S : f[m] = g[m]
      BY <2>6
    <3> QED
      BY <3>1, <3>2, SumOfSame
  <2>9. SumOf(g, S \cup {l}) = g[l] + SumOf(g, S)
    BY <2>1, <2>6, SumOfAdd, Zenon
  <2> QED
    BY <2>3, <2>4, <2>5, <2>7, <2>8, <2>9 DEF S
<1>6. ASSUME NEW s \in Student
      PROVE  Cost(lesson', CompletedOf(s)') =
               Cost(lesson, CompletedOf(s)) + (IF s = owner THEN price ELSE 0)
  <2> HIDE DEF owner
  <2>1. CASE s = owner
    BY <1>1, <1>2, <1>5, <2>1
  <2>2. CASE s # owner
    <3>1. CompletedOf(s)' = CompletedOf(s)
      BY <1>2, <2>2
    <3>2. /\ Cost(lesson', CompletedOf(s)) = Cost(lesson, CompletedOf(s))
          /\ Cost(lesson, CompletedOf(s)) \in Nat
      BY <1>5
    <3> QED
      BY <2>2, <3>1, <3>2
  <2> QED
    BY <2>1, <2>2
<1> QED
  BY <1>4, <1>5, <1>6
\* Money is conserved by every request, taken as one step of the book.
LEMMA MoneyStep ==
  IInv /\ MoneyInv /\ [Books!Next]_(Books!bookVars) => MoneyInv'
<1> SUFFICES ASSUME IInv, MoneyInv, [Books!Next]_(Books!bookVars) PROVE MoneyInv'
    OBVIOUS
<1> TypeOK /\ RowsOK /\ lesson \in [Lesson -> LessonRow]
  BY DEF IInv, TypeOK
<1> USE DEF MoneyConserved
<1>1. ASSUME UNCHANGED <<balance, paid>>,
             \A l \in Lesson : "COMPLETED" \in {lesson[l].status, lesson'[l].status}
                                 => lesson'[l] = lesson[l]
      PROVE  MoneyInv'
  BY <1>1, CompletedKept DEF MoneyInv
<1>2. ASSUME NEW l \in Lesson, NEW price \in Price, Books!Complete(l, price)
      PROVE  MoneyInv'
  <2> DEFINE owner == StudentOf[lesson[l].enrollment]
  <2>1. /\ lesson[l].status = "SCHEDULED"
        /\ lesson'[l].status = "COMPLETED" /\ lesson'[l].price = price
        /\ lesson'[l].enrollment = lesson[l].enrollment
        /\ \A m \in Lesson : m # l => lesson'[m] = lesson[m]
    BY <1>2 DEF Books!Complete, LessonRow
  <2>2. /\ CompletedOK'
        /\ \A s \in Student :
             /\ Cost(lesson, CompletedOf(s)) \in Nat
             /\ Cost(lesson, CompletedOf(s))' =
                  Cost(lesson, CompletedOf(s)) + (IF s = owner THEN price ELSE 0)
    BY <2>1, CompletedAdded
  <2>3. owner \in Student /\ price \in Nat
    BY <2>1 DEF RowsOK, Exists
  <2>4. balance \in [Student -> Int] /\ paid' = paid /\ paid \in [Student -> Nat]
    BY <1>2 DEF Books!Complete, TypeOK
  <2>5. \A s \in Student : balance'[s] = balance[s] - (IF s = owner THEN price ELSE 0)
    <3>1. CASE price = 0
      BY <1>2, <2>4, <3>1 DEF Books!Complete
    <3>2. CASE price # 0
      <4>1. balance' = [balance EXCEPT ![owner] = @ - price]
        BY <1>2, <3>2 DEF Books!Complete
      <4> HIDE DEF owner
      <4> QED
        BY <2>3, <2>4, <4>1
    <3> QED
      BY <3>1, <3>2
  <2> HIDE DEF owner
  <2>6. ASSUME NEW s \in Student PROVE balance'[s] = paid'[s] - Cost(lesson, CompletedOf(s))'
    <3> DEFINE c == Cost(lesson, CompletedOf(s))
               d == IF s = owner THEN price ELSE 0
    <3>1. balance[s] = paid[s] - c
      BY DEF MoneyInv
    <3>2. /\ balance'[s] = balance[s] - d
          /\ Cost(lesson, CompletedOf(s))' = c + d
          /\ c \in Nat /\ d \in Nat /\ paid[s] \in Nat /\ paid'[s] = paid[s]
      BY <2>2, <2>3, <2>4, <2>5
    <3> HIDE DEF c, d
    <3> QED
      BY <3>1, <3>2
  <2> QED
    BY <2>2, <2>6 DEF MoneyInv
<1>3. ASSUME NEW l \in Lesson,
             Books!Cancel(l) \/ \E price \in Price : Books!Reprice(l, price)
      PROVE  MoneyInv'
  <2>1. CASE Books!Cancel(l)
    BY <1>1, <2>1 DEF Books!Cancel, LessonRow
  <2>2. CASE \E price \in Price : Books!Reprice(l, price)
    BY <1>1, <2>2 DEF Books!Reprice, LessonRow
  <2> QED
    BY <1>3, <2>1, <2>2
<1>4. ASSUME NEW l \in Lesson, Books!Remove(l) PROVE MoneyInv'
  BY <1>1, <1>4 DEF Books!Remove, Books!NoLesson, RowsOK, LessonRow
<1>5. ASSUME NEW l \in Lesson, NEW n \in Lesson, Books!Reschedule(l, n) PROVE MoneyInv'
  BY <1>1, <1>5 DEF Books!Reschedule, Books!Scheduled, LessonRow
<1>6. ASSUME NEW e \in Enrollment, NEW price \in Price, Books!SetTariff(e, price)
      PROVE  MoneyInv'
  BY <1>1, <1>6 DEF Books!SetTariff
<1>7. UNCHANGED Books!bookVars => MoneyInv'
  BY <1>1 DEF Books!bookVars
<1>8. ASSUME NEW s \in Student, NEW amount \in Amount, Books!TopUp(s, amount)
      PROVE  MoneyInv'
  <2>1. UNCHANGED lesson
    BY <1>8 DEF Books!TopUp
  <2>2. /\ CompletedOK'
        /\ \A t \in Student : Cost(lesson, CompletedOf(t))' = Cost(lesson, CompletedOf(t))
    BY <2>1, CompletedKept
  <2>3. \A t \in Student : Cost(lesson, CompletedOf(t)) \in Int
    BY CostIsInt
  <2>4. balance \in [Student -> Int] /\ paid \in [Student -> Nat] /\ amount \in Nat
    BY DEF TypeOK
  <2>5. ASSUME NEW t \in Student PROVE balance'[t] = paid'[t] - Cost(lesson, CompletedOf(t))'
    <3> DEFINE c == Cost(lesson, CompletedOf(t))
    <3>1. balance[t] = paid[t] - c /\ c \in Int /\ Cost(lesson, CompletedOf(t))' = c
      BY <2>2, <2>3 DEF MoneyInv
    <3> HIDE DEF c
    <3>2. /\ balance' = [balance EXCEPT ![s] = @ + amount]
          /\ paid' = [paid EXCEPT ![s] = @ + amount]
      BY <1>8 DEF Books!TopUp
    <3> QED
      BY <2>4, <3>1, <3>2
  <2> QED
    BY <2>2, <2>5 DEF MoneyInv
<1>9. CASE Books!Next
  <2>1. CASE \E l \in Lesson, price \in Price : Books!Complete(l, price) \/ Books!Reprice(l, price)
    BY <1>2, <1>3, <2>1
  <2>2. CASE \E l \in Lesson : Books!Cancel(l)
    BY <1>3, <2>2
  <2>3. CASE \E l \in Lesson : Books!Remove(l) \/ \E n \in Lesson : Books!Reschedule(l, n)
    BY <1>4, <1>5, <2>3
  <2> QED
    BY <1>6, <1>8, <1>9, <2>1, <2>2, <2>3, Zenon DEF Books!Next
<1> QED
  BY <1>7, <1>9

\* Nobody has paid, nothing is completed.
LEMMA InitMoney == Init => MoneyInv
<1> SUFFICES ASSUME Init PROVE MoneyInv
    OBVIOUS
<1>1. ASSUME NEW l \in Lesson PROVE lesson[l].status # "COMPLETED"
  <2>1. PICK price \in [Lesson -> Price \cup {None}] :
          lesson = [k \in Lesson |-> IF Booked[k] = None THEN NoLesson("NONE")
                                    ELSE Scheduled(Booked[k], price[k])]
    BY DEF Init, Books!Init, Books!NoLesson, Books!Scheduled, NoLesson, Scheduled
  <2> QED
    BY <2>1 DEF NoLesson, Scheduled
<1>2. ASSUME NEW s \in Student
      PROVE  IsFiniteSet(CompletedOf(s)) /\ balance[s] = paid[s] - Cost(lesson, CompletedOf(s))
  <2>1. CompletedOf(s) = {}
    BY <1>1 DEF CompletedOf
  <2>2. IsFiniteSet({}) /\ \A f : SumOf(f, {}) = 0
    BY FS_EmptySet, SumOfEmpty
  <2>3. Cost(lesson, {}) = 0
    BY <2>2, CostIsSum
  <2>4. balance[s] = 0 /\ paid[s] = 0
    BY DEF Init, Books!Init
  <2> QED
    BY <2>1, <2>2, <2>3, <2>4
<1> QED
  BY <1>1, <1>2 DEF MoneyInv, MoneyConserved, CompletedOK

\* Whatever requests race and wherever they fail, a student's balance is what
\* was paid in less the prices stored on that student's completed lessons
\* (payments.service.ts create, lessons.service.ts complete).
THEOREM MoneyIsConserved == Spec => []MoneyConserved
<1>1. IInv /\ ParticipantsOK /\ MoneyInv /\ [Next]_vars => MoneyInv'
  BY NextIsBookStep, MoneyStep
<1>2. MoneyInv => MoneyConserved
  BY DEF MoneyInv
<1>3. Init => ParticipantsOK
  BY InitBook
<1> QED
  BY <1>1, <1>2, <1>3, Invariance, ParticipantsInv, InitMoney, PTL DEF Spec
===============================================================================
