--------------------------- MODULE RescheduleProofs ---------------------------
(***************************************************************************)
(* Proofs about RescheduleRequests for any number of lessons, requests,    *)
(* users and calls: first what the tables and the calls keep true of one   *)
(* another (RInv), then who can wait for whom over rows of requests and    *)
(* lessons (DInv).                                                         *)
(***************************************************************************)
EXTENDS RescheduleRequests, TLAPS

\* Two calls never hold the same row.
LocksExclusive == \A c, d \in Call : c # d => held[c] \cap held[d] = {}

\* The request row the call closes is locked; the lesson it changes is.
HasRequest(c) ==
    call[c].op \in Resolution /\ pc[c] \in {"shareActor", "takeLesson", "lockUser", "commit"}

HasLesson(c) ==
    \/ call[c].op # "reject" /\ pc[c] \in {"lockUser", "commit"}
    \/ call[c].op = "create" /\ pc[c] = "shareActor"

\* What findForResolve read of a request stays true of its row while it exists.
ReadOK(c) ==
    LET q == call[c].request
    IN  call[c].op \in Resolution =>
          /\ q \in Request /\ call[c].actor \in User
          /\ request[q].status # "NONE"
          /\ RequestExists(q) =>
               /\ request[q].lesson = call[c].lesson
               /\ request[q].type = call[c].type
               /\ \/ call[c].actor \in Staff
                  \/ call[c].actor = OtherSide(q) /\ request[q].by \notin call[c].via

\* A call past a conditional update holds the row, in the state it asked for.
CallOK(c) ==
    /\ call[c].op = "none" <=> pc[c] = "idle"
    /\ pc[c] # "idle" => call[c].lesson \in Lesson
    /\ pc[c] = "closeRequest" => call[c].op \in Resolution
    /\ pc[c] \in {"listRequests", "deleteRequests"} => call[c].op = "remove"
    /\ pc[c] = "shareActor" => call[c].op \in Resolution \cup {"create"}
    /\ call[c].op = "create" => call[c].type \in RequestType /\ call[c].actor \in User
    /\ pc[c] = "lockUser" => call[c].op \notin {"complete", "remove"}
    /\ ReadOK(c)
    /\ HasRequest(c) => /\ <<"request", call[c].request>> \in held[c]
                        /\ request[call[c].request].status = "PENDING"
    /\ HasLesson(c) => /\ <<"lesson", call[c].lesson>> \in held[c]
                       /\ lesson[call[c].lesson] \in Takes(call[c].op)

TablesOK == ApprovedOnce /\ RequestsHaveLessons /\ DecidedByOtherSide

RInv == TypeOK /\ LocksExclusive /\ TablesOK /\ \A c \in Call : CallOK(c)

-------------------------------------------------------------------------------
\* The part of TypeOK about calls.
CallsTyped ==
    /\ pc \in [Call -> Label]
    /\ call \in [Call -> Asked]
    /\ held \in [Call -> SUBSET Row]
    /\ shared \in [Call -> SUBSET Row]

\* A step of c leaves the other calls alone.
Others(c) == \A d \in Call \ {c} : pc'[d] = pc[d] /\ call'[d] = call[d] /\ held'[d] = held[d]

\* What a step may do to a request row: nothing to one that a call has locked,
\* except by that call; a row that exists keeps what it asks for.
RowKept(c, q) ==
    /\ request'[q] = request[q] \/ <<"request", q>> \in held[c] \/ request[q].status = "NONE"
    /\ request[q].status # "NONE" => request'[q].status # "NONE"
    /\ request[q].status # "NONE" /\ RequestExists(q)' =>
         /\ RequestExists(q)
         /\ request'[q].lesson = request[q].lesson
         /\ request'[q].type = request[q].type
         /\ request'[q].by = request[q].by

LessonKept(c, l) ==
    lesson'[l] = lesson[l] \/ <<"lesson", l>> \in held[c] \/ lesson[l] = "NONE"

\* A step of one call that keeps to this leaves what the others rely on.
LEMMA OneCallMoves ==
  ASSUME RInv, NEW c \in Call, TypeOK', LocksExclusive', TablesOK', CallOK(c)', Others(c),
         \A q \in Request : RowKept(c, q), \A l \in Lesson : LessonKept(c, l)
  PROVE  RInv'
<1>1. ASSUME NEW d \in Call \ {c} PROVE CallOK(d)'
  <2>1. CallOK(d) /\ pc'[d] = pc[d] /\ call'[d] = call[d] /\ held'[d] = held[d]
    BY DEF RInv, Others
  <2>2. held[c] \cap held[d] = {}
    BY DEF RInv, LocksExclusive
  <2>3. ReadOK(d)'
    <3>1. ASSUME call[d].op \in Resolution, NEW q, q = call[d].request
          PROVE  q \in Request /\ RowKept(c, q) /\ request[q].status # "NONE"
      BY <2>1, <3>1 DEF CallOK, ReadOK
    <3> QED
      BY <2>1, <3>1 DEF CallOK, ReadOK, RowKept, OtherSide, RequestExists
  <2>4. HasRequest(d) => /\ <<"request", call[d].request>> \in held[d]
                         /\ request'[call[d].request].status = "PENDING"
    <3>1. SUFFICES ASSUME HasRequest(d)
                   PROVE  /\ <<"request", call[d].request>> \in held[d]
                          /\ request'[call[d].request].status = "PENDING"
      OBVIOUS
    <3>2. /\ <<"request", call[d].request>> \in held[d]
          /\ request[call[d].request].status = "PENDING"
          /\ call[d].request \in Request
      BY <2>1, <3>1 DEF CallOK, ReadOK, HasRequest
    <3>3. RowKept(c, call[d].request) /\ <<"request", call[d].request>> \notin held[c]
      BY <2>2, <3>2
    <3> QED
      BY <3>2, <3>3 DEF RowKept
  <2>5. HasLesson(d) => /\ <<"lesson", call[d].lesson>> \in held[d]
                        /\ lesson'[call[d].lesson] \in Takes(call[d].op)
    <3>1. SUFFICES ASSUME HasLesson(d)
                   PROVE  /\ <<"lesson", call[d].lesson>> \in held[d]
                          /\ lesson'[call[d].lesson] \in Takes(call[d].op)
      OBVIOUS
    <3>2. /\ <<"lesson", call[d].lesson>> \in held[d]
          /\ lesson[call[d].lesson] \in Takes(call[d].op)
          /\ call[d].lesson \in Lesson
      BY <2>1, <3>1 DEF CallOK, HasLesson
    <3>3. LessonKept(c, call[d].lesson) /\ <<"lesson", call[d].lesson>> \notin held[c]
      BY <2>2, <3>2
    <3> QED
      BY <3>2, <3>3 DEF LessonKept, Takes
  <2> QED
    BY <2>1, <2>3, <2>4, <2>5 DEF CallOK, HasRequest, HasLesson
<1> QED
  BY <1>1 DEF RInv

\* A step that writes neither table.
LEMMA QuietStep ==
  ASSUME RInv, NEW c \in Call, UNCHANGED tables, CallsTyped', LocksExclusive', CallOK(c)',
         Others(c)
  PROVE  RInv'
<1>1. TypeOK' /\ TablesOK'
  BY DEF RInv, TypeOK, CallsTyped, tables, TablesOK, ApprovedOnce, RequestsHaveLessons,
         DecidedByOtherSide, RequestExists, LessonExists, OtherSide
<1>2. /\ \A q \in Request : RowKept(c, q)
      /\ \A l \in Lesson : LessonKept(c, l)
  BY DEF tables, RowKept, LessonKept, RequestExists
<1> QED
  BY <1>1, <1>2, OneCallMoves

-------------------------------------------------------------------------------
\* Locks. A row that is locked was nobody else's.
LEMMA LockOK ==
  ASSUME RInv, NEW c \in Call, NEW row \in Row, Lock(c, row)
  PROVE  /\ LocksExclusive'
         /\ held' \in [Call -> SUBSET Row] /\ shared' \in [Call -> SUBSET Row]
         /\ \A d \in Call \ {c} : held'[d] = held[d]
         /\ row \in held'[c] /\ held[c] \subseteq held'[c]
<1>1. held \in [Call -> SUBSET Row] /\ shared \in [Call -> SUBSET Row]
  BY DEF RInv, TypeOK
<1>2. /\ held' = [held EXCEPT ![c] = @ \cup {row}]
      /\ shared' = shared
      /\ \A d \in Call \ {c} : row \notin held[d]
  BY DEF Lock, Lockable
<1>3. LocksExclusive'
  BY <1>1, <1>2 DEF RInv, LocksExclusive
<1> QED
  BY <1>1, <1>2, <1>3

\* The end of a call leaves it idle, without rows, and the others as they were.
LEMMA EndOK ==
  ASSUME RInv, NEW c \in Call, End(c)
  PROVE  CallsTyped' /\ LocksExclusive' /\ CallOK(c)' /\ Others(c)
<1>1. /\ pc' = [pc EXCEPT ![c] = "idle"] /\ call' = [call EXCEPT ![c] = NoCall]
      /\ held' = [held EXCEPT ![c] = {}] /\ shared' = [shared EXCEPT ![c] = {}]
  BY DEF End, Goto
<1>2. NoCall \in Asked
  BY DEF NoCall, Asked
<1>3. CallsTyped'
  BY <1>1, <1>2 DEF RInv, TypeOK, CallsTyped, Label
<1>4. LocksExclusive' /\ Others(c)
  BY <1>1 DEF RInv, TypeOK, LocksExclusive, Others
<1>5. pc'[c] = "idle" /\ call'[c].op = "none"
  BY <1>1 DEF RInv, TypeOK, NoCall
<1> QED
  BY <1>3, <1>4, <1>5 DEF CallOK, ReadOK, HasRequest, HasLesson, Resolution

\* A call that rolls back changes nothing else.
LEMMA RollbackOK ==
  ASSUME RInv, NEW c \in Call, End(c), UNCHANGED tables
  PROVE  RInv'
BY EndOK, QuietStep

\* A call that arrives is well-formed: what it was asked and has read fits.
LEMMA BeginOK ==
  ASSUME RInv, NEW c \in Call, NEW label, NEW asked,
         Begin(c, label, asked), asked \in Asked, label \in Label \ {"idle"},
         CallOK(c)'
  PROVE  RInv'
<1>1. /\ pc' = [pc EXCEPT ![c] = label] /\ call' = [call EXCEPT ![c] = asked]
      /\ UNCHANGED <<tables, held, shared>>
  BY DEF Begin, Goto
<1>2. CallsTyped' /\ LocksExclusive' /\ Others(c)
  BY <1>1 DEF RInv, TypeOK, CallsTyped, LocksExclusive, Others
<1> QED
  BY <1>1, <1>2, QuietStep

-------------------------------------------------------------------------------
\* One lemma per action.

LEMMA BeginCreateOK ==
  ASSUME RInv, NEW c \in Call, NEW l \in Lesson, NEW u \in User, NEW type \in RequestType,
         BeginCreate(c, l, u, type)
  PROVE  RInv'
<1> DEFINE asked == [NoCall EXCEPT !.op = "create", !.lesson = l, !.actor = u, !.type = type]
<1>1. Begin(c, "takeLesson", asked)
  BY DEF BeginCreate
<1>2. asked \in Asked
  BY DEF Asked, NoCall
<1>3. pc'[c] = "takeLesson" /\ call'[c] = asked
  BY <1>1 DEF Begin, Goto, RInv, TypeOK
<1>4. CallOK(c)'
  BY <1>3 DEF CallOK, ReadOK, HasRequest, HasLesson, NoCall, Resolution
<1> QED
  BY <1>1, <1>2, <1>4, BeginOK DEF Label

LEMMA BeginResolveOK ==
  ASSUME RInv, NEW c \in Call, NEW q \in Request, NEW op, NEW u \in User,
         NEW via \in SUBSET User, BeginResolve(c, q, op, u, via),
         u \in Staff \/ request[q].by \notin via
  PROVE  RInv'
<1> DEFINE asked == [op |-> op, request |-> q, lesson |-> request[q].lesson,
                     type |-> request[q].type, actor |-> u, via |-> via, todo |-> {}]
<1>1. /\ Begin(c, "closeRequest", asked) /\ op \in Resolution
      /\ request[q].status = "PENDING" /\ CanResolve(q, u)
  BY DEF BeginResolve
<1>2. request[q].lesson \in Lesson /\ request[q].type \in RequestType
  BY <1>1 DEF RInv, TypeOK, RequestRow, Resolved
<1>3. asked \in Asked
  BY <1>1, <1>2 DEF Asked
<1>4. /\ pc'[c] = "closeRequest" /\ call'[c] = asked
      /\ request' = request /\ lesson' = lesson
  BY <1>1 DEF Begin, Goto, RInv, TypeOK, tables
<1>5. ReadOK(c)'
  BY <1>1, <1>4 DEF ReadOK, CanResolve, OtherSide
<1>6. CallOK(c)'
  BY <1>1, <1>2, <1>4, <1>5 DEF CallOK, HasRequest, HasLesson, Resolution
<1> QED
  BY <1>1, <1>3, <1>6, BeginOK DEF Label

LEMMA PressButtonOK ==
  ASSUME RInv, NEW c \in Call, NEW q \in Request, NEW op, NEW account \in Account,
         PressButton(c, q, op, account)
  PROVE  RInv'
<1>1. PICK u \in TelegramActors(q, account) : BeginResolve(c, q, op, u, account)
  BY DEF PressButton
<1>2. account \in SUBSET User /\ u \in User
  BY <1>1, RequestAssumption DEF TelegramActors
<1>3. u \in Staff \/ request[q].by \notin account
  BY <1>1 DEF TelegramActors
<1> QED
  BY <1>1, <1>2, <1>3, BeginResolveOK

\* In the application the user who decides is not the creator, unless staff.
LEMMA ResolveInAppOK ==
  ASSUME RInv, NEW c \in Call, NEW q \in Request, NEW op, NEW u \in User,
         BeginResolve(c, q, op, u, {u})
  PROVE  RInv'
<1>1. u \in Staff \/ request[q].by \notin {u}
  BY DEF BeginResolve, CanResolve
<1> QED
  BY <1>1, BeginResolveOK

LEMMA BeginStaffOpOK ==
  ASSUME RInv, NEW c \in Call, NEW l \in Lesson, NEW op, BeginStaffOp(c, l, op)
  PROVE  RInv'
<1> DEFINE label == IF op = "remove" THEN "listRequests" ELSE "takeLesson"
           asked == [NoCall EXCEPT !.op = op, !.lesson = l]
<1>1. Begin(c, label, asked) /\ op \in StaffOp
  BY DEF BeginStaffOp
<1>2. asked \in Asked
  BY <1>1 DEF Asked, NoCall, StaffOp
<1>3. pc'[c] = label /\ call'[c] = asked
  BY <1>1 DEF Begin, Goto, RInv, TypeOK
<1>4. CallOK(c)'
  BY <1>1, <1>3 DEF CallOK, ReadOK, HasRequest, HasLesson, NoCall, Resolution, StaffOp
<1>5. label \in Label \ {"idle"}
  BY DEF Label
<1> QED
  BY <1>1, <1>2, <1>4, <1>5, BeginOK

LEMMA ListRequestsOK ==
  ASSUME RInv, NEW c \in Call, ListRequests(c)
  PROVE  RInv'
<1> DEFINE found == {q \in Request : RequestExists(q) /\ request[q].lesson = call[c].lesson}
           label == IF found = {} THEN "takeLesson" ELSE "deleteRequests"
<1> HIDE DEF found
<1>1. /\ pc[c] = "listRequests" /\ call' = [call EXCEPT ![c].todo = found]
      /\ pc' = [pc EXCEPT ![c] = label] /\ UNCHANGED <<tables, held, shared>>
  BY DEF ListRequests, Goto, found
<1>2. found \subseteq Request
  BY DEF found
<1>3. CallsTyped' /\ LocksExclusive' /\ Others(c)
  <2>1. call' \in [Call -> Asked]
    BY <1>1, <1>2 DEF RInv, TypeOK, Asked
  <2>2. label \in Label
    BY DEF Label
  <2>3. LocksExclusive' /\ Others(c)
    BY <1>1 DEF RInv, TypeOK, LocksExclusive, Others
  <2> HIDE DEF label
  <2> QED
    BY <1>1, <2>1, <2>2, <2>3 DEF RInv, TypeOK, CallsTyped
<1>4. /\ call[c].op = "remove" /\ call[c].lesson \in Lesson
      /\ call'[c].op = call[c].op /\ call'[c].lesson = call[c].lesson
      /\ pc'[c] \in {"takeLesson", "deleteRequests"}
  BY <1>1 DEF RInv, TypeOK, CallOK, Asked
<1>5. CallOK(c)'
  BY <1>4 DEF CallOK, ReadOK, HasRequest, HasLesson, Resolution
<1> QED
  BY <1>1, <1>3, <1>5, QuietStep

LEMMA DeleteRequestOK ==
  ASSUME RInv, NEW c \in Call, NEW q \in Request, DeleteRequest(c, q)
  PROVE  RInv'
<1> DEFINE label == IF call[c].todo = {q} THEN "takeLesson" ELSE "deleteRequests"
<1>1. /\ pc[c] = "deleteRequests" /\ call' = [call EXCEPT ![c].todo = @ \ {q}]
      /\ pc' = [pc EXCEPT ![c] = label] /\ UNCHANGED tables
      /\ Lock(c, <<"request", q>>) \/ UNCHANGED <<held, shared>>
  BY DEF DeleteRequest, Goto
<1>2. /\ LocksExclusive' /\ held' \in [Call -> SUBSET Row] /\ shared' \in [Call -> SUBSET Row]
      /\ \A d \in Call \ {c} : held'[d] = held[d]
  <2>1. CASE Lock(c, <<"request", q>>)
    <3>1. <<"request", q>> \in Row
      BY DEF Row
    <3> QED
      BY <2>1, <3>1, LockOK
  <2>2. CASE UNCHANGED <<held, shared>>
    BY <2>2 DEF RInv, TypeOK, LocksExclusive
  <2> QED
    BY <1>1, <2>1, <2>2
<1>3. CallsTyped' /\ Others(c)
  <2>1. label \in Label
    BY DEF Label
  <2>2. call' \in [Call -> Asked]
    BY <1>1 DEF RInv, TypeOK, Asked
  <2> HIDE DEF label
  <2> QED
    BY <1>1, <1>2, <2>1, <2>2 DEF RInv, TypeOK, CallsTyped, Others
<1>4. /\ call[c].op = "remove" /\ call[c].lesson \in Lesson
      /\ call'[c].op = call[c].op /\ call'[c].lesson = call[c].lesson
      /\ pc'[c] \in {"takeLesson", "deleteRequests"}
  BY <1>1 DEF RInv, TypeOK, CallOK, Asked
<1>5. CallOK(c)'
  BY <1>4 DEF CallOK, ReadOK, HasRequest, HasLesson, Resolution
<1> QED
  BY <1>1, <1>2, <1>3, <1>5, QuietStep

\* The statements that take a row: what they leave of the call is the same.
Advances(c, label) ==
    /\ pc' = [pc EXCEPT ![c] = label] /\ label \in Label \ {"idle"}
    /\ UNCHANGED <<tables, call>>

LEMMA AdvanceOK ==
  ASSUME RInv, NEW c \in Call, NEW label, Advances(c, label),
         held' \in [Call -> SUBSET Row], shared' \in [Call -> SUBSET Row],
         \A d \in Call \ {c} : held'[d] = held[d], LocksExclusive'
  PROVE  /\ CallsTyped' /\ Others(c)
         /\ pc'[c] = label /\ call'[c] = call[c]
         /\ request' = request /\ lesson' = lesson
         /\ CallOK(c)' => RInv'
<1>1. CallsTyped' /\ Others(c) /\ pc'[c] = label /\ UNCHANGED <<tables, call>>
  BY DEF Advances, RInv, TypeOK, CallsTyped, Others
<1> QED
  BY <1>1, QuietStep DEF tables

LEMMA CloseRequestOK ==
  ASSUME RInv, NEW c \in Call, CloseRequest(c)
  PROVE  RInv'
<1>1. CallOK(c) /\ pc[c] = "closeRequest" /\ call[c].op \in Resolution
  BY DEF CloseRequest, RInv, CallOK
<1>2. call[c].request \in Request /\ request[call[c].request].status = "PENDING"
  BY <1>1 DEF CloseRequest, CallOK, ReadOK
<1>3. Advances(c, "shareActor") /\ Lock(c, <<"request", call[c].request>>)
  BY DEF CloseRequest, Advances, Goto, Label
<1>4. <<"request", call[c].request>> \in Row
  BY <1>2 DEF Row
<1>5. /\ CallsTyped' /\ Others(c) /\ LocksExclusive'
      /\ pc'[c] = "shareActor" /\ call'[c] = call[c]
      /\ request' = request /\ lesson' = lesson
      /\ <<"request", call[c].request>> \in held'[c]
      /\ CallOK(c)' => RInv'
  BY <1>3, <1>4, LockOK, AdvanceOK
<1>6. CallOK(c)'
  BY <1>1, <1>2, <1>5 DEF CallOK, ReadOK, HasRequest, HasLesson, Resolution, RequestExists, OtherSide
<1> QED
  BY <1>5, <1>6

LEMMA ShareActorOK ==
  ASSUME RInv, NEW c \in Call, ShareActor(c)
  PROVE  RInv'
<1> DEFINE label == IF call[c].op = "approve" THEN "takeLesson" ELSE "lockUser"
<1>1. /\ CallOK(c) /\ pc[c] = "shareActor" /\ call[c].op \in Resolution \cup {"create"}
      /\ call[c].actor \in User
  BY DEF ShareActor, RInv, CallOK, ReadOK
<1>2. Advances(c, label)
  BY DEF ShareActor, Share, Advances, Goto, Label
<1>3. shared' = [shared EXCEPT ![c] = @ \cup {<<"user", call[c].actor>>}] /\ held' = held
  BY DEF ShareActor, Share
<1>4. <<"user", call[c].actor>> \in Row
  BY <1>1 DEF Row
<1>5. /\ shared' \in [Call -> SUBSET Row] /\ held' \in [Call -> SUBSET Row]
      /\ LocksExclusive'
  BY <1>3, <1>4 DEF RInv, TypeOK, LocksExclusive
<1>6. /\ pc'[c] = label /\ call'[c] = call[c]
      /\ request' = request /\ lesson' = lesson
      /\ CallOK(c)' => RInv'
  BY <1>2, <1>3, <1>5, AdvanceOK
<1>7. CallOK(c)'
  BY <1>1, <1>3, <1>6 DEF CallOK, ReadOK, HasRequest, HasLesson, Resolution, RequestExists, OtherSide
<1> QED
  BY <1>6, <1>7

LEMMA TakeLessonOK ==
  ASSUME RInv, NEW c \in Call, TakeLesson(c)
  PROVE  RInv'
<1> DEFINE label == AfterTake(call[c].op)
<1>1. CallOK(c) /\ pc[c] = "takeLesson" /\ call[c].lesson \in Lesson /\ call[c].op # "none"
  BY DEF TakeLesson, RInv, CallOK
<1>2. /\ lesson[call[c].lesson] \in Takes(call[c].op)
      /\ Lock(c, <<"lesson", call[c].lesson>>)
      /\ Advances(c, label)
  BY DEF TakeLesson, Advances, Goto, AfterTake, Label
<1>3. <<"lesson", call[c].lesson>> \in Row
  BY <1>1 DEF Row
<1>4. /\ pc'[c] = label /\ call'[c] = call[c]
      /\ request' = request /\ lesson' = lesson
      /\ <<"lesson", call[c].lesson>> \in held'[c] /\ held[c] \subseteq held'[c]
      /\ CallOK(c)' => RInv'
  BY <1>2, <1>3, LockOK, AdvanceOK
<1>5. CallOK(c)'
  BY <1>1, <1>2, <1>4 DEF CallOK, ReadOK, HasRequest, HasLesson, AfterTake, Takes, Resolution, RequestExists, OtherSide
<1> QED
  BY <1>4, <1>5

LEMMA LockUserOK ==
  ASSUME RInv, NEW c \in Call, LockUser(c)
  PROVE  RInv'
<1>1. CallOK(c) /\ pc[c] = "lockUser" /\ call[c].lesson \in Lesson
  BY DEF LockUser, RInv, CallOK
<1>2. Lock(c, <<"user", StudentOf[call[c].lesson]>>) /\ Advances(c, "commit")
  BY DEF LockUser, Advances, Goto, Label
<1>3. <<"user", StudentOf[call[c].lesson]>> \in Row
  BY <1>1, RequestAssumption DEF Row
<1>4. /\ pc'[c] = "commit" /\ call'[c] = call[c]
      /\ request' = request /\ lesson' = lesson /\ held[c] \subseteq held'[c]
      /\ CallOK(c)' => RInv'
  BY <1>2, <1>3, LockOK, AdvanceOK
<1>5. CallOK(c)'
  BY <1>1, <1>4 DEF CallOK, ReadOK, HasRequest, HasLesson, Resolution, RequestExists, OtherSide
<1> QED
  BY <1>4, <1>5

-------------------------------------------------------------------------------
\* Commits: what is left to show of one is what it does to the tables.
LEMMA CommitOK ==
  ASSUME RInv, NEW c \in Call, End(c), TablesOK',
         lesson' \in [Lesson -> LessonStatus], request' \in [Request -> RequestRow],
         \A q \in Request : RowKept(c, q), \A l \in Lesson : LessonKept(c, l)
  PROVE  RInv'
<1>1. CallsTyped' /\ LocksExclusive' /\ CallOK(c)' /\ Others(c)
  BY EndOK
<1> QED
  BY <1>1, OneCallMoves DEF TypeOK, CallsTyped

LEMMA CommitCreateOK ==
  ASSUME RInv, NEW c \in Call, NEW q \in Request, CommitCreate(c, q)
  PROVE  RInv' /\ \A p \in Request : Final(p)
<1> DEFINE row == [status |-> "PENDING", lesson |-> call[c].lesson, type |-> call[c].type,
                   by |-> call[c].actor, resolvedBy |-> None, via |-> {}]
<1>1. /\ pc[c] = "commit" /\ call[c].op = "create" /\ request[q].status = "NONE"
      /\ request' = [request EXCEPT ![q] = row] /\ End(c) /\ lesson' = lesson
  BY DEF CommitCreate
<1>2. /\ call[c].lesson \in Lesson /\ call[c].type \in RequestType /\ call[c].actor \in User
      /\ lesson[call[c].lesson] = "SCHEDULED"
  BY <1>1 DEF RInv, CallOK, HasLesson, Takes
<1>3. row \in RequestRow
  BY <1>2 DEF RequestRow
<1> HIDE DEF row
<1>4. /\ request' \in [Request -> RequestRow] /\ lesson' \in [Lesson -> LessonStatus]
      /\ request'[q] = row /\ \A p \in Request \ {q} : request'[p] = request[p]
  BY <1>1, <1>3 DEF RInv, TypeOK
<1>5. row.status = "PENDING" /\ row.lesson = call[c].lesson
  BY DEF row
<1>6. TablesOK'
  <2>1. ApprovedOnce'
    BY <1>1, <1>4, <1>5 DEF RInv, TablesOK, ApprovedOnce
  <2>2. RequestsHaveLessons'
    BY <1>1, <1>2, <1>4, <1>5 DEF RInv, TablesOK, RequestsHaveLessons, RequestExists, LessonExists
  <2>3. DecidedByOtherSide'
    BY <1>1, <1>4, <1>5 DEF RInv, TablesOK, DecidedByOtherSide, Resolved, OtherSide
  <2> QED
    BY <2>1, <2>2, <2>3 DEF TablesOK
<1>7. /\ \A p \in Request : RowKept(c, p)
      /\ \A l \in Lesson : LessonKept(c, l)
      /\ \A p \in Request : Final(p)
  BY <1>1, <1>4, <1>5 DEF RowKept, LessonKept, RequestExists, Final, Resolved
<1> QED
  BY <1>1, <1>4, <1>6, <1>7, CommitOK

\* The row that a call resolves was pending, and becomes what the call decided.
LEMMA ResolveOK ==
  ASSUME RInv, NEW c \in Call, pc[c] = "commit", call[c].op \in Resolution,
         NEW status \in Resolved, Resolve(c, status)
  PROVE  /\ call[c].request \in Request /\ request' \in [Request -> RequestRow]
         /\ <<"request", call[c].request>> \in held[c]
         /\ request[call[c].request].status = "PENDING"
         /\ request[call[c].request].lesson = call[c].lesson
         /\ request[call[c].request].type = call[c].type
         /\ request'[call[c].request].status = status
         /\ request'[call[c].request].lesson = call[c].lesson
         /\ request'[call[c].request].type = call[c].type
         /\ \A p \in Request \ {call[c].request} : request'[p] = request[p]
         /\ \A p \in Request : RowKept(c, p) /\ Final(p)
         /\ DecidedByOtherSide'
<1> DEFINE q == call[c].request
           row == [request[q] EXCEPT !.status = status, !.resolvedBy = call[c].actor,
                                     !.via = call[c].via]
<1>1. /\ q \in Request /\ call[c].actor \in User /\ call[c].via \in SUBSET User
      /\ <<"request", q>> \in held[c] /\ request[q].status = "PENDING"
      /\ request[q].lesson = call[c].lesson /\ request[q].type = call[c].type
      /\ \/ call[c].actor \in Staff
         \/ call[c].actor = OtherSide(q) /\ request[q].by \notin call[c].via
  BY DEF RInv, CallOK, ReadOK, HasRequest, TypeOK, Asked, RequestExists
<1>2. request[q] \in [status: {"PENDING"}, lesson: Lesson, type: RequestType, by: User,
                      resolvedBy: {None}, via: {{}}]
  BY <1>1 DEF RInv, TypeOK, RequestRow, Resolved
<1>3. row \in [status: Resolved, lesson: Lesson, type: RequestType, by: User,
              resolvedBy: User, via: SUBSET User]
  BY <1>1, <1>2
<1>4. /\ row.status = status /\ row.lesson = request[q].lesson /\ row.type = request[q].type
      /\ row.by = request[q].by /\ row.resolvedBy = call[c].actor /\ row.via = call[c].via
  BY <1>2
<1>5. request' = [request EXCEPT ![q] = row]
  BY DEF Resolve
<1> HIDE DEF row
<1>6. /\ request' \in [Request -> RequestRow] /\ request'[q] = row
      /\ \A p \in Request \ {q} : request'[p] = request[p]
  BY <1>1, <1>3, <1>5 DEF RInv, TypeOK, RequestRow
<1> HIDE DEF q
<1>7. \A p \in Request : RowKept(c, p) /\ Final(p)
  BY <1>1, <1>4, <1>6 DEF RowKept, Final, RequestExists, Resolved
<1>8. DecidedByOtherSide'
  BY <1>1, <1>4, <1>6 DEF RInv, TablesOK, DecidedByOtherSide, OtherSide
<1> QED
  BY <1>1, <1>4, <1>6, <1>7, <1>8 DEF q

LEMMA CommitRejectOK ==
  ASSUME RInv, NEW c \in Call, CommitReject(c)
  PROVE  RInv' /\ \A p \in Request : Final(p)
<1>1. /\ pc[c] = "commit" /\ call[c].op = "reject" /\ Resolve(c, "REJECTED")
      /\ End(c) /\ lesson' = lesson
  BY DEF CommitReject
<1>2. call[c].op \in Resolution /\ "REJECTED" \in Resolved
  BY <1>1 DEF Resolution, Resolved
<1> DEFINE q == call[c].request
<1>3. /\ q \in Request /\ request' \in [Request -> RequestRow]
      /\ request[q].status = "PENDING" /\ request'[q].status = "REJECTED"
      /\ request'[q].lesson = request[q].lesson
      /\ \A p \in Request \ {q} : request'[p] = request[p]
      /\ \A p \in Request : RowKept(c, p) /\ Final(p)
      /\ DecidedByOtherSide'
  BY <1>1, <1>2, ResolveOK
<1> HIDE DEF q
<1>4. ApprovedOnce' /\ RequestsHaveLessons'
  BY <1>1, <1>3 DEF RInv, TablesOK, ApprovedOnce, RequestsHaveLessons, RequestExists, LessonExists
<1>5. lesson' \in [Lesson -> LessonStatus] /\ \A l \in Lesson : LessonKept(c, l)
  BY <1>1 DEF RInv, TypeOK, LessonKept
<1> QED
  BY <1>1, <1>3, <1>4, <1>5, CommitOK DEF TablesOK

\* A scheduled lesson is decided, alone or with the request that asked for it.
LEMMA DecideOK ==
  ASSUME RInv, NEW c \in Call, pc[c] = "commit", call[c].op \in {"cancel", "complete", "reschedule", "approve"},
         End(c), lesson' \in [Lesson -> LessonStatus],
         lesson'[call[c].lesson] \in {"CANCELED", "COMPLETED", "RESCHEDULED"},
         \A m \in Lesson \ {call[c].lesson} :
           lesson'[m] = lesson[m] \/ (lesson[m] = "NONE" /\ lesson'[m] = "SCHEDULED"),
         \/ UNCHANGED request
         \/ /\ call[c].op = "approve" /\ Resolve(c, "APPROVED")
            /\ lesson'[call[c].lesson] = (IF call[c].type = "CANCEL" THEN "CANCELED" ELSE "RESCHEDULED")
  PROVE  RInv' /\ \A p \in Request : Final(p)
<1> DEFINE l == call[c].lesson
           q == call[c].request
<1>1. l \in Lesson /\ <<"lesson", l>> \in held[c] /\ lesson[l] = "SCHEDULED"
  BY DEF RInv, CallOK, HasLesson, Takes
<1>2. \A p \in Request : request[p].status = "APPROVED" =>
        /\ request[p].lesson \in Lesson \ {l}
        /\ lesson[request[p].lesson] # "NONE"
        /\ lesson'[request[p].lesson] = lesson[request[p].lesson]
  <2>1. SUFFICES ASSUME NEW p \in Request, request[p].status = "APPROVED"
                 PROVE  /\ request[p].lesson \in Lesson \ {l}
                        /\ lesson[request[p].lesson] # "NONE"
    BY <1>1
  <2>2. request[p] \in RequestRow
    BY DEF RInv, TypeOK
  <2>3. request[p].lesson \in Lesson
    BY <2>1, <2>2 DEF RequestRow
  <2> QED
    BY <1>1, <2>1, <2>3 DEF RInv, TablesOK, ApprovedOnce
<1>3. \A p \in Request : RequestExists(p) =>
        lesson'[request[p].lesson] \notin {"NONE", "DELETED"}
  <2>1. SUFFICES ASSUME NEW p \in Request, RequestExists(p)
                 PROVE  lesson'[request[p].lesson] \notin {"NONE", "DELETED"}
    OBVIOUS
  <2>2. lesson[request[p].lesson] \notin {"NONE", "DELETED"}
    BY <2>1 DEF RInv, TablesOK, RequestsHaveLessons, LessonExists
  <2>3. request[p].lesson \in Lesson
    BY <2>1 DEF RInv, TypeOK, RequestRow, RequestExists
  <2> QED
    BY <1>1, <2>2, <2>3
<1>4. \A m \in Lesson : LessonKept(c, m)
  BY <1>1 DEF LessonKept
<1>5. CASE UNCHANGED request
  <2>1. ApprovedOnce'
    BY <1>2, <1>5 DEF RInv, TablesOK, ApprovedOnce
  <2>2. RequestsHaveLessons' /\ DecidedByOtherSide'
    BY <1>3, <1>5 DEF RInv, TablesOK, RequestsHaveLessons, DecidedByOtherSide, RequestExists, LessonExists, OtherSide
  <2>3. /\ request' \in [Request -> RequestRow]
        /\ \A p \in Request : RowKept(c, p) /\ Final(p)
    BY <1>5 DEF RInv, TypeOK, RowKept, Final, RequestExists
  <2> QED
    BY <1>4, <2>1, <2>2, <2>3, CommitOK DEF TablesOK
<1>6. CASE /\ call[c].op = "approve" /\ Resolve(c, "APPROVED")
           /\ lesson'[l] = (IF call[c].type = "CANCEL" THEN "CANCELED" ELSE "RESCHEDULED")
  <2>1. call[c].op \in Resolution /\ "APPROVED" \in Resolved
    BY <1>6 DEF Resolution, Resolved
  <2>2. /\ q \in Request /\ request' \in [Request -> RequestRow]
        /\ request[q].status = "PENDING" /\ request'[q].status = "APPROVED"
        /\ request'[q].lesson = l /\ request[q].lesson = l
        /\ request'[q].type = call[c].type
        /\ \A p \in Request \ {q} : request'[p] = request[p]
        /\ \A p \in Request : RowKept(c, p) /\ Final(p)
        /\ DecidedByOtherSide'
    BY <1>6, <2>1, ResolveOK
  <2> HIDE DEF q, l
  <2>3. ApprovedOnce'
    <3>1. ASSUME NEW p \in Request, request'[p].status = "APPROVED"
          PROVE  /\ lesson'[request'[p].lesson] =
                      (IF request'[p].type = "CANCEL" THEN "CANCELED" ELSE "RESCHEDULED")
                 /\ p = q \/ request'[p].lesson # l
      <4>1. CASE p = q
        BY <1>6, <2>2, <4>1
      <4>2. CASE p # q
        <5>1. request'[p] = request[p]
          BY <2>2, <4>2
        <5>2. lesson[request[p].lesson] = (IF request[p].type = "CANCEL" THEN "CANCELED" ELSE "RESCHEDULED")
          BY <3>1, <5>1 DEF RInv, TablesOK, ApprovedOnce
        <5> QED
          BY <1>2, <3>1, <5>1, <5>2
      <4> QED
        BY <4>1, <4>2
    <3>2. ASSUME NEW p \in Request, NEW r \in Request, request'[p].status = "APPROVED",
                 request'[r].status = "APPROVED", request'[p].lesson = request'[r].lesson
          PROVE  p = r
      <4>1. CASE p = q \/ r = q
        BY <2>2, <3>1, <3>2, <4>1
      <4>2. CASE p # q /\ r # q
        BY <2>2, <3>2, <4>2 DEF RInv, TablesOK, ApprovedOnce
      <4> QED
        BY <4>1, <4>2
    <3> QED
      BY <3>1, <3>2 DEF ApprovedOnce
  <2>4. RequestsHaveLessons'
    BY <1>3, <2>2 DEF RequestsHaveLessons, RequestExists, LessonExists
  <2> QED
    BY <1>4, <2>2, <2>3, <2>4, CommitOK DEF TablesOK
<1> QED
  BY <1>5, <1>6

LEMMA CommitCancelOK ==
  ASSUME RInv, NEW c \in Call, CommitCancel(c)
  PROVE  RInv' /\ \A p \in Request : Final(p)
<1>1. /\ pc[c] = "commit" /\ End(c)
      /\ lesson' = [lesson EXCEPT ![call[c].lesson] = "CANCELED"]
      /\ \/ call[c].op = "cancel" /\ UNCHANGED request
         \/ call[c].op = "approve" /\ call[c].type = "CANCEL" /\ Resolve(c, "APPROVED")
  BY DEF CommitCancel
<1>2. call[c].lesson \in Lesson
  BY <1>1 DEF RInv, CallOK
<1>3. /\ lesson' \in [Lesson -> LessonStatus] /\ lesson'[call[c].lesson] = "CANCELED"
      /\ \A m \in Lesson \ {call[c].lesson} : lesson'[m] = lesson[m]
  BY <1>1, <1>2 DEF RInv, TypeOK, LessonStatus
<1> QED
  BY <1>1, <1>3, DecideOK

LEMMA CommitCompleteOK ==
  ASSUME RInv, NEW c \in Call, CommitComplete(c)
  PROVE  RInv' /\ \A p \in Request : Final(p)
<1>1. /\ pc[c] = "commit" /\ End(c) /\ call[c].op = "complete" /\ UNCHANGED request
      /\ lesson' = [lesson EXCEPT ![call[c].lesson] = "COMPLETED"]
  BY DEF CommitComplete
<1>2. call[c].lesson \in Lesson
  BY <1>1 DEF RInv, CallOK
<1>3. /\ lesson' \in [Lesson -> LessonStatus] /\ lesson'[call[c].lesson] = "COMPLETED"
      /\ \A m \in Lesson \ {call[c].lesson} : lesson'[m] = lesson[m]
  BY <1>1, <1>2 DEF RInv, TypeOK, LessonStatus
<1> QED
  BY <1>1, <1>3, DecideOK

LEMMA CommitRescheduleOK ==
  ASSUME RInv, NEW c \in Call, NEW n \in Lesson, CommitReschedule(c, n)
  PROVE  RInv' /\ \A p \in Request : Final(p)
<1> DEFINE l == call[c].lesson
<1>1. /\ pc[c] = "commit" /\ End(c) /\ lesson[n] = "NONE"
      /\ lesson' = [lesson EXCEPT ![l] = "RESCHEDULED", ![n] = "SCHEDULED"]
      /\ \/ call[c].op = "reschedule" /\ UNCHANGED request
         \/ call[c].op = "approve" /\ call[c].type = "RESCHEDULE" /\ Resolve(c, "APPROVED")
  BY DEF CommitReschedule
<1>2. l \in Lesson /\ lesson[l] = "SCHEDULED"
  BY <1>1 DEF RInv, CallOK, HasLesson, Takes
<1>3. /\ lesson' \in [Lesson -> LessonStatus] /\ lesson'[l] = "RESCHEDULED"
      /\ \A m \in Lesson \ {l} :
           lesson'[m] = lesson[m] \/ (lesson[m] = "NONE" /\ lesson'[m] = "SCHEDULED")
  BY <1>1, <1>2 DEF RInv, TypeOK, LessonStatus
<1> QED
  BY <1>1, <1>3, DecideOK

LEMMA CommitRemoveOK ==
  ASSUME RInv, NEW c \in Call, CommitRemove(c)
  PROVE  RInv' /\ \A p \in Request : Final(p)
<1> DEFINE l == call[c].lesson
<1>1. /\ pc[c] = "commit" /\ End(c) /\ call[c].op = "remove" /\ Remaining(c) = {}
      /\ lesson' = [lesson EXCEPT ![l] = "DELETED"]
      /\ request' = [q \in Request |-> IF q \in Deleted(c) THEN NoRequest("DELETED") ELSE request[q]]
  BY DEF CommitRemove
<1>2. l \in Lesson /\ <<"lesson", l>> \in held[c]
  BY <1>1 DEF RInv, CallOK, HasLesson
<1>3. /\ lesson' \in [Lesson -> LessonStatus]
      /\ \A m \in Lesson \ {l} : lesson'[m] = lesson[m]
      /\ \A m \in Lesson : LessonKept(c, m)
  BY <1>1, <1>2 DEF RInv, TypeOK, LessonStatus, LessonKept
<1>4. ASSUME NEW q \in Request
      PROVE  \/ <<"request", q>> \in held[c] /\ request'[q] = NoRequest("DELETED")
             \/ request'[q] = request[q] /\ (RequestExists(q) => request[q].lesson # l)
  BY <1>1, <1>4 DEF Deleted, Remaining
<1>5. NoRequest("DELETED").status = "DELETED" /\ NoRequest("DELETED") \in RequestRow
  BY DEF NoRequest, RequestRow
<1>6. request' \in [Request -> RequestRow]
  BY <1>1, <1>5 DEF RInv, TypeOK
<1>7. \A q \in Request : RowKept(c, q) /\ Final(q)
  BY <1>4, <1>5 DEF RowKept, Final, RequestExists
<1>8. ASSUME NEW q \in Request, RequestExists(q)'
      PROVE  request'[q] = request[q] /\ request[q].lesson \in Lesson \ {l} /\ RequestExists(q)
  <2>1. request'[q] = request[q] /\ RequestExists(q) /\ request[q].lesson # l
    BY <1>4, <1>5, <1>8 DEF RequestExists
  <2> QED
    BY <2>1 DEF RInv, TypeOK, RequestRow, RequestExists
<1>9. TablesOK'
  <2>1. ApprovedOnce'
    BY <1>3, <1>8 DEF RInv, TablesOK, ApprovedOnce, RequestExists
  <2>2. RequestsHaveLessons'
    BY <1>3, <1>8 DEF RInv, TablesOK, RequestsHaveLessons, LessonExists
  <2>3. DecidedByOtherSide'
    BY <1>8 DEF RInv, TablesOK, DecidedByOtherSide, RequestExists, Resolved, OtherSide
  <2> QED
    BY <2>1, <2>2, <2>3 DEF TablesOK
<1> QED
  BY <1>1, <1>3, <1>6, <1>7, <1>9, CommitOK

-------------------------------------------------------------------------------
LEMMA InitOK == Init => RInv
<1> SUFFICES ASSUME Init PROVE RInv
  OBVIOUS
<1>1. TypeOK
  BY RequestAssumption DEF Init, TypeOK, LessonStatus, RequestRow, NoRequest, Label, Asked, NoCall
<1>2. LocksExclusive
  BY DEF Init, LocksExclusive
<1>3. TablesOK
  BY DEF Init, TablesOK, ApprovedOnce, RequestsHaveLessons, DecidedByOtherSide, NoRequest,
         Resolved, RequestExists
<1>4. ASSUME NEW c \in Call PROVE CallOK(c)
  <2>1. pc[c] = "idle" /\ call[c].op = "none"
    BY DEF Init, NoCall
  <2> QED
    BY <2>1 DEF CallOK, ReadOK, HasRequest, HasLesson, Resolution
<1> QED
  BY <1>1, <1>2, <1>3, <1>4 DEF RInv

\* A step that leaves the tables alone leaves resolutions alone.
LEMMA QuietIsFinal ==
  ASSUME UNCHANGED tables PROVE \A q \in Request : Final(q)
BY DEF tables, Final

LEMMA ArriveOK ==
  ASSUME RInv, NEW c \in Call, Arrive(c)
  PROVE  RInv' /\ \A q \in Request : Final(q)
<1>1. UNCHANGED tables
  BY DEF Arrive, BeginCreate, BeginResolve, PressButton, BeginStaffOp, Begin
<1>2. RInv'
  <2>1. CASE \E l \in Lesson, u \in User, type \in RequestType : BeginCreate(c, l, u, type)
    BY <2>1, BeginCreateOK
  <2>2. CASE \E q \in Request, op \in Resolution, u \in User : BeginResolve(c, q, op, u, {u})
    BY <2>2, ResolveInAppOK
  <2>3. CASE \E q \in Request, op \in Resolution, a \in Account : PressButton(c, q, op, a)
    BY <2>3, PressButtonOK
  <2>4. CASE \E l \in Lesson, op \in StaffOp : BeginStaffOp(c, l, op)
    BY <2>4, BeginStaffOpOK
  <2> QED
    BY <2>1, <2>2, <2>3, <2>4 DEF Arrive
<1> QED
  BY <1>1, <1>2, QuietIsFinal

LEMMA StatementOK ==
  ASSUME RInv, NEW c \in Call, Statement(c)
  PROVE  RInv' /\ \A q \in Request : Final(q)
<1>1. CASE ListRequests(c)
  BY <1>1, ListRequestsOK, QuietIsFinal DEF ListRequests
<1>2. CASE \E q \in Request : DeleteRequest(c, q)
  BY <1>2, DeleteRequestOK, QuietIsFinal DEF DeleteRequest
<1>3. CASE CloseRequest(c)
  BY <1>3, CloseRequestOK, QuietIsFinal DEF CloseRequest, tables
<1>4. CASE ShareActor(c)
  BY <1>4, ShareActorOK, QuietIsFinal DEF ShareActor, tables
<1>5. CASE TakeLesson(c)
  BY <1>5, TakeLessonOK, QuietIsFinal DEF TakeLesson, tables
<1>6. CASE LockUser(c)
  BY <1>6, LockUserOK, QuietIsFinal DEF LockUser, tables
<1>7. CASE Commit(c)
  <2>1. CASE \E q \in Request : CommitCreate(c, q)
    BY <2>1, CommitCreateOK
  <2>2. CASE CommitReject(c)
    BY <2>2, CommitRejectOK
  <2>3. CASE CommitCancel(c)
    BY <2>3, CommitCancelOK
  <2>4. CASE \E n \in Lesson : CommitReschedule(c, n)
    BY <2>4, CommitRescheduleOK
  <2>5. CASE CommitComplete(c)
    BY <2>5, CommitCompleteOK
  <2>6. CASE CommitRemove(c)
    BY <2>6, CommitRemoveOK
  <2> QED
    BY <1>7, <2>1, <2>2, <2>3, <2>4, <2>5, <2>6 DEF Commit
<1>8. CASE Reject(c)
  BY <1>8, RollbackOK, QuietIsFinal DEF Reject
<1> QED
  BY <1>1, <1>2, <1>3, <1>4, <1>5, <1>6, <1>7, <1>8 DEF Statement

LEMMA NextOK == RInv /\ [Next]_vars => RInv' /\ \A q \in Request : Final(q)
<1> SUFFICES ASSUME RInv, [Next]_vars PROVE RInv' /\ \A q \in Request : Final(q)
  OBVIOUS
<1>1. ASSUME NEW c \in Call, Arrive(c) PROVE RInv' /\ \A q \in Request : Final(q)
  BY <1>1, ArriveOK
<1>2. ASSUME NEW c \in Call, Statement(c) PROVE RInv' /\ \A q \in Request : Final(q)
  BY <1>2, StatementOK
<1>3. ASSUME NEW c \in Call, Fail(c) \/ DeadlockVictim(c)
      PROVE  RInv' /\ \A q \in Request : Final(q)
  BY <1>3, RollbackOK, QuietIsFinal DEF Fail, DeadlockVictim
<1>4. CASE UNCHANGED vars
  <2>1. RInv'
    BY <1>4 DEF vars, RInv, TypeOK, LocksExclusive, TablesOK, ApprovedOnce, RequestsHaveLessons,
            DecidedByOtherSide, CallOK, ReadOK, HasRequest, HasLesson, RequestExists,
            LessonExists, OtherSide
  <2> QED
    BY <1>4, <2>1, QuietIsFinal DEF vars, tables
<1> QED
  BY <1>1, <1>2, <1>3, <1>4 DEF Next

-------------------------------------------------------------------------------
LEMMA InvariantHolds == Spec => []RInv
BY InitOK, NextOK, PTL DEF Spec

\* Both tables, every call and its locks hold values of their types
\* (RescheduleRequest in lesson.prisma; a resolved request says by whom).
THEOREM RequestsTypeCorrect == Spec => []TypeOK
<1>1. RInv => TypeOK
  BY DEF RInv
<1> QED
  BY <1>1, InvariantHolds, PTL

\* An approval and its change of the lesson are one, and a lesson is decided by
\* at most one approval (reschedule.service.ts approve, closePending).
THEOREM ApprovalsHappenOnce == Spec => []ApprovedOnce
<1>1. RInv => ApprovedOnce
  BY DEF RInv, TablesOK
<1> QED
  BY <1>1, InvariantHolds, PTL

\* No request outlives its lesson, whichever of creation and removal is first
\* (lessons.service.ts remove, reschedule.service.ts createRequest).
THEOREM RequestsKeepTheirLessons == Spec => []RequestsHaveLessons
<1>1. RInv => RequestsHaveLessons
  BY DEF RInv, TablesOK
<1> QED
  BY <1>1, InvariantHolds, PTL

\* Nobody decides a request of their own, in the application or through a shared
\* Telegram account, unless staff (assertCanResolve, findTelegramActor).
THEOREM OthersDecide == Spec => []DecidedByOtherSide
<1>1. RInv => DecidedByOtherSide
  BY DEF RInv, TablesOK
<1> QED
  BY <1>1, InvariantHolds, PTL

\* A resolution is never overruled (reschedule.service.ts closePending).
THEOREM ResolutionsAreFinal == Spec => ResolutionsStand
<1>1. RInv /\ [Next]_vars => [\A q \in Request : Final(q)]_vars
  BY NextOK
<1> QED
  BY <1>1, InvariantHolds, PTL DEF Spec, ResolutionsStand

-------------------------------------------------------------------------------
\* Every step leaves the rows that other calls have locked, and what is asked for
\* by a request that goes on existing.
LEMMA RowsStay ==
  ASSUME RInv, NEW c \in Call,
         Arrive(c) \/ Statement(c) \/ Fail(c) \/ DeadlockVictim(c), NEW q \in Request
  PROVE  RowKept(c, q)
<1>1. CASE UNCHANGED tables
  BY <1>1 DEF tables, RowKept, RequestExists
<1>2. ASSUME NEW p \in Request, CommitCreate(c, p) PROVE RowKept(c, q)
  <2>1. request[p].status = "NONE" /\ \A r \in Request \ {p} : request'[r] = request[r]
    BY <1>2 DEF CommitCreate, RInv, TypeOK
  <2> QED
    BY <2>1 DEF RowKept, RequestExists
<1>3. ASSUME pc[c] = "commit", call[c].op \in Resolution, NEW status \in Resolved,
             Resolve(c, status)
      PROVE  RowKept(c, q)
  BY <1>3, ResolveOK
<1>4. CASE CommitReject(c)
  BY <1>3, <1>4 DEF CommitReject, Resolution, Resolved
<1>5. CASE CommitCancel(c)
  <2>1. CASE call[c].op = "cancel" /\ UNCHANGED request
    BY <2>1 DEF RowKept, RequestExists
  <2> QED
    BY <1>3, <1>5, <2>1 DEF CommitCancel, Resolution, Resolved
<1>6. ASSUME NEW n \in Lesson, CommitReschedule(c, n) PROVE RowKept(c, q)
  <2>1. CASE call[c].op = "reschedule" /\ UNCHANGED request
    BY <2>1 DEF RowKept, RequestExists
  <2> QED
    BY <1>3, <1>6, <2>1 DEF CommitReschedule, Resolution, Resolved
<1>7. CASE CommitComplete(c)
  BY <1>7 DEF CommitComplete, RowKept, RequestExists
<1>8. CASE CommitRemove(c)
  <2>1. \/ <<"request", q>> \in held[c] /\ request'[q] = NoRequest("DELETED")
        \/ request'[q] = request[q]
    BY <1>8 DEF CommitRemove, Deleted
  <2>2. NoRequest("DELETED").status = "DELETED"
    BY DEF NoRequest
  <2> QED
    BY <2>1, <2>2 DEF RowKept, RequestExists
<1>9. CASE Commit(c)
  BY <1>2, <1>4, <1>5, <1>6, <1>7, <1>8, <1>9 DEF Commit
<1>10. CASE Arrive(c) \/ Fail(c) \/ DeadlockVictim(c)
  BY <1>1, <1>10 DEF Arrive, BeginCreate, BeginResolve, PressButton, BeginStaffOp, Begin,
     Fail, DeadlockVictim
<1>11. CASE Statement(c)
  <2>1. Commit(c) \/ UNCHANGED tables
    BY <1>11 DEF Statement, ListRequests, DeleteRequest, CloseRequest, ShareActor, TakeLesson,
       LockUser, Reject
  <2> QED
    BY <1>1, <1>9, <2>1
<1> QED
  BY <1>10, <1>11

\* Who holds what at the desk. Requests are locked by the call that decides them,
\* or by removes of their lesson; whoever has a lesson has its own, and waits for
\* users afterwards, or is a remove at its end.
Belongs(q, l) ==
    request[q].status # "NONE" /\ (RequestExists(q) => request[q].lesson = l)

DeskOK(c) ==
    /\ shared[c] \subseteq {"user"} \X User
    /\ \A q \in Request : <<"request", q>> \in held[c] =>
         \/ HasRequest(c) /\ q = call[c].request
         \/ call[c].op = "remove" /\ RequestExists(q) /\ request[q].lesson = call[c].lesson
    /\ pc[c] = "deleteRequests" => \A q \in call[c].todo : Belongs(q, call[c].lesson)
    /\ \A l \in Lesson : <<"lesson", l>> \in held[c] =>
         /\ l = call[c].lesson
         /\ \/ pc[c] \in {"lockUser", "commit"}
            \/ pc[c] = "shareActor" /\ call[c].op = "create"

DInv == \A c \in Call : DeskOK(c)

\* A step of c that leaves the desk in order for c does so for everyone.
LEMMA OneCallAtDesk ==
  ASSUME RInv, DInv, NEW c \in Call, DeskOK(c)', \A q \in Request : RowKept(c, q),
         \A d \in Call \ {c} : /\ pc'[d] = pc[d] /\ call'[d] = call[d]
                               /\ held'[d] = held[d] /\ shared'[d] = shared[d]
  PROVE  DInv'
<1>1. ASSUME NEW d \in Call \ {c} PROVE DeskOK(d)'
  <2>1. /\ DeskOK(d) /\ held[c] \cap held[d] = {} /\ call[d].todo \subseteq Request
        /\ pc'[d] = pc[d] /\ call'[d] = call[d]
        /\ held'[d] = held[d] /\ shared'[d] = shared[d]
    BY DEF DInv, RInv, LocksExclusive, TypeOK, Asked
  <2>2. ASSUME NEW q \in Request, <<"request", q>> \in held[d],
               call[d].op = "remove", RequestExists(q), request[q].lesson = call[d].lesson
        PROVE  RequestExists(q)' /\ request'[q].lesson = call[d].lesson
    <3>1. <<"request", q>> \notin held[c] /\ request[q].status # "NONE" /\ RowKept(c, q)
      BY <2>1, <2>2 DEF RequestExists
    <3>2. request'[q] = request[q]
      BY <3>1 DEF RowKept
    <3> QED
      BY <2>2, <3>2 DEF RequestExists
  <2>3. ASSUME NEW q \in call[d].todo, Belongs(q, call[d].lesson)
        PROVE  Belongs(q, call[d].lesson)'
    BY <2>1, <2>3 DEF Belongs, RowKept
  <2> QED
    BY <2>1, <2>2, <2>3 DEF DeskOK, HasRequest
<1> QED
  BY <1>1 DEF DInv

\* The end of a call.
LEMMA EndAtDesk ==
  ASSUME RInv, DInv, NEW c \in Call, End(c), \A q \in Request : RowKept(c, q)
  PROVE  DInv'
<1>1. /\ pc' = [pc EXCEPT ![c] = "idle"] /\ call' = [call EXCEPT ![c] = NoCall]
      /\ held' = [held EXCEPT ![c] = {}] /\ shared' = [shared EXCEPT ![c] = {}]
  BY DEF End, Goto
<1>2. DeskOK(c)'
  BY <1>1 DEF RInv, TypeOK, DeskOK
<1> QED
  BY <1>1, <1>2, OneCallAtDesk DEF RInv, TypeOK

\* The start of one, which has nothing yet.
LEMMA BeginAtDesk ==
  ASSUME RInv, DInv, NEW c \in Call, NEW label, NEW asked, Begin(c, label, asked),
         label \in {"takeLesson", "closeRequest", "listRequests"}
  PROVE  DInv'
<1>1. /\ pc[c] = "idle" /\ pc' = [pc EXCEPT ![c] = label] /\ UNCHANGED tables
      /\ call' = [call EXCEPT ![c] = asked] /\ held' = held /\ shared' = shared
  BY DEF Begin, Goto
<1>2. /\ shared[c] \subseteq {"user"} \X User
      /\ \A q \in Request : <<"request", q>> \notin held[c]
      /\ \A l \in Lesson : <<"lesson", l>> \notin held[c]
  <2>1. DeskOK(c) /\ call[c].op = "none"
    BY <1>1 DEF DInv, RInv, CallOK
  <2> QED
    BY <1>1, <2>1 DEF DeskOK, HasRequest
<1>3. DeskOK(c)'
  BY <1>1, <1>2 DEF RInv, TypeOK, DeskOK
<1>4. \A q \in Request : RowKept(c, q)
  BY <1>1 DEF tables, RowKept, RequestExists
<1> QED
  BY <1>1, <1>3, <1>4, OneCallAtDesk DEF RInv, TypeOK

LEMMA ArriveAtDesk ==
  ASSUME RInv, DInv, NEW c \in Call, Arrive(c)
  PROVE  DInv'
<1>1. CASE \E l \in Lesson, u \in User, type \in RequestType : BeginCreate(c, l, u, type)
  BY <1>1, BeginAtDesk DEF BeginCreate
<1>2. ASSUME NEW q \in Request, NEW op, NEW u, NEW via, BeginResolve(c, q, op, u, via)
      PROVE  DInv'
  BY <1>2, BeginAtDesk DEF BeginResolve
<1>3. CASE \E l \in Lesson, op \in StaffOp : BeginStaffOp(c, l, op)
  BY <1>3, BeginAtDesk DEF BeginStaffOp
<1> QED
  BY <1>1, <1>2, <1>3 DEF Arrive, PressButton

\* remove reads which requests its lesson has and takes those that are left.
LEMMA DeleteAtDesk ==
  ASSUME RInv, DInv, NEW c \in Call, ListRequests(c) \/ \E q \in Request : DeleteRequest(c, q)
  PROVE  DInv'
<1>1. DeskOK(c) /\ call[c].op = "remove" /\ UNCHANGED tables /\ call[c].todo \subseteq Request
  BY DEF DInv, RInv, CallOK, TypeOK, Asked, ListRequests, DeleteRequest
<1>2. \A q \in Request : RowKept(c, q)
  BY <1>1 DEF tables, RowKept, RequestExists
<1>3. CASE ListRequests(c)
  <2> DEFINE found == {q \in Request : RequestExists(q) /\ request[q].lesson = call[c].lesson}
             label == IF found = {} THEN "takeLesson" ELSE "deleteRequests"
  <2>1. /\ pc[c] = "listRequests" /\ call' = [call EXCEPT ![c].todo = found]
        /\ pc' = [pc EXCEPT ![c] = label] /\ held' = held /\ shared' = shared
    BY <1>3 DEF ListRequests, Goto
  <2>2. \A q \in found : Belongs(q, call[c].lesson)
    BY DEF Belongs, RequestExists
  <2> HIDE DEF found, label
  <2>3. /\ pc'[c] = label /\ call'[c].todo = found
        /\ call'[c].op = call[c].op /\ call'[c].lesson = call[c].lesson
    BY <2>1 DEF RInv, TypeOK, Asked
  <2>4. DeskOK(c)'
    BY <1>1, <2>1, <2>2, <2>3 DEF DeskOK, HasRequest, Belongs, RequestExists, tables
  <2> QED
    BY <1>2, <2>1, <2>4, OneCallAtDesk DEF RInv, TypeOK
<1>4. ASSUME NEW q \in Request, DeleteRequest(c, q) PROVE DInv'
  <2> DEFINE label == IF call[c].todo = {q} THEN "takeLesson" ELSE "deleteRequests"
  <2>1. /\ pc[c] = "deleteRequests" /\ call' = [call EXCEPT ![c].todo = @ \ {q}]
        /\ pc' = [pc EXCEPT ![c] = label] /\ q \in call[c].todo
        /\ \/ RequestExists(q) /\ held' = [held EXCEPT ![c] = @ \cup {<<"request", q>>}]
           \/ held' = held
        /\ shared' = shared
    BY <1>4 DEF DeleteRequest, Goto, Lock
  <2>2. label \in {"takeLesson", "deleteRequests"}
    OBVIOUS
  <2> HIDE DEF label
  <2>3. /\ pc'[c] = label /\ call'[c].todo = call[c].todo \ {q}
        /\ call'[c].op = call[c].op /\ call'[c].lesson = call[c].lesson
        /\ \/ RequestExists(q) /\ held'[c] = held[c] \cup {<<"request", q>>}
           \/ held'[c] = held[c]
    BY <2>1 DEF RInv, TypeOK, Asked
  <2>4. Belongs(q, call[c].lesson)
    BY <1>1, <2>1 DEF DeskOK
  <2>5. ASSUME NEW p \in Request, <<"request", p>> \in held'[c]
        PROVE  RequestExists(p) /\ request[p].lesson = call[c].lesson
    <3>1. CASE <<"request", p>> \in held[c]
      BY <1>1, <2>1, <3>1 DEF DeskOK, HasRequest, Resolution
    <3>2. CASE <<"request", p>> \notin held[c]
      BY <2>3, <2>4, <2>5, <3>2 DEF Belongs
    <3> QED
      BY <3>1, <3>2
  <2>6. ASSUME NEW l \in Lesson PROVE <<"lesson", l>> \notin held'[c]
    <3>1. <<"lesson", l>> \notin held[c]
      BY <1>1, <2>1 DEF DeskOK
    <3>2. <<"lesson", l>> # <<"request", q>>
      OBVIOUS
    <3> QED
      BY <2>3, <3>1, <3>2
  <2>7. DeskOK(c)'
    BY <1>1, <2>1, <2>2, <2>3, <2>5, <2>6 DEF DeskOK, Belongs, RequestExists, tables
  <2>8. \A d \in Call \ {c} : /\ pc'[d] = pc[d] /\ call'[d] = call[d]
                              /\ held'[d] = held[d] /\ shared'[d] = shared[d]
    BY <2>1 DEF RInv, TypeOK
  <2> QED
    BY <1>2, <2>7, <2>8, OneCallAtDesk
<1> QED
  BY <1>3, <1>4

\* A lock that is taken: what changes of the call.
LEMMA LockAtDesk ==
  ASSUME RInv, NEW c \in Call, NEW row, NEW label, Lock(c, row), Goto(c, label)
  PROVE  /\ pc'[c] = label /\ held'[c] = held[c] \cup {row} /\ shared' = shared
         /\ \A d \in Call \ {c} : pc'[d] = pc[d] /\ held'[d] = held[d]
BY DEF RInv, TypeOK, Lock, Goto

\* A request is closed by its call only; a lesson is taken by a call that has
\* none, and the last row but those of users.
LEMMA TakeAtDesk ==
  ASSUME RInv, DInv, NEW c \in Call,
         CloseRequest(c) \/ ShareActor(c) \/ TakeLesson(c) \/ LockUser(c)
  PROVE  DInv'
<1>1. DeskOK(c) /\ CallOK(c) /\ call' = call /\ request' = request
  BY DEF DInv, RInv, CloseRequest, ShareActor, TakeLesson, LockUser, tables
<1>2. \A q \in Request : RowKept(c, q)
  BY <1>1 DEF RowKept, RequestExists
<1>3. CASE CloseRequest(c)
  <2>1. /\ pc[c] = "closeRequest" /\ Lock(c, <<"request", call[c].request>>)
        /\ Goto(c, "shareActor")
    BY <1>3 DEF CloseRequest
  <2>2. /\ pc'[c] = "shareActor" /\ held'[c] = held[c] \cup {<<"request", call[c].request>>}
        /\ shared' = shared
        /\ \A d \in Call \ {c} : pc'[d] = pc[d] /\ held'[d] = held[d]
    BY <2>1, LockAtDesk
  <2>3. call[c].op \in Resolution /\ call[c].op # "remove"
    BY <1>1, <2>1 DEF CallOK, Resolution
  <2>4. /\ \A q \in Request : <<"request", q>> \notin held[c]
        /\ \A l \in Lesson : <<"lesson", l>> \notin held[c]
    BY <1>1, <2>1, <2>3 DEF DeskOK, HasRequest
  <2>5. DeskOK(c)'
    BY <1>1, <2>2, <2>3, <2>4 DEF DeskOK, HasRequest
  <2> QED
    BY <1>1, <1>2, <2>2, <2>5, OneCallAtDesk
<1>4. CASE ShareActor(c)
  <2> DEFINE label == IF call[c].op = "approve" THEN "takeLesson" ELSE "lockUser"
  <2>1. /\ pc[c] = "shareActor" /\ pc' = [pc EXCEPT ![c] = label] /\ held' = held
        /\ shared' = [shared EXCEPT ![c] = @ \cup {<<"user", call[c].actor>>}]
    BY <1>4 DEF ShareActor, Share, Goto
  <2>2. call[c].actor \in User
    BY <1>1, <2>1 DEF CallOK, ReadOK
  <2>3. /\ pc'[c] = label /\ shared'[c] = shared[c] \cup {<<"user", call[c].actor>>}
        /\ \A d \in Call \ {c} : pc'[d] = pc[d] /\ shared'[d] = shared[d]
    BY <2>1 DEF RInv, TypeOK
  <2>4. DeskOK(c)'
    BY <1>1, <2>1, <2>2, <2>3 DEF DeskOK, HasRequest, RequestExists
  <2> QED
    BY <1>1, <1>2, <2>1, <2>3, <2>4, OneCallAtDesk
<1>5. CASE TakeLesson(c)
  <2> DEFINE label == AfterTake(call[c].op)
  <2>1. /\ pc[c] = "takeLesson" /\ Lock(c, <<"lesson", call[c].lesson>>) /\ Goto(c, label)
    BY <1>5 DEF TakeLesson
  <2>2. \/ label \in {"lockUser", "commit"}
        \/ label = "shareActor" /\ call[c].op = "create"
    BY DEF AfterTake
  <2> HIDE DEF label
  <2>3. /\ pc'[c] = label /\ held'[c] = held[c] \cup {<<"lesson", call[c].lesson>>}
        /\ shared' = shared
        /\ \A d \in Call \ {c} : pc'[d] = pc[d] /\ held'[d] = held[d]
    BY <2>1, LockAtDesk
  <2>4. DeskOK(c)'
    BY <1>1, <2>1, <2>2, <2>3 DEF DeskOK, HasRequest, RequestExists
  <2> QED
    BY <1>1, <1>2, <2>3, <2>4, OneCallAtDesk
<1>6. CASE LockUser(c)
  <2>1. /\ pc[c] = "lockUser" /\ Lock(c, <<"user", StudentOf[call[c].lesson]>>)
        /\ Goto(c, "commit")
    BY <1>6 DEF LockUser
  <2>2. /\ pc'[c] = "commit" /\ shared' = shared
        /\ held'[c] = held[c] \cup {<<"user", StudentOf[call[c].lesson]>>}
        /\ \A d \in Call \ {c} : pc'[d] = pc[d] /\ held'[d] = held[d]
    BY <2>1, LockAtDesk
  <2>3. DeskOK(c)'
    BY <1>1, <2>1, <2>2 DEF DeskOK, HasRequest, RequestExists
  <2> QED
    BY <1>1, <1>2, <2>2, <2>3, OneCallAtDesk
<1> QED
  BY <1>3, <1>4, <1>5, <1>6

LEMMA DeskStep == RInv /\ DInv /\ [Next]_vars => DInv'
<1> SUFFICES ASSUME RInv, DInv, [Next]_vars PROVE DInv'
  OBVIOUS
<1>1. ASSUME NEW c \in Call, Arrive(c) PROVE DInv'
  BY <1>1, ArriveAtDesk
<1>2. ASSUME NEW c \in Call, Statement(c) PROVE DInv'
  <2>1. CASE ListRequests(c) \/ \E q \in Request : DeleteRequest(c, q)
    BY <2>1, DeleteAtDesk
  <2>2. CASE CloseRequest(c) \/ ShareActor(c) \/ TakeLesson(c) \/ LockUser(c)
    BY <2>2, TakeAtDesk
  <2>3. CASE Commit(c) \/ Reject(c)
    <3>1. End(c)
      BY <2>3 DEF Commit, CommitCreate, CommitReject, CommitCancel, CommitReschedule,
                  CommitComplete, CommitRemove, Reject
    <3>2. \A q \in Request : RowKept(c, q)
      BY <1>2, RowsStay
    <3> QED
      BY <3>1, <3>2, EndAtDesk
  <2> QED
    BY <1>2, <2>1, <2>2, <2>3 DEF Statement
<1>3. ASSUME NEW c \in Call, Fail(c) \/ DeadlockVictim(c) PROVE DInv'
  <2>1. \A q \in Request : RowKept(c, q)
    BY <1>3, RowsStay
  <2> QED
    BY <1>3, <2>1, EndAtDesk DEF Fail, DeadlockVictim
<1>4. CASE UNCHANGED vars
  BY <1>4 DEF vars, DInv, DeskOK, HasRequest, Belongs, RequestExists
<1> QED
  BY <1>1, <1>2, <1>3, <1>4 DEF Next

LEMMA DeskInit == Init => DInv
BY DEF Init, DInv, DeskOK

LEMMA DeskHolds == Spec => [](RInv /\ DInv)
<1>1. Init => RInv /\ DInv
  BY InitOK, DeskInit
<1>2. (RInv /\ DInv) /\ [Next]_vars => (RInv /\ DInv)'
  BY NextOK, DeskStep
<1> QED
  BY <1>1, <1>2, PTL DEF Spec

-------------------------------------------------------------------------------
\* Who waits for whom.
TwoRemoves(c, d) ==
    /\ c # d /\ call[c].lesson = call[d].lesson
    /\ call[c].op = "remove" /\ call[d].op = "remove"

\* What a call waits for, when it is no user's row.
LEMMA WaitingCall ==
  ASSUME RInv, DInv, NEW c \in Call, NEW d \in Call, WaitsForDesk(c, d)
  PROVE  /\ c # d
         /\ \/ pc[c] = "takeLesson" /\ \E l \in Lesson : <<"lesson", l>> \in held[d]
            \/ /\ \/ pc[c] = "closeRequest"
                  \/ pc[c] = "deleteRequests"
                  \/ pc[c] = "commit" /\ call[c].op = "remove"
               /\ \E q \in Request : <<"request", q>> \in Wanted(c) \cap held[d]
<1>1. /\ Wanted(c) \cap ({"user"} \X User) = {} /\ c # d
      /\ Wanted(c) \cap held[d] # {} \/ Wanted(c) \cap shared[d] # {}
  BY DEF WaitsForDesk, WaitsFor
<1>2. shared[d] \subseteq {"user"} \X User
  BY DEF DInv, DeskOK
<1>3. PICK row \in Wanted(c) : row \in held[d]
  BY <1>1, <1>2
<1>4. pc[c] \notin {"shareActor", "lockUser"}
  <2>1. CallOK(c)
    BY DEF RInv
  <2>2. ASSUME pc[c] = "shareActor" PROVE call[c].actor \in User
    BY <2>1, <2>2 DEF CallOK, ReadOK
  <2>3. ASSUME pc[c] = "lockUser" PROVE StudentOf[call[c].lesson] \in User
    BY <2>1, <2>3, RequestAssumption DEF CallOK
  <2> QED
    BY <1>1, <2>2, <2>3 DEF Wanted
<1>5. \/ pc[c] \in {"deleteRequests", "closeRequest", "takeLesson"}
      \/ pc[c] = "commit" /\ call[c].op = "remove"
  BY <1>3, <1>4 DEF Wanted
<1>6. CASE pc[c] = "takeLesson"
  <2>1. row = <<"lesson", call[c].lesson>>
    BY <1>3, <1>6 DEF Wanted
  <2>2. call[c].lesson \in Lesson
    BY <1>6 DEF RInv, CallOK
  <2> QED
    BY <1>1, <1>3, <1>6, <2>1, <2>2
<1>7. CASE pc[c] = "closeRequest"
  <2>1. row = <<"request", call[c].request>>
    BY <1>3, <1>7 DEF Wanted
  <2>2. call[c].request \in Request
    BY <1>7 DEF RInv, CallOK, ReadOK
  <2> QED
    BY <1>1, <1>3, <1>7, <2>1, <2>2
<1>8. CASE pc[c] = "deleteRequests"
  <2>1. PICK q \in call[c].todo : row = <<"request", q>>
    BY <1>3, <1>8 DEF Wanted
  <2>2. q \in Request
    BY <2>1 DEF RInv, TypeOK, Asked
  <2> QED
    BY <1>1, <1>3, <1>8, <2>1, <2>2
<1>9. CASE pc[c] = "commit" /\ call[c].op = "remove"
  <2>1. PICK q \in Disappearing(c) : row = <<"request", q>>
    BY <1>3, <1>9 DEF Wanted
  <2>2. q \in Request
    BY <2>1 DEF Disappearing, Remaining
  <2> QED
    BY <1>1, <1>3, <1>9, <2>1, <2>2
<1> QED
  BY <1>5, <1>6, <1>7, <1>8, <1>9

\* The foreign key makes a remove wait for another remove of the same lesson.
LEMMA WaitAtCommit ==
  ASSUME RInv, DInv, NEW c \in Call, NEW d \in Call, WaitsForDesk(c, d), pc[c] = "commit"
  PROVE  TwoRemoves(c, d)
<1>1. PICK q \in Request : <<"request", q>> \in Wanted(c) \cap held[d]
  BY WaitingCall
<1>2. c # d /\ call[c].op = "remove"
  BY WaitingCall
<1>3. q \in Disappearing(c)
  BY <1>1, <1>2 DEF Wanted
<1>4. RequestExists(q) /\ request[q].lesson = call[c].lesson
  BY <1>3 DEF Disappearing, Remaining
<1>5. PICK e \in Call : call[e].op = "remove" /\ <<"request", q>> \in held[e]
  BY <1>3 DEF Disappearing, Deleted
<1>6. e = d
  BY <1>1, <1>5 DEF RInv, LocksExclusive
<1>7. request[q].lesson = call[d].lesson
  BY <1>1, <1>5, <1>6 DEF DInv, DeskOK, HasRequest, Resolution
<1> QED
  BY <1>2, <1>4, <1>5, <1>6, <1>7 DEF TwoRemoves

\* Whoever waits for a lesson waits for a call that holds it; if that one waits
\* at the desk too, it is a remove whose foreign key waits for another.
LEMMA WaitForLesson ==
  ASSUME RInv, DInv, NEW c \in Call, NEW d \in Call, NEW e \in Call,
         WaitsForDesk(c, d), WaitsForDesk(d, e), pc[c] = "takeLesson"
  PROVE  TwoRemoves(d, e)
<1>1. PICK l \in Lesson : <<"lesson", l>> \in held[d]
  BY WaitingCall
<1>2. pc[d] \in {"lockUser", "commit", "shareActor"}
  BY <1>1 DEF DInv, DeskOK
<1>3. pc[d] = "commit"
  BY <1>2, WaitingCall
<1> QED
  BY <1>3, WaitAtCommit

\* Whoever waits for a request waits for its decision, which waits for the
\* lesson, or for another remove.
LEMMA WaitForRequest ==
  ASSUME RInv, DInv, NEW S \in SUBSET Call, \A c \in S : \E d \in S : WaitsForDesk(c, d),
         NEW d \in S, NEW q \in Request, <<"request", q>> \in held[d]
  PROVE  \/ \E a, b \in S : TwoRemoves(a, b)
         \/ /\ call[d].op = "remove" /\ pc[d] = "deleteRequests"
            /\ RequestExists(q) /\ request[q].lesson = call[d].lesson
<1>1. PICK e \in S : WaitsForDesk(d, e)
  OBVIOUS
<1>2. CASE pc[d] = "takeLesson"
  <2>1. PICK f \in S : WaitsForDesk(e, f)
    OBVIOUS
  <2>2. TwoRemoves(e, f)
    BY <1>1, <1>2, <2>1, WaitForLesson
  <2> QED
    BY <2>2
<1>3. CASE pc[d] = "commit"
  BY <1>1, <1>3, WaitAtCommit
<1>4. CASE pc[d] \in {"deleteRequests", "closeRequest"}
  <2>1. ~ HasRequest(d)
    BY <1>4 DEF HasRequest
  <2>2. call[d].op = "remove" /\ RequestExists(q) /\ request[q].lesson = call[d].lesson
    BY <2>1 DEF DInv, DeskOK
  <2>3. pc[d] # "closeRequest"
    BY <2>2 DEF RInv, CallOK, Resolution
  <2> QED
    BY <1>4, <2>2, <2>3
<1> QED
  BY <1>1, <1>2, <1>3, <1>4, WaitingCall

LEMMA StuckCalls ==
  ASSUME RInv, DInv, NEW S \in SUBSET Call, StuckAtDesk(S)
  PROVE  \E a, b \in S : TwoRemoves(a, b)
<1>1. S # {} /\ \A c \in S : \E d \in S : WaitsForDesk(c, d)
  BY DEF StuckAtDesk
<1>2. ASSUME NEW c \in S, pc[c] = "deleteRequests" PROVE \E a, b \in S : TwoRemoves(a, b)
  <2>1. PICK d \in S : WaitsForDesk(c, d)
    BY <1>1
  <2>2. PICK q \in Request : <<"request", q>> \in Wanted(c) \cap held[d]
    BY <1>2, <2>1, WaitingCall
  <2>3. q \in call[c].todo
    BY <1>2, <2>2 DEF Wanted
  <2>4. Belongs(q, call[c].lesson) /\ call[c].op = "remove"
    BY <1>2, <2>3 DEF DInv, DeskOK, RInv, CallOK
  <2>5. CASE /\ call[d].op = "remove" /\ RequestExists(q)
             /\ request[q].lesson = call[d].lesson
    <3>1. TwoRemoves(c, d)
      BY <2>1, <2>4, <2>5, WaitingCall DEF TwoRemoves, Belongs
    <3> QED
      BY <3>1
  <2> QED
    BY <1>1, <2>2, <2>5, WaitForRequest
<1>3. ASSUME NEW c \in S, pc[c] = "closeRequest" PROVE \E a, b \in S : TwoRemoves(a, b)
  <2>1. PICK d \in S : WaitsForDesk(c, d)
    BY <1>1
  <2>2. PICK q \in Request : <<"request", q>> \in Wanted(c) \cap held[d]
    BY <1>3, <2>1, WaitingCall
  <2> QED
    BY <1>1, <1>2, <2>2, WaitForRequest
<1>4. ASSUME NEW c \in S, pc[c] = "takeLesson" PROVE \E a, b \in S : TwoRemoves(a, b)
  <2>1. PICK d \in S : WaitsForDesk(c, d)
    BY <1>1
  <2>2. PICK e \in S : WaitsForDesk(d, e)
    BY <1>1
  <2>3. TwoRemoves(d, e)
    BY <1>4, <2>1, <2>2, WaitForLesson
  <2> QED
    BY <2>3
<1>5. ASSUME NEW c \in S, pc[c] = "commit" PROVE \E a, b \in S : TwoRemoves(a, b)
  BY <1>1, <1>5, WaitAtCommit
<1> QED
  BY <1>1, <1>2, <1>3, <1>4, <1>5, WaitingCall

\* Calls that are stuck over requests and lessons include two removes of one
\* lesson: the order in which rows are locked keeps every other call, and a
\* single remove, out of a deadlock there (lessons.service.ts remove, "to keep
\* request -> lesson order").
THEOREM DeskDeadlocksAreRemovals == Spec => []OnlyRemovalsDeadlock
<1>1. RInv /\ DInv => OnlyRemovalsDeadlock
  BY StuckCalls DEF OnlyRemovalsDeadlock, TwoRemoves
<1> QED
  BY <1>1, DeskHolds, PTL
===============================================================================
