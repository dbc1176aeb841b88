-------------------------- MODULE RescheduleRequests --------------------------
(***************************************************************************)
(* Requests to move or cancel a lesson (reschedule.service.ts): a teacher  *)
(* or a student creates one, the other side or staff decides it in the     *)
(* application or with a button in Telegram, while staff cancel, move,     *)
(* complete or remove the same lessons (lessons.service.ts). Transactions  *)
(* and row locks are those of LessonLedger; this module adds the rows of   *)
(* requests, and of users, which every message to a group locks. Prices,   *)
(* profiles and the link from a lesson to its replacement are LessonLedger.*)
(***************************************************************************)
CONSTANTS
    Lesson,       \* lesson ids, those of replacements not created yet included
    Booked,       \* lessons scheduled at the start
    Request,      \* ids of reschedule requests
    User,
    Staff,        \* users who are ADMIN or MANAGER
    Account,      \* the sets of users that share a Telegram account
    TeacherOf,
    StudentOf,
    Call,         \* calls of the API, or buttons pressed, in flight at the same time
    None

ASSUME RequestAssumption ==
    /\ Booked \subseteq Lesson
    /\ Staff \subseteq User
    /\ Account \subseteq SUBSET User
    /\ TeacherOf \in [Lesson -> User]
    /\ StudentOf \in [Lesson -> User]
    /\ None \notin Lesson \cup Request \cup User

VARIABLES
    lesson,       \* the status of each lesson
    request,      \* the committed reschedule_requests table
    pc,           \* the statement each call runs next
    call,         \* what the call was asked and has read
    held,         \* rows the call has locked exclusively
    shared        \* rows the call has locked in shared mode (foreign keys)

tables == <<lesson, request>>
vars == <<lesson, request, pc, call, held, shared>>

LessonStatus == {"NONE", "SCHEDULED", "COMPLETED", "CANCELED", "RESCHEDULED", "DELETED"}
RequestType == {"RESCHEDULE", "CANCEL"}
Resolved == {"APPROVED", "REJECTED"}

\* "via" is not a column: the users the decision was made in the name of.
RequestRow ==
    [status: {"NONE", "DELETED"}, lesson: {None}, type: {None}, by: {None},
     resolvedBy: {None}, via: {{}}]
    \cup [status: {"PENDING"}, lesson: Lesson, type: RequestType, by: User,
          resolvedBy: {None}, via: {{}}]
    \cup [status: Resolved, lesson: Lesson, type: RequestType, by: User,
          resolvedBy: User, via: SUBSET User]

NoRequest(status) == [status |-> status, lesson |-> None, type |-> None, by |-> None,
                      resolvedBy |-> None, via |-> {}]

Resolution == {"approve", "reject"}
StaffOp == {"cancel", "complete", "reschedule", "remove"}

NoCall == [op |-> "none", lesson |-> None, request |-> None, type |-> None,
           actor |-> None, via |-> {}, todo |-> {}]

Asked == [op: Resolution \cup StaffOp \cup {"create", "none"}, lesson: Lesson \cup {None},
          request: Request \cup {None}, type: RequestType \cup {None},
          actor: User \cup {None}, via: SUBSET User, todo: SUBSET Request]

Label == {"idle", "listRequests", "deleteRequests", "closeRequest", "shareActor",
          "takeLesson", "lockUser", "commit"}

Row == ({"request"} \X Request) \cup ({"lesson"} \X Lesson) \cup ({"user"} \X User)

LessonExists(l) == lesson[l] \notin {"NONE", "DELETED"}
RequestExists(q) == request[q].status \notin {"NONE", "DELETED"}

Init ==
    /\ lesson = [l \in Lesson |-> IF l \in Booked THEN "SCHEDULED" ELSE "NONE"]
    /\ request = [q \in Request |-> NoRequest("NONE")]
    /\ pc = [c \in Call |-> "idle"]
    /\ call = [c \in Call |-> NoCall]
    /\ held = [c \in Call |-> {}]
    /\ shared = [c \in Call |-> {}]

Lockable(c, row) == \A d \in Call \ {c} : row \notin held[d] \cup shared[d]

Lock(c, row) ==
    /\ Lockable(c, row)
    /\ held' = [held EXCEPT ![c] = @ \cup {row}]
    /\ UNCHANGED shared

Share(c, row) ==
    /\ \A d \in Call \ {c} : row \notin held[d]
    /\ shared' = [shared EXCEPT ![c] = @ \cup {row}]
    /\ UNCHANGED held

Goto(c, label) == pc' = [pc EXCEPT ![c] = label]

Begin(c, label, asked) ==
    /\ pc[c] = "idle"
    /\ call' = [call EXCEPT ![c] = asked]
    /\ Goto(c, label)
    /\ UNCHANGED <<tables, held, shared>>

\* The transaction is over, whichever way: its locks go.
End(c) ==
    /\ Goto(c, "idle")
    /\ call' = [call EXCEPT ![c] = NoCall]
    /\ held' = [held EXCEPT ![c] = {}]
    /\ shared' = [shared EXCEPT ![c] = {}]

-------------------------------------------------------------------------------
\* Who may decide.

OtherSide(q) == IF request[q].by = TeacherOf[request[q].lesson]
                THEN StudentOf[request[q].lesson]
                ELSE TeacherOf[request[q].lesson]

CanResolve(q, u) == u \in Staff \/ (u = OtherSide(q) /\ u # request[q].by)

\* Faulty variant of TelegramActors: the other side is looked for among the
\* users of the account, whoever else shares it.
TelegramActorsOfSharedAccount(q, users) ==
    IF users \cap Staff # {} THEN users \cap Staff
    ELSE users \cap {OtherSide(q)}

\* In whose name the owner of a Telegram account decides: staff first; nobody
\* whose account is also the creator's.
TelegramActors(q, users) ==
    IF users \cap Staff # {} THEN users \cap Staff
    ELSE IF request[q].by \in users THEN {}
    ELSE users \cap {OtherSide(q)}

-------------------------------------------------------------------------------
\* Calls arrive. What they read here is not locked.

BeginCreate(c, l, u, type) ==
    /\ u \in {TeacherOf[l], StudentOf[l]}
    /\ lesson[l] = "SCHEDULED"
    /\ Begin(c, "takeLesson", [NoCall EXCEPT !.op = "create", !.lesson = l,
                                             !.actor = u, !.type = type])

\* findForResolve: the request, its lesson and its type are read before the transaction.
BeginResolve(c, q, op, u, via) ==
    /\ op \in Resolution
    /\ request[q].status = "PENDING"
    /\ CanResolve(q, u)
    /\ Begin(c, "closeRequest", [op |-> op, request |-> q, lesson |-> request[q].lesson,
                                 type |-> request[q].type, actor |-> u, via |-> via,
                                 todo |-> {}])

\* A button under the message in the group; an old message may still show it.
PressButton(c, q, op, account) ==
    /\ RequestExists(q)
    /\ \E u \in TelegramActors(q, account) : BeginResolve(c, q, op, u, account)

\* cancel, complete, reschedule and remove of the lessons themselves.
BeginStaffOp(c, l, op) ==
    /\ op \in StaffOp
    /\ lesson[l] # "NONE"
    /\ Begin(c, IF op = "remove" THEN "listRequests" ELSE "takeLesson",
                [NoCall EXCEPT !.op = op, !.lesson = l])

-------------------------------------------------------------------------------
\* The statements.

\* remove: DELETE ... WHERE lessonId sees the requests committed by now ...
ListRequests(c) ==
    LET found == {q \in Request : RequestExists(q) /\ request[q].lesson = call[c].lesson}
    IN  /\ pc[c] = "listRequests"
        /\ call' = [call EXCEPT ![c].todo = found]
        /\ Goto(c, IF found = {} THEN "takeLesson" ELSE "deleteRequests")
        /\ UNCHANGED <<tables, held, shared>>

\* ... and takes them one after another, in whatever order its scan meets them; a
\* row that another transaction deleted meanwhile is passed over.
DeleteRequest(c, q) ==
    /\ pc[c] = "deleteRequests"
    /\ q \in call[c].todo
    /\ IF RequestExists(q) THEN Lock(c, <<"request", q>>)
       ELSE Lockable(c, <<"request", q>>) /\ UNCHANGED <<held, shared>>
    /\ call' = [call EXCEPT ![c].todo = @ \ {q}]
    /\ Goto(c, IF call[c].todo = {q} THEN "takeLesson" ELSE "deleteRequests")
    /\ UNCHANGED tables

\* Faulty variant of CloseRequest: UPDATE ... WHERE id; the status was looked
\* at in findForResolve.
CloseRequestBlindly(c) ==
    /\ pc[c] = "closeRequest"
    /\ RequestExists(call[c].request)
    /\ Lock(c, <<"request", call[c].request>>)
    /\ Goto(c, "shareActor")
    /\ UNCHANGED <<tables, call>>

\* closePending: the UPDATE conditional on PENDING.
CloseRequest(c) ==
    /\ pc[c] = "closeRequest"
    /\ request[call[c].request].status = "PENDING"
    /\ Lock(c, <<"request", call[c].request>>)
    /\ Goto(c, "shareActor")
    /\ UNCHANGED <<tables, call>>

\* resolvedById, createdById and the audit record refer to the user who acts.
ShareActor(c) ==
    /\ pc[c] = "shareActor"
    /\ Share(c, <<"user", call[c].actor>>)
    /\ Goto(c, IF call[c].op = "approve" THEN "takeLesson" ELSE "lockUser")
    /\ UNCHANGED <<tables, call>>

Takes(op) == IF op = "remove" THEN {"SCHEDULED", "CANCELED", "RESCHEDULED"}
             ELSE {"SCHEDULED"}

\* Faulty variant of AfterTake: remove deletes requests again once it has the
\* lesson, to catch those created meanwhile.
AfterTakeDeletesAgain(op) ==
    CASE op = "create"   -> "shareActor"
      [] op = "complete" -> "commit"
      [] op = "remove"   -> "listRequests"
      [] OTHER           -> "lockUser"

AfterTake(op) ==
    CASE op = "create"                 -> "shareActor"
      [] op \in {"complete", "remove"} -> "commit"
      [] OTHER                         -> "lockUser"

\* Faulty variant of TakeLesson: approve cancels or moves the lesson without
\* looking at its status again.
TakeLessonBlindly(c) ==
    /\ pc[c] = "takeLesson"
    /\ IF call[c].op = "approve" THEN LessonExists(call[c].lesson)
       ELSE lesson[call[c].lesson] \in Takes(call[c].op)
    /\ Lock(c, <<"lesson", call[c].lesson>>)
    /\ Goto(c, AfterTake(call[c].op))
    /\ UNCHANGED <<tables, call>>

\* The conditional UPDATE of the lesson: cancelWithin, lockScheduledLesson,
\* createRequest, complete, remove.
TakeLesson(c) ==
    /\ pc[c] = "takeLesson"
    /\ lesson[call[c].lesson] \in Takes(call[c].op)
    /\ Lock(c, <<"lesson", call[c].lesson>>)
    /\ Goto(c, AfterTake(call[c].op))
    /\ UNCHANGED <<tables, call>>

\* Every message to the group is stored under the lock of the student's user row.
LockUser(c) ==
    /\ pc[c] = "lockUser"
    /\ Lock(c, <<"user", StudentOf[call[c].lesson]>>)
    /\ Goto(c, "commit")
    /\ UNCHANGED <<tables, call>>

-------------------------------------------------------------------------------
\* The transaction commits: its writes become visible together.

CommitCreate(c, q) ==
    /\ pc[c] = "commit" /\ call[c].op = "create"
    /\ request[q].status = "NONE"
    /\ request' = [request EXCEPT ![q] =
         [status |-> "PENDING", lesson |-> call[c].lesson, type |-> call[c].type,
          by |-> call[c].actor, resolvedBy |-> None, via |-> {}]]
    /\ End(c)
    /\ UNCHANGED lesson

\* Faulty variant of Resolve: who decided is not stored.
ResolveAnonymously(c, status) ==
    request' = [request EXCEPT ![call[c].request].status = status]

Resolve(c, status) ==
    request' = [request EXCEPT ![call[c].request].status = status,
                               ![call[c].request].resolvedBy = call[c].actor,
                               ![call[c].request].via = call[c].via]

CommitReject(c) ==
    /\ pc[c] = "commit" /\ call[c].op = "reject"
    /\ Resolve(c, "REJECTED")
    /\ End(c)
    /\ UNCHANGED lesson

\* A lesson is canceled by staff or by the approval of a request.
CommitCancel(c) ==
    /\ pc[c] = "commit"
    /\ \/ call[c].op = "cancel" /\ UNCHANGED request
       \/ call[c].op = "approve" /\ call[c].type = "CANCEL" /\ Resolve(c, "APPROVED")
    /\ lesson' = [lesson EXCEPT ![call[c].lesson] = "CANCELED"]
    /\ End(c)

\* n replaces the lesson, with the same teacher and student.
CommitReschedule(c, n) ==
    LET l == call[c].lesson
    IN  /\ pc[c] = "commit"
        /\ \/ call[c].op = "reschedule" /\ UNCHANGED request
           \/ /\ call[c].op = "approve" /\ call[c].type = "RESCHEDULE"
              /\ Resolve(c, "APPROVED")
        /\ lesson[n] = "NONE"
        /\ TeacherOf[n] = TeacherOf[l] /\ StudentOf[n] = StudentOf[l]
        /\ lesson' = [lesson EXCEPT ![l] = "RESCHEDULED", ![n] = "SCHEDULED"]
        /\ End(c)

CommitComplete(c) ==
    /\ pc[c] = "commit" /\ call[c].op = "complete"
    /\ lesson' = [lesson EXCEPT ![call[c].lesson] = "COMPLETED"]
    /\ End(c)
    /\ UNCHANGED request

Deleted(c) == {q \in Request : <<"request", q>> \in held[c]}

\* Requests of the lesson that remove did not see, because they were created
\* after its DELETE; the foreign key refuses to leave them behind ...
Remaining(c) == {q \in Request \ Deleted(c) :
                   RequestExists(q) /\ request[q].lesson = call[c].lesson}

\* ... but looks at them FOR KEY SHARE: it waits for another remove that is
\* deleting one, not for the UPDATE of a status.
Disappearing(c) == Remaining(c) \cap UNION {Deleted(d) : d \in {e \in Call \ {c} : call[e].op = "remove"}}

\* Faulty variant of CommitRemove: no foreign key refuses.
CommitRemoveUnchecked(c) ==
    /\ pc[c] = "commit" /\ call[c].op = "remove"
    /\ lesson' = [lesson EXCEPT ![call[c].lesson] = "DELETED"]
    /\ request' = [q \in Request |-> IF q \in Deleted(c) THEN NoRequest("DELETED")
                                     ELSE request[q]]
    /\ End(c)

CommitRemove(c) ==
    /\ pc[c] = "commit" /\ call[c].op = "remove"
    /\ Remaining(c) = {}
    /\ lesson' = [lesson EXCEPT ![call[c].lesson] = "DELETED"]
    /\ request' = [q \in Request |-> IF q \in Deleted(c) THEN NoRequest("DELETED")
                                     ELSE request[q]]
    /\ End(c)

\* 400, 404 or the foreign key; or the instance has no id left.
Refused(c) ==
    \/ /\ pc[c] = "closeRequest"
       /\ Lockable(c, <<"request", call[c].request>>)
       /\ request[call[c].request].status # "PENDING"
    \/ /\ pc[c] = "takeLesson"
       /\ Lockable(c, <<"lesson", call[c].lesson>>)
       /\ lesson[call[c].lesson] \notin Takes(call[c].op)
    \/ pc[c] = "commit" /\ call[c].op = "remove" /\ Remaining(c) \ Disappearing(c) # {}
    \/ /\ pc[c] = "commit" /\ call[c].op = "create"
       /\ \A q \in Request : request[q].status # "NONE"
    \/ /\ pc[c] = "commit"
       /\ call[c].op = "reschedule" \/ (call[c].op = "approve" /\ call[c].type = "RESCHEDULE")
       /\ \A n \in Lesson : lesson[n] = "NONE" =>
            TeacherOf[n] # TeacherOf[call[c].lesson] \/ StudentOf[n] # StudentOf[call[c].lesson]

Reject(c) == Refused(c) /\ End(c) /\ UNCHANGED tables

\* The process, the connection or a statement fails: rollback.
Fail(c) == pc[c] # "idle" /\ End(c) /\ UNCHANGED tables

-------------------------------------------------------------------------------
\* Waiting. PostgreSQL rolls back one transaction of a cycle of waiters.

\* The rows a call may be waiting for. Where its scan meets several in an order
\* of its own, it waits for any of them.
Wanted(c) ==
    CASE pc[c] = "deleteRequests" -> {<<"request", q>> : q \in call[c].todo}
      [] pc[c] = "closeRequest"   -> {<<"request", call[c].request>>}
      [] pc[c] = "takeLesson"     -> {<<"lesson", call[c].lesson>>}
      [] pc[c] = "shareActor"     -> {<<"user", call[c].actor>>}
      [] pc[c] = "lockUser"       -> {<<"user", StudentOf[call[c].lesson]>>}
      [] pc[c] = "commit" /\ call[c].op = "remove" -> {<<"request", q>> : q \in Disappearing(c)}
      [] OTHER                    -> {}

WaitsFor(c, d) ==
    /\ c # d
    /\ \/ Wanted(c) \cap held[d] # {}
       \/ pc[c] # "shareActor" /\ Wanted(c) \cap shared[d] # {}

\* c and everyone it is stuck with wait for one another.
InCycle(c) ==
    \E S \in SUBSET Call :
      /\ c \in S
      /\ \A d \in S : /\ \E e \in S : WaitsFor(d, e)
                      /\ \E e \in S : WaitsFor(e, d)

DeadlockVictim(c) == InCycle(c) /\ End(c) /\ UNCHANGED tables

-------------------------------------------------------------------------------
Arrive(c) ==
    \/ \E l \in Lesson, u \in User, type \in RequestType : BeginCreate(c, l, u, type)
    \/ \E q \in Request, op \in Resolution :
         \/ \E u \in User : BeginResolve(c, q, op, u, {u})
         \/ \E account \in Account : PressButton(c, q, op, account)
    \/ \E l \in Lesson, op \in StaffOp : BeginStaffOp(c, l, op)

Commit(c) ==
    \/ \E q \in Request : CommitCreate(c, q)
    \/ CommitReject(c)
    \/ CommitCancel(c)
    \/ \E n \in Lesson : CommitReschedule(c, n)
    \/ CommitComplete(c)
    \/ CommitRemove(c)

Statement(c) ==
    \/ ListRequests(c)
    \/ \E q \in Request : DeleteRequest(c, q)
    \/ CloseRequest(c) \/ ShareActor(c) \/ TakeLesson(c) \/ LockUser(c)
    \/ Commit(c) \/ Reject(c)

Next == \E c \in Call : Arrive(c) \/ Statement(c) \/ Fail(c) \/ DeadlockVictim(c)

Spec == Init /\ [][Next]_vars

-------------------------------------------------------------------------------
\* Both tables and every call hold values of their types.
TypeOK ==
    /\ lesson \in [Lesson -> LessonStatus]
    /\ request \in [Request -> RequestRow]
    /\ pc \in [Call -> Label]
    /\ call \in [Call -> Asked]
    /\ held \in [Call -> SUBSET Row]
    /\ shared \in [Call -> SUBSET Row]

\* An approval and what it does to the lesson are one: an approved request's
\* lesson is canceled or moved as the request asked, and by that request alone,
\* however often and in whatever order approvals, staff and removal come
\* (reschedule.service.ts approve, closePending).
ApprovedOnce ==
    /\ \A q \in Request : request[q].status = "APPROVED" =>
         lesson[request[q].lesson] =
           (IF request[q].type = "CANCEL" THEN "CANCELED" ELSE "RESCHEDULED")
    /\ \A p, q \in Request :
         /\ request[p].status = "APPROVED" /\ request[q].status = "APPROVED"
         /\ request[p].lesson = request[q].lesson
         => p = q

\* No request outlives its lesson, also when it is created while the lesson is
\* being removed (lessons.service.ts remove, reschedule.service.ts createRequest).
RequestsHaveLessons ==
    \A q \in Request : RequestExists(q) => LessonExists(request[q].lesson)

\* A resolution is final: nobody overrules it later, it can only disappear with
\* its lesson (reschedule.service.ts closePending).
Final(q) == request[q].status \in Resolved => request'[q] \in {request[q], NoRequest("DELETED")}

ResolutionsStand == [][\A q \in Request : Final(q)]_vars

\* Unless staff decides, the side that did not create the request does, and not
\* through a Telegram account that is also the creator's (assertCanResolve,
\* findTelegramActor).
DecidedByOtherSide ==
    \A q \in Request : request[q].status \in Resolved =>
      \/ request[q].resolvedBy \in Staff
      \/ request[q].resolvedBy = OtherSide(q) /\ request[q].by \notin request[q].via

\* Requests are locked before lessons (the comment in lessons.service.ts remove):
\* a remove never deadlocks over requests and lessons with approvals, creations or
\* the staff's other operations, however many wait for one another. Calls stuck
\* there always include two removes of one lesson: both delete its requests, or
\* the second deletes one that was created after the first looked.
WaitsForDesk(c, d) == WaitsFor(c, d) /\ Wanted(c) \cap ({"user"} \X User) = {}

StuckAtDesk(S) == S # {} /\ \A c \in S : \E d \in S : WaitsForDesk(c, d)

OnlyRemovalsDeadlock ==
    \A S \in SUBSET Call : StuckAtDesk(S) =>
      \E c, d \in S : /\ c # d /\ call[c].lesson = call[d].lesson
                     /\ call[c].op = "remove" /\ call[d].op = "remove"
===============================================================================
