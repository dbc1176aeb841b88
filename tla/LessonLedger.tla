----------------------------- MODULE LessonLedger -----------------------------
(***************************************************************************)
(* Concurrent HTTP requests against lessons and balances                   *)
(* (lessons.service.ts, payments.service.ts), each one PostgreSQL          *)
(* transaction under READ COMMITTED:                                       *)
(*   - a step is one statement; it reads what is committed when it runs;   *)
(*   - FOR UPDATE and UPDATE hold their row until the transaction ends;    *)
(*   - an UPDATE that had to wait looks at the row again before it writes; *)
(*   - inserting a lesson holds its teacher's and student's rows in shared *)
(*     mode (KEY SHARE, the foreign keys), which FOR UPDATE excludes;      *)
(*   - what a transaction wrote is seen by nobody before it commits, so the*)
(*     commit step makes all of its writes at once.                        *)
(***************************************************************************)
EXTENDS LessonData, FiniteSetsExt

CONSTANTS
    Request,      \* requests in flight at the same time
    MaxEntries    \* top-ups begin only below this many ledger entries of a student

VARIABLES
    lesson,       \* the committed lessons table
    tariff,       \* enrollments.lessonPrice
    balance,      \* student_profiles.balance
    paid,         \* the sum of the student's rows in payments
    ledger,       \* the student's rows in transactions, in commit order
    pc,           \* the statement each request runs next
    req,          \* what the request was asked and what it has read
    held,         \* rows the request has locked exclusively
    shared        \* rows the request has locked in shared mode

bookVars == <<lesson, tariff, balance, paid, ledger>>
vars == <<lesson, tariff, balance, paid, ledger, pc, req, held, shared>>

\* The refinement mapping is the identity: the tables are those of the book.
Books == INSTANCE LessonBook
         WITH lesson <- lesson, tariff <- tariff, balance <- balance,
              paid <- paid, ledger <- ledger

LessonOp == {"complete", "cancel", "update", "reschedule", "remove"}

Row == ({"lesson"} \X Lesson) \cup ({"teacher"} \X Teacher) \cup ({"student"} \X Student)

NoRequest == [op |-> "none", lesson |-> None, teacher |-> None, student |-> None,
              amount |-> None, balance |-> None]

Label == {"idle", "lockTeacher", "lockStudent", "readLesson", "takeLesson", "readBalance",
          "shareTeacher", "shareStudent", "unlink", "commit"}

Asked == [op: LessonOp \cup {"topUp", "none"}, lesson: Lesson \cup {None},
          teacher: Teacher \cup {None}, student: Student \cup {None},
          amount: Price \cup Amount \cup {None}, balance: Int \cup {None}]

Lockable(r, row) == \A q \in Request \ {r} : row \notin held[q] \cup shared[q]
Sharable(r, row) == \A q \in Request \ {r} : row \notin held[q]

Init ==
    /\ Books!Init
    /\ pc = [r \in Request |-> "idle"]
    /\ req = [r \in Request |-> NoRequest]
    /\ held = [r \in Request |-> {}]
    /\ shared = [r \in Request |-> {}]

Goto(r, label) == pc' = [pc EXCEPT ![r] = label]

Lock(r, row) ==
    /\ Lockable(r, row)
    /\ held' = [held EXCEPT ![r] = @ \cup {row}]
    /\ UNCHANGED shared

Share(r, row) ==
    /\ Sharable(r, row)
    /\ shared' = [shared EXCEPT ![r] = @ \cup {row}]
    /\ UNCHANGED held

\* The transaction is over, whichever way: its locks go.
End(r) ==
    /\ Goto(r, "idle")
    /\ req' = [req EXCEPT ![r] = NoRequest]
    /\ held' = [held EXCEPT ![r] = {}]
    /\ shared' = [shared EXCEPT ![r] = {}]

-------------------------------------------------------------------------------
\* Requests arrive.

\* Only complete looks at the lesson before it locks anything: it needs to
\* know whose profiles to lock, and a lesson's participants never change.
BeginComplete(r, l) ==
    /\ pc[r] = "idle"
    /\ Exists(lesson[l])
    /\ req' = [req EXCEPT ![r] = [NoRequest EXCEPT
                 !.op = "complete", !.lesson = l,
                 !.teacher = TeacherOf[lesson[l].enrollment],
                 !.student = StudentOf[lesson[l].enrollment]]]
    /\ Goto(r, "lockTeacher")
    /\ UNCHANGED <<bookVars, held, shared>>

\* cancel, update (of the price, to amount), reschedule and remove start with
\* the conditional UPDATE of the lesson; nobody knows an id before its row exists.
BeginLessonOp(r, op, l, amount) ==
    /\ pc[r] = "idle"
    /\ op \in LessonOp \ {"complete"}
    /\ lesson[l].status # "NONE"
    /\ (op = "update") <=> (amount # None)
    /\ req' = [req EXCEPT ![r] = [NoRequest EXCEPT
                 !.op = op, !.lesson = l, !.amount = amount]]
    /\ Goto(r, "takeLesson")
    /\ UNCHANGED <<bookVars, held, shared>>

BeginTopUp(r, s, amount) ==
    /\ pc[r] = "idle"
    /\ Len(ledger[s]) < MaxEntries
    /\ req' = [req EXCEPT ![r] = [NoRequest EXCEPT
                 !.op = "topUp", !.student = s, !.amount = amount]]
    /\ Goto(r, "lockStudent")
    /\ UNCHANGED <<bookVars, held, shared>>

-------------------------------------------------------------------------------
\* The statements.

LockTeacher(r) ==
    /\ pc[r] = "lockTeacher"
    /\ Lock(r, <<"teacher", req[r].teacher>>)
    /\ Goto(r, "lockStudent")
    /\ UNCHANGED <<bookVars, req>>

\* Faulty variant of LockStudent: the profile is read without FOR UPDATE.
LockStudentWithoutLock(r) ==
    /\ pc[r] = "lockStudent"
    /\ Goto(r, IF req[r].op = "complete" THEN "readLesson" ELSE "readBalance")
    /\ UNCHANGED <<bookVars, req, held, shared>>

LockStudent(r) ==
    /\ pc[r] = "lockStudent"
    /\ Lock(r, <<"student", req[r].student>>)
    /\ Goto(r, IF req[r].op = "complete" THEN "readLesson" ELSE "readBalance")
    /\ UNCHANGED <<bookVars, req>>

\* The lesson's own price, else the tariff, as complete reads them. The lesson
\* row is not locked yet.
PriceOf(l) == IF lesson[l].price # None THEN lesson[l].price
              ELSE tariff[lesson[l].enrollment]

ReadLesson(r) ==
    /\ pc[r] = "readLesson"
    /\ lesson[req[r].lesson].status = "SCHEDULED"
    /\ req' = [req EXCEPT ![r].amount = PriceOf(req[r].lesson)]
    /\ Goto(r, "takeLesson")
    /\ UNCHANGED <<bookVars, held, shared>>

\* Faulty variant of Takes: PATCH also accepts a completed lesson.
TakesCompleted(op) == IF op = "update" THEN {"SCHEDULED", "COMPLETED"} ELSE {"SCHEDULED"}

\* The statuses in the WHERE of the conditional UPDATE.
Takes(op) == IF op = "remove" THEN {"SCHEDULED", "CANCELED", "RESCHEDULED"}
             ELSE {"SCHEDULED"}

AfterTake(r) ==
    CASE req[r].op = "complete"   -> IF req[r].amount = 0 THEN "commit" ELSE "readBalance"
      [] req[r].op = "reschedule" -> "shareTeacher"
      [] req[r].op = "remove"     -> "unlink"
      [] OTHER                    -> "commit"

\* Faulty variant of TakeLesson: UPDATE ... WHERE id, the status having been
\* looked at before.
TakeLessonBlindly(r) ==
    /\ pc[r] = "takeLesson"
    /\ Exists(lesson[req[r].lesson])
    /\ Lock(r, <<"lesson", req[r].lesson>>)
    /\ Goto(r, AfterTake(r))
    /\ UNCHANGED <<bookVars, req>>

TakeLesson(r) ==
    /\ pc[r] = "takeLesson"
    /\ lesson[req[r].lesson].status \in Takes(req[r].op)
    /\ Lock(r, <<"lesson", req[r].lesson>>)
    /\ Goto(r, AfterTake(r))
    /\ UNCHANGED <<bookVars, req>>

\* The new balance is computed from this read, not by the database.
ReadBalance(r) ==
    /\ pc[r] = "readBalance"
    /\ req' = [req EXCEPT ![r].balance = balance[req[r].student]]
    /\ Goto(r, "commit")
    /\ UNCHANGED <<bookVars, held, shared>>

ShareTeacher(r) ==
    /\ pc[r] = "shareTeacher"
    /\ Share(r, <<"teacher", TeacherOf[lesson[req[r].lesson].enrollment]>>)
    /\ Goto(r, "shareStudent")
    /\ UNCHANGED <<bookVars, req>>

ShareStudent(r) ==
    /\ pc[r] = "shareStudent"
    /\ Share(r, <<"student", StudentOf[lesson[req[r].lesson].enrollment]>>)
    /\ Goto(r, "commit")
    /\ UNCHANGED <<bookVars, req>>

\* remove clears rescheduledToId of the lesson this one replaced, if any.
Replaced(l) == {m \in Lesson : lesson[m].rescheduledTo = l}

Unlink(r) ==
    /\ pc[r] = "unlink"
    /\ \A m \in Replaced(req[r].lesson) : Lockable(r, <<"lesson", m>>)
    /\ held' = [held EXCEPT ![r] = @ \cup ({"lesson"} \X Replaced(req[r].lesson))]
    /\ Goto(r, "commit")
    /\ UNCHANGED <<bookVars, req, shared>>

-------------------------------------------------------------------------------
\* The transaction commits: its writes become visible together.

\* transactions.lessonId is unique.
Charged(l) == \E s \in Student : \E i \in DOMAIN ledger[s] : ledger[s][i].lesson = l

Post(s, entry) ==
    /\ balance' = [balance EXCEPT ![s] = entry.balanceAfter]
    /\ ledger' = [ledger EXCEPT ![s] = Append(@, entry)]

\* Faulty variant of CommitComplete: a price the lesson already has is kept, so
\* one set by a concurrent PATCH is stored while the one read is charged.
CommitCompleteKeepsPrice(r) ==
    LET l == req[r].lesson
        price == req[r].amount
        s == req[r].student
    IN  /\ pc[r] = "commit" /\ req[r].op = "complete"
        /\ lesson' = [lesson EXCEPT ![l].status = "COMPLETED",
                                    ![l].price = IF @ = None THEN price ELSE @]
        /\ IF price = 0
           THEN UNCHANGED <<balance, ledger>>
           ELSE /\ Fits(req[r].balance - price)
                /\ Post(s, Charge(l, price, req[r].balance))
        /\ End(r)
        /\ UNCHANGED <<tariff, paid>>

CommitComplete(r) ==
    LET l == req[r].lesson
        price == req[r].amount
        s == req[r].student
    IN  /\ pc[r] = "commit" /\ req[r].op = "complete"
        /\ lesson' = [lesson EXCEPT ![l].status = "COMPLETED", ![l].price = price]
        /\ IF price = 0
           THEN UNCHANGED <<balance, ledger>>
           ELSE /\ Fits(req[r].balance - price)
                /\ ~Charged(l)
                /\ Post(s, Charge(l, price, req[r].balance))
        /\ End(r)
        /\ UNCHANGED <<tariff, paid>>

CommitCancel(r) ==
    /\ pc[r] = "commit" /\ req[r].op = "cancel"
    /\ lesson' = [lesson EXCEPT ![req[r].lesson].status = "CANCELED"]
    /\ End(r)
    /\ UNCHANGED <<tariff, balance, paid, ledger>>

CommitUpdate(r) ==
    /\ pc[r] = "commit" /\ req[r].op = "update"
    /\ lesson' = [lesson EXCEPT ![req[r].lesson].price = req[r].amount]
    /\ End(r)
    /\ UNCHANGED <<tariff, balance, paid, ledger>>

\* Faulty variant of CommitReschedule: the individual price is not carried over.
CommitRescheduleAtTariff(r, n) ==
    LET l == req[r].lesson
    IN  /\ pc[r] = "commit" /\ req[r].op = "reschedule"
        /\ lesson[n].status = "NONE"
        /\ lesson' = [lesson EXCEPT
             ![n] = Scheduled(lesson[l].enrollment, None),
             ![l].status = "RESCHEDULED",
             ![l].rescheduledTo = n]
        /\ End(r)
        /\ UNCHANGED <<tariff, balance, paid, ledger>>

\* n is the id of the lesson the transaction inserted.
CommitReschedule(r, n) ==
    LET l == req[r].lesson
    IN  /\ pc[r] = "commit" /\ req[r].op = "reschedule"
        /\ lesson[n].status = "NONE"
        /\ lesson' = [lesson EXCEPT
             ![n] = Scheduled(lesson[l].enrollment, lesson[l].price),
             ![l].status = "RESCHEDULED",
             ![l].rescheduledTo = n]
        /\ End(r)
        /\ UNCHANGED <<tariff, balance, paid, ledger>>

\* Faulty variant of CommitRemove: the link from the replaced lesson stays.
CommitRemoveKeepsLink(r) ==
    /\ pc[r] = "commit" /\ req[r].op = "remove"
    /\ lesson' = [lesson EXCEPT ![req[r].lesson] = NoLesson("DELETED")]
    /\ End(r)
    /\ UNCHANGED <<tariff, balance, paid, ledger>>

CommitRemove(r) ==
    LET l == req[r].lesson
    IN  /\ pc[r] = "commit" /\ req[r].op = "remove"
        /\ lesson' = [m \in Lesson |->
             IF m = l THEN NoLesson("DELETED")
             ELSE IF m \in Replaced(l) THEN [lesson[m] EXCEPT !.rescheduledTo = None]
             ELSE lesson[m]]
        /\ End(r)
        /\ UNCHANGED <<tariff, balance, paid, ledger>>

\* Faulty variant of CommitTopUp: the resulting balance is not checked.
CommitTopUpUnchecked(r) ==
    LET s == req[r].student
        amount == req[r].amount
    IN  /\ pc[r] = "commit" /\ req[r].op = "topUp"
        /\ paid' = [paid EXCEPT ![s] = @ + amount]
        /\ Post(s, TopUpEntry(amount, req[r].balance))
        /\ End(r)
        /\ UNCHANGED <<lesson, tariff>>

\* Only the upper limit is checked before the write; the model's MaxBalance
\* bounds both ends, as the column does.
CommitTopUp(r) ==
    LET s == req[r].student
        amount == req[r].amount
    IN  /\ pc[r] = "commit" /\ req[r].op = "topUp"
        /\ Fits(req[r].balance + amount)
        /\ paid' = [paid EXCEPT ![s] = @ + amount]
        /\ Post(s, TopUpEntry(amount, req[r].balance))
        /\ End(r)
        /\ UNCHANGED <<lesson, tariff>>

\* 400, 404 or 409 from the code, or a value the column or the unique index
\* refuses: the transaction rolls back.
Refused(r) ==
    LET l == req[r].lesson
    IN  \/ pc[r] = "readLesson" /\ lesson[l].status # "SCHEDULED"
        \/ /\ pc[r] = "takeLesson"
           /\ Lockable(r, <<"lesson", l>>)
           /\ lesson[l].status \notin Takes(req[r].op)
        \/ /\ pc[r] = "commit" /\ req[r].op = "topUp"
           /\ ~Fits(req[r].balance + req[r].amount)
        \/ /\ pc[r] = "commit" /\ req[r].op = "complete" /\ req[r].amount # 0
           /\ ~Fits(req[r].balance - req[r].amount) \/ Charged(l)
        \/ /\ pc[r] = "commit" /\ req[r].op = "reschedule"
           /\ \A n \in Lesson : lesson[n].status # "NONE"

\* Faulty variant of Reject: the transaction of a refused request stays open.
RejectLeavesOpen(r) ==
    /\ Refused(r)
    /\ Goto(r, "idle")
    /\ req' = [req EXCEPT ![r] = NoRequest]
    /\ UNCHANGED <<bookVars, held, shared>>

Reject(r) == Refused(r) /\ End(r) /\ UNCHANGED bookVars

\* The process or the connection dies, a statement times out, the audit record
\* cannot be written, a new date collides with a generated lesson: rollback.
Fail(r) == pc[r] # "idle" /\ End(r) /\ UNCHANGED bookVars

\* enrollments.service.ts update: one statement that no lock here excludes.
SetTariff(e, price) ==
    /\ tariff' = [tariff EXCEPT ![e] = price]
    /\ UNCHANGED <<lesson, balance, paid, ledger, pc, req, held, shared>>

-------------------------------------------------------------------------------
\* Waiting. PostgreSQL rolls back one transaction of a cycle of waiters.

Wanted(r) ==
    CASE pc[r] = "lockTeacher"  -> {<<"teacher", req[r].teacher>>}
      [] pc[r] = "lockStudent"  -> {<<"student", req[r].student>>}
      [] pc[r] = "takeLesson"   -> {<<"lesson", req[r].lesson>>}
      [] pc[r] = "shareTeacher" -> {<<"teacher", TeacherOf[lesson[req[r].lesson].enrollment]>>}
      [] pc[r] = "shareStudent" -> {<<"student", StudentOf[lesson[req[r].lesson].enrollment]>>}
      [] pc[r] = "unlink"       -> {"lesson"} \X Replaced(req[r].lesson)
      [] OTHER                  -> {}

WaitsFor(r, q) ==
    /\ r # q
    /\ \/ Wanted(r) \cap held[q] # {}
       \/ pc[r] \notin {"shareTeacher", "shareStudent"} /\ Wanted(r) \cap shared[q] # {}

\* r and everyone it is stuck with wait for one another.
InCycle(r) ==
    \E S \in SUBSET Request :
      /\ r \in S
      /\ \A q \in S : /\ \E t \in S : WaitsFor(q, t)
                      /\ \E t \in S : WaitsFor(t, q)

DeadlockVictim(r) == InCycle(r) /\ End(r) /\ UNCHANGED bookVars

-------------------------------------------------------------------------------
Begin(r) ==
    \/ \E l \in Lesson : BeginComplete(r, l)
    \/ \E l \in Lesson, op \in LessonOp, amount \in Price \cup {None} :
         BeginLessonOp(r, op, l, amount)
    \/ \E s \in Student, amount \in Amount : BeginTopUp(r, s, amount)

Commit(r) ==
    \/ CommitComplete(r)
    \/ CommitCancel(r)
    \/ CommitUpdate(r)
    \/ \E n \in Lesson : CommitReschedule(r, n)
    \/ CommitRemove(r)
    \/ CommitTopUp(r)

Statement(r) ==
    \/ LockTeacher(r) \/ LockStudent(r)
    \/ ReadLesson(r) \/ TakeLesson(r) \/ ReadBalance(r)
    \/ ShareTeacher(r) \/ ShareStudent(r) \/ Unlink(r)
    \/ Commit(r) \/ Reject(r)

Next ==
    \/ \E r \in Request : Begin(r) \/ Statement(r) \/ Fail(r) \/ DeadlockVictim(r)
    \/ \E e \in Enrollment, price \in Price : SetTariff(e, price)

Spec == Init /\ [][Next]_vars

\* A statement that can run does run; one that waits for a row gets it, because
\* the database queues waiters; a cycle of waiters is broken.
FairSpec ==
    /\ Spec
    /\ \A r \in Request : SF_vars(Statement(r))
    /\ WF_vars(\E r \in Request : DeadlockVictim(r))

-------------------------------------------------------------------------------
\* Every table and every request holds values of its type, and no
\* balance leaves the range of its column.
TypeOK ==
    /\ lesson \in [Lesson -> LessonRow]
    /\ tariff \in [Enrollment -> Price]
    /\ balance \in [Student -> Int]
    /\ \A s \in Student : Fits(balance[s])
    /\ paid \in [Student -> Nat]
    /\ ledger \in [Student -> Seq(Entry)]
    /\ pc \in [Request -> Label]
    /\ req \in [Request -> Asked]
    /\ held \in [Request -> SUBSET Row]
    /\ shared \in [Request -> SUBSET Row]

\* The ledger explains the balance, whatever requests race: each entry starts
\* where the one before it ended and moves by its amount, the first starts at
\* zero, and the last ends at the student's balance (lessons.service.ts
\* complete, payments.service.ts create: read, compute, write).
LedgerChain ==
    \A s \in Student :
      LET entry == ledger[s]
          n == Len(entry)
      IN  /\ \A i \in 1 .. n : /\ entry[i].balanceAfter = entry[i].balanceBefore + entry[i].amount
                              /\ entry[i].balanceBefore = IF i = 1 THEN 0
                                                         ELSE entry[i - 1].balanceAfter
          /\ balance[s] = IF n = 0 THEN 0 ELSE entry[n].balanceAfter

\* A charge stands for exactly one completed lesson of that student at the price
\* stored on the lesson, and every completed lesson that is not free has one.
ChargedOnce ==
    /\ \A s \in Student : \A i \in DOMAIN ledger[s] :
         ledger[s][i].type = "LESSON_CHARGE" =>
           LET row == lesson[ledger[s][i].lesson]
           IN  /\ row.status = "COMPLETED"
               /\ StudentOf[row.enrollment] = s
               /\ ledger[s][i].amount = -row.price
    /\ \A l \in Lesson :
         lesson[l].status = "COMPLETED" /\ lesson[l].price # 0 =>
           \E i \in DOMAIN ledger[StudentOf[lesson[l].enrollment]] :
             ledger[StudentOf[lesson[l].enrollment]][i].lesson = l
    /\ \A s, t \in Student : \A i \in DOMAIN ledger[s], j \in DOMAIN ledger[t] :
         /\ ledger[s][i].lesson = ledger[t][j].lesson
         /\ ledger[s][i].lesson # None
         => s = t /\ i = j

\* What the lessons in S cost at the prices stored in rows.
Cost(rows, S) == MapThenSumSet(LAMBDA l : rows[l].price, S)

CompletedOf(s) ==
    {l \in Lesson : lesson[l].status = "COMPLETED" /\ StudentOf[lesson[l].enrollment] = s}

\* Money is conserved: a student's balance is what was paid in less the prices
\* stored on that student's completed lessons (payments.service.ts create,
\* lessons.service.ts complete).
MoneyConserved ==
    \A s \in Student : balance[s] = paid[s] - Cost(lesson, CompletedOf(s))

\* What is decided about a lesson stays decided: a completed lesson never
\* changes again, a canceled or moved one can only be deleted.
Settled(l) ==
    /\ lesson[l].status = "COMPLETED" => lesson'[l] = lesson[l]
    /\ lesson[l].status \in {"CANCELED", "RESCHEDULED"} =>
         lesson'[l].status \in {lesson[l].status, "DELETED"}

DecisionsStand == [][\A l \in Lesson : Settled(l)]_vars

\* A link to a replacement leads to a row that exists, of the same enrollment,
\* and no lesson replaces two, also while either end is being removed.
RescheduleLinks ==
    /\ \A l \in Lesson : lesson[l].rescheduledTo # None =>
         /\ lesson[l].status = "RESCHEDULED"
         /\ Exists(lesson[lesson[l].rescheduledTo])
         /\ lesson[lesson[l].rescheduledTo].enrollment = lesson[l].enrollment
    /\ \A l, m \in Lesson :
         lesson[l].rescheduledTo = lesson[m].rescheduledTo /\ lesson[l].rescheduledTo # None
           => l = m

\* Every request takes effect at one instant: LessonBook.
ImplementsBook == Books!Spec

\* Every request is answered, whatever it has to wait for.
RequestsEnd == \A r \in Request : pc[r] # "idle" ~> pc[r] = "idle"
===============================================================================
