------------------------------- MODULE Payouts -------------------------------
(***************************************************************************)
(* What a teacher is paid: completed lessons, bonuses for timely reports   *)
(* and payouts of closed periods (lessons.service.ts, reports.service.ts,  *)
(* payouts.service.ts).  Completing a lesson, submitting a report and      *)
(* calculating a payout each lock the teacher's profile, read, and commit, *)
(* one step each; time passes between the steps.  Marking a payout paid    *)
(* and editing a report do not lock the teacher.                           *)
(*                                                                         *)
(* Times are numbers, periods pairs <<start, end>>, a preview token is the *)
(* amounts it is the hash of.  Rates never change here: LessonLedger is    *)
(* where they are frozen.                                                  *)
(***************************************************************************)
EXTENDS Integers, FiniteSets, FiniteSetsExt

CONSTANTS
    Lesson,
    Teacher,
    TeacherOf,     \* lessons.teacherId
    Rate,          \* lessons.teacherRate
    BonusAmount,   \* BONUS_AMOUNT
    Period,        \* the periods asked for
    Windows,       \* the lengths BONUS_WINDOW_HOURS is configured to, in turn
    MaxTime,
    Slot,          \* the times lessons are scheduled for
    Request,
    None

Time == 0 .. MaxTime

ASSUME PayoutAssumption ==
    /\ TeacherOf \in [Lesson -> Teacher]
    /\ Rate \in [Lesson -> Nat]
    /\ BonusAmount \in Nat
    /\ MaxTime \in Nat
    /\ Slot \subseteq Time
    /\ Period \subseteq {p \in Time \X Time : p[1] < p[2]}
    /\ Windows \subseteq Nat /\ Windows # {}
    /\ None \notin Lesson \cup Teacher \cup Request
    /\ None \notin Period /\ None \notin Time

VARIABLES
    now,
    window,     \* bonusWindowMs
    lesson,     \* [status, at (scheduledAt), completedAt]
    report,     \* [status, submitted (submittedAt is set), bonus]
    payouts,    \* [teacher, period, base, bonus, status, paidAt]
    holder,     \* the request that holds each teacher's profile
    pc,
    req         \* what a request was asked and what it has read

vars == <<now, window, lesson, report, payouts, holder, pc, req>>

NoReport == [status |-> "NONE", submitted |-> FALSE, bonus |-> 0]

NoRequest == [op |-> "none", lesson |-> None, teacher |-> None, period |-> None,
              amounts |-> {}, token |-> None, todo |-> {}, award |-> FALSE,
              stamp |-> 0]

Within(t, period) == period[1] <= t /\ t < period[2]

Init ==
    /\ now = 0
    /\ window \in Windows
    /\ lesson \in [Lesson -> [status: {"SCHEDULED"}, at: Slot, completedAt: {None}]]
    /\ report = [l \in Lesson |-> NoReport]
    /\ payouts = {}
    /\ holder = [t \in Teacher |-> None]
    /\ pc = [r \in Request |-> "idle"]
    /\ req = [r \in Request |-> NoRequest]

Goto(r, label) == pc' = [pc EXCEPT ![r] = label]

Start(r, asked, label) ==
    /\ pc[r] = "idle"
    /\ req' = [req EXCEPT ![r] = asked]
    /\ Goto(r, label)
    /\ UNCHANGED <<now, window, lesson, report, payouts, holder>>

\* The transaction ends: the teacher's profile is free again.
Release(r) == holder' = [t \in Teacher |-> IF holder[t] = r THEN None ELSE holder[t]]

\* calculateAll goes on with its next teacher, whatever became of this one;
\* every other request is over.
End(r) ==
    /\ Release(r)
    /\ IF req[r].todo # {}
       THEN \E t \in req[r].todo :
              /\ req' = [req EXCEPT ![r].teacher = t, ![r].todo = @ \ {t},
                                    ![r].amounts = {}]
              /\ Goto(r, "lock")
       ELSE /\ req' = [req EXCEPT ![r] = NoRequest]
            /\ Goto(r, "idle")

-------------------------------------------------------------------------------
\* Requests arrive.

BeginComplete(r, l) ==
    Start(r, [NoRequest EXCEPT !.op = "complete", !.lesson = l,
                               !.teacher = TeacherOf[l]], "lock")

BeginSubmit(r, l) ==
    /\ report[l].status # "NONE"
    /\ Start(r, [NoRequest EXCEPT !.op = "submit", !.lesson = l,
                                  !.teacher = TeacherOf[l]], "lock")

\* The manager looks at a preview first and saves it later.
BeginPreview(r, t, p) ==
    Start(r, [NoRequest EXCEPT !.op = "preview", !.teacher = t, !.period = p], "lock")

Save(r) ==
    /\ pc[r] = "reviewed"
    /\ req' = [req EXCEPT ![r].op = "calculate", ![r].amounts = {}]
    /\ Goto(r, "lock")
    /\ UNCHANGED <<now, window, lesson, report, payouts, holder>>

\* calculateAll reads the teachers before any of its transactions.
BeginCalculateAll(r, p) ==
    LET teachers == {TeacherOf[l] : l \in {l \in Lesson : /\ lesson[l].status = "COMPLETED"
                                                          /\ Within(lesson[l].at, p)}}
    IN  /\ p[2] <= now
        /\ \E t \in teachers :
             Start(r, [NoRequest EXCEPT !.op = "calculate", !.teacher = t, !.period = p,
                                        !.todo = teachers \ {t}], "lock")

\* markPaid reads the payout first: one that is paid is returned as it is.
BeginPay(r, payout) ==
    /\ payout.status = "PENDING"
    /\ Start(r, [NoRequest EXCEPT !.op = "pay", !.teacher = payout.teacher,
                                  !.period = payout.period], "pay")

-------------------------------------------------------------------------------
\* Faulty variant of LockTeacherProfile: a plain SELECT.
LockWithoutWaiting(r) ==
    /\ pc[r] = "lock"
    /\ holder' = [holder EXCEPT ![req[r].teacher] = r]
    /\ Goto(r, "read")
    /\ UNCHANGED <<now, window, lesson, report, payouts, req>>

\* The teacher's profile is locked; whoever holds it keeps the others waiting.
LockTeacherProfile(r) ==
    /\ pc[r] = "lock"
    /\ holder[req[r].teacher] = None
    /\ holder' = [holder EXCEPT ![req[r].teacher] = r]
    /\ Goto(r, "read")
    /\ UNCHANGED <<now, window, lesson, report, payouts, req>>

Reject(r) ==
    /\ End(r)
    /\ UNCHANGED <<now, window, lesson, report, payouts>>

Proceed(r, asked) ==
    /\ req' = [req EXCEPT ![r] = asked]
    /\ Goto(r, "commit")
    /\ UNCHANGED <<now, window, lesson, report, payouts, holder>>

\* complete: completedAt is read before the commit.
ReadComplete(r) ==
    /\ pc[r] = "read" /\ req[r].op = "complete"
    /\ IF lesson[req[r].lesson].status = "SCHEDULED"
       THEN Proceed(r, [req[r] EXCEPT !.stamp = now])
       ELSE Reject(r)

\* Faulty variant of CommitComplete: completedAt is left out of the update.
CommitCompleteWithoutTime(r) ==
    /\ pc[r] = "commit" /\ req[r].op = "complete"
    /\ lesson' = [lesson EXCEPT ![req[r].lesson].status = "COMPLETED"]
    /\ End(r)
    /\ UNCHANGED <<now, window, report, payouts>>

CommitComplete(r) ==
    /\ pc[r] = "commit" /\ req[r].op = "complete"
    /\ lesson' = [lesson EXCEPT ![req[r].lesson].status = "COMPLETED",
                                ![req[r].lesson].completedAt = req[r].stamp]
    /\ End(r)
    /\ UNCHANGED <<now, window, report, payouts>>

InBonusWindow(l) == now - lesson[l].completedAt < window

Overlaps(p, q) == p[1] < q[2] /\ q[1] < p[2]

\* A payout of the lesson's teacher covers the time the lesson was scheduled for.
Finalized(l) ==
    \E payout \in payouts : payout.teacher = TeacherOf[l] /\ Within(lesson[l].at, payout.period)

\* Faulty variant of AwardsBonus: a payout of the period is not looked for.
AwardsInWindow(l) ==
    /\ ~report[l].submitted
    /\ InBonusWindow(l)

\* A bonus is for the first submission, in time, of a lesson not yet paid for.
AwardsBonus(l) ==
    /\ ~report[l].submitted
    /\ InBonusWindow(l)
    /\ ~Finalized(l)

\* submit: a report that is already submitted is returned as it is.
ReadSubmit(r) ==
    LET l == req[r].lesson
    IN  /\ pc[r] = "read" /\ req[r].op = "submit"
        /\ IF lesson[l].status = "COMPLETED" /\ report[l].status = "DRAFT"
           THEN Proceed(r, [req[r] EXCEPT !.award = AwardsBonus(l)])
           ELSE Reject(r)

CommitSubmit(r) ==
    LET l == req[r].lesson
    IN  /\ pc[r] = "commit" /\ req[r].op = "submit"
        /\ report' = [report EXCEPT ![l] =
                        [status |-> "SUBMITTED", submitted |-> TRUE,
                         bonus |-> IF req[r].award THEN BonusAmount ELSE @.bonus]]
        /\ End(r)
        /\ UNCHANGED <<now, window, lesson, payouts>>

\* The completed lessons of a period, with what each of them earns.
Amounts(t, p) ==
    {[lesson |-> l, base |-> Rate[l], bonus |-> report[l].bonus] :
        l \in {l \in Lesson : /\ TeacherOf[l] = t
                              /\ lesson[l].status = "COMPLETED"
                              /\ Within(lesson[l].at, p)}}

TotalBase(amounts) == MapThenSumSet(LAMBDA a : a.base, amounts)
TotalBonus(amounts) == MapThenSumSet(LAMBDA a : a.bonus, amounts)

\* Faulty variants of Refuses: only an equal period is refused; the bonus
\* windows are not looked at; nothing but the bonus windows is looked at.
RefusesSamePeriod(t, p) ==
    \/ \E payout \in payouts : payout.teacher = t /\ payout.period = p
    \/ \E a \in Amounts(t, p) : lesson[a.lesson].completedAt + window > now

RefusesOverlap(t, p) ==
    \E payout \in payouts : payout.teacher = t /\ Overlaps(payout.period, p)

RefusesOpenWindow(t, p) ==
    \E a \in Amounts(t, p) : lesson[a.lesson].completedAt + window > now

\* calculatePeriod refuses: another payout has some of the period, or the
\* bonus of one of its lessons may still be earned.
Refuses(t, p) ==
    \/ \E payout \in payouts : payout.teacher = t /\ Overlaps(payout.period, p)
    \/ \E a \in Amounts(t, p) : lesson[a.lesson].completedAt + window > now

\* Faulty variant of Matches: the preview token is not compared.
MatchesAnything(token, amounts) == TRUE

Matches(token, amounts) == token = None \/ token = amounts

\* preview and calculate; calculate also refuses amounts that are not those
\* of the preview it was sent with.
ReadPeriod(r) ==
    LET t == req[r].teacher
        p == req[r].period
        amounts == Amounts(t, p)
    IN  /\ pc[r] = "read" /\ req[r].op \in {"preview", "calculate"}
        /\ CASE p[2] > now \/ Refuses(t, p) -> Reject(r)
             [] req[r].op = "preview" ->
                  /\ req' = [req EXCEPT ![r].token = amounts]
                  /\ Goto(r, "reviewed")
                  /\ Release(r)
                  /\ UNCHANGED <<now, window, lesson, report, payouts>>
             [] OTHER -> IF Matches(req[r].token, amounts)
                         THEN Proceed(r, [req[r] EXCEPT !.amounts = amounts])
                         ELSE Reject(r)

\* The payout is stored, unless the index of (teacher, start, end) refuses it.
CommitPayout(r) ==
    LET stored == \E payout \in payouts : /\ payout.teacher = req[r].teacher
                                          /\ payout.period = req[r].period
        new == [teacher |-> req[r].teacher, period |-> req[r].period,
                base |-> TotalBase(req[r].amounts), bonus |-> TotalBonus(req[r].amounts),
                status |-> "PENDING", paidAt |-> None]
    IN  /\ pc[r] = "commit" /\ req[r].op = "calculate"
        /\ payouts' = IF stored THEN payouts ELSE payouts \cup {new}
        /\ End(r)
        /\ UNCHANGED <<now, window, lesson, report>>

\* Faulty variant of Pay: the update does not ask for a PENDING payout.
PayAnyStatus(r) ==
    /\ pc[r] = "pay"
    /\ payouts' = {IF payout.teacher = req[r].teacher /\ payout.period = req[r].period
                   THEN [payout EXCEPT !.status = "PAID", !.paidAt = now]
                   ELSE payout : payout \in payouts}
    /\ End(r)
    /\ UNCHANGED <<now, window, lesson, report>>

\* markPaid: the conditional update finds the payout PENDING or changes nothing.
Pay(r) ==
    /\ pc[r] = "pay"
    /\ payouts' = {IF /\ payout.teacher = req[r].teacher /\ payout.period = req[r].period
                      /\ payout.status = "PENDING"
                   THEN [payout EXCEPT !.status = "PAID", !.paidAt = now]
                   ELSE payout : payout \in payouts}
    /\ End(r)
    /\ UNCHANGED <<now, window, lesson, report>>

\* A statement fails, the connection drops or the manager walks away.
Abort(r) ==
    /\ pc[r] # "idle"
    /\ Release(r)
    /\ req' = [req EXCEPT ![r] = NoRequest]
    /\ Goto(r, "idle")
    /\ UNCHANGED <<now, window, lesson, report, payouts>>

-------------------------------------------------------------------------------
\* Requests of one statement.

\* PATCH of the lesson, and of any other lesson that is still scheduled.
MoveLesson(l, at) ==
    /\ lesson[l].status = "SCHEDULED"
    /\ \A r \in Request : ~(pc[r] = "commit" /\ req[r].op = "complete" /\ req[r].lesson = l)
    /\ lesson' = [lesson EXCEPT ![l].at = at]
    /\ UNCHANGED <<now, window, report, payouts, holder, pc, req>>

CreateReport(l) ==
    /\ lesson[l].status = "COMPLETED" /\ report[l].status = "NONE"
    /\ report' = [report EXCEPT ![l].status = "DRAFT"]
    /\ UNCHANGED <<now, window, lesson, payouts, holder, pc, req>>

\* Faulty variant of UpdateReport: the draft starts over, without its bonus.
UpdateReportResubmits(l) ==
    /\ report[l].status # "NONE"
    /\ InBonusWindow(l)
    /\ \A r \in Request : ~(pc[r] = "commit" /\ req[r].op = "submit" /\ req[r].lesson = l)
    /\ report' = [report EXCEPT ![l].status = "DRAFT", ![l].submitted = FALSE,
                                ![l].bonus = 0]
    /\ UNCHANGED <<now, window, lesson, payouts, holder, pc, req>>

\* PATCH of the report, which a submission in progress keeps locked.
UpdateReport(l) ==
    /\ report[l].status # "NONE"
    /\ InBonusWindow(l)
    /\ \A r \in Request : ~(pc[r] = "commit" /\ req[r].op = "submit" /\ req[r].lesson = l)
    /\ report' = [report EXCEPT ![l].status = "DRAFT"]
    /\ UNCHANGED <<now, window, lesson, payouts, holder, pc, req>>

\* The service restarts with a longer BONUS_WINDOW_HOURS.
GrowWindow ==
    /\ \E longer \in Windows : longer > window /\ window' = longer
    /\ \A r \in Request : pc[r] = "idle"
    /\ UNCHANGED <<now, lesson, report, payouts, holder, pc, req>>

Tick ==
    /\ now < MaxTime
    /\ now' = now + 1
    /\ UNCHANGED <<window, lesson, report, payouts, holder, pc, req>>

-------------------------------------------------------------------------------
Begin(r) ==
    \/ \E l \in Lesson : BeginComplete(r, l) \/ BeginSubmit(r, l)
    \/ \E p \in Period : BeginCalculateAll(r, p) \/ \E t \in Teacher : BeginPreview(r, t, p)
    \/ \E payout \in payouts : BeginPay(r, payout)

Statement(r) ==
    \/ LockTeacherProfile(r)
    \/ ReadComplete(r) \/ CommitComplete(r)
    \/ ReadSubmit(r) \/ CommitSubmit(r)
    \/ ReadPeriod(r) \/ CommitPayout(r) \/ Pay(r)

Next ==
    \/ \E r \in Request : Begin(r) \/ Save(r) \/ Statement(r) \/ Abort(r)
    \/ \E l \in Lesson : CreateReport(l) \/ UpdateReport(l) \/ \E at \in Slot : MoveLesson(l, at)
    \/ GrowWindow
    \/ Tick

Spec == Init /\ [][Next]_vars

-------------------------------------------------------------------------------
\* Properties.

\* Every variable keeps its type, and a lesson has a completion time exactly
\* when it is completed.
TypeOK ==
    /\ now \in Time /\ window \in Windows
    /\ lesson \in [Lesson -> [status: {"SCHEDULED", "COMPLETED"}, at: Slot,
                              completedAt: Time \cup {None}]]
    /\ \A l \in Lesson : lesson[l].status = "COMPLETED" <=> lesson[l].completedAt # None
    /\ report \in [Lesson -> [status: {"NONE", "DRAFT", "SUBMITTED"},
                              submitted: BOOLEAN, bonus: {0, BonusAmount}]]
    /\ \A payout \in payouts :
         payout \in [teacher: Teacher, period: Period, base: Nat, bonus: Nat,
                     status: {"PENDING", "PAID"}, paidAt: Time \cup {None}]
    /\ holder \in [Teacher -> Request \cup {None}]
    /\ pc \in [Request -> {"idle", "lock", "read", "commit", "reviewed", "pay"}]

\* No instant of a teacher's time is paid for twice, whichever requests raced.
PayoutsDisjoint ==
    \A p, q \in payouts :
        p # q /\ p.teacher = q.teacher => ~Overlaps(p.period, q.period)

\* The bonus of a payout is for ever the sum of the bonuses its period's
\* lessons have: none is awarded, taken back or missed after it is stored.
BonusesPaid ==
    \A payout \in payouts :
        payout.bonus = TotalBonus(Amounts(payout.teacher, payout.period))

\* The base of a payout is the sum of the rates of its period's completed
\* lessons ("sum for lessons (rates)", the Payout model in payment.prisma).
RatesPaid ==
    \A payout \in payouts :
        payout.base = TotalBase(Amounts(payout.teacher, payout.period))

\* A payout never cuts a bonus off: the step that stores one finds the bonus
\* window of every completed lesson of its period closed.
BonusWindowsClosed ==
    [][\A l \in Lesson :
         lesson[l].status = "COMPLETED" /\ ~Finalized(l) /\ Finalized(l)'
            => ~InBonusWindow(l)]_vars

\* What a manager saved is what the preview had shown.
SavesWhatWasShown ==
    [][\A r \in Request : CommitPayout(r) /\ req[r].token # None =>
         \E payout \in payouts' \ payouts :
            /\ payout.teacher = req[r].teacher /\ payout.period = req[r].period
            /\ payout.base = TotalBase(req[r].token)
            /\ payout.bonus = TotalBonus(req[r].token)]_vars

\* A stored payout stays: its amounts for ever, and its payment date from the
\* moment it is paid.
PayoutsFinal ==
    [][\A p \in payouts : \E q \in payouts' :
         /\ q.teacher = p.teacher /\ q.period = p.period
         /\ q.base = p.base /\ q.bonus = p.bonus
         /\ p.status = "PAID" => q = p]_vars

===============================================================================
